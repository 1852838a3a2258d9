--------------------------- MODULE LearningProofs ---------------------------
(***************************************************************************)
(* Proofs about Learning for any number of overlapping calls, enrollments, *)
(* entitlements and items.  What a call has read and decided is kept in an *)
(* invariant about its copy: what still holds of the copy although the     *)
(* rows have moved on, and what must have been written meanwhile if it     *)
(* does not.                                                               *)
(***************************************************************************)
EXTENDS Learning, TLAPS

Event == [from : Names, to : Names]

(* The tables.                                                             *)
Tables ==
  /\ enrollments \in [Enrollments -> EnrollmentRow \cup {Absent}]
  /\ entitlements \in [Entitlements -> EntitlementRow \cup {Absent}]
  /\ progress \in [Enrollments -> [Items -> ProgressRow \cup {Absent}]]
  /\ outbox \in [Aggregates -> Seq(Event)]
  /\ touched \in [access : [Enrollments -> Int], lessons : [Enrollments -> Int]]
  /\ clock \in Nat
  /\ workload \in Workloads
  /\ DOMAIN request = Requests
  /\ DOMAIN readModel = Enrollments

(* A call under way is at a step of its operation.                         *)
OpSteps ==
  ({"enroll"} \X {"findOpen", "saveEnrollment"}) \cup
  ({"cancel"} \X {"findEnrollment", "saveEnrollment"}) \cup
  ({"complete"} \X {"findEnrollment", "findLessons", "saveEnrollment"}) \cup
  ({"refresh"} \X {"findEnrollment", "findLessons", "saveReadModel"}) \cup
  ({"grant"} \X {"findGranted", "findLive", "saveEntitlement"}) \cup
  (EntitlementTransitions \X {"findEntitlement", "saveEntitlement"}) \cup
  (ProgressCalls \X {"access", "entitled", "findProgress", "saveProgress"})

Ops == EnrollmentCalls \cup EntitlementCalls \cup ProgressCalls \cup {"refresh"}

Shape(q) ==
  /\ q.op \in Ops /\ <<q.op, q.step>> \in OpSteps
  /\ q.e \in Enrollments
  /\ q.op \in EntitlementCalls => q.k \in Entitlements
  /\ q.op \in ProgressCalls => q.k \in Items
  /\ q.op \in {"enroll", "grant"} =>
       q.call.starts \in Int \cup {Absent} /\ q.call.expires \in Int \cup {Absent, Never}
  /\ q.now \in Nat /\ q.now <= clock

(* Every unit's completion has been published.                             *)
Earned(e) ==
  \A u \in Units : \E i \in DOMAIN outbox[<<e, u>>] : outbox[<<e, u>>][i].to = "COMPLETED"

EnrollmentCopy(q) ==
  /\ q.step = "findLessons" /\ q.op = "complete" =>
       q.copy \in EnrollmentRow /\ q.copy.status = "ACTIVE"
  /\ q.step = "saveEnrollment" =>
       /\ q.copy \in EnrollmentRow
       /\ q.event \in Event /\ q.event.to = q.copy.status
       /\ IF q.op = "enroll"
            THEN q.event.from = Created /\ q.copy.status \in OpenEnrollment
            ELSE /\ q.event.from \in OpenEnrollment
                 /\ q.copy.status \in {"CANCELLED", "COMPLETED"}
       /\ q.copy.status = "COMPLETED" => Earned(q.e)

EntitlementCopy(q) ==
  /\ q.step = "findLive" => q.copy \in EnrollmentRow
  /\ q.step = "saveEntitlement" =>
       /\ q.copy \in EntitlementRow /\ q.event \in Event
       /\ q.op # "grant" => /\ entitlements[q.k] # Absent
                            /\ q.copy.enrollment = entitlements[q.k].enrollment

AccessChecked(q) ==
  /\ q.step = "entitled" =>
       \/ enrollments[q.e].status \in {"ACTIVE", "COMPLETED"}
       \/ touched.access[q.e] >= q.now
  /\ q.step \in {"findProgress", "saveProgress"} =>
       HasAccess(q.e, q.now) \/ touched.access[q.e] >= q.now

ProgressCopy(q) ==
  q.step = "saveProgress" =>
    /\ q.copy \in ProgressRow
    /\ q.event \in Event \cup {None}
    /\ q.copy.status = "COMPLETED" => q.event # None /\ q.event.to = "COMPLETED"

FiguresCopy(q) ==
  q.step = "saveReadModel" /\ touched.lessons[q.e] < q.now =>
    q.copy = CourseProgress(Lessons(q.e))

ReqOK(q) ==
  q = Idle \/ (/\ Shape(q) /\ EnrollmentCopy(q) /\ EntitlementCopy(q)
               /\ AccessChecked(q) /\ ProgressCopy(q) /\ FiguresCopy(q))

(* The identifiers of rows about to be created are nobody else's.          *)
FreshOK ==
  /\ \A r \in Requests : request[r].op = "enroll" => enrollments[request[r].e] = Absent
  /\ \A r \in Requests : request[r].op = "grant" => entitlements[request[r].k] = Absent
  /\ \A r, s \in Requests :
       request[r].op = "enroll" /\ request[s].op = "enroll" /\ r # s =>
         request[r].e # request[s].e
  /\ \A r, s \in Requests :
       request[r].op = "grant" /\ request[s].op = "grant" /\ r # s =>
         request[r].k # request[s].k

(* A completed unit has published its completion.                          *)
UnitsPublished ==
  \A e \in Enrollments, u \in Units :
    progress[e][u] # Absent /\ progress[e][u].status = "COMPLETED" =>
      \E i \in DOMAIN outbox[<<e, u>>] : outbox[<<e, u>>][i].to = "COMPLETED"

(* No read model is dated in the future.                                   *)
ReadModelDated ==
  \A e \in Enrollments : readModel[e] # Absent =>
    readModel[e].calculatedAt \in Nat /\ readModel[e].calculatedAt <= clock

RowsOK ==
  /\ OneOpenEnrollment /\ OneLiveEntitlement /\ EnrollmentHistoryLinked
  /\ CompletionWasEarned /\ UnitsPublished /\ ReadModelIsCurrentAsOf
  /\ ReadModelDated

(* The inductive invariant.                                                *)
LearningInv ==
  /\ Tables /\ (\A r \in Requests : ReqOK(request[r]))
  /\ FreshOK /\ RowsOK

-----------------------------------------------------------------------------
LEMMA Vocabulary ==
  /\ OpenEnrollment \subseteq EnrollmentStatus /\ EnrollmentStatus \subseteq Names
  /\ EntitlementStatus \subseteq Names /\ ProgressStatus \subseteq Names
  /\ Created \in Names /\ Created \notin EnrollmentStatus
  BY DEF OpenEnrollment, EnrollmentStatus, EntitlementStatus, LiveEntitlement,
         ProgressStatus, Names, Created

LEMMA InitLearning == Init => LearningInv
  <1> SUFFICES ASSUME Init PROVE LearningInv
    OBVIOUS
  <1>0. /\ Created \in Names /\ "ACTIVE" \in Names /\ "IN_PROGRESS" \in Names
        /\ "ACTIVE" \in EnrollmentStatus /\ "ACTIVE" \in EntitlementStatus
        /\ "IN_PROGRESS" \in ProgressStatus
    BY DEF OpenEnrollment, EnrollmentStatus, EntitlementStatus, LiveEntitlement,
           ProgressStatus, Names, Created
  <1>1. /\ workload \in Workloads /\ clock \in Nat
        /\ request = [r \in Requests |-> Idle]
        /\ readModel = [e \in Enrollments |-> Absent]
        /\ touched \in [access : [Enrollments -> Int], lessons : [Enrollments -> Int]]
    BY DEF Init
  <1>2. CASE Empty
    <2>1. Tables
      <3>1. outbox \in [Aggregates -> Seq(Event)]
        BY <1>2 DEF Empty
      <3>2. progress \in [Enrollments -> [Items -> ProgressRow \cup {Absent}]]
        BY <1>2 DEF Empty
      <3> QED
        BY <1>1, <1>2, <3>1, <3>2 DEF Empty, Tables
    <2>2. FreshOK /\ \A r \in Requests : ReqOK(request[r])
      BY <1>1 DEF FreshOK, ReqOK, Idle
    <2>3. OneOpenEnrollment /\ OneLiveEntitlement /\ CompletionWasEarned
      BY <1>2 DEF Empty, OneOpenEnrollment, OneLiveEntitlement, CompletionWasEarned,
                  OpenEnrollments, LiveOf
    <2>4. EnrollmentHistoryLinked
      BY <1>2 DEF Empty, EnrollmentHistoryLinked, Aggregates
    <2>5. UnitsPublished /\ ReadModelIsCurrentAsOf /\ ReadModelDated
      BY <1>1, <1>2 DEF Empty, UnitsPublished, ReadModelIsCurrentAsOf, ReadModelDated, Items
    <2> QED
      BY <2>1, <2>2, <2>3, <2>4, <2>5 DEF LearningInv, RowsOK
  <1>3. CASE \E p \in workload.seeded : Seeded(p[1], p[2], workload)
    <2>1. PICK e \in Enrollments, t \in Entitlements : Seeded(e, t, workload)
      BY <1>1, <1>3, CallsAreTyped
    <2>2. /\ enrollments = [f \in Enrollments |->
               IF f = e THEN NewEnrollment(0, Never, 0) ELSE Absent]
          /\ entitlements = [s \in Entitlements |->
               IF s = t THEN NewEntitlement(e, 0, Never) ELSE Absent]
          /\ progress = [f \in Enrollments |-> [i \in Items |->
               IF f = e /\ i \in workload.started
               THEN [status |-> "IN_PROGRESS", percentage |-> 100, createdAt |-> 0]
               ELSE Absent]]
          /\ outbox = [a \in Aggregates |->
               IF a \in {e, t} THEN <<Step(Created, "ACTIVE")>>
               ELSE IF a \in {e} \X workload.started
               THEN <<Step(Created, "IN_PROGRESS"), Step("IN_PROGRESS", "IN_PROGRESS")>>
               ELSE <<>>]
      BY <2>1 DEF Seeded
    <2>3. /\ NewEnrollment(0, Never, 0) \in EnrollmentRow
          /\ NewEnrollment(0, Never, 0).status = "ACTIVE"
          /\ NewEntitlement(e, 0, Never) \in EntitlementRow
      BY <1>0 DEF NewEnrollment, NewEntitlement, EnrollmentRow, EntitlementRow
    <2>4. [status |-> "IN_PROGRESS", percentage |-> 100, createdAt |-> 0] \in ProgressRow
      BY <1>0 DEF ProgressRow
    <2>5. \A x, y \in Names : Step(x, y) \in Event /\ Step(x, y).from = x /\ Step(x, y).to = y
      BY DEF Step, Event
    <2>6. Tables
      <3>1. outbox \in [Aggregates -> Seq(Event)]
        BY <1>0, <2>2, <2>5
      <3> QED
        BY <1>1, <2>2, <2>3, <2>4, <3>1 DEF Tables
    <2>7. FreshOK /\ \A r \in Requests : ReqOK(request[r])
      BY <1>1 DEF FreshOK, ReqOK, Idle
    <2>8. OneOpenEnrollment /\ OneLiveEntitlement
      BY <2>2 DEF OneOpenEnrollment, OneLiveEntitlement, OpenEnrollments, LiveOf
    <2>9. EnrollmentHistoryLinked
      <3> SUFFICES ASSUME NEW f \in Enrollments
                   PROVE  IF enrollments[f] = Absent THEN outbox[f] = <<>>
                          ELSE /\ outbox[f] # <<>> /\ outbox[f][1].from = Created
                               /\ \A i \in 2..Len(outbox[f]) : outbox[f][i].from = outbox[f][i - 1].to
                               /\ Last(outbox[f]).to = enrollments[f].status
        BY DEF EnrollmentHistoryLinked
      <3>1. f \in Aggregates /\ f # t /\ f \notin {e} \X workload.started
        <4>1. workload.started \subseteq Items
          BY <1>1, CallsAreTyped
        <4>2. f \notin Enrollments \X Items /\ f # t
          BY AggregatesDiffer
        <4> QED
          BY <4>1, <4>2 DEF Aggregates
      <3>2. outbox[f] = IF f = e THEN <<Step(Created, "ACTIVE")>> ELSE <<>>
        BY <2>2, <3>1
      <3>3. enrollments[f] = IF f = e THEN NewEnrollment(0, Never, 0) ELSE Absent
        BY <2>2
      <3>4. NewEnrollment(0, Never, 0) # Absent
        BY <2>3, AbsentIsNoRow
      <3> QED
        BY <1>0, <2>3, <2>5, <3>2, <3>3, <3>4 DEF Last
    <2>10. CompletionWasEarned /\ UnitsPublished
      BY <2>2, <2>3, <2>4 DEF CompletionWasEarned, UnitsPublished, Items
    <2>11. ReadModelIsCurrentAsOf /\ ReadModelDated
      BY <1>1 DEF ReadModelIsCurrentAsOf, ReadModelDated
    <2> QED
      BY <2>6, <2>7, <2>8, <2>9, <2>10, <2>11 DEF LearningInv, RowsOK
  <1> QED
    BY <1>2, <1>3 DEF Init

-----------------------------------------------------------------------------
(* Steps of a call that write no row.                                      *)

Same(q, p) == q = Idle \/ (q.op = p.op /\ q.e = p.e /\ q.k = p.k)

LEMMA QuietFresh ==
  ASSUME LearningInv, NEW r \in Requests, NEW next,
         request' = [request EXCEPT ![r] = next],
         UNCHANGED <<rows, clock, workload>>,
         ReqOK(next), FreshOK'
  PROVE  LearningInv'
  <1>1. Tables'
    BY DEF LearningInv, Tables, rows
  <1>2. \A s \in Requests : request'[s] = IF s = r THEN next ELSE request[s]
    BY DEF LearningInv, Tables
  <1>3. ASSUME NEW s \in Requests PROVE ReqOK(request[s])'
    <2>1. ReqOK(request'[s])
      BY <1>2 DEF LearningInv
    <2>2. Shape(request'[s]) => Shape(request[s])'
      BY DEF Shape
    <2>3. EnrollmentCopy(request'[s]) => EnrollmentCopy(request[s])'
      BY DEF EnrollmentCopy, Earned, rows
    <2>4. EntitlementCopy(request'[s]) => EntitlementCopy(request[s])'
      BY DEF EntitlementCopy, rows
    <2>5. AccessChecked(request'[s]) => AccessChecked(request[s])'
      BY DEF AccessChecked, HasAccess, rows
    <2>6. ProgressCopy(request'[s]) => ProgressCopy(request[s])'
      BY DEF ProgressCopy
    <2>7. FiguresCopy(request'[s]) => FiguresCopy(request[s])'
      BY DEF FiguresCopy, Lessons, rows
    <2> QED
      BY <2>1, <2>2, <2>3, <2>4, <2>5, <2>6, <2>7 DEF ReqOK
  <1>4. RowsOK'
    BY DEF LearningInv, RowsOK, OneOpenEnrollment, OneLiveEntitlement,
           EnrollmentHistoryLinked, CompletionWasEarned, UnitsPublished,
           ReadModelIsCurrentAsOf, ReadModelDated, OpenEnrollments, LiveOf, Lessons, rows
  <1> QED
    BY <1>1, <1>3, <1>4 DEF LearningInv

LEMMA Quiet ==
  ASSUME LearningInv, NEW r \in Requests, NEW next,
         request' = [request EXCEPT ![r] = next],
         UNCHANGED <<rows, clock, workload>>,
         ReqOK(next), Same(next, request[r])
  PROVE  LearningInv'
  <1>1. \A s \in Requests : request'[s] = IF s = r THEN next ELSE request[s]
    BY DEF LearningInv, Tables
  <1>2. FreshOK'
    BY <1>1 DEF LearningInv, FreshOK, Same, Idle, rows
  <1> QED
    BY <1>2, QuietFresh

LEMMA Abandon ==
  ASSUME LearningInv, NEW r \in Requests, Reply(r),
         UNCHANGED <<rows, clock, workload>>
  PROVE  LearningInv'
  <1>1. ReqOK(Idle) /\ Same(Idle, request[r])
    BY DEF ReqOK, Same
  <1> QED
    BY <1>1, Quiet DEF Reply

(* A call that goes on keeps what it is.                                   *)
LEMMA GoesOn ==
  ASSUME NEW q, Shape(q), NEW step, <<q.op, step>> \in OpSteps, NEW copy, NEW event
  PROVE  /\ Shape(Going(q, step, copy, event)) /\ Same(Going(q, step, copy, event), q)
         /\ Going(q, step, copy, event).op = q.op
         /\ Going(q, step, copy, event).e = q.e
         /\ Going(q, step, copy, event).k = q.k
         /\ Going(q, step, copy, event).now = q.now
         /\ Going(q, step, copy, event).step = step
         /\ Going(q, step, copy, event).copy = copy
         /\ Going(q, step, copy, event).event = event
  BY DEF Shape, Same, Going

LEMMA Running ==
  ASSUME LearningInv, NEW r \in Requests, ~At(r, "idle")
  PROVE  /\ Shape(request[r]) /\ EnrollmentCopy(request[r]) /\ EntitlementCopy(request[r])
         /\ AccessChecked(request[r]) /\ ProgressCopy(request[r]) /\ FiguresCopy(request[r])
  BY DEF LearningInv, ReqOK, At, Idle

LEMMA OpOfStep ==
  ASSUME NEW q, Shape(q)
  PROVE  /\ q.step = "findOpen" => q.op = "enroll"
         /\ q.step = "saveEnrollment" => q.op \in EnrollmentCalls
         /\ q.step \in {"findGranted", "findLive"} => q.op = "grant"
         /\ q.step = "findEntitlement" => q.op \in EntitlementTransitions
         /\ q.step = "saveEntitlement" => q.op \in EntitlementCalls
         /\ q.step \in {"access", "entitled", "findProgress", "saveProgress"} =>
              q.op \in ProgressCalls
         /\ q.step = "saveReadModel" => q.op = "refresh"
  BY DEF Shape, OpSteps, EnrollmentCalls, EntitlementCalls, ProgressCalls,
         EntitlementTransitions

LEMMA GivenType ==
  ASSUME LearningInv, NEW time, NEW other
  PROVE  /\ time \in Int \cup {Absent} /\ other \in Int => Given(time, other) \in Int
         /\ time \in Int \cup {Absent, Never} /\ other \in Int \cup {Never} =>
              Given(time, other) \in Int \cup {Never}
  <1>1. clock \in Int
    BY DEF LearningInv, Tables
  <1>2. CASE time = Absent
    BY <1>2, NeverIsNoTime DEF Given
  <1>3. CASE time # Absent /\ time = Never
    BY <1>3, NeverIsNoTime DEF Given
  <1>4. CASE time # Absent /\ time # Never
    BY <1>1, <1>4 DEF Given
  <1> QED
    BY <1>2, <1>3, <1>4

LEMMA EnrollLearnerStep ==
  ASSUME LearningInv, NEW r \in Requests, EnrollLearner(r)
  PROVE  LearningInv'
  <1> DEFINE q == request[r]
             row == NewEnrollment(Given(q.call.starts, clock), Given(q.call.expires, Never), clock)
             next == Going(q, "saveEnrollment", row, Step(Created, row.status))
  <1>1. q.step = "findOpen" /\ Shape(q)
    BY Running DEF EnrollLearner, At
  <1>2. q.op = "enroll" /\ <<q.op, "saveEnrollment">> \in OpSteps
    BY <1>1, OpOfStep DEF OpSteps
  <1>3. row \in EnrollmentRow /\ row.status \in OpenEnrollment
    <2>1. q.call.starts \in Int \cup {Absent} /\ q.call.expires \in Int \cup {Absent, Never}
      BY <1>1, <1>2 DEF Shape
    <2>2. Given(q.call.starts, clock) \in Int /\ Given(q.call.expires, Never) \in Int \cup {Never}
      BY <2>1, GivenType DEF LearningInv, Tables
    <2> QED
      BY <2>2 DEF NewEnrollment, EnrollmentRow, OpenEnrollment, EnrollmentStatus
  <1>4. Continue(r, OpenEnrollments = {} /\ ValidEnrollment(row), next)
    BY DEF EnrollLearner
  <1> HIDE DEF row
  <1>5. /\ Step(Created, row.status) \in Event /\ Step(Created, row.status).from = Created
        /\ Step(Created, row.status).to = row.status
    BY <1>3, Vocabulary DEF Step, Event
  <1>6. ReqOK(next) /\ Same(next, q)
    <2> DEFINE created == Step(Created, row.status)
    <2>1. /\ Shape(next) /\ Same(next, q) /\ next.op = q.op
          /\ next.step = "saveEnrollment" /\ next.copy = row /\ next.event = created
      BY <1>1, <1>2, GoesOn
    <2>2. created \in Event /\ created.from = Created /\ created.to = row.status
      BY <1>5
    <2> HIDE DEF next, created
    <2> QED
      BY <1>2, <1>3, <2>1, <2>2
         DEF ReqOK, EnrollmentCopy, EntitlementCopy, AccessChecked, ProgressCopy, FiguresCopy,
             OpenEnrollment
  <1> QED
    BY <1>4, <1>6, Quiet, Abandon DEF Continue, env

LEMMA BeginStep ==
  ASSUME LearningInv, NEW r \in Requests, Begin(r)
  PROVE  LearningInv'
  <1>1. PICK call \in workload.calls :
          /\ Fresh(call)
          /\ request' = [request EXCEPT ![r] =
               [op |-> call.op, step |-> FirstStep(call.op), call |-> call,
                e |-> call.e, k |-> call.k, now |-> clock,
                copy |-> Absent, event |-> None]]
    BY DEF Begin
  <1> DEFINE next == [op |-> call.op, step |-> FirstStep(call.op), call |-> call,
                      e |-> call.e, k |-> call.k, now |-> clock,
                      copy |-> Absent, event |-> None]
  <1>2. /\ call.op \in Ops /\ call.e \in Enrollments
        /\ call.op \in EntitlementCalls => call.k \in Entitlements
        /\ call.op \in ProgressCalls => call.k \in Items
        /\ call.op \in {"enroll", "grant"} =>
             call.starts \in Int \cup {Absent} /\ call.expires \in Int \cup {Absent, Never}
    BY CallsAreTyped DEF LearningInv, Tables, Ops
  <1>3. /\ <<call.op, FirstStep(call.op)>> \in OpSteps
        /\ FirstStep(call.op) \in {"findOpen", "findEnrollment", "findGranted",
                                   "findEntitlement", "access"}
    BY <1>2 DEF Ops, FirstStep, OpSteps, EnrollmentCalls, EntitlementCalls,
                ProgressCalls, EntitlementTransitions
  <1>4. Shape(next)
    BY <1>2, <1>3 DEF Shape, LearningInv, Tables
  <1>5. ReqOK(next)
    BY <1>3, <1>4
       DEF ReqOK, EnrollmentCopy, EntitlementCopy, AccessChecked, ProgressCopy, FiguresCopy
  <1>6. FreshOK'
    <2>1. \A s \in Requests : request'[s] = IF s = r THEN next ELSE request[s]
      BY <1>1 DEF LearningInv, Tables
    <2> QED
      BY <1>1, <2>1 DEF LearningInv, FreshOK, Fresh, Begin, rows
  <1> QED
    BY <1>1, <1>5, <1>6, QuietFresh DEF Begin

LEMMA CancelEnrollmentStep ==
  ASSUME LearningInv, NEW r \in Requests, CancelEnrollment(r)
  PROVE  LearningInv'
  <1> DEFINE q == request[r]
             row == enrollments[q.e]
             copy == [row EXCEPT !.status = "CANCELLED"]
             event == Step(row.status, "CANCELLED")
             next == Going(q, "saveEnrollment", copy, event)
  <1>1. q.step = "findEnrollment" /\ q.op = "cancel" /\ Shape(q)
    BY Running DEF CancelEnrollment, At
  <1>2. <<q.op, "saveEnrollment">> \in OpSteps
    BY <1>1 DEF OpSteps
  <1>3. Continue(r, row # Absent /\ CanCancel(row), next)
    BY DEF CancelEnrollment
  <1>4. ASSUME row # Absent, CanCancel(row)
        PROVE  ReqOK(next) /\ Same(next, q)
    <2>1. row \in EnrollmentRow /\ row.status \in OpenEnrollment
      BY <1>1, <1>4 DEF Shape, LearningInv, Tables, CanCancel
    <2>2. copy \in EnrollmentRow /\ copy.status = "CANCELLED"
      BY <2>1 DEF EnrollmentRow, EnrollmentStatus
    <2>3. event \in Event /\ event.from = row.status /\ event.to = "CANCELLED"
      BY <2>1, Vocabulary DEF Step, Event, EnrollmentStatus
    <2> HIDE DEF row, copy, event
    <2> QED
      BY <1>1, <1>2, <2>1, <2>2, <2>3, GoesOn
         DEF ReqOK, EnrollmentCopy, EntitlementCopy, AccessChecked, ProgressCopy, FiguresCopy
  <1> QED
    BY <1>3, <1>4, Quiet, Abandon DEF Continue, env

LEMMA FindCompletableStep ==
  ASSUME LearningInv, NEW r \in Requests, FindCompletable(r)
  PROVE  LearningInv'
  <1> DEFINE q == request[r]
             row == enrollments[q.e]
             next == Going(q, "findLessons", row, None)
  <1>1. q.step = "findEnrollment" /\ q.op = "complete" /\ Shape(q)
    BY Running DEF FindCompletable, At
  <1>2. <<q.op, "findLessons">> \in OpSteps
    BY <1>1 DEF OpSteps
  <1>3. Continue(r, row # Absent /\ CanComplete(row) /\ Units # {}, next)
    BY DEF FindCompletable
  <1>4. ASSUME row # Absent, CanComplete(row)
        PROVE  ReqOK(next) /\ Same(next, q)
    <2>1. row \in EnrollmentRow /\ row.status = "ACTIVE"
      BY <1>1, <1>4 DEF Shape, LearningInv, Tables, CanComplete
    <2> HIDE DEF row
    <2> QED
      BY <1>1, <1>2, <2>1, GoesOn
         DEF ReqOK, EnrollmentCopy, EntitlementCopy, AccessChecked, ProgressCopy, FiguresCopy
  <1> QED
    BY <1>3, <1>4, Quiet, Abandon DEF Continue, env

LEMMA CompleteEnrollmentStep ==
  ASSUME LearningInv, NEW r \in Requests, CompleteEnrollment(r)
  PROVE  LearningInv'
  <1> DEFINE q == request[r]
             copy == [q.copy EXCEPT !.status = "COMPLETED"]
             event == Step("ACTIVE", "COMPLETED")
             next == Going(q, "saveEnrollment", copy, event)
  <1>1. q.step = "findLessons" /\ q.op = "complete" /\ Shape(q) /\ EnrollmentCopy(q)
    BY Running DEF CompleteEnrollment, At
  <1>2. <<q.op, "saveEnrollment">> \in OpSteps
    BY <1>1 DEF OpSteps
  <1>3. Continue(r, AllUnitsCompleted(q.e), next)
    BY DEF CompleteEnrollment
  <1>4. ASSUME AllUnitsCompleted(q.e)
        PROVE  ReqOK(next) /\ Same(next, q)
    <2>1. q.copy \in EnrollmentRow /\ q.e \in Enrollments
      BY <1>1 DEF EnrollmentCopy, Shape
    <2>2. copy \in EnrollmentRow /\ copy.status = "COMPLETED"
      BY <2>1 DEF EnrollmentRow, EnrollmentStatus
    <2>3. event \in Event /\ event.from \in OpenEnrollment /\ event.to = "COMPLETED"
      BY Vocabulary DEF Step, Event, EnrollmentStatus, OpenEnrollment
    <2>4. Earned(q.e)
      BY <1>4, <2>1 DEF LearningInv, RowsOK, UnitsPublished, AllUnitsCompleted, Earned
    <2> HIDE DEF copy, event
    <2> QED
      BY <1>1, <1>2, <2>2, <2>3, <2>4, GoesOn
         DEF ReqOK, EnrollmentCopy, EntitlementCopy, AccessChecked, ProgressCopy, FiguresCopy
  <1> QED
    BY <1>3, <1>4, Quiet, Abandon DEF Continue, env

LEMMA FindGrantedStep ==
  ASSUME LearningInv, NEW r \in Requests, FindGranted(r)
  PROVE  LearningInv'
  <1> DEFINE q == request[r]
             row == enrollments[q.e]
             next == Going(q, "findLive", row, None)
  <1>1. q.step = "findGranted" /\ Shape(q)
    BY Running DEF FindGranted, At
  <1>2. <<q.op, "findLive">> \in OpSteps
    BY <1>1, OpOfStep DEF OpSteps
  <1>3. Continue(r, row # Absent /\ CanGrant(row), next)
    BY DEF FindGranted
  <1>4. ASSUME row # Absent
        PROVE  ReqOK(next) /\ Same(next, q)
    <2>1. row \in EnrollmentRow
      BY <1>1, <1>4 DEF Shape, LearningInv, Tables
    <2> HIDE DEF row
    <2> QED
      BY <1>1, <1>2, <2>1, GoesOn
         DEF ReqOK, EnrollmentCopy, EntitlementCopy, AccessChecked, ProgressCopy, FiguresCopy
  <1> QED
    BY <1>3, <1>4, Quiet, Abandon DEF Continue, env

LEMMA GrantEntitlementStep ==
  ASSUME LearningInv, NEW r \in Requests, GrantEntitlement(r)
  PROVE  LearningInv'
  <1> DEFINE q == request[r]
             row == NewEntitlement(q.e, Given(q.call.starts, q.copy.startsAt),
                                        Given(q.call.expires, q.copy.expiresAt))
             event == Step(Created, row.status)
             next == Going(q, "saveEntitlement", row, event)
  <1>1. q.step = "findLive" /\ Shape(q) /\ EntitlementCopy(q)
    BY Running DEF GrantEntitlement, At
  <1>2. q.op = "grant" /\ <<q.op, "saveEntitlement">> \in OpSteps
    BY <1>1, OpOfStep DEF OpSteps
  <1>3. Continue(r, LiveOf(q.e) = {} /\ ValidEntitlement(row), next)
    BY DEF GrantEntitlement
  <1>4. row \in EntitlementRow /\ row.status = "ACTIVE"
    <2>1. q.call.starts \in Int \cup {Absent} /\ q.call.expires \in Int \cup {Absent, Never}
      BY <1>1, <1>2 DEF Shape
    <2>2. q.copy.startsAt \in Int /\ q.copy.expiresAt \in Int \cup {Never}
      BY <1>1 DEF EntitlementCopy, EnrollmentRow
    <2>3. /\ Given(q.call.starts, q.copy.startsAt) \in Int
          /\ Given(q.call.expires, q.copy.expiresAt) \in Int \cup {Never}
      BY <2>1, <2>2, GivenType
    <2> QED
      BY <1>1, <2>3 DEF NewEntitlement, EntitlementRow, EntitlementStatus, LiveEntitlement, Shape
  <1>5. event \in Event
    BY <1>4, Vocabulary DEF Step, Event, EntitlementStatus, LiveEntitlement
  <1> HIDE DEF row, event
  <1>6. ReqOK(next) /\ Same(next, q)
    BY <1>1, <1>2, <1>4, <1>5, GoesOn
       DEF ReqOK, EnrollmentCopy, EntitlementCopy, AccessChecked, ProgressCopy, FiguresCopy
  <1> QED
    BY <1>3, <1>6, Quiet, Abandon DEF Continue, env

LEMMA ChangeEntitlementStep ==
  ASSUME LearningInv, NEW r \in Requests, ChangeEntitlement(r)
  PROVE  LearningInv'
  <1> DEFINE q == request[r]
             row == entitlements[q.k]
             copy == [row EXCEPT !.status = StatusAfter[q.op]]
             event == Step(row.status, StatusAfter[q.op])
             next == Going(q, "saveEntitlement", copy, event)
  <1>1. q.step = "findEntitlement" /\ Shape(q)
    BY Running DEF ChangeEntitlement, At
  <1>2. q.op \in EntitlementTransitions /\ <<q.op, "saveEntitlement">> \in OpSteps
    BY <1>1, OpOfStep DEF OpSteps
  <1>3. Continue(r, row # Absent /\ CanChange(q.op, row), next)
    BY DEF ChangeEntitlement
  <1>4. ASSUME row # Absent
        PROVE  ReqOK(next) /\ Same(next, q)
    <2>1. q.k \in Entitlements /\ row \in EntitlementRow
      BY <1>1, <1>2, <1>4 DEF Shape, LearningInv, Tables, EntitlementCalls
    <2>2. StatusAfter[q.op] \in EntitlementStatus
      BY <1>2 DEF StatusAfter, EntitlementTransitions, EntitlementStatus, LiveEntitlement
    <2>3. copy \in EntitlementRow /\ copy.enrollment = row.enrollment
      BY <2>1, <2>2 DEF EntitlementRow
    <2>4. event \in Event
      BY <2>1, <2>2, Vocabulary DEF Step, Event, EntitlementRow
    <2>5. q.op \notin EnrollmentCalls \cup ProgressCalls \cup {"refresh", "grant"}
      BY <1>2 DEF EntitlementTransitions, EnrollmentCalls, ProgressCalls
    <2> HIDE DEF copy, event
    <2> QED
      BY <1>1, <1>2, <1>4, <2>1, <2>3, <2>4, <2>5, GoesOn
         DEF ReqOK, EnrollmentCopy, EntitlementCopy, AccessChecked, ProgressCopy, FiguresCopy
  <1> QED
    BY <1>3, <1>4, Quiet, Abandon DEF Continue, env

LEMMA CheckEnrollmentStep ==
  ASSUME LearningInv, NEW r \in Requests, CheckEnrollment(r)
  PROVE  LearningInv'
  <1> DEFINE q == request[r]
             row == enrollments[q.e]
             next == Going(q, "entitled", Absent, None)
  <1>1. q.step = "access" /\ Shape(q)
    BY Running DEF CheckEnrollment, At
  <1>2. q.op \in ProgressCalls /\ <<q.op, "entitled">> \in OpSteps
    BY <1>1, OpOfStep DEF OpSteps
  <1>3. Continue(r, row # Absent /\ EnrollmentAllowsAccess(row), next)
    BY DEF CheckEnrollment
  <1>4. ASSUME EnrollmentAllowsAccess(row)
        PROVE  ReqOK(next) /\ Same(next, q)
    <2>1. row.status \in {"ACTIVE", "COMPLETED"}
      BY <1>4 DEF EnrollmentAllowsAccess
    <2> QED
      BY <1>1, <1>2, <2>1, GoesOn
         DEF ReqOK, EnrollmentCopy, EntitlementCopy, AccessChecked, ProgressCopy, FiguresCopy
  <1> QED
    BY <1>3, <1>4, Quiet, Abandon DEF Continue, env

LEMMA CheckEntitlementStep ==
  ASSUME LearningInv, NEW r \in Requests, CheckEntitlement(r)
  PROVE  LearningInv'
  <1> DEFINE q == request[r]
             check == \E t \in LiveOf(q.e) : EntitlementAllowsAccess(entitlements[t], q.now)
             next == Going(q, "findProgress", Absent, None)
  <1>1. q.step = "entitled" /\ Shape(q) /\ AccessChecked(q)
    BY Running DEF CheckEntitlement, At
  <1>2. q.op \in ProgressCalls /\ <<q.op, "findProgress">> \in OpSteps
    BY <1>1, OpOfStep DEF OpSteps
  <1>3. Continue(r, check, next)
    BY DEF CheckEntitlement
  <1>4. ASSUME check
        PROVE  ReqOK(next) /\ Same(next, q)
    <2>1. HasAccess(q.e, q.now) \/ touched.access[q.e] >= q.now
      BY <1>1, <1>4 DEF AccessChecked, HasAccess, LiveOf, EntitlementAllowsAccess
    <2> QED
      BY <1>1, <1>2, <2>1, GoesOn
         DEF ReqOK, EnrollmentCopy, EntitlementCopy, AccessChecked, ProgressCopy, FiguresCopy
  <1> HIDE DEF check
  <1> QED
    BY <1>3, <1>4, Quiet, Abandon DEF Continue, env

LEMMA MovedType ==
  ASSUME NEW row \in ProgressRow, NEW op, NEW percentage, NEW now,
         CanMove(op, row, percentage, now)
  PROVE  /\ Moved(op, row, percentage) \in ProgressRow
         /\ Moved(op, row, percentage).status = "COMPLETED" => row.status # "COMPLETED"
  <1>1. op \in {"start", "update", "finish"} /\ row.status \in {"NOT_STARTED", "IN_PROGRESS"}
    BY DEF CanMove
  <1>2. CASE op = "start"
    BY <1>2, <1>1 DEF Moved, ProgressRow, ProgressStatus
  <1>3. CASE op = "update"
    BY <1>3, <1>1 DEF Moved, CanMove, ProgressRow
  <1>4. CASE op = "finish"
    BY <1>4, <1>1 DEF Moved, ProgressRow, ProgressStatus
  <1> QED
    BY <1>1, <1>2, <1>3, <1>4

LEMMA MoveStep ==
  ASSUME LearningInv, NEW r \in Requests, MoveLesson(r) \/ MoveSection(r) \/ MoveCourse(r)
  PROVE  LearningInv'
  <1> DEFINE q == request[r]
             found == progress[q.e][q.k]
             row == IF found = Absent /\ q.op = "start" THEN NotStarted(q.now) ELSE found
             moved == Moved(q.op, row, q.call.percentage)
             event == IF moved = row THEN None ELSE
                        Step(IF found = Absent THEN Created ELSE row.status, moved.status)
             next == Going(q, "saveProgress", moved, event)
  <1>1. q.step = "findProgress" /\ Shape(q) /\ AccessChecked(q)
    BY Running DEF MoveLesson, MoveSection, MoveCourse, FindProgress, At
  <1>2. q.op \in ProgressCalls /\ <<q.op, "saveProgress">> \in OpSteps
    BY <1>1, OpOfStep, SMTT(30) DEF OpSteps
  <1>3. Continue(r, row # Absent /\ CanMove(q.op, row, q.call.percentage, q.now), next)
    BY DEF MoveLesson, MoveSection, MoveCourse, FindProgress, SectionCanMove, CourseCanMove
  <1>4. ASSUME row # Absent, CanMove(q.op, row, q.call.percentage, q.now)
        PROVE  ReqOK(next) /\ Same(next, q)
    <2>1. found \in ProgressRow \cup {Absent}
      BY <1>1, <1>2 DEF Shape, LearningInv, Tables
    <2>2. NotStarted(q.now) \in ProgressRow
      BY <1>1 DEF Shape, NotStarted, ProgressRow, ProgressStatus
    <2>3. row \in ProgressRow
      BY <1>4, <2>1, <2>2
    <2> HIDE DEF row
    <2>4. moved \in ProgressRow /\ (moved.status = "COMPLETED" => row.status # "COMPLETED")
      BY <1>4, <2>3, MovedType
    <2> HIDE DEF moved, found
    <2>5. \A x, y \in Names : Step(x, y) \in Event /\ Step(x, y).to = y
      BY DEF Step, Event
    <2>6. row.status \in Names /\ moved.status \in Names
      BY <2>3, <2>4, Vocabulary DEF ProgressRow
    <2>7. event \in Event \cup {None}
      BY <2>5, <2>6, Vocabulary
    <2>8. moved.status = "COMPLETED" => event # None /\ event.to = "COMPLETED"
      BY <2>4, <2>5, <2>6, Vocabulary, NoneIsNoEvent DEF Event
    <2> HIDE DEF event
    <2> QED
      BY <1>1, <1>2, <2>4, <2>7, <2>8, GoesOn
         DEF ReqOK, EnrollmentCopy, EntitlementCopy, AccessChecked, ProgressCopy, FiguresCopy
  <1> HIDE DEF row
  <1> QED
    BY <1>3, <1>4, Quiet, Abandon, SMTT(30) DEF Continue, env

LEMMA FindRefreshedStep ==
  ASSUME LearningInv, NEW r \in Requests, FindRefreshed(r)
  PROVE  LearningInv'
  <1> DEFINE q == request[r]
             next == Going(q, "findLessons", Absent, None)
  <1>1. q.step = "findEnrollment" /\ q.op = "refresh" /\ Shape(q)
    BY Running DEF FindRefreshed, At
  <1>2. <<q.op, "findLessons">> \in OpSteps
    BY <1>1 DEF OpSteps
  <1>3. Continue(r, enrollments[q.e] # Absent, next)
    BY DEF FindRefreshed
  <1>4. ReqOK(next) /\ Same(next, q)
    BY <1>1, <1>2, GoesOn
       DEF ReqOK, EnrollmentCopy, EntitlementCopy, AccessChecked, ProgressCopy, FiguresCopy
  <1> QED
    BY <1>3, <1>4, Quiet, Abandon DEF Continue, env

LEMMA CalculateProgressStep ==
  ASSUME LearningInv, NEW r \in Requests, CalculateProgress(r)
  PROVE  LearningInv'
  <1> DEFINE q == request[r]
             p == CourseProgress(Lessons(q.e))
             next == Going(q, "saveReadModel", p, None)
  <1>1. q.step = "findLessons" /\ q.op = "refresh" /\ Shape(q)
    BY Running DEF CalculateProgress, At
  <1>2. <<q.op, "saveReadModel">> \in OpSteps
    BY <1>1 DEF OpSteps
  <1>3. Continue(r, ValidCourseProgress(p), next)
    BY DEF CalculateProgress
  <1>4. ReqOK(next) /\ Same(next, q)
    <2>1. /\ Shape(next) /\ Same(next, q) /\ next.e = q.e
          /\ next.step = "saveReadModel" /\ next.copy = p
      BY <1>1, <1>2, GoesOn
    <2> HIDE DEF next
    <2> QED
      BY <2>1
         DEF ReqOK, EnrollmentCopy, EntitlementCopy, AccessChecked, ProgressCopy, FiguresCopy
  <1> QED
    BY <1>3, <1>4, Quiet, Abandon DEF Continue, env

-----------------------------------------------------------------------------
(* Steps of a call that write rows.  The call ends; the copies of the      *)
(* others are judged by the new rows.                                      *)

LEMMA EmitEvent ==
  ASSUME Tables, NEW a \in Aggregates, NEW event \in Event, Emit(a, event)
  PROVE  /\ outbox' \in [Aggregates -> Seq(Event)]
         /\ outbox'[a] = Append(outbox[a], event)
         /\ \A b \in Aggregates : b # a => outbox'[b] = outbox[b]
         /\ \A b \in Aggregates, name \in Names :
              (\E i \in DOMAIN outbox[b] : outbox[b][i].to = name) =>
                \E i \in DOMAIN outbox'[b] : outbox'[b][i].to = name
  <1>1. outbox' = [outbox EXCEPT ![a] = Append(outbox[a], event)]
    BY NoneIsNoEvent DEF Emit, Event
  <1>2. outbox[a] \in Seq(Event)
    BY DEF Tables
  <1>3. Append(outbox[a], event) \in Seq(Event)
    BY <1>2
  <1>4. \A i \in DOMAIN outbox[a] :
          i \in DOMAIN Append(outbox[a], event) /\ Append(outbox[a], event)[i] = outbox[a][i]
    BY <1>2
  <1> QED
    BY <1>1, <1>3, <1>4 DEF Tables

(* What the saves leave alone, for the calls that go on.                   *)
LEMMA OthersGoOn ==
  ASSUME LearningInv, NEW r \in Requests, Reply(r), clock' = clock,
         \A s \in Requests : s # r /\ request[s] # Idle =>
           /\ EnrollmentCopy(request[s])' /\ EntitlementCopy(request[s])'
           /\ AccessChecked(request[s])' /\ FiguresCopy(request[s])'
  PROVE  /\ DOMAIN request' = Requests
         /\ \A s \in Requests : request'[s] = IF s = r THEN Idle ELSE request[s]
         /\ \A s \in Requests : ReqOK(request[s])'
  <1>1. \A s \in Requests : request'[s] = IF s = r THEN Idle ELSE request[s]
    BY DEF LearningInv, Tables, Reply
  <1>2. ASSUME NEW s \in Requests PROVE ReqOK(request[s])'
    <2>1. CASE s = r \/ request[s] = Idle
      BY <1>1, <2>1 DEF ReqOK
    <2>2. CASE s # r /\ request[s] # Idle
      <3>1. Shape(request[s]) /\ ProgressCopy(request[s]) /\ request'[s] = request[s]
        BY <1>1, <2>2 DEF LearningInv, ReqOK
      <3>2. Shape(request[s])' /\ ProgressCopy(request[s])'
        BY <3>1 DEF Shape, ProgressCopy
      <3> QED
        BY <2>2, <3>2 DEF ReqOK
    <2> QED
      BY <2>1, <2>2
  <1> QED
    BY <1>1, <1>2 DEF LearningInv, Tables, Reply

(* Completions once published stay published.                              *)
Grows == \A e \in Enrollments, u \in Units :
  (\E i \in DOMAIN outbox[<<e, u>>] : outbox[<<e, u>>][i].to = "COMPLETED") =>
    \E i \in DOMAIN outbox'[<<e, u>>] : outbox'[<<e, u>>][i].to = "COMPLETED"

LEMMA EmitGrows ==
  ASSUME Tables, NEW a \in Aggregates, NEW event \in Event, Emit(a, event)
  PROVE  Grows
  <1>1. \A e \in Enrollments, u \in Units : <<e, u>> \in Aggregates
    BY DEF Aggregates, Items
  <1>2. "COMPLETED" \in Names
    BY DEF Names, ProgressStatus
  <1> QED
    BY <1>1, <1>2, EmitEvent DEF Grows

LEMMA AccessTouched ==
  ASSUME Tables, NEW e \in Enrollments, touched' = [touched EXCEPT !.access[e] = clock]
  PROVE  /\ touched' \in [access : [Enrollments -> Int], lessons : [Enrollments -> Int]]
         /\ touched'.access[e] = clock
         /\ \A f \in Enrollments : f # e => touched'.access[f] = touched.access[f]
         /\ touched'.lessons = touched.lessons
  <1>1. touched' = [access |-> [touched.access EXCEPT ![e] = clock], lessons |-> touched.lessons]
    BY DEF Tables
  <1>2. touched.access \in [Enrollments -> Int] /\ touched.lessons \in [Enrollments -> Int]
        /\ clock \in Int
    BY DEF Tables
  <1> DEFINE access == [touched.access EXCEPT ![e] = clock]
  <1>3. /\ access \in [Enrollments -> Int] /\ access[e] = clock
        /\ \A f \in Enrollments : f # e => access[f] = touched.access[f]
    BY <1>2
  <1> HIDE DEF access
  <1> QED
    BY <1>1, <1>2, <1>3 DEF access

LEMMA SaveEnrollmentStep ==
  ASSUME LearningInv, NEW r \in Requests, SaveEnrollment(r)
  PROVE  LearningInv'
  <1> DEFINE q == request[r]
  <1>1. /\ q.step = "saveEnrollment" /\ Shape(q) /\ EnrollmentCopy(q)
        /\ q.op \in EnrollmentCalls
    BY Running, OpOfStep DEF SaveEnrollment, At
  <1>2. CASE ~EnrollmentAccepted(q)
    BY <1>2, Abandon DEF SaveEnrollment, rows, env
  <1>3. CASE EnrollmentAccepted(q)
    <2>1. /\ enrollments' = [enrollments EXCEPT ![q.e] = q.copy]
          /\ Emit(q.e, q.event)
          /\ touched' = [touched EXCEPT !.access[q.e] = clock]
          /\ Reply(r) /\ UNCHANGED <<entitlements, progress, readModel, env>>
      BY <1>3 DEF SaveEnrollment
    <2>2. /\ q.e \in Enrollments /\ q.e \in Aggregates /\ q.copy \in EnrollmentRow
          /\ q.event \in Event /\ q.copy # Absent /\ q.event.to = q.copy.status
          /\ clock \in Nat
      BY <1>1, AbsentIsNoRow DEF EnrollmentCopy, Shape, Aggregates, LearningInv, Tables
    <2>3. /\ enrollments'[q.e] = q.copy
          /\ \A e \in Enrollments : e # q.e => enrollments'[e] = enrollments[e]
          /\ enrollments' \in [Enrollments -> EnrollmentRow \cup {Absent}]
      BY <2>1, <2>2 DEF LearningInv, Tables
    <2>4. /\ touched' \in [access : [Enrollments -> Int], lessons : [Enrollments -> Int]]
          /\ touched'.access[q.e] = clock
          /\ \A e \in Enrollments : e # q.e => touched'.access[e] = touched.access[e]
          /\ touched'.lessons = touched.lessons
      BY <2>1, <2>2, AccessTouched DEF LearningInv, Tables
    <2>5. /\ outbox' \in [Aggregates -> Seq(Event)]
          /\ outbox'[q.e] = Append(outbox[q.e], q.event)
          /\ \A b \in Aggregates : b # q.e => outbox'[b] = outbox[b]
          /\ Grows
      BY <2>1, <2>2, EmitEvent, EmitGrows DEF LearningInv
    <2>6. \A e \in Enrollments : Earned(e) => Earned(e)'
      BY <2>5 DEF Earned, Grows
    <2>7. /\ DOMAIN request' = Requests
          /\ \A s \in Requests : request'[s] = IF s = r THEN Idle ELSE request[s]
          /\ \A s \in Requests : ReqOK(request[s])'
      <3>1. ASSUME NEW s \in Requests, s # r, request[s] # Idle
            PROVE  /\ EnrollmentCopy(request[s])' /\ EntitlementCopy(request[s])'
                   /\ AccessChecked(request[s])' /\ FiguresCopy(request[s])'
        <4> DEFINE p == request[s]
        <4>1. /\ Shape(p) /\ EnrollmentCopy(p) /\ EntitlementCopy(p)
              /\ AccessChecked(p) /\ FiguresCopy(p) /\ request'[s] = p
          BY <2>1, <3>1 DEF LearningInv, ReqOK, Reply, Tables
        <4>2. p.e \in Enrollments /\ p.now \in Nat /\ p.now <= clock
          BY <4>1 DEF Shape
        <4>3. EnrollmentCopy(request[s])'
          BY <2>6, <4>1, <4>2 DEF EnrollmentCopy
        <4>4. EntitlementCopy(request[s])'
          BY <2>1, <4>1 DEF EntitlementCopy
        <4>5. AccessChecked(request[s])'
          <5>1. CASE p.e = q.e
            BY <2>2, <2>4, <4>1, <4>2, <5>1 DEF AccessChecked
          <5>2. CASE p.e # q.e
            <6>1. /\ enrollments'[p.e] = enrollments[p.e]
                  /\ touched'.access[p.e] = touched.access[p.e]
              BY <2>3, <2>4, <4>2, <5>2
            <6>2. HasAccess(p.e, p.now) => HasAccess(p.e, p.now)'
              BY <2>1, <4>1, <6>1 DEF HasAccess
            <6> QED
              BY <4>1, <6>1, <6>2 DEF AccessChecked
          <5> QED
            BY <5>1, <5>2
        <4>6. FiguresCopy(request[s])'
          BY <2>1, <2>4, <4>1 DEF FiguresCopy, Lessons
        <4> QED
          BY <4>3, <4>4, <4>5, <4>6
      <3> QED
        BY <2>1, <3>1, OthersGoOn DEF env
    <2>8. Tables'
      BY <2>1, <2>3, <2>4, <2>5, <2>7 DEF LearningInv, Tables, env
    <2>9. FreshOK'
      <3>1. \A s \in Requests : s # r /\ request[s].op = "enroll" => request[s].e # q.e
        <4>1. CASE q.op = "enroll"
          BY <4>1 DEF LearningInv, FreshOK
        <4>2. CASE q.op # "enroll"
          <5>1. q.event.from # Created
            BY <1>1, <4>2 DEF EnrollmentCopy, Created, OpenEnrollment
          <5>2. enrollments[q.e] # Absent
            BY <1>3, <5>1 DEF EnrollmentAccepted
          <5> QED
            BY <5>2 DEF LearningInv, FreshOK
        <4> QED
          BY <4>1, <4>2
      <3>2. \A s \in Requests : s # r /\ request[s].op = "enroll" =>
              enrollments'[request[s].e] = Absent
        <4>1. ASSUME NEW s \in Requests, request[s].op = "enroll"
              PROVE  request[s].e \in Enrollments
          <5>1. ReqOK(request[s]) /\ request[s] # Idle
            BY <4>1 DEF LearningInv, Idle
          <5> QED
            BY <5>1 DEF ReqOK, Shape
        <4> QED
          BY <2>3, <3>1, <4>1 DEF LearningInv, FreshOK
      <3> QED
        BY <2>1, <2>7, <3>2 DEF LearningInv, FreshOK, Idle
    <2>10. OneOpenEnrollment'
      <3>1. CASE q.op = "enroll"
        <4>1. OpenEnrollments = {}
          BY <1>1, <1>3, <3>1 DEF EnrollmentCopy, EnrollmentAccepted
        <4> QED
          BY <2>3, <4>1 DEF OneOpenEnrollment, OpenEnrollments
      <3>2. CASE q.op # "enroll"
        <4>1. q.copy.status \notin OpenEnrollment
          BY <1>1, <3>2 DEF EnrollmentCopy, OpenEnrollment
        <4>2. OpenEnrollments' \subseteq OpenEnrollments
          BY <2>3, <4>1 DEF OpenEnrollments
        <4> QED
          BY <4>2 DEF LearningInv, RowsOK, OneOpenEnrollment
      <3> QED
        BY <3>1, <3>2
    <2>11. OneLiveEntitlement'
      BY <2>1 DEF LearningInv, RowsOK, OneLiveEntitlement, LiveOf
    <2>12. EnrollmentHistoryLinked'
      <3> SUFFICES ASSUME NEW e \in Enrollments
                   PROVE  IF enrollments'[e] = Absent
                          THEN outbox'[e] = <<>>
                          ELSE /\ outbox'[e] # <<>> /\ outbox'[e][1].from = Created
                               /\ \A i \in 2..Len(outbox'[e]) :
                                    outbox'[e][i].from = outbox'[e][i - 1].to
                               /\ Last(outbox'[e]).to = enrollments'[e].status
        BY DEF EnrollmentHistoryLinked
      <3>0. IF enrollments[e] = Absent
            THEN outbox[e] = <<>>
            ELSE /\ outbox[e] # <<>> /\ outbox[e][1].from = Created
                 /\ \A i \in 2..Len(outbox[e]) : outbox[e][i].from = outbox[e][i - 1].to
                 /\ Last(outbox[e]).to = enrollments[e].status
        BY DEF LearningInv, RowsOK, EnrollmentHistoryLinked
      <3>1. CASE e # q.e
        <4>1. enrollments'[e] = enrollments[e] /\ outbox'[e] = outbox[e]
          BY <2>3, <2>5, <3>1 DEF Aggregates
        <4> QED
          BY <3>0, <4>1
      <3>2. CASE e = q.e
        <4>1. outbox[e] \in Seq(Event)
          BY <2>2, <3>2 DEF LearningInv, Tables
        <4>2. outbox'[e] = Append(outbox[e], q.event) /\ enrollments'[e] = q.copy
          BY <2>3, <2>5, <3>2
        <4>3. CASE q.op = "enroll"
          <5>1. enrollments[e] = Absent
            BY <3>2, <4>3 DEF LearningInv, FreshOK
          <5>2. outbox'[e] = <<q.event>> /\ q.event.from = Created
            <6>1. outbox[e] = <<>> /\ Append(<<>>, q.event) = <<q.event>>
              BY <3>0, <5>1
            <6> QED
              BY <1>1, <4>2, <4>3, <6>1 DEF EnrollmentCopy
          <5>3. Last(<<q.event>>) = q.event /\ <<q.event>> # <<>> /\ Len(<<q.event>>) = 1
            BY DEF Last
          <5> QED
            BY <2>2, <4>2, <5>1, <5>2, <5>3
        <4>4. CASE q.op # "enroll"
          <5>1. q.event.from # Created
            BY <1>1, <4>4 DEF EnrollmentCopy, Created, OpenEnrollment
          <5>2. enrollments[e] # Absent /\ enrollments[e].status = q.event.from
            BY <1>3, <3>2, <5>1 DEF EnrollmentAccepted
          <5> DEFINE n == Len(outbox[e])
          <5>3. n \in Nat /\ n > 0 /\ outbox[e][n].to = q.event.from
            BY <3>0, <4>1, <5>2 DEF Last
          <5>4. /\ Len(outbox'[e]) = n + 1 /\ outbox'[e][n + 1] = q.event
                /\ \A i \in 1..n : outbox'[e][i] = outbox[e][i]
            BY <4>1, <4>2
          <5>5. outbox'[e] # <<>> /\ outbox'[e][1].from = Created
            BY <3>0, <5>2, <5>3, <5>4
          <5>6. ASSUME NEW i \in 2..Len(outbox'[e])
                PROVE  outbox'[e][i].from = outbox'[e][i - 1].to
            <6>1. CASE i = n + 1
              BY <5>3, <5>4, <6>1, SMTT(30)
            <6>2. CASE i # n + 1
              <7>1. i \in 2..n /\ i \in 1..n /\ i - 1 \in 1..n
                BY <5>3, <5>4, <6>2
              <7> QED
                BY <3>0, <5>2, <5>4, <7>1
            <6> QED
              BY <6>1, <6>2
          <5>7. Last(outbox'[e]) = q.event
            BY <5>4 DEF Last
          <5> QED
            BY <2>2, <4>2, <5>5, <5>6, <5>7
        <4> QED
          BY <4>3, <4>4
      <3> QED
        BY <3>1, <3>2
    <2>13. CompletionWasEarned'
      <3> SUFFICES ASSUME NEW e \in Enrollments, enrollments'[e] # Absent,
                          enrollments'[e].status = "COMPLETED"
                   PROVE  Earned(e)'
        BY DEF CompletionWasEarned, Earned
      <3>1. Earned(e)
        BY <1>1, <2>3 DEF EnrollmentCopy, LearningInv, RowsOK, CompletionWasEarned, Earned
      <3> QED
        BY <2>6, <3>1
    <2>14. UnitsPublished'
      BY <2>1, <2>5 DEF LearningInv, RowsOK, UnitsPublished, Grows
    <2>15. ReadModelIsCurrentAsOf' /\ ReadModelDated'
      BY <2>1, <2>4 DEF LearningInv, RowsOK, ReadModelIsCurrentAsOf, ReadModelDated,
                        Lessons, env
    <2> QED
      BY <2>7, <2>8, <2>9, <2>10, <2>11, <2>12, <2>13, <2>14, <2>15
         DEF LearningInv, RowsOK
  <1> QED
    BY <1>2, <1>3

LEMMA SaveEntitlementStep ==
  ASSUME LearningInv, NEW r \in Requests, SaveEntitlement(r)
  PROVE  LearningInv'
  <1> DEFINE q == request[r]
  <1>1. /\ q.step = "saveEntitlement" /\ Shape(q) /\ EntitlementCopy(q)
        /\ q.op \in EntitlementCalls
    BY Running, OpOfStep DEF SaveEntitlement, At
  <1>2. CASE ~EntitlementAccepted(q)
    BY <1>2, Abandon DEF SaveEntitlement, rows, env
  <1>3. CASE EntitlementAccepted(q)
    <2>1. /\ entitlements' = [entitlements EXCEPT ![q.k] = q.copy]
          /\ Emit(q.k, q.event)
          /\ touched' = [touched EXCEPT !.access[q.copy.enrollment] = clock]
          /\ Reply(r) /\ UNCHANGED <<enrollments, progress, readModel, env>>
      BY <1>3 DEF SaveEntitlement
    <2> DEFINE f == q.copy.enrollment
    <2>2. /\ q.k \in Entitlements /\ q.k \in Aggregates /\ q.copy \in EntitlementRow
          /\ q.event \in Event /\ q.copy # Absent /\ f \in Enrollments
          /\ q.op # "grant" => entitlements[q.k] # Absent /\ f = entitlements[q.k].enrollment
          /\ q.op = "grant" => entitlements[q.k] = Absent
      BY <1>1, AbsentIsNoRow
         DEF EntitlementCopy, EntitlementRow, Shape, Aggregates, LearningInv, FreshOK
    <2>3. /\ entitlements'[q.k] = q.copy
          /\ \A t \in Entitlements : t # q.k => entitlements'[t] = entitlements[t]
          /\ entitlements' \in [Entitlements -> EntitlementRow \cup {Absent}]
      BY <2>1, <2>2 DEF LearningInv, Tables
    <2> HIDE DEF f
    <2>4. /\ touched' \in [access : [Enrollments -> Int], lessons : [Enrollments -> Int]]
          /\ touched'.access[f] = clock
          /\ \A e \in Enrollments : e # f => touched'.access[e] = touched.access[e]
          /\ touched'.lessons = touched.lessons
      <3>1. touched' = [touched EXCEPT !.access[f] = clock]
        BY <2>1 DEF f
      <3> QED
        BY <2>2, <3>1, AccessTouched DEF LearningInv
    <2>5. /\ outbox' \in [Aggregates -> Seq(Event)]
          /\ \A e \in Enrollments : outbox'[e] = outbox[e]
          /\ Grows
      <3>1. \A e \in Enrollments : e \in Aggregates /\ e # q.k
        BY <2>2, AggregatesDiffer DEF Aggregates
      <3> QED
        BY <2>1, <2>2, <3>1, EmitEvent, EmitGrows DEF LearningInv
    <2>6. \A e \in Enrollments : Earned(e) => Earned(e)'
      BY <2>5 DEF Earned, Grows
    <2>7. /\ DOMAIN request' = Requests
          /\ \A s \in Requests : request'[s] = IF s = r THEN Idle ELSE request[s]
          /\ \A s \in Requests : ReqOK(request[s])'
      <3>1. ASSUME NEW s \in Requests, s # r, request[s] # Idle
            PROVE  /\ EnrollmentCopy(request[s])' /\ EntitlementCopy(request[s])'
                   /\ AccessChecked(request[s])' /\ FiguresCopy(request[s])'
        <4> DEFINE p == request[s]
        <4>1. /\ Shape(p) /\ EnrollmentCopy(p) /\ EntitlementCopy(p)
              /\ AccessChecked(p) /\ FiguresCopy(p) /\ request'[s] = p
          BY <2>1, <3>1 DEF LearningInv, ReqOK, Reply, Tables
        <4>2. p.e \in Enrollments /\ p.now \in Nat /\ p.now <= clock
          BY <4>1 DEF Shape
        <4>3. EnrollmentCopy(request[s])'
          BY <2>6, <4>1, <4>2 DEF EnrollmentCopy
        <4>4. EntitlementCopy(request[s])'
          <5>1. p.step = "saveEntitlement" => p.k \in Entitlements
            BY <4>1, OpOfStep DEF Shape
          <5>2. CASE p.k = q.k
            BY <2>2, <2>3, <4>1, <5>2 DEF EntitlementCopy, f
          <5>3. CASE p.k # q.k
            BY <2>3, <4>1, <5>1, <5>3 DEF EntitlementCopy
          <5> QED
            BY <5>2, <5>3
        <4>5. AccessChecked(request[s])'
          <5>1. CASE p.e = f
            <6>1. touched'.access[p.e] >= p.now
              BY <2>4, <4>2, <5>1
            <6> QED
              BY <4>1, <6>1 DEF AccessChecked
          <5>2. CASE p.e # f
            <6>1. touched'.access[p.e] = touched.access[p.e]
              BY <2>4, <4>2, <5>2
            <6>2. \A t \in Entitlements :
                    entitlements[t] # Absent /\ entitlements[t].enrollment = p.e =>
                      entitlements'[t] = entitlements[t]
              BY <2>2, <2>3, <5>2
            <6>3. HasAccess(p.e, p.now) => HasAccess(p.e, p.now)'
              BY <2>1, <4>1, <6>2 DEF HasAccess
            <6> QED
              BY <2>1, <4>1, <6>1, <6>3 DEF AccessChecked
          <5> QED
            BY <5>1, <5>2
        <4>6. FiguresCopy(request[s])'
          BY <2>1, <2>4, <4>1 DEF FiguresCopy, Lessons
        <4> QED
          BY <4>3, <4>4, <4>5, <4>6
      <3> QED
        BY <2>1, <3>1, OthersGoOn DEF env
    <2>8. Tables'
      BY <2>1, <2>3, <2>4, <2>5, <2>7 DEF LearningInv, Tables, env
    <2>9. FreshOK'
      <3>1. \A s \in Requests : s # r /\ request[s].op = "grant" => request[s].k # q.k
        BY <2>2 DEF LearningInv, FreshOK
      <3>2. ASSUME NEW s \in Requests, s # r, request[s].op = "grant"
            PROVE  entitlements'[request[s].k] = Absent
        <4>1. ReqOK(request[s]) /\ request[s] # Idle
          BY <3>2 DEF LearningInv, Idle
        <4>2. request[s].k \in Entitlements
          BY <3>2, <4>1 DEF ReqOK, Shape, EntitlementCalls
        <4> QED
          BY <2>3, <3>1, <3>2, <4>2 DEF LearningInv, FreshOK
      <3> QED
        BY <2>1, <2>7, <3>2 DEF LearningInv, FreshOK, Idle
    <2>10. OneLiveEntitlement'
      <3> SUFFICES ASSUME NEW e \in Enrollments,
                          NEW s \in LiveOf(e)', NEW t \in LiveOf(e)', t # q.k
                   PROVE  s = t
        BY DEF OneLiveEntitlement, LiveOf
      <3>1. t \in LiveOf(e)
        BY <2>3 DEF LiveOf
      <3>2. CASE s = q.k
        <4>1. e = q.copy.enrollment /\ q.copy.status \in LiveEntitlement
          BY <2>3, <3>2 DEF LiveOf
        <4> QED
          BY <1>3, <3>1, <4>1 DEF EntitlementAccepted
      <3>3. CASE s # q.k
        <4>1. s \in LiveOf(e)
          BY <2>3, <3>3 DEF LiveOf
        <4> QED
          BY <3>1, <4>1 DEF LearningInv, RowsOK, OneLiveEntitlement
      <3> QED
        BY <3>2, <3>3
    <2>11. OneOpenEnrollment' /\ EnrollmentHistoryLinked'
      BY <2>1, <2>5 DEF LearningInv, RowsOK, OneOpenEnrollment, OpenEnrollments,
                        EnrollmentHistoryLinked
    <2>12. CompletionWasEarned'
      BY <2>1, <2>5 DEF LearningInv, RowsOK, CompletionWasEarned, Grows
    <2>13. UnitsPublished'
      BY <2>1, <2>5 DEF LearningInv, RowsOK, UnitsPublished, Grows
    <2>14. ReadModelIsCurrentAsOf' /\ ReadModelDated'
      BY <2>1, <2>4 DEF LearningInv, RowsOK, ReadModelIsCurrentAsOf, ReadModelDated,
                        Lessons, env
    <2> QED
      BY <2>7, <2>8, <2>9, <2>10, <2>11, <2>12, <2>13, <2>14 DEF LearningInv, RowsOK
  <1> QED
    BY <1>2, <1>3

LEMMA LessonsTouched ==
  ASSUME Tables, NEW e \in Enrollments, touched' = [touched EXCEPT !.lessons[e] = clock]
  PROVE  /\ touched' \in [access : [Enrollments -> Int], lessons : [Enrollments -> Int]]
         /\ touched'.lessons[e] = clock
         /\ \A f \in Enrollments : f # e => touched'.lessons[f] = touched.lessons[f]
         /\ touched'.access = touched.access
  <1>1. touched' = [access |-> touched.access, lessons |-> [touched.lessons EXCEPT ![e] = clock]]
    BY DEF Tables
  <1>2. touched.access \in [Enrollments -> Int] /\ touched.lessons \in [Enrollments -> Int]
        /\ clock \in Int
    BY DEF Tables
  <1> DEFINE lessons == [touched.lessons EXCEPT ![e] = clock]
  <1>3. /\ lessons \in [Enrollments -> Int] /\ lessons[e] = clock
        /\ \A f \in Enrollments : f # e => lessons[f] = touched.lessons[f]
    BY <1>2
  <1> HIDE DEF lessons
  <1> QED
    BY <1>1, <1>2, <1>3 DEF lessons

LEMMA SaveProgressStep ==
  ASSUME LearningInv, NEW r \in Requests, SaveLesson(r) \/ SaveSection(r) \/ SaveCourse(r)
  PROVE  LearningInv'
  <1> DEFINE q == request[r]
             a == <<q.e, q.k>>
  <1>0. PICK items : SaveProgress(r, items)
    BY DEF SaveLesson, SaveSection, SaveCourse
  <1>1. /\ q.step = "saveProgress" /\ Shape(q) /\ ProgressCopy(q)
        /\ q.op \in ProgressCalls
    BY <1>0, Running, OpOfStep DEF SaveProgress, At
  <1>2. CASE ~ProgressAccepted(q)
    BY <1>0, <1>2, Abandon DEF SaveProgress, rows, env
  <1>3. CASE ProgressAccepted(q)
    <2>1. /\ progress' = [progress EXCEPT ![q.e][q.k] = q.copy]
          /\ Emit(a, q.event)
          /\ touched' = IF q.k \in Units THEN [touched EXCEPT !.lessons[q.e] = clock]
                                         ELSE touched
          /\ Reply(r) /\ UNCHANGED <<enrollments, entitlements, readModel, env>>
      BY <1>0, <1>3 DEF SaveProgress
    <2>2. /\ q.e \in Enrollments /\ q.k \in Items /\ a \in Aggregates
          /\ q.copy \in ProgressRow /\ q.event \in Event \cup {None}
          /\ q.copy.status = "COMPLETED" => q.event # None /\ q.event.to = "COMPLETED"
      BY <1>1 DEF Shape, ProgressCopy, Aggregates
    <2>3. /\ progress' \in [Enrollments -> [Items -> ProgressRow \cup {Absent}]]
          /\ progress'[q.e][q.k] = q.copy
          /\ \A e \in Enrollments, i \in Items :
               e # q.e \/ i # q.k => progress'[e][i] = progress[e][i]
      BY <2>1, <2>2 DEF LearningInv, Tables
    <2>4. /\ touched' \in [access : [Enrollments -> Int], lessons : [Enrollments -> Int]]
          /\ touched'.access = touched.access
          /\ \A e \in Enrollments :
               touched'.lessons[e] = IF e = q.e /\ q.k \in Units THEN clock
                                                                 ELSE touched.lessons[e]
      BY <2>1, <2>2, LessonsTouched DEF LearningInv, Tables
    <2>5. /\ outbox' \in [Aggregates -> Seq(Event)]
          /\ \A e \in Enrollments : outbox'[e] = outbox[e]
          /\ Grows
      <3>1. \A e \in Enrollments : e \in Aggregates /\ e # a
        BY <2>2, AggregatesDiffer DEF Aggregates
      <3>2. CASE q.event = None
        BY <2>1, <3>2 DEF Emit, Grows, LearningInv, Tables
      <3>3. CASE q.event \in Event
        BY <2>1, <2>2, <3>1, <3>3, EmitEvent, EmitGrows DEF LearningInv
      <3> QED
        BY <2>2, <3>2, <3>3
    <2> HIDE DEF a
    <2>6. \A e \in Enrollments : Earned(e) => Earned(e)'
      BY <2>5 DEF Earned, Grows
    <2>7. \A e \in Enrollments : e # q.e \/ q.k \notin Units => Lessons(e)' = Lessons(e)
      BY <2>3 DEF Lessons, Items
    <2>8. /\ DOMAIN request' = Requests
          /\ \A s \in Requests : request'[s] = IF s = r THEN Idle ELSE request[s]
          /\ \A s \in Requests : ReqOK(request[s])'
      <3>1. ASSUME NEW s \in Requests, s # r, request[s] # Idle
            PROVE  /\ EnrollmentCopy(request[s])' /\ EntitlementCopy(request[s])'
                   /\ AccessChecked(request[s])' /\ FiguresCopy(request[s])'
        <4> DEFINE p == request[s]
        <4>1. /\ Shape(p) /\ EnrollmentCopy(p) /\ EntitlementCopy(p)
              /\ AccessChecked(p) /\ FiguresCopy(p) /\ request'[s] = p
          BY <2>1, <3>1 DEF LearningInv, ReqOK, Reply, Tables
        <4>2. p.e \in Enrollments /\ p.now \in Nat /\ p.now <= clock
          BY <4>1 DEF Shape
        <4>3. EnrollmentCopy(request[s])'
          BY <2>6, <4>1, <4>2 DEF EnrollmentCopy
        <4>4. EntitlementCopy(request[s])'
          BY <2>1, <4>1 DEF EntitlementCopy
        <4>5. AccessChecked(request[s])'
          BY <2>1, <2>4, <4>1 DEF AccessChecked, HasAccess
        <4>6. FiguresCopy(request[s])'
          <5>1. CASE p.e = q.e /\ q.k \in Units
            <6>1. ~(touched'.lessons[p.e] < p.now)
              BY <2>4, <4>2, <5>1
            <6> QED
              BY <4>1, <6>1 DEF FiguresCopy
          <5>2. CASE p.e # q.e \/ q.k \notin Units
            <6>1. touched'.lessons[p.e] = touched.lessons[p.e]
              BY <2>4, <4>2, <5>2
            <6>2. Lessons(p.e)' = Lessons(p.e)
              BY <2>3, <4>1, <4>2, <5>2 DEF Lessons, Items
            <6> QED
              BY <4>1, <6>1, <6>2 DEF FiguresCopy
          <5> QED
            BY <5>1, <5>2
        <4> QED
          BY <4>3, <4>4, <4>5, <4>6
      <3> QED
        BY <2>1, <3>1, OthersGoOn DEF env
    <2>9. Tables'
      BY <2>1, <2>3, <2>4, <2>5, <2>8 DEF LearningInv, Tables, env
    <2>10. FreshOK'
      BY <2>1, <2>8 DEF LearningInv, FreshOK, Idle
    <2>11. OneOpenEnrollment' /\ OneLiveEntitlement' /\ EnrollmentHistoryLinked'
      BY <2>1, <2>5 DEF LearningInv, RowsOK, OneOpenEnrollment, OpenEnrollments,
                        OneLiveEntitlement, LiveOf, EnrollmentHistoryLinked
    <2>12. CompletionWasEarned'
      BY <2>1, <2>5 DEF LearningInv, RowsOK, CompletionWasEarned, Grows
    <2>13. UnitsPublished'
      <3> SUFFICES ASSUME NEW e \in Enrollments, NEW u \in Units,
                          progress'[e][u] # Absent, progress'[e][u].status = "COMPLETED"
                   PROVE  \E i \in DOMAIN outbox'[<<e, u>>] : outbox'[<<e, u>>][i].to = "COMPLETED"
        BY DEF UnitsPublished
      <3>1. CASE e = q.e /\ u = q.k
        <4>1. q.event \in Event /\ q.event.to = "COMPLETED"
          BY <2>2, <2>3, <3>1
        <4>2. outbox'[a] = Append(outbox[a], q.event) /\ outbox[a] \in Seq(Event)
          BY <2>1, <2>2, <4>1, EmitEvent DEF LearningInv, Tables
        <4>3. Len(outbox[a]) + 1 \in DOMAIN outbox'[a]
              /\ outbox'[a][Len(outbox[a]) + 1] = q.event
          BY <4>1, <4>2
        <4> QED
          BY <3>1, <4>1, <4>3 DEF a
      <3>2. CASE e # q.e \/ u # q.k
        <4>1. progress'[e][u] = progress[e][u]
          BY <2>3, <3>2 DEF Items
        <4> QED
          BY <2>5, <4>1 DEF LearningInv, RowsOK, UnitsPublished, Grows
      <3> QED
        BY <3>1, <3>2
    <2>14. ReadModelIsCurrentAsOf'
      <3> SUFFICES ASSUME NEW e \in Enrollments, readModel[e] # Absent,
                          touched'.lessons[e] < readModel[e].calculatedAt
                   PROVE  readModel[e].figures = CourseProgress(Lessons(e)')
        BY <2>1 DEF ReadModelIsCurrentAsOf
      <3>1. CASE e = q.e /\ q.k \in Units
        BY <2>4, <3>1 DEF LearningInv, RowsOK, ReadModelDated, Tables
      <3>2. CASE e # q.e \/ q.k \notin Units
        BY <2>4, <2>7, <3>2 DEF LearningInv, RowsOK, ReadModelIsCurrentAsOf
      <3> QED
        BY <3>1, <3>2
    <2>15. ReadModelDated'
      BY <2>1 DEF LearningInv, RowsOK, ReadModelDated, env
    <2> QED
      BY <2>8, <2>9, <2>10, <2>11, <2>12, <2>13, <2>14, <2>15 DEF LearningInv, RowsOK
  <1> QED
    BY <1>2, <1>3

LEMMA SaveReadModelStep ==
  ASSUME LearningInv, NEW r \in Requests, SaveReadModel(r)
  PROVE  LearningInv'
  <1> DEFINE q == request[r]
             model == [calculatedAt |-> q.now, figures |-> q.copy]
  <1>1. q.step = "saveReadModel" /\ Shape(q) /\ FiguresCopy(q) /\ q.e \in Enrollments
    BY Running DEF SaveReadModel, At, Shape
  <1>2. /\ Reply(r)
        /\ UNCHANGED <<enrollments, entitlements, progress, outbox, touched, env>>
        /\ readModel' = IF Supersedes(q) THEN [readModel EXCEPT ![q.e] = model] ELSE readModel
    BY DEF SaveReadModel
  <1>3. DOMAIN readModel' = Enrollments
        /\ \A e \in Enrollments : readModel'[e] = readModel[e] \/ (e = q.e /\ readModel'[e] = model)
    BY <1>1, <1>2 DEF LearningInv, Tables
  <1>4. model.calculatedAt = q.now /\ model.figures = q.copy
    OBVIOUS
  <1> HIDE DEF model
  <1>5. /\ DOMAIN request' = Requests
        /\ \A s \in Requests : request'[s] = IF s = r THEN Idle ELSE request[s]
        /\ \A s \in Requests : ReqOK(request[s])'
    <2>1. ASSUME NEW s \in Requests, s # r, request[s] # Idle
          PROVE  /\ EnrollmentCopy(request[s])' /\ EntitlementCopy(request[s])'
                 /\ AccessChecked(request[s])' /\ FiguresCopy(request[s])'
      <3>1. /\ EnrollmentCopy(request[s]) /\ EntitlementCopy(request[s])
            /\ AccessChecked(request[s]) /\ FiguresCopy(request[s])
            /\ request'[s] = request[s]
        BY <1>2, <2>1 DEF LearningInv, ReqOK, Reply, Tables
      <3> QED
        BY <1>2, <3>1 DEF EnrollmentCopy, Earned, EntitlementCopy, AccessChecked, HasAccess,
                          FiguresCopy, Lessons
    <2> QED
      BY <1>2, <2>1, OthersGoOn DEF env
  <1>6. Tables'
    BY <1>2, <1>3, <1>5 DEF LearningInv, Tables, env
  <1>7. FreshOK'
    BY <1>2, <1>5 DEF LearningInv, FreshOK, Idle
  <1>8. /\ OneOpenEnrollment' /\ OneLiveEntitlement' /\ EnrollmentHistoryLinked'
        /\ CompletionWasEarned' /\ UnitsPublished'
    BY <1>2 DEF LearningInv, RowsOK, OneOpenEnrollment, OpenEnrollments, OneLiveEntitlement,
                LiveOf, EnrollmentHistoryLinked, CompletionWasEarned, UnitsPublished
  <1>9. ReadModelIsCurrentAsOf'
    BY <1>1, <1>2, <1>3, <1>4
       DEF LearningInv, RowsOK, ReadModelIsCurrentAsOf, FiguresCopy, Lessons
  <1>10. ReadModelDated'
    BY <1>1, <1>2, <1>3, <1>4 DEF LearningInv, RowsOK, ReadModelDated, Shape, env
  <1> QED
    BY <1>5, <1>6, <1>7, <1>8, <1>9, <1>10 DEF LearningInv, RowsOK

-----------------------------------------------------------------------------
(* The clock ticks, or nothing happens.                                    *)
LEMMA ClockStep ==
  ASSUME LearningInv, UNCHANGED <<rows, request, workload>>, clock' \in {clock, clock + 1}
  PROVE  LearningInv'
  <1>1. clock \in Nat /\ clock' \in Nat /\ clock <= clock'
    BY DEF LearningInv, Tables
  <1>2. Tables'
    BY <1>1 DEF LearningInv, Tables, rows
  <1>3. ASSUME NEW s \in Requests PROVE ReqOK(request[s])'
    <2>1. ReqOK(request[s]) /\ request'[s] = request[s]
      BY DEF LearningInv
    <2>2. CASE request[s] = Idle
      BY <2>1, <2>2, SMTT(30) DEF ReqOK
    <2>3. CASE request[s] # Idle
      <3>1. Shape(request[s])'
        BY <1>1, <2>1, <2>3 DEF ReqOK, Shape
      <3> QED
        BY <2>1, <2>3, <3>1
           DEF ReqOK, EnrollmentCopy, Earned, EntitlementCopy, AccessChecked, HasAccess,
               ProgressCopy, FiguresCopy, Lessons, rows
    <2> QED
      BY <2>2, <2>3
  <1>4. FreshOK'
    BY DEF LearningInv, FreshOK, rows
  <1>5. RowsOK'
    BY <1>1 DEF LearningInv, RowsOK, OneOpenEnrollment, OneLiveEntitlement,
                EnrollmentHistoryLinked, CompletionWasEarned, UnitsPublished,
                ReadModelIsCurrentAsOf, ReadModelDated, OpenEnrollments, LiveOf, Lessons, rows
  <1> QED
    BY <1>2, <1>3, <1>4, <1>5 DEF LearningInv

LEMMA NextLearning == LearningInv /\ [Next]_vars => LearningInv'
  <1> SUFFICES ASSUME LearningInv, [Next]_vars PROVE LearningInv'
    OBVIOUS
  <1>1. CASE Tick \/ UNCHANGED vars
    BY <1>1, ClockStep DEF Tick, vars, env, rows
  <1>2. ASSUME NEW r \in Requests,
               Begin(r) \/ Fails(r)
        PROVE  LearningInv'
    BY <1>2, BeginStep, Abandon DEF Fails, env
  <1>3. ASSUME NEW r \in Requests,
               EnrollLearner(r) \/ CancelEnrollment(r) \/ FindCompletable(r)
                 \/ CompleteEnrollment(r) \/ SaveEnrollment(r)
        PROVE  LearningInv'
    BY <1>3, EnrollLearnerStep, CancelEnrollmentStep, FindCompletableStep,
       CompleteEnrollmentStep, SaveEnrollmentStep
  <1>4. ASSUME NEW r \in Requests,
               FindGranted(r) \/ GrantEntitlement(r) \/ ChangeEntitlement(r)
                 \/ SaveEntitlement(r)
        PROVE  LearningInv'
    BY <1>4, FindGrantedStep, GrantEntitlementStep, ChangeEntitlementStep, SaveEntitlementStep
  <1>5. ASSUME NEW r \in Requests,
               CheckEnrollment(r) \/ CheckEntitlement(r) \/ MoveLesson(r) \/ MoveSection(r)
                 \/ MoveCourse(r) \/ SaveLesson(r) \/ SaveSection(r) \/ SaveCourse(r)
        PROVE  LearningInv'
    BY <1>5, CheckEnrollmentStep, CheckEntitlementStep, MoveStep, SaveProgressStep
  <1>6. ASSUME NEW r \in Requests,
               FindRefreshed(r) \/ CalculateProgress(r) \/ SaveReadModel(r)
        PROVE  LearningInv'
    BY <1>6, FindRefreshedStep, CalculateProgressStep, SaveReadModelStep
  <1> QED
    BY <1>1, <1>2, <1>3, <1>4, <1>5, <1>6 DEF Next

(* The inductive invariant holds in every state of Learning.               *)
THEOREM LearningInvariant == Spec => []LearningInv
  BY InitLearning, NextLearning, PTL DEF Spec

(* However calls overlap, the learner has at most one pending or active    *)
(* enrollment in the course.                                               *)
THEOREM EnrolledOnce == Spec => []OneOpenEnrollment
  <1>1. LearningInv => OneOpenEnrollment
    BY DEF LearningInv, RowsOK
  <1> QED
    BY <1>1, LearningInvariant, PTL

(* An enrollment has at most one active or suspended entitlement.          *)
THEOREM EntitledOnce == Spec => []OneLiveEntitlement
  <1>1. LearningInv => OneLiveEntitlement
    BY DEF LearningInv, RowsOK
  <1> QED
    BY <1>1, LearningInvariant, PTL

(* One open enrollment and one live entitlement, whatever overlaps.        *)
THEOREM OneOfEachKept == Spec => []OneOfEach
  BY EnrolledOnce, EntitledOnce, PTL DEF OneOfEach

(* The events of an enrollment form one chain that ends at its status.     *)
THEOREM EnrollmentHistory == Spec => []EnrollmentHistoryLinked
  <1>1. LearningInv => EnrollmentHistoryLinked
    BY DEF LearningInv, RowsOK
  <1> QED
    BY <1>1, LearningInvariant, PTL

(* A completed enrollment has published the completion of every unit.      *)
THEOREM CompletionEarned == Spec => []CompletionWasEarned
  <1>1. LearningInv => CompletionWasEarned
    BY DEF LearningInv, RowsOK
  <1> QED
    BY <1>1, LearningInvariant, PTL

(* A read model shows the lessons as of its calculatedAt.                  *)
THEOREM ReadModelCurrent == Spec => []ReadModelIsCurrentAsOf
  <1>1. LearningInv => ReadModelIsCurrentAsOf
    BY DEF LearningInv, RowsOK
  <1> QED
    BY <1>1, LearningInvariant, PTL

(* Progress is stored only for a learner who had access when the call      *)
(* began, or whose access was changed while the call ran.                  *)
THEOREM WritesAllowed == Spec => WritesWereAllowed
  <1>1. LearningInv =>
          [\A r \in Requests :
             At(r, "saveProgress") /\ request'[r] = Idle /\ progress' # progress =>
               LET q == request[r]
               IN HasAccess(q.e, q.now) \/ touched.access[q.e] >= q.now]_vars
    <2> SUFFICES ASSUME LearningInv, NEW r \in Requests, At(r, "saveProgress")
                 PROVE  \/ HasAccess(request[r].e, request[r].now)
                        \/ touched.access[request[r].e] >= request[r].now
      OBVIOUS
    <2> QED
      BY DEF LearningInv, ReqOK, AccessChecked, At, Idle
  <1> QED
    BY <1>1, LearningInvariant, PTL DEF WritesWereAllowed

(* A stored read model is replaced only by a later calculation.            *)
THEOREM ReadModelForward == Spec => ReadModelMovesForward
  <1>1. LearningInv /\ [Next]_vars =>
          [\A e \in Enrollments :
             readModel[e] # Absent /\ readModel'[e] # readModel[e] =>
               readModel'[e].calculatedAt > readModel[e].calculatedAt]_vars
    <2> SUFFICES ASSUME LearningInv, [Next]_vars, NEW e \in Enrollments,
                        readModel[e] # Absent, readModel'[e] # readModel[e]
                 PROVE  readModel'[e].calculatedAt > readModel[e].calculatedAt
      OBVIOUS
    <2>1. PICK r \in Requests : SaveReadModel(r)
      <3>1. \A r \in Requests : Begin(r) \/ Fails(r) => readModel' = readModel
        BY DEF Begin, Fails, rows
      <3>2. \A r \in Requests :
              EnrollLearner(r) \/ CancelEnrollment(r) \/ FindCompletable(r)
                \/ CompleteEnrollment(r) \/ SaveEnrollment(r) => readModel' = readModel
        BY DEF EnrollLearner, CancelEnrollment, FindCompletable, CompleteEnrollment,
               SaveEnrollment, Continue, rows
      <3>3. \A r \in Requests :
              FindGranted(r) \/ GrantEntitlement(r) \/ ChangeEntitlement(r)
                \/ SaveEntitlement(r) => readModel' = readModel
        BY DEF FindGranted, GrantEntitlement, ChangeEntitlement, SaveEntitlement, Continue, rows
      <3>4. \A r \in Requests :
              CheckEnrollment(r) \/ CheckEntitlement(r) \/ MoveLesson(r) \/ MoveSection(r)
                \/ MoveCourse(r) => readModel' = readModel
        BY ZenonT(60) DEF CheckEnrollment, CheckEntitlement, MoveLesson, MoveSection, MoveCourse,
               FindProgress, Continue, rows
      <3>5. \A r \in Requests :
              SaveLesson(r) \/ SaveSection(r) \/ SaveCourse(r)
                \/ FindRefreshed(r) \/ CalculateProgress(r) => readModel' = readModel
        BY DEF SaveLesson, SaveSection, SaveCourse, SaveProgress, FindRefreshed,
               CalculateProgress, Continue, rows
      <3> QED
        BY <3>1, <3>2, <3>3, <3>4, <3>5 DEF Next, Tick, vars, rows
    <2> DEFINE q == request[r]
    <2>2. q.step = "saveReadModel" /\ Shape(q)
      BY <2>1, Running DEF SaveReadModel, At
    <2>3. /\ e = q.e /\ Supersedes(q)
          /\ readModel'[e] = [calculatedAt |-> q.now, figures |-> q.copy]
      BY <2>1 DEF SaveReadModel, LearningInv, Tables
    <2> QED
      BY <2>2, <2>3 DEF Supersedes, Shape, LearningInv, RowsOK, ReadModelDated
  <1> QED
    BY <1>1, LearningInvariant, PTL DEF Spec, ReadModelMovesForward
=============================================================================
