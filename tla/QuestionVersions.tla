---------------------------- MODULE QuestionVersions ----------------------------
(***************************************************************************)
(* The question bank: authors of several tenants create, revise and        *)
(* restore questions while snapshots are also added through the version    *)
(* repository.  An appending call reads the latest version (and, to        *)
(* restore, the source) outside any transaction, builds the next version,  *)
(* and stores it in a transaction that checks the author's membership,     *)
(* locks the question, checks that the version it read is still the        *)
(* latest, and writes the rows and the event.                              *)
(***************************************************************************)
EXTENDS QuestionSnapshots, FiniteSetsExt

CONSTANTS
  None,
  Requests,   \* the calls that may overlap
  Questions,  \* identifiers of questions
  Versions,   \* identifiers of versions
  Tenants,    \* tenants; one principal of each writes questions
  Drafts,     \* Drafts[name]: the snapshots the clients of a workload write
  Workloads   \* [ops, drafts, numbers, calls, overlap, questions,
              \* failures, leave]: mixes of calls and their bounds

ASSUME NamesAreApart ==
  /\ None \notin Requests \cup Versions /\ Tenants \cap {"legacy", "absent"} = {}
  /\ Text \notin Versions \X {"item", "other"} \X Nat

ASSUME DraftsAreTyped ==
  /\ \A name \in DOMAIN Drafts : \A s \in Drafts[name] : IsSnapshot(s)
  /\ \A w \in Workloads : w.drafts \in DOMAIN Drafts /\ w.numbers \subseteq Nat

VARIABLES
  questions,  \* questions[q]: the tenant that owns it, "legacy" or "absent"
  versions,   \* versions[v]: the rows of a version that is stored
  events,     \* the rows of OutboxEvent
  lock,       \* lock[q]: the transaction that holds the row of q
  members,    \* the tenants whose author's membership is active
  request,
  written,    \* history: the call and the snapshot each version comes from
  workload, calls, failures

tables == <<questions, versions, events, written>>
env == <<members, workload, calls, failures>>
vars == <<tables, lock, request, env>>

NoVersion == [id |-> None, number |-> 0]

Idle == [step |-> "idle", op |-> "none"]

Stored == DOMAIN versions

Inserted(table, v, row) ==
  [w \in DOMAIN table \cup {v} |-> IF w = v THEN row ELSE table[w]]

VersionsOf(q) == {v \in Stored : versions[v].question = q}

Reference(v) == [id |-> v, number |-> versions[v].number]

-----------------------------------------------------------------------------
(* Calls.                                                                  *)

(* Identifiers of questions and versions are random UUIDs.                 *)
Unused(v) == v \notin Stored /\ \A r \in Requests :
  request[r] # Idle => request[r].version # v
UnusedQuestion(q) == questions[q] = "absent" /\ \A r \in Requests :
  request[r] # Idle => request[r].question # q

Existing == {q \in Questions : ~UnusedQuestion(q)}

Call(op, q, v, tenant, draft) ==
  [op |-> op, step |-> "read", question |-> q, version |-> v, tenant |-> tenant,
   draft |-> draft, latest |-> NoVersion, source |-> NoVersion, copy |-> None,
   number |-> 0, read |-> {}]

(* Versions are taken in order, any unused one being like any other.       *)
Begin(r) ==
  /\ request[r] = Idle /\ calls < workload.calls
  /\ Cardinality({other \in Requests : request[other] # Idle}) < workload.overlap
  /\ \E op \in workload.ops, q \in Questions, tenant \in Tenants :
       \E v \in {CHOOSE unused \in Versions : Unused(unused)} :
       /\ v \in Versions /\ Unused(v)
       /\ op = "create" => UnusedQuestion(q) /\ Cardinality(Existing) < workload.questions
       /\ op \in {"revise", "restore"} => questions[q] # "absent"
       /\ op = "add" => \A other \in Requests :
            request[other].op = "create" => request[other].question # q
       /\ \/ /\ op \in {"create", "revise"}
             /\ \E draft \in Drafts[workload.drafts] :
                  request' = [request EXCEPT ![r] = Call(op, q, v, tenant, draft)]
          \/ /\ op = "restore"
             /\ \E source \in Stored :
                  request' = [request EXCEPT ![r] =
                    [Call(op, q, v, tenant, None) EXCEPT !.source.id = source]]
          \/ /\ op = "add"
             /\ \E draft \in Drafts[workload.drafts], number \in workload.numbers,
                   previous \in Stored \cup {None}, source \in Stored \cup {None} :
                  HasRows(draft) /\ request' = [request EXCEPT ![r] =
                    [Call(op, q, v, "legacy", draft) EXCEPT
                       !.number = number, !.latest.id = previous,
                       !.source.id = source, !.step = "lock"]]
  /\ calls' = calls + 1
  /\ UNCHANGED <<tables, lock, members, workload, failures>>

At(r, step) == request[r].step = step

(* The call goes on, or throws when a check fails.                         *)
Continue(r, check, next) ==
  /\ request' = [request EXCEPT ![r] = IF check THEN next ELSE Idle]
  /\ UNCHANGED <<tables, lock, env>>

-----------------------------------------------------------------------------
(* The service: reads and the next version.                                *)

OwnVersions(r) ==
  IF questions[request[r].question] = request[r].tenant
    THEN VersionsOf(request[r].question) ELSE {}

LatestOf(S) == CHOOSE v \in S : \A w \in S : versions[w].number <= versions[v].number

FindLatest(r) ==
  LET found == OwnVersions(r)
      latest == LatestOf(found)
  IN /\ At(r, "read") /\ request[r].op \in {"revise", "restore"}
     /\ "latest" \notin request[r].read
     /\ Continue(r, found # {} /\ IsReadable(versions[latest].rows),
                 [request[r] EXCEPT !.latest = Reference(latest),
                                    !.read = @ \cup {"latest"}])

(* A restoration reads its source at the same time.                        *)
FindSource(r) ==
  LET source == request[r].source.id
  IN /\ At(r, "read") /\ request[r].op = "restore" /\ "source" \notin request[r].read
     /\ Continue(r, source \in OwnVersions(r) /\ IsReadable(versions[source].rows),
                 [request[r] EXCEPT !.source = Reference(source),
                                    !.copy = ReadSnapshot(versions[source].rows),
                                    !.read = @ \cup {"source"}])

Reads(op) == CASE op = "create" -> {}
               [] op = "revise" -> {"latest"}
               [] OTHER -> {"latest", "source"}

(* What the domain checks of the lineage of version `number`.              *)
LineageIsValid(number, latest, source) ==
  /\ number = latest.number + 1
  /\ source # NoVersion => source.number < number
  /\ latest.number = source.number => latest.id = source.id

(* Build the snapshot and the event; everything after this is persist.     *)
Prepare(r) ==
  LET call == request[r]
      number == call.latest.number + 1
      snapshot == IF call.op = "restore" THEN CloneIdentities(call.version, call.copy)
                  ELSE call.draft
  IN /\ At(r, "read") /\ call.op # "add" /\ call.read = Reads(call.op)
     /\ Continue(r, LineageIsValid(number, call.latest, call.source) /\ IsValid(snapshot),
                 [call EXCEPT !.number = number, !.draft = snapshot,
                              !.step = "membership"])

-----------------------------------------------------------------------------
(* The transaction.                                                        *)

CheckMembership(r) ==
  /\ At(r, "membership")
  /\ Continue(r, request[r].tenant \in members, [request[r] EXCEPT !.step = "lock"])

(* Appending locks the row of the question first.                          *)
PredecessorIsCurrent(r) ==
  LET call == request[r]
  IN /\ VersionsOf(call.question) # {}
     /\ LatestOf(VersionsOf(call.question)) = call.latest.id
     /\ call.number = versions[call.latest.id].number + 1

Lock(r) ==
  LET q == request[r].question
      allowed == request[r].op \in {"create", "add"} \/
        (questions[q] = request[r].tenant /\ PredecessorIsCurrent(r))
  IN /\ At(r, "lock") /\ lock[q] = None
     /\ request' = [request EXCEPT ![r] =
          IF allowed THEN [@ EXCEPT !.step = "insert"] ELSE Idle]
     /\ lock' = [lock EXCEPT ![q] = IF allowed THEN r ELSE None]
     /\ UNCHANGED <<tables, env>>

(* Mutant: a predecessor is required, whatever its number.                 *)
LineageGuardUnnumbered(row) ==
  IF row.number = 1 THEN row.previous = None ELSE row.previous # None

(* The trigger on new versions; it, too, holds the lock of the question.   *)
LineageGuard(row) ==
  LET numbers == {versions[v].number : v \in VersionsOf(row.question)}
      NumberOf(v) == IF v \in VersionsOf(row.question) THEN versions[v].number ELSE 0
  IN IF row.number = 1
       THEN row.previous = None /\ row.restoredFrom = None /\ numbers = {}
       ELSE /\ row.previous # None /\ NumberOf(row.previous) = row.number - 1
            /\ row.number - 1 = Max(numbers \cup {0})
            /\ row.restoredFrom # None => NumberOf(row.restoredFrom) \in 1 .. row.number - 1

(* The unique number and the foreign keys of QuestionVersion.              *)
LineageKeys(row) ==
  /\ \A v \in VersionsOf(row.question) : versions[v].number # row.number
  /\ \A v \in {row.previous, row.restoredFrom} \ {None} : v \in VersionsOf(row.question)

NewRow(r) ==
  LET call == request[r]
  IN [question |-> call.question, number |-> call.number, previous |-> call.latest.id,
      restoredFrom |-> call.source.id, rows |-> Rows(call.version, call.draft)]

Storable(r) ==
  LineageGuard(NewRow(r)) /\ LineageKeys(NewRow(r)) /\ RowsAccepted(NewRow(r).rows)

Event(r) ==
  [question |-> request[r].question, version |-> request[r].version,
   tenant |-> request[r].tenant, number |-> request[r].number,
   previous |-> request[r].latest.id, restoredFrom |-> request[r].source.id]

Unlocked(r) == lock' = [lock EXCEPT ![request[r].question] = None]

(* The rows and the event are written and the transaction commits.  A      *)
(* question that is not there yet is created; adding leaves it unowned.    *)
Commit(r) ==
  LET call == request[r]
  IN /\ At(r, "insert") /\ Storable(r)
     /\ versions' = Inserted(versions, call.version, NewRow(r))
     /\ written' = Inserted(written, call.version,
          [op |-> call.op, snapshot |-> call.draft, content |-> Shape(call.draft)])
     /\ questions' = [questions EXCEPT ![call.question] =
          IF @ = "absent" THEN call.tenant ELSE @]
     /\ events' = IF call.op = "add" THEN events ELSE events \cup {Event(r)}
     /\ request' = [request EXCEPT ![r] = Idle]
     /\ Unlocked(r) /\ UNCHANGED env

(* Mutant: the event is created outside the transaction.                   *)
RollbackKeepingEvent(r) ==
  /\ At(r, "insert")
  /\ Storable(r) => failures < workload.failures
  /\ failures' = IF Storable(r) THEN failures + 1 ELSE failures
  /\ request' = [request EXCEPT ![r] = Idle]
  /\ events' = IF request[r].op = "add" THEN events ELSE events \cup {Event(r)}
  /\ Unlocked(r) /\ UNCHANGED <<questions, versions, written, members, workload, calls>>

(* A constraint or the connection fails: nothing of the transaction stays. *)
Rollback(r) ==
  /\ At(r, "insert")
  /\ Storable(r) => failures < workload.failures
  /\ failures' = IF Storable(r) THEN failures + 1 ELSE failures
  /\ request' = [request EXCEPT ![r] = Idle]
  /\ Unlocked(r) /\ UNCHANGED <<tables, members, workload, calls>>

(* A membership ends while its author's calls are under way.               *)
Leave(tenant) ==
  /\ workload.leave /\ tenant \in members
  /\ members' = members \ {tenant}
  /\ UNCHANGED <<tables, lock, request, workload, calls, failures>>

-----------------------------------------------------------------------------
Init ==
  /\ workload \in Workloads
  /\ questions = [q \in Questions |-> "absent"]
  /\ versions = [v \in {} |-> None]
  /\ events = {}
  /\ lock = [q \in Questions |-> None]
  /\ members = Tenants
  /\ request = [r \in Requests |-> Idle]
  /\ written = [v \in {} |-> None]
  /\ calls = 0 /\ failures = 0

Next ==
  \/ \E r \in Requests :
       \/ Begin(r) \/ FindLatest(r) \/ FindSource(r) \/ Prepare(r)
       \/ CheckMembership(r) \/ Lock(r) \/ Commit(r) \/ Rollback(r)
  \/ \E tenant \in Tenants : Leave(tenant)

Spec == Init /\ [][Next]_vars

-----------------------------------------------------------------------------
(* Every variable has its type, and a question is locked exactly by the    *)
(* transaction that has passed its checks and not ended: no way out of a   *)
(* transaction leaves a question locked for good.                          *)
QuestionTypeOK ==
  /\ questions \in [Questions -> Tenants \cup {"legacy", "absent"}]
  /\ Stored \subseteq Versions /\ \A v \in Stored :
       /\ versions[v].question \in Questions /\ versions[v].number \in Nat
       /\ questions[versions[v].question] # "absent"
  /\ members \subseteq Tenants
  /\ \A q \in Questions, r \in Requests :
       lock[q] = r <=> (At(r, "insert") /\ request[r].question = q)

(* The versions of a question are numbered 1 to n without gaps, each names *)
(* the one before it, and a restoration names an earlier one; also of      *)
(* versions added with whatever numbers and references their caller made   *)
(* up, while authors append to the same question.                          *)
VersionsFormChain ==
  \A q \in Questions :
    /\ {versions[v].number : v \in VersionsOf(q)} = 1 .. Cardinality(VersionsOf(q))
    /\ \A v \in VersionsOf(q) :
         LET row == versions[v]
         IN /\ IF row.number = 1 THEN row.previous = None
               ELSE /\ row.previous \in VersionsOf(q)
                    /\ versions[row.previous].number = row.number - 1
            /\ row.restoredFrom # None =>
                 /\ row.restoredFrom \in VersionsOf(q)
                 /\ versions[row.restoredFrom].number < row.number

(* Whatever the tables accepted can be read back, passes the domain's      *)
(* checks and is what was written.  A stored version that does not pass    *)
(* would make every later revision of its question throw.                  *)
VersionsAreReadable ==
  \A v \in Stored :
    /\ IsReadable(versions[v].rows)
    /\ ReadSnapshot(versions[v].rows) = written[v].snapshot

(* Once an author's call has the lock and has found its predecessor        *)
(* current, no constraint or trigger refuses its rows: the domain and the  *)
(* checks under the lock are at least as strict as the tables.             *)
LockedAppendsSucceed ==
  \A r \in Requests : At(r, "insert") /\ request[r].op # "add" => Storable(r)

(* What the domain accepts the tables accept, and what the tables accept   *)
(* the domain can read: neither check is looser than the other.            *)
TablesFitDomain == VersionsAreReadable /\ LockedAppendsSucceed

(* The authors' versions have one event each, which tells what the rows    *)
(* say and the tenant the question belongs to; nothing else is announced,  *)
(* whichever transactions failed.                                          *)
EventsMatchVersions ==
  /\ \A v \in Stored : written[v].op # "add" =>
       Cardinality({e \in events : e.version = v}) = 1
  /\ \A e \in events :
       /\ e.version \in Stored /\ written[e.version].op # "add"
       /\ e.tenant = questions[e.question]
       /\ \A field \in {"question", "number", "previous", "restoredFrom"} :
            e[field] = versions[e.version][field]

(* A transaction leaves everything or nothing: no lock, no event without   *)
(* its version and no version of an author without its event.              *)
TransactionsAreWhole == QuestionTypeOK /\ EventsMatchVersions

(* The tables keep the promise of QuestionHistory: versions are only       *)
(* added, each with its announcement in the same step, and a restored      *)
(* version has the content and the answers of its source, under other      *)
(* identifiers.  By VersionsAreReadable the content of a version is what   *)
(* it was made of.                                                         *)
Numbered(q, n) == CHOOSE v \in VersionsOf(q) : versions[v].number = n

Promise == INSTANCE QuestionHistory WITH
  history <- [q \in Questions |-> [n \in 1 .. Cardinality(VersionsOf(q)) |->
    written[Numbered(q, n)].content]],
  announced <- [q \in Questions |->
    {[version |-> e.number,
      restored |-> IF e.restoredFrom = None THEN 0 ELSE versions[e.restoredFrom].number] :
        e \in {event \in events : event.question = q}}]

KeepsPromise == Promise!Spec
=============================================================================
