----------------------- MODULE NotificationAggregation -----------------------
(***************************************************************************)
(* Aggregation: source events are added to the open group of their key,    *)
(* and every API instance polls for groups whose window has ended, claims  *)
(* each, builds one notification of its items, enqueues it like any other  *)
(* and marks the group.  Additions, the flushes of the instances and the   *)
(* intake of the source notifications overlap.                             *)
(***************************************************************************)
EXTENDS NotificationIntake

CONSTANTS
  Groups,        \* group keys: user, channel, category, key and locale
  Adders,        \* calls of addEvent that may overlap
  Instances,     \* API instances, each with a scheduler
  MaximumItems, WindowSeconds  \* the policy's configuration

ASSUME PolicyIsValid ==
  /\ MaximumItems \in Nat \ {0} /\ WindowSeconds \in Nat \ {0}
  /\ Instances \X {"digest"} \subseteq Lanes
  /\ Instances \cap Calls = {}
  /\ IsFiniteSet(Adders)
  /\ \A w \in Workloads : w.ticks \in Nat /\ \A it \in w.adds : it.group \in Groups

VARIABLES
  groups,  \* the rows of NotificationAggregation
  items,   \* the rows of NotificationAggregationItem
  add,     \* the addEvent in each slot
  flush,   \* the flush of each instance's scheduler
  now, additions

aggregationVars == <<groups, items, add, flush, now, additions>>
vars == <<intakeVars, aggregationVars>>

NoGroup == [status |-> "NONE", start |-> 0, count |-> 0]

Exists(g) == groups[g].status # "NONE"

WindowEnd(group) == group.start + WindowSeconds

-----------------------------------------------------------------------------
(* Adding a source event.                                                  *)

IsWithinWindow(at, start) == at >= start /\ at < start + WindowSeconds

CanAcceptItem(count) == count < MaximumItems

(* An event may have occurred before it is added.                          *)
BeginAdd(a) ==
  /\ add[a] = None /\ additions < workload.additions
  /\ \E it \in workload.adds, at \in 0..now :
       add' = [add EXCEPT ![a] = [step |-> "upsert", group |-> it.group,
                                  source |-> it.source, at |-> at, copy |-> NoGroup]]
  /\ additions' = additions + 1
  /\ UNCHANGED <<intakeVars, groups, items, flush, now>>

(* createGroupIfAbsent, and the policy on the row it returned.             *)
UpsertGroup(a) ==
  /\ add[a] # None /\ add[a].step = "upsert"
  /\ LET key == add[a].group
         group == IF Exists(key) THEN groups[key]
                  ELSE [status |-> "OPEN", start |-> add[a].at, count |-> 0]
     IN /\ groups' = [groups EXCEPT ![key] = group]
        /\ add' = [add EXCEPT ![a] =
             IF IsWithinWindow(add[a].at, group.start) /\ CanAcceptItem(group.count)
               THEN [add[a] EXCEPT !.step = "insert", !.copy = group] ELSE None]
  /\ UNCHANGED <<intakeVars, items, flush, now, additions>>

IsStored(a) == \E i \in items : i.group = add[a].group /\ i.source = add[a].source

NewItem(a) == [group |-> add[a].group, source |-> add[a].source,
               at |-> add[a].at, created |-> now]

(* Mutant: the count is written from the copy the caller read.              *)
StoreItemFromCopy(a) ==
  /\ items' = items \cup {NewItem(a)}
  /\ groups' = [groups EXCEPT ![add[a].group].count = add[a].copy.count + 1]

StoreItem(a) ==
  /\ items' = items \cup {NewItem(a)}
  /\ groups' = [groups EXCEPT ![add[a].group].count = @ + 1]

InsertItem(a) ==
  /\ add[a] # None /\ add[a].step = "insert"
  /\ \/ IsStored(a) /\ UNCHANGED <<groups, items>>
     \/ ~IsStored(a) /\ StoreItem(a)
  /\ add' = [add EXCEPT ![a] = None]
  /\ UNCHANGED <<intakeVars, flush, now, additions>>

(* A database call of the addition throws, or its instance dies.           *)
AddThrows(a) ==
  /\ add[a] # None
  /\ add' = [add EXCEPT ![a] = None]
  /\ UNCHANGED <<intakeVars, groups, items, flush, now, additions>>

-----------------------------------------------------------------------------
(* Polling and flushing.                                                   *)

NoFlush == [step |-> "idle", todo |-> {}, group |-> None, cutoff |-> 0, items |-> {}]

Lane(s) == <<s, "digest">>

(* Mutant: the whole last second of the window counts as ended.             *)
IsExpiredEarly(group, cutoff) == WindowEnd(group) <= cutoff + 1

IsExpired(group, cutoff) == WindowEnd(group) <= cutoff

Eligible(g, cutoff) == groups[g].status = "OPEN" /\ IsExpired(groups[g], cutoff)

(* The groups are tried in the order of their windows' ends.               *)
IsNext(s, g) ==
  /\ g \in flush[s].todo
  /\ \A h \in flush[s].todo : groups[g].start <= groups[h].start

(* The flush of the current group is over: on to the next, or to the next  *)
(* poll.                                                                   *)
NextClaim(s, todo) ==
  [NoFlush EXCEPT !.step = "claim", !.todo = todo, !.cutoff = flush[s].cutoff]

(* Mutant: the poll does not end.                                           *)
GoOnPolling(s, todo) == flush' = [flush EXCEPT ![s] = NextClaim(s, todo)]

GoOn(s, todo) ==
  flush' = [flush EXCEPT ![s] = IF todo = {} THEN NoFlush ELSE NextClaim(s, todo)]

GoTo(s, step) == flush' = [flush EXCEPT ![s].step = step]

FlushAt(s, step) == flush[s].step = step

Poll(s) ==
  /\ s \in workload.up /\ FlushAt(s, "idle")
  /\ LET found == {g \in Groups : Eligible(g, now)}
     IN /\ found # {}
        /\ flush' = [flush EXCEPT ![s] =
             [NoFlush EXCEPT !.step = "claim", !.todo = found, !.cutoff = now]]
  /\ UNCHANGED <<intakeVars, groups, items, add, now, additions>>

Claims(s, g) == Eligible(g, flush[s].cutoff)

SetStatus(g, status) == groups' = [groups EXCEPT ![g].status = status]

Claim(s) ==
  /\ FlushAt(s, "claim")
  /\ \E g \in Groups :
       /\ IsNext(s, g)
       /\ \/ /\ Claims(s, g)
             /\ SetStatus(g, "FLUSHING")
             /\ flush' = [flush EXCEPT ![s].step = "read", ![s].group = g,
                                       ![s].todo = @ \ {g}]
          \/ /\ ~Claims(s, g)
             /\ GoOn(s, flush[s].todo \ {g})
             /\ UNCHANGED groups
  /\ UNCHANGED <<intakeVars, items, add, now, additions>>

(* Mutant: the items of all groups.                                         *)
ListAllItems(g) == items

ListItems(g) == {i \in items : i.group = g}

ReadItems(s) ==
  /\ FlushAt(s, "read")
  /\ LET found == ListItems(flush[s].group)
     IN flush' = [flush EXCEPT ![s].items = found,
                               ![s].step = IF found = {} THEN "fail" ELSE "build"]
  /\ UNCHANGED <<intakeVars, groups, items, add, now, additions>>

DigestKey(g) == <<"aggregation", g>>

(* The prefix of a digest's key is left to digests by the clients' keys.   *)
ASSUME DigestKeysAreTheirOwn ==
  \A w \in Workloads :
    /\ \A req \in w.requests, ch \in Channels, g \in Groups :
         JobData(req, ch).key # DigestKey(g)
    /\ \A n \in w.seeded : n.of = {} /\ \A g \in Groups : n.key # DigestKey(g)

(* A source event is the notification of that identifier with its event;   *)
(* the builder combines those of the group's channel and recipient.        *)
Resolves(source) ==
  /\ source \notin workload.misfits
  /\ \E n \in notifications : n.id = source /\ \E v \in events : v.about = n.row

SourceRows(found) == {n \in notifications : \E i \in found : n.id = i.source}

(* The template data of those sources that were rendered.                  *)
DataOf(found) == {n.templateData : n \in SourceRows(found)} \ {None}

(* Mutant: whichever source's data comes first.                             *)
TakesAnyData(found) == TRUE

AgreesOnData(found) == \A d, e \in DataOf(found) : d = e

(* Literal sources do not count: one rendered source makes the digest one  *)
(* that the intake will render, with that source's data.                   *)
CommonData(found) ==
  IF DataOf(found) = {} THEN None ELSE CHOOSE d \in DataOf(found) : TRUE

Digest(g, found) == [id |-> DigestKey(g), key |-> DigestKey(g), of |-> found,
                    templateData |-> CommonData(found)]

(* Subjects and titles must agree as well; a rendered one is its version's. *)
TitlesMayDiffer(found) == \E n, m \in SourceRows(found) : n.version # m.version

Build(s) ==
  /\ FlushAt(s, "build")
  /\ \/ /\ \A i \in flush[s].items : Resolves(i.source)
        /\ AgreesOnData(flush[s].items)
        /\ lane' = [lane EXCEPT ![Lane(s)] =
             Started(Digest(flush[s].group, flush[s].items))]
        /\ GoTo(s, "enqueue")
     \/ /\ \/ \E i \in flush[s].items : ~Resolves(i.source)
           \/ ~AgreesOnData(flush[s].items)
           \/ TitlesMayDiffer(flush[s].items)
        /\ GoTo(s, "fail")
        /\ UNCHANGED lane
  /\ UNCHANGED <<tables, settings, submitted, failures, groups, items, add, now, additions>>

Enqueued(s) ==
  /\ FlushAt(s, "enqueue")
  /\ \/ At(Lane(s), "replied") /\ GoTo(s, "mark")
     \/ At(Lane(s), "failed") /\ GoTo(s, "fail")
  /\ lane' = [lane EXCEPT ![Lane(s)] = None]
  /\ UNCHANGED <<tables, settings, submitted, failures, groups, items, add, now, additions>>

MarkFlushed(s) ==
  /\ FlushAt(s, "mark")
  /\ SetStatus(flush[s].group, "FLUSHED")
  /\ GoOn(s, flush[s].todo)
  /\ UNCHANGED <<intakeVars, items, add, now, additions>>

MarkFailed(s) ==
  /\ FlushAt(s, "fail")
  /\ SetStatus(flush[s].group, "FAILED")
  /\ GoOn(s, flush[s].todo)
  /\ UNCHANGED <<intakeVars, items, add, now, additions>>

FlushStep(s) ==
  \/ Poll(s) \/ Claim(s) \/ ReadItems(s) \/ Build(s) \/ Enqueued(s)
  \/ MarkFlushed(s) \/ MarkFailed(s)

-----------------------------------------------------------------------------
(* A database call of the flush throws: in flush's try the group is marked *)
(* failed, a throw of the claim or of that marking is swallowed.           *)

MayHaveSet(g, status) == SetStatus(g, status) \/ UNCHANGED groups

ClaimThrows(s) ==
  /\ FlushAt(s, "claim")
  /\ \E g \in Groups :
       /\ IsNext(s, g)
       /\ GoOn(s, flush[s].todo \ {g})
       /\ \/ Claims(s, g) /\ SetStatus(g, "FLUSHING")
          \/ UNCHANGED groups

ReadThrows(s) ==
  /\ FlushAt(s, "read") \/ FlushAt(s, "build")
  /\ GoTo(s, "fail")
  /\ UNCHANGED groups

MarkThrows(s) ==
  \/ /\ FlushAt(s, "mark")
     /\ MayHaveSet(flush[s].group, "FLUSHED")
     /\ GoTo(s, "fail")
  \/ /\ FlushAt(s, "fail")
     /\ MayHaveSet(flush[s].group, "FAILED")
     /\ GoOn(s, flush[s].todo)

FlushThrows(s) ==
  /\ Fail
  /\ ClaimThrows(s) \/ ReadThrows(s) \/ MarkThrows(s)
  /\ UNCHANGED <<tables, lane, settings, submitted, items, add, now, additions>>

(* The instance dies and is started again: it polls anew.                  *)
Crash(s) ==
  /\ Fail
  /\ ~FlushAt(s, "idle")
  /\ flush' = [flush EXCEPT ![s] = NoFlush]
  /\ lane' = [lane EXCEPT ![Lane(s)] = None]
  /\ UNCHANGED <<tables, settings, submitted, groups, items, add, now, additions>>

Tick ==
  /\ now < workload.ticks
  /\ now' = now + 1
  /\ UNCHANGED <<intakeVars, groups, items, add, flush, additions>>

Init ==
  /\ IntakeInit
  /\ groups = [g \in Groups |-> NoGroup] /\ items = {}
  /\ add = [a \in Adders |-> None] /\ flush = [s \in Instances |-> NoFlush]
  /\ now = 0 /\ additions = 0

AddStep(a) == UpsertGroup(a) \/ InsertItem(a)

Next ==
  \/ IntakeNext /\ UNCHANGED aggregationVars
  \/ \E a \in Adders : BeginAdd(a) \/ AddStep(a) \/ AddThrows(a)
  \/ \E s \in Instances : FlushStep(s) \/ FlushThrows(s) \/ Crash(s)
  \/ Tick

Spec == Init /\ [][Next]_vars

(* A scheduler goes on polling, its flush and that flush's enqueue go on;   *)
(* the calls of the API's clients may stop anywhere, and time may stop.    *)
Scheduler(s) ==
  \/ FlushStep(s)
  \/ EnqueueStep(Lane(s)) /\ UNCHANGED aggregationVars

Fairness == \A s \in Instances : WF_vars(Scheduler(s))

FairSpec == Spec /\ Fairness

-----------------------------------------------------------------------------
GroupStatus == {"NONE", "OPEN", "FLUSHING", "FLUSHED", "FAILED"}

(* The types of the rows and of the calls in progress; a flush that claims *)
(* has a group left to claim.                                              *)
AggregationTypeOK ==
  /\ groups \in [Groups -> [status : GroupStatus, start : 0..workload.ticks, count : Nat]]
  /\ \A i \in items : i.group \in Groups /\ i.at \in 0..workload.ticks /\ i.created \in 0..workload.ticks
  /\ \A a \in Adders : add[a] # None =>
       /\ add[a].step \in {"upsert", "insert"} /\ add[a].group \in Groups
       /\ add[a].at \in 0..workload.ticks
  /\ \A s \in Instances :
       /\ flush[s].step \in {"idle", "claim", "read", "build", "enqueue", "mark", "fail"}
       /\ FlushAt(s, "claim") => flush[s].todo # {}
       /\ flush[s].todo \subseteq Groups /\ flush[s].cutoff \in 0..now
       /\ ~FlushAt(s, "idle") /\ ~FlushAt(s, "claim") => flush[s].group \in Groups
  /\ now \in 0..workload.ticks
  /\ template.status \in TemplateStatus \cup {"ABSENT"}

(* Overlapping additions keep a group's count the number of its items, and *)
(* no source event is in a group twice (addItem).                          *)
CountsAgree ==
  \A g \in Groups :
    /\ groups[g].count = Cardinality({i \in items : i.group = g})
    /\ \A i, j \in items : i.group = g /\ j.group = g /\ i.source = j.source => i = j

(* Every item occurred in its group's window, whichever of the overlapping *)
(* additions created the group (isWithinWindow on the row returned by the  *)
(* upsert).                                                                *)
ItemsFallInWindow ==
  \A i \in items : /\ Exists(i.group)
                   /\ i.at >= groups[i.group].start /\ i.at < WindowEnd(groups[i.group])

(* The maximum is checked on a copy, so overlapping additions can exceed   *)
(* it: by what can overlap and no more.                                    *)
OverrunIsBounded ==
  \A g \in Groups : groups[g].count < MaximumItems + Cardinality(Adders)

Holds(s, g) == flush[s].group = g /\ flush[s].group # None

(* Two instances never flush the same group, whatever snapshots they took; *)
(* a group that an instance is flushing is not open to additions of a new  *)
(* poll (claimExpiredForFlushing).                                         *)
OneFlusher ==
  \A g \in Groups : \A s, t \in Instances :
    Holds(s, g) /\ Holds(t, g) => s = t

(* Additions, polls and flushes that overlap leave a group with a true     *)
(* count, with items of its window, not much too large, and with one       *)
(* instance that flushes it.                                               *)
GroupsAreSound ==
  /\ AggregationTypeOK
  /\ CountsAgree /\ ItemsFallInWindow /\ OverrunIsBounded
  /\ OneFlusher

Digests(g) == {n \in notifications : \E i \in n.of : i.group = g}

SourceHas(i, d) == \E n \in notifications : n.id = i.source /\ n.templateData = d

(* The text of a digest is that of its items, joined; but a digest that is *)
(* rendered has the template's text in its place, with the data of its     *)
(* rendered items.                                                         *)
Shows(n, i) == i \in n.of /\ SourceHas(i, n.templateData)

(* A literal item loses its place to the rendering of another item.        *)
IsDisplaced(n, i) ==
  /\ n.templateData # None
  /\ i \in n.of /\ SourceHas(i, None)
  /\ \E j \in n.of : Shows(n, j)

(* A flushed group has its notification, made of items of that group only; *)
(* and every item that was stored before the window ended is in its text,  *)
(* however the additions and the claim raced: unless that item is literal  *)
(* and in one group with a rendered one, whose rendering replaces the text *)
(* (build and resolveTemplate).                                            *)
TimelyItemsAreSent ==
  \A g \in Groups : groups[g].status = "FLUSHED" =>
    \E n \in Digests(g) :
      /\ \A i \in n.of : i \in items /\ i.group = g
      /\ \A i \in items :
           i.group = g /\ i.created < WindowEnd(groups[g]) => Shows(n, i) \/ IsDisplaced(n, i)

Sources == {it.source : it \in UNION {w.adds : w \in Workloads}}

SourcesIn(found, g) == {i.source : i \in {j \in found : j.group = g}}

Promise == INSTANCE NotificationDigest WITH
  collected <- [g \in Groups |-> SourcesIn(items, g)],
  sent <- [g \in Groups |-> SourcesIn(UNION {n.of : n \in notifications}, g)]

(* Aggregation implements what NotificationDigest promises: one digest of  *)
(* a group, of items the group had, whatever the flushes, their failures   *)
(* and the intake do.                                                      *)
KeepsPromise == Promise!Spec

(* A group whose window has ended does not stay open, whatever flushes     *)
(* fail and instances die: again and again no such group is left.          *)
ExpiredGroupsAreClaimed == []<>(\A g \in Groups : ~Eligible(g, now))
=============================================================================
