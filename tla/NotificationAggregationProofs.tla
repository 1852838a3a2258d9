--------------------- MODULE NotificationAggregationProofs ---------------------
(***************************************************************************)
(* Proofs about the templates, the intake and the aggregation of           *)
(* notifications, for any calls, instances, groups and versions.           *)
(***************************************************************************)
EXTENDS NotificationAggregation, FiniteSetTheorems, TLAPS

(* Templates: a transaction about to commit has published its version.      *)
VersionStatus == {"ABSENT", "DRAFT", "PUBLISHED", "ARCHIVED"}

EditRow ==
  [op : {"create", "createVersion", "publish", "updateStatus"},
   to : {0} \cup TemplateVersions \cup TemplateStatus,
   step : {"read", "write", "archive", "mark", "commit"},
   snapshot : SUBSET TemplateVersions, archived : SUBSET TemplateVersions,
   published : SUBSET TemplateVersions]

EditOK(q) ==
  q # None => /\ q \in EditRow /\ [op |-> q.op, to |-> q.to] \in EditCalls
              /\ q.step \in {"archive", "mark", "commit"} => q.op = "publish"
              /\ q.step = "commit" => q.published = {q.to}

TemplateInv ==
  /\ template \in TemplateRow /\ versions \in [TemplateVersions -> VersionStatus]
  /\ DOMAIN edit = Authors /\ \A c \in Authors : EditOK(edit[c])
  /\ offers \in Seq(Nat) /\ offers # <<>> /\ Last(offers) = OnOffer
  /\ workload \in Workloads
  /\ CurrentStaysPublished

(* Intake: the rows are stored together, and a version a lane has found was *)
(* on offer since the lane started.                                        *)
Offered(os, since, v) == \E i \in since..Len(os) : os[i] = v

ItemRow == [group : Groups, source : Sources, at : Nat, created : Nat]

ClientJobs == {JobData(req, ch) : req \in UNION {w.requests : w \in Workloads},
                                  ch \in Channels}
TextData == {None} \cup {n.templateData : n \in UNION {w.seeded : w \in Workloads}}
            \cup {req.templateData : req \in UNION {w.requests : w \in Workloads}}

DigestJobs == [id : {DigestKey(g) : g \in Groups}, key : {DigestKey(g) : g \in Groups},
               of : SUBSET ItemRow, templateData : TextData]

Jobs == ClientJobs \cup DigestJobs

LaneRow ==
  [step : {"template", "versions", "find", "create", "recheck"} \cup Ended,
   data : Jobs, row : Nat, event : {"unknown", "found"}, parent : TemplateRow,
   version : {0} \cup TemplateVersions, since : Nat]

(* The lane q when vs, os and ns are versions, offers and notifications.    *)
LaneFine(q, vs, os, ns) ==
  q # None =>
    /\ q \in LaneRow /\ q.since \in 1..Len(os)
    /\ /\ q.step = "versions" /\ q.parent.status = "PUBLISHED"
       /\ q.parent.current \in TemplateVersions /\ vs[q.parent.current] = "PUBLISHED"
       => Offered(os, q.since, q.parent.current)
    /\ q.step \notin Ended /\ q.version # 0 => Offered(os, q.since, q.version)
    /\ q.step = "replied" =>
         /\ \E n \in ns : n.row = q.row /\ n.key = q.data.key
         /\ q.event = "found"

LaneOK(q) == LaneFine(q, versions, offers, notifications)

EventOf(n) == [about |-> n.row, dedupe |-> n.key]

TablesOK ==
  /\ IsFiniteSet(notifications) /\ \A n \in notifications : n.row \in Nat
  /\ events = {EventOf(n) : n \in notifications}
  /\ OneNotificationPerKey
  /\ \A n \in notifications :
       n.templateData \in TextData /\ (n.version # 0 => n.version \in Range(offers))

IntakeInv ==
  /\ DOMAIN lane = Lanes /\ \A e \in Lanes : LaneOK(lane[e])
  /\ TablesOK

-----------------------------------------------------------------------------
(* Templates.                                                              *)

LEMMA OnOfferIsANumber == OnOffer \in Nat
  BY TemplatesAreTyped DEF OnOffer, OfferOf

LEMMA InitTemplates == workload \in Workloads /\ TemplateInit => TemplateInv
  <1> SUFFICES ASSUME workload \in Workloads, TemplateInit PROVE TemplateInv
    OBVIOUS
  <1>1. /\ template \in TemplateRow /\ versions \in [TemplateVersions -> VersionStatus]
        /\ CurrentStaysPublished
    BY TemplatesAreTyped DEF TemplateInit, VersionStatus, CurrentStaysPublished
  <1>2. offers = <<OnOffer>> /\ offers \in Seq(Nat) /\ Last(offers) = OnOffer
    BY OnOfferIsANumber DEF TemplateInit, Last
  <1>3. \A c \in Authors : edit[c] = None
    BY DEF TemplateInit
  <1> QED
    BY <1>1, <1>2, <1>3 DEF TemplateInit, TemplateInv, EditOK

(* What an editing step may do to the versions on offer: an offer stays on *)
(* record, and a version that has become published is the latest of them.  *)
Kept(vs, os, vs2, os2) ==
  /\ os \in Seq(Nat) /\ os2 \in Seq(Nat) /\ Len(os) <= Len(os2)
  /\ \A i \in 1..Len(os) : os2[i] = os[i]
  /\ \A v \in TemplateVersions :
       vs2[v] = "PUBLISHED" /\ vs[v] # "PUBLISHED" => os2[Len(os2)] = v

OffersKept == Kept(versions, offers, versions', offers')

LEMMA StaysTheSame ==
  ASSUME TemplateInv, UNCHANGED <<versions, offers>>
  PROVE  OffersKept
  BY DEF OffersKept, Kept, TemplateInv

LEMMA OffersGrow ==
  ASSUME TemplateInv, Offers
  PROVE  /\ offers' \in Seq(Nat) /\ offers' # <<>> /\ Last(offers') = OnOffer'
         /\ Len(offers) <= Len(offers') /\ \A i \in 1..Len(offers) : offers'[i] = offers[i]
  <1>1. OnOffer' \in Nat /\ offers \in Seq(Nat) /\ offers # <<>>
    <2>1. OnOffer' \in Nat
      BY TemplatesAreTyped DEF OnOffer, OfferOf
    <2> QED
      BY <2>1 DEF TemplateInv
  <1>2. CASE OnOffer' = Last(offers)
    BY <1>1, <1>2 DEF Offers
  <1>3. CASE OnOffer' # Last(offers)
    <2>1. offers' = Append(offers, OnOffer')
      BY <1>3 DEF Offers
    <2> HIDE DEF OnOffer
    <2> QED
      BY <1>1, <2>1 DEF Last
  <1> QED
    BY <1>2, <1>3

LEMMA EditQuiet ==
  ASSUME TemplateInv, NEW c \in Authors, NEW next, EditOK(next),
         edit' = [edit EXCEPT ![c] = next], UNCHANGED <<template, versions, offers, workload>>
  PROVE  TemplateInv' /\ OffersKept
  <1>1. \A d \in Authors : EditOK(edit'[d])
    BY DEF TemplateInv
  <1>2. OnOffer' = OnOffer
    BY DEF OnOffer
  <1> QED
    BY <1>1, <1>2, StaysTheSame
       DEF TemplateInv, EditOK, CurrentStaysPublished, WasPublished, CurrentIsPublished

LEMMA BeginEditKeeps ==
  ASSUME TemplateInv, NEW c \in Authors, BeginEdit(c)
  PROVE  TemplateInv' /\ OffersKept
  <1>1. PICK call \in workload.edits :
          edit' = [edit EXCEPT ![c] =
            [op |-> call.op, to |-> call.to, step |-> "read", snapshot |-> {},
             archived |-> {}, published |-> {}]]
    BY DEF BeginEdit
  <1> DEFINE next == [op |-> call.op, to |-> call.to, step |-> "read", snapshot |-> {},
                      archived |-> {}, published |-> {}]
  <1>2. call \in EditCalls
    BY TemplatesAreTyped DEF TemplateInv
  <1>3. next \in EditRow /\ [op |-> next.op, to |-> next.to] \in EditCalls
    BY <1>2 DEF EditCalls, EditRow
  <1>4. EditOK(next)
    BY <1>3 DEF EditOK
  <1> HIDE DEF next
  <1>5. edit' = [edit EXCEPT ![c] = next]
    BY <1>1 DEF next
  <1> QED
    BY <1>4, <1>5, EditQuiet DEF BeginEdit

LEMMA NoCall == EditOK(None)
  BY DEF EditOK

LEMMA ReadTemplateKeeps ==
  ASSUME TemplateInv, NEW c \in Authors, ReadTemplate(c)
  PROVE  TemplateInv' /\ OffersKept
  <1> DEFINE next == IF Allowed(edit[c]) THEN [edit[c] EXCEPT !.step = "write"] ELSE None
  <1>1. edit[c] # None /\ edit[c].step = "read"
        /\ edit' = [edit EXCEPT ![c] = IF Allowed(edit[c])
                                       THEN [edit[c] EXCEPT !.step = "write"] ELSE None]
    BY DEF ReadTemplate, EditAt, TemplateInv
  <1>2. EditOK(edit[c]) /\ edit[c] \in EditRow
    BY <1>1 DEF TemplateInv, EditOK
  <1>3. EditOK([edit[c] EXCEPT !.step = "write"])
    BY <1>1, <1>2 DEF EditOK, EditRow
  <1>4. EditOK(next)
    BY <1>3, NoCall
  <1> HIDE DEF next
  <1>5. edit' = [edit EXCEPT ![c] = next]
    BY <1>1 DEF next
  <1> QED
    BY <1>4, <1>5, EditQuiet DEF ReadTemplate

LEMMA FindPublishedKeeps ==
  ASSUME TemplateInv, NEW c \in Authors, FindPublished(c)
  PROVE  TemplateInv' /\ OffersKept
  <1> DEFINE found == {v \in TemplateVersions : versions[v] = "PUBLISHED"}
             next == [edit[c] EXCEPT !.step = "archive", !.snapshot = found]
  <1>1. edit[c] # None /\ edit[c].op = "publish" /\ edit' = [edit EXCEPT ![c] = next]
    BY DEF FindPublished, EditAt, TemplateInv
  <1>2. EditOK(edit[c]) /\ edit[c] \in EditRow
    BY <1>1 DEF TemplateInv, EditOK
  <1>3. EditOK(next)
    <2>1. found \in SUBSET TemplateVersions
      OBVIOUS
    <2> HIDE DEF found
    <2>2. next \in EditRow /\ next.op = edit[c].op /\ next.to = edit[c].to
          /\ next.step = "archive"
      BY <1>2, <2>1 DEF EditRow
    <2> HIDE DEF next
    <2> QED
      BY <1>1, <1>2, <2>2 DEF EditOK
  <1> HIDE DEF next
  <1> QED
    BY <1>1, <1>3, EditQuiet DEF FindPublished

LEMMA ArchivePublishedKeeps ==
  ASSUME TemplateInv, NEW c \in Authors, ArchivePublished(c)
  PROVE  TemplateInv' /\ OffersKept
  <1> DEFINE found == {v \in edit[c].snapshot : versions[v] = "PUBLISHED"}
             next == [edit[c] EXCEPT !.step = "mark", !.archived = found]
  <1>1. edit[c] # None /\ edit[c].step = "archive" /\ edit' = [edit EXCEPT ![c] = next]
    BY DEF ArchivePublished, EditAt, TemplateInv
  <1>2. EditOK(edit[c]) /\ edit[c] \in EditRow /\ edit[c].op = "publish"
    BY <1>1 DEF TemplateInv, EditOK
  <1>3. EditOK(next)
    <2>1. found \in SUBSET TemplateVersions
      BY <1>2 DEF EditRow
    <2> HIDE DEF found
    <2>2. next \in EditRow /\ next.op = edit[c].op /\ next.to = edit[c].to
          /\ next.step = "mark"
      BY <1>2, <2>1 DEF EditRow
    <2> HIDE DEF next
    <2> QED
      BY <1>1, <1>2, <2>2 DEF EditOK
  <1> HIDE DEF next
  <1> QED
    BY <1>1, <1>3, EditQuiet DEF ArchivePublished

LEMMA MarkPublishedKeeps ==
  ASSUME TemplateInv, NEW c \in Authors, MarkPublished(c)
  PROVE  TemplateInv' /\ OffersKept
  <1> DEFINE next == [edit[c] EXCEPT !.step = "commit",
                        !.archived = edit[c].archived \ {edit[c].to},
                        !.published = {edit[c].to}]
  <1>1. edit[c] # None /\ edit[c].step = "mark" /\ edit' = [edit EXCEPT ![c] = next]
    BY DEF MarkPublished, EditAt, TemplateInv
  <1>2. EditOK(edit[c]) /\ edit[c] \in EditRow /\ edit[c].op = "publish"
    BY <1>1 DEF TemplateInv, EditOK
  <1>3. edit[c].to \in TemplateVersions
    BY <1>1, <1>2 DEF EditOK, EditCalls
  <1>4. next \in EditRow /\ next.op = edit[c].op /\ next.to = edit[c].to
        /\ next.step = "commit" /\ next.published = {edit[c].to}
    BY <1>2, <1>3 DEF EditRow
  <1> HIDE DEF next
  <1>5. EditOK(next)
    BY <1>1, <1>2, <1>4 DEF EditOK
  <1> QED
    BY <1>1, <1>5, EditQuiet DEF MarkPublished

LEMMA EditFailsKeeps ==
  ASSUME TemplateInv, NEW c \in Authors, EditFails(c)
  PROVE  TemplateInv' /\ OffersKept
  BY NoCall, EditQuiet DEF EditFails

(* The steps that change the rows end the call.                             *)
LEMMA EditEnds ==
  ASSUME TemplateInv, NEW c \in Authors, edit' = [edit EXCEPT ![c] = None], Offers,
         template' \in TemplateRow, versions' \in [TemplateVersions -> VersionStatus],
         UNCHANGED workload, CurrentStaysPublished',
         \A v \in TemplateVersions :
           versions'[v] = "PUBLISHED" /\ versions[v] # "PUBLISHED" =>
             template' = [status |-> "PUBLISHED", current |-> v]
  PROVE  TemplateInv' /\ OffersKept
  <1>1. \A d \in Authors : EditOK(edit'[d])
    BY NoCall DEF TemplateInv
  <1>2. /\ offers' \in Seq(Nat) /\ offers' # <<>> /\ Last(offers') = OnOffer'
        /\ Len(offers) <= Len(offers') /\ \A i \in 1..Len(offers) : offers'[i] = offers[i]
    BY OffersGrow
  <1>3. TemplateInv'
    BY <1>1, <1>2 DEF TemplateInv, EditOK
  <1>4. ASSUME NEW v \in TemplateVersions,
               versions'[v] = "PUBLISHED", versions[v] # "PUBLISHED"
        PROVE  offers'[Len(offers')] = v
    <2>1. template'.status = "PUBLISHED" /\ template'.current = v
      BY <1>4
    <2>2. OnOffer' = v
      BY <1>4, <2>1 DEF OnOffer, OfferOf
    <2> QED
      BY <1>2, <2>2 DEF Last
  <1> QED
    BY <1>2, <1>3, <1>4 DEF OffersKept, Kept, TemplateInv

LEMMA WriteKeeps ==
  ASSUME TemplateInv, NEW c \in Authors, Write(c)
  PROVE  TemplateInv' /\ OffersKept
  <1> DEFINE call == edit[c]
  <1>1. /\ call # None /\ call.op # "publish"
        /\ template' = CASE call.op = "create" /\ template = NoTemplate ->
                              [status |-> "DRAFT", current |-> 1]
                         [] call.op = "updateStatus" -> [template EXCEPT !.status = call.to]
                         [] OTHER -> template
        /\ versions' = IF call.op = "createVersion" /\ versions[call.to] = "ABSENT"
                         THEN [versions EXCEPT ![call.to] = "DRAFT"] ELSE versions
        /\ edit' = [edit EXCEPT ![c] = None] /\ Offers /\ UNCHANGED <<edited, workload>>
    BY DEF Write, EditAt
  <1>2. call \in EditRow /\ [op |-> call.op, to |-> call.to] \in EditCalls
    BY <1>1 DEF TemplateInv, EditOK
  <1>3. /\ call.op = "createVersion" => call.to \in TemplateVersions
        /\ call.op = "updateStatus" => call.to \in TemplateStatus
    BY <1>2 DEF EditCalls
  <1>4. /\ template \in TemplateRow /\ versions \in [TemplateVersions -> VersionStatus]
        /\ CurrentStaysPublished
    BY DEF TemplateInv
  <1>5. template' \in TemplateRow
    BY <1>1, <1>3, <1>4 DEF TemplateRow, TemplateStatus
  <1>6. versions' \in [TemplateVersions -> VersionStatus]
    BY <1>1, <1>3, <1>4 DEF VersionStatus
  <1>7. \A v \in TemplateVersions :
          versions'[v] = versions[v] \/ (versions[v] = "ABSENT" /\ versions'[v] = "DRAFT")
    BY <1>1, <1>3, <1>4
  <1>8. template'.current = template.current \/ template = NoTemplate
    BY <1>1, <1>4 DEF TemplateRow
  <1>9. CurrentStaysPublished'
    <2> SUFFICES ASSUME NEW v \in TemplateVersions, versions'[v] \in {"PUBLISHED", "ARCHIVED"}
                 PROVE  /\ template'.current \in TemplateVersions
                        /\ versions'[template'.current] = "PUBLISHED"
      BY DEF CurrentStaysPublished, WasPublished, CurrentIsPublished
    <2>1. template.current \in TemplateVersions /\ versions[template.current] = "PUBLISHED"
      BY <1>4, <1>7 DEF CurrentStaysPublished, WasPublished, CurrentIsPublished
    <2>2. template'.current = template.current
      BY <1>8, <2>1, TemplatesAreTyped DEF NoTemplate
    <2> QED
      BY <1>7, <2>1, <2>2
  <1> QED
    BY <1>1, <1>5, <1>6, <1>7, <1>9, EditEnds

LEMMA CommitPublicationKeeps ==
  ASSUME TemplateInv, NEW c \in Authors, CommitPublication(c)
  PROVE  TemplateInv' /\ OffersKept
  <1> DEFINE call == edit[c]
  <1>1. /\ call # None /\ call.step = "commit"
        /\ template' = [status |-> "PUBLISHED", current |-> call.to]
        /\ versions' = [v \in TemplateVersions |->
             IF v \in call.published THEN "PUBLISHED"
             ELSE IF v \in call.archived THEN "ARCHIVED" ELSE versions[v]]
        /\ edit' = [edit EXCEPT ![c] = None] /\ Offers /\ UNCHANGED <<edited, workload>>
    BY DEF CommitPublication, EditAt
  <1>2. /\ call.published = {call.to} /\ call.op = "publish"
        /\ [op |-> call.op, to |-> call.to] \in EditCalls
    BY <1>1 DEF TemplateInv, EditOK
  <1>3. call.to \in TemplateVersions
    BY <1>2 DEF EditCalls
  <1>4. template' \in TemplateRow
    BY <1>1, <1>3, TemplatesAreTyped DEF TemplateRow, TemplateStatus
  <1>5. versions' \in [TemplateVersions -> VersionStatus] /\ versions'[call.to] = "PUBLISHED"
    BY <1>1, <1>2, <1>3 DEF TemplateInv, VersionStatus
  <1>6. CurrentStaysPublished'
    BY <1>1, <1>3, <1>5 DEF CurrentStaysPublished, CurrentIsPublished
  <1>7. \A v \in TemplateVersions :
          versions'[v] = "PUBLISHED" /\ versions[v] # "PUBLISHED" =>
            template' = [status |-> "PUBLISHED", current |-> v]
    BY <1>1, <1>2
  <1> QED
    BY <1>1, <1>4, <1>5, <1>6, <1>7, EditEnds

LEMMA EditKeeps ==
  ASSUME TemplateInv, NEW c \in Authors, EditStep(c)
  PROVE  TemplateInv' /\ OffersKept
  BY BeginEditKeeps, ReadTemplateKeeps, WriteKeeps, FindPublishedKeeps,
     ArchivePublishedKeeps, MarkPublishedKeeps, CommitPublicationKeeps, EditFailsKeeps
     DEF EditStep

LEMMA SettingsStay ==
  ASSUME TemplateInv, UNCHANGED settings
  PROVE  TemplateInv' /\ OffersKept
  <1>1. UNCHANGED <<template, versions, edit, offers, workload>>
    BY DEF settings, templateVars
  <1>2. OnOffer' = OnOffer
    BY <1>1 DEF OnOffer
  <1> QED
    BY <1>1, <1>2, StaysTheSame
       DEF TemplateInv, EditOK, CurrentStaysPublished, WasPublished, CurrentIsPublished

-----------------------------------------------------------------------------
(* Intake.                                                                 *)

LEMMA LaneKept ==
  ASSUME NEW q, NEW vs, NEW os, NEW ns, NEW vs2, NEW os2, NEW ns2,
         LaneFine(q, vs, os, ns), Kept(vs, os, vs2, os2), ns \subseteq ns2
  PROVE  LaneFine(q, vs2, os2, ns2)
  <1> SUFFICES ASSUME q # None PROVE LaneFine(q, vs2, os2, ns2)
    BY DEF LaneFine
  <1>1. /\ q \in LaneRow /\ q.since \in 1..Len(os) /\ Len(os) \in Nat /\ Len(os2) \in Nat
        /\ Len(os) <= Len(os2) /\ q.since \in 1..Len(os2)
    BY DEF LaneFine, Kept
  <1>2. ASSUME NEW v, Offered(os, q.since, v) PROVE Offered(os2, q.since, v)
    <2>1. PICK i \in q.since..Len(os) : os[i] = v
      BY <1>2 DEF Offered
    <2>2. i \in q.since..Len(os2) /\ i \in 1..Len(os)
      BY <1>1
    <2> QED
      BY <2>1, <2>2 DEF Offered, Kept
  <1>3. ASSUME q.step = "versions", q.parent.status = "PUBLISHED",
               q.parent.current \in TemplateVersions, vs2[q.parent.current] = "PUBLISHED"
        PROVE  Offered(os2, q.since, q.parent.current)
    <2>1. CASE vs[q.parent.current] = "PUBLISHED"
      BY <1>2, <1>3, <2>1 DEF LaneFine
    <2>2. CASE vs[q.parent.current] # "PUBLISHED"
      <3>1. os2[Len(os2)] = q.parent.current /\ Len(os2) \in q.since..Len(os2)
        BY <1>1, <1>3, <2>2 DEF Kept
      <3> QED
        BY <3>1 DEF Offered
    <2> QED
      BY <2>1, <2>2
  <1> QED
    BY <1>1, <1>2, <1>3 DEF LaneFine

(* Steps of the lanes that write no row.                                    *)
LEMMA LanesStep ==
  ASSUME TemplateInv, IntakeInv, UNCHANGED <<tables, settings>>, DOMAIN lane' = Lanes,
         \A e \in Lanes : LaneFine(lane'[e], versions, offers, notifications)
  PROVE  TemplateInv' /\ IntakeInv'
  <1>1. TemplateInv'
    BY SettingsStay
  <1>2. /\ versions' = versions /\ offers' = offers /\ notifications' = notifications
        /\ events' = events
    BY DEF tables, settings, templateVars
  <1>3. \A e \in Lanes : LaneOK(lane[e])'
    BY <1>2 DEF LaneOK
  <1>4. TablesOK'
    BY <1>2 DEF IntakeInv, TablesOK, OneNotificationPerKey
  <1> QED
    BY <1>1, <1>3, <1>4 DEF IntakeInv

LEMMA LaneStep ==
  ASSUME TemplateInv, IntakeInv, UNCHANGED <<tables, settings>>, NEW e \in Lanes, NEW next,
         lane' = [lane EXCEPT ![e] = next], LaneOK(next)
  PROVE  TemplateInv' /\ IntakeInv'
  <1>1. DOMAIN lane' = Lanes /\ \A f \in Lanes : lane'[f] = IF f = e THEN next ELSE lane[f]
    BY DEF IntakeInv
  <1>2. \A f \in Lanes : LaneFine(lane'[f], versions, offers, notifications)
    BY <1>1 DEF IntakeInv, LaneOK
  <1> QED
    BY <1>1, <1>2, LanesStep

LEMMA AtLane ==
  ASSUME IntakeInv, NEW e \in Lanes, lane[e] # None
  PROVE  /\ lane[e] \in LaneRow /\ LaneOK(lane[e]) /\ lane[e].since \in 1..Len(offers)
         /\ lane[e].step \notin Ended /\ lane[e].version # 0 =>
              Offered(offers, lane[e].since, lane[e].version)
  BY DEF IntakeInv, LaneOK, LaneFine

LEMMA StartedIsFine ==
  ASSUME TemplateInv, NEW data \in Jobs
  PROVE  LaneOK(Started(data))
  <1>1. Len(offers) \in Nat /\ Len(offers) >= 1
    BY DEF TemplateInv
  <1>2. NoTemplate \in TemplateRow
    BY DEF NoTemplate, TemplateRow
  <1> DEFINE next == Started(data)
  <1>3. /\ next \in LaneRow /\ next.since = Len(offers) /\ next.version = 0
        /\ next.step \in {"template", "find"}
    BY <1>1, <1>2 DEF Started, LaneRow
  <1> HIDE DEF next
  <1>4. LaneOK(next)
    BY <1>1, <1>3 DEF LaneOK, LaneFine, Ended
  <1> QED
    BY <1>4 DEF next

LEMMA NoLane == LaneOK(None)
  BY DEF LaneOK, LaneFine

(* What the steps do to the jobs of the lanes and to the rows.              *)
JobKept(e) ==
  lane'[e] # None =>
    \/ lane[e] # None /\ lane'[e].data = lane[e].data
    \/ e \in Calls \X Channels /\ lane'[e].data \in ClientJobs

RowAdded(e) ==
  /\ lane[e] # None /\ Accepted(e) /\ NewRow(e).row \in Nat
  /\ notifications' = notifications \cup {NewRow(e)}

RowsAdded == notifications' = notifications \/ \E e \in Lanes : RowAdded(e)

JobsKept == \A e \in Lanes : JobKept(e)

LEMMA SubmitKeeps ==
  ASSUME TemplateInv, IntakeInv, NEW c \in Calls, Submit(c)
  PROVE  TemplateInv' /\ IntakeInv' /\ JobsKept /\ RowsAdded
  <1>1. PICK req \in workload.requests :
          lane' = [e \in Lanes |-> IF \E ch \in req.channels : e = <<c, ch>>
                                     THEN Started(JobData(req, e[2])) ELSE lane[e]]
    BY DEF Submit
  <1>2. req.channels \subseteq Channels /\ req \in UNION {w.requests : w \in Workloads}
    BY RequestsAreTyped DEF TemplateInv
  <1>3. ASSUME NEW e \in Lanes
        PROVE  LaneFine(lane'[e], versions, offers, notifications) /\ JobKept(e)
    <2>1. CASE \E ch \in req.channels : e = <<c, ch>>
      <3>1. PICK ch \in Channels : e = <<c, ch>>
        BY <1>2, <2>1
      <3>2. JobData(req, ch) \in ClientJobs /\ JobData(req, ch) \in Jobs
        BY <1>2 DEF ClientJobs, Jobs
      <3>3. lane'[e] = Started(JobData(req, ch))
        BY <1>1, <2>1, <3>1
      <3>4. LaneOK(Started(JobData(req, ch)))
        BY <3>2, StartedIsFine
      <3>5. lane'[e].data = JobData(req, ch)
        BY <3>3 DEF Started
      <3> QED
        BY <3>1, <3>2, <3>3, <3>4, <3>5 DEF JobKept, LaneOK
    <2>2. CASE ~\E ch \in req.channels : e = <<c, ch>>
      <3>1. lane'[e] = lane[e]
        BY <1>1, <2>2
      <3> QED
        BY <3>1 DEF IntakeInv, LaneOK, JobKept
    <2> QED
      BY <2>1, <2>2
  <1>4. DOMAIN lane' = Lanes /\ UNCHANGED <<tables, settings>>
    BY <1>1 DEF Submit
  <1> QED
    BY <1>3, <1>4, LanesStep DEF JobsKept, RowsAdded, tables

LEMMA EndCallKeeps ==
  ASSUME TemplateInv, IntakeInv, NEW c \in Calls, EndCall(c)
  PROVE  TemplateInv' /\ IntakeInv' /\ JobsKept /\ RowsAdded
  <1>1. /\ DOMAIN lane' = Lanes /\ UNCHANGED <<tables, settings>>
        /\ \A e \in Lanes : lane'[e] = None \/ lane'[e] = lane[e]
    BY DEF EndCall
  <1>2. \A e \in Lanes : LaneFine(lane'[e], versions, offers, notifications) /\ JobKept(e)
    BY <1>1, NoLane DEF IntakeInv, LaneOK, JobKept
  <1> QED
    BY <1>1, <1>2, LanesStep DEF JobsKept, RowsAdded, tables

(* A step of one lane that goes on with its job and writes nothing.         *)
LEMMA LaneGoesOn ==
  ASSUME TemplateInv, IntakeInv, UNCHANGED <<tables, settings>>, NEW e \in Lanes, NEW next,
         lane' = [lane EXCEPT ![e] = next], LaneOK(next), lane[e] # None,
         next.data = lane[e].data
  PROVE  TemplateInv' /\ IntakeInv' /\ JobsKept /\ RowsAdded
  <1>1. \A f \in Lanes : lane'[f] = IF f = e THEN next ELSE lane[f]
    BY DEF IntakeInv
  <1>2. JobsKept
    BY <1>1 DEF JobsKept, JobKept
  <1> QED
    BY <1>2, LaneStep DEF RowsAdded, tables

LEMMA ResolveTemplateKeeps ==
  ASSUME TemplateInv, IntakeInv, NEW e \in Lanes, ResolveTemplate(e)
  PROVE  TemplateInv' /\ IntakeInv' /\ JobsKept /\ RowsAdded
  <1> DEFINE q == lane[e]
             next == [q EXCEPT !.step = "versions", !.parent = template]
  <1>1. q # None /\ q.step = "template" /\ lane' = [lane EXCEPT ![e] = next]
        /\ UNCHANGED <<tables, settings>>
    BY DEF ResolveTemplate, At, IntakeInv
  <1>2. q \in LaneRow /\ q.since \in 1..Len(offers)
        /\ (q.version # 0 => Offered(offers, q.since, q.version))
    BY <1>1, AtLane DEF Ended
  <1>3. /\ next \in LaneRow /\ next.since = q.since /\ next.step = "versions"
        /\ next.parent = template /\ next.version = q.version /\ next.data = q.data
    BY <1>2 DEF LaneRow, TemplateInv
  <1>4. template.status = "PUBLISHED" /\ template.current \in TemplateVersions
        /\ versions[template.current] = "PUBLISHED"
        => Offered(offers, q.since, template.current)
    <2> SUFFICES ASSUME template.status = "PUBLISHED", template.current \in TemplateVersions,
                        versions[template.current] = "PUBLISHED"
                 PROVE  Offered(offers, q.since, template.current)
      OBVIOUS
    <2>1. offers[Len(offers)] = template.current
      BY DEF TemplateInv, Last, OnOffer, OfferOf
    <2>2. Len(offers) \in q.since..Len(offers)
      BY <1>2 DEF TemplateInv
    <2> QED
      BY <2>1, <2>2 DEF Offered
  <1> HIDE DEF next
  <1>5. LaneOK(next)
    BY <1>2, <1>3, <1>4 DEF LaneOK, LaneFine, Ended
  <1> QED
    BY <1>1, <1>3, <1>5, LaneGoesOn

LEMMA RenderVersionKeeps ==
  ASSUME TemplateInv, IntakeInv, NEW e \in Lanes, RenderVersion(e)
  PROVE  TemplateInv' /\ IntakeInv' /\ JobsKept /\ RowsAdded
  <1> DEFINE q == lane[e]
             found == Resolved(q.parent)
             next == [q EXCEPT !.step = IF found = 0 THEN "failed" ELSE "find",
                               !.parent = NoTemplate, !.version = found]
  <1>1. q # None /\ q.step = "versions" /\ lane' = [lane EXCEPT ![e] = next]
        /\ UNCHANGED <<tables, settings>>
    BY DEF RenderVersion, At, IntakeInv
  <1>2. q \in LaneRow /\ q.since \in 1..Len(offers) /\ LaneOK(q)
    BY <1>1, AtLane
  <1>3. found \in {0} \cup TemplateVersions /\ (found # 0 => Offered(offers, q.since, found))
    BY <1>1, <1>2 DEF Resolved, OfferOf, LaneOK, LaneFine
  <1>4. NoTemplate \in TemplateRow
    BY DEF NoTemplate, TemplateRow
  <1> HIDE DEF found
  <1>5. /\ next \in LaneRow /\ next.since = q.since /\ next.data = q.data
        /\ next.step = IF found = 0 THEN "failed" ELSE "find"
        /\ next.version = found
    BY <1>2, <1>3, <1>4 DEF LaneRow, Ended
  <1> HIDE DEF next
  <1>6. LaneOK(next)
    BY <1>2, <1>3, <1>5 DEF LaneOK, LaneFine, Ended
  <1>7. lane' = [lane EXCEPT ![e] = next] /\ UNCHANGED <<tables, settings>> /\ q # None
    BY <1>1
  <1> QED
    BY <1>5, <1>6, <1>7, LaneGoesOn

(* A lane that only changes its step keeps what it has found.              *)
LEMMA NextStepIsFine ==
  ASSUME IntakeInv, NEW e \in Lanes, lane[e] # None, lane[e].step \notin Ended,
         NEW step \in {"create", "recheck", "failed"}
  PROVE  LET next == [lane[e] EXCEPT !.step = step]
         IN LaneOK(next) /\ next.data = lane[e].data
  <1> DEFINE q == lane[e]
             next == [q EXCEPT !.step = step]
  <1>1. q \in LaneRow /\ q.since \in 1..Len(offers)
        /\ (q.version # 0 => Offered(offers, q.since, q.version))
    BY AtLane
  <1>2. /\ next \in LaneRow /\ next.since = q.since /\ next.data = q.data
        /\ next.version = q.version /\ next.step = step
    BY <1>1 DEF LaneRow, Ended
  <1> HIDE DEF next
  <1>3. LaneOK(next)
    BY <1>1, <1>2 DEF LaneOK, LaneFine, Ended
  <1> QED
    BY <1>2, <1>3 DEF next

LEMMA StepOnly ==
  ASSUME TemplateInv, IntakeInv, NEW e \in Lanes, lane[e] # None, lane[e].step \notin Ended,
         NEW step \in {"create", "recheck", "failed"},
         lane' = [lane EXCEPT ![e].step = step], UNCHANGED <<tables, settings>>
  PROVE  TemplateInv' /\ IntakeInv' /\ JobsKept /\ RowsAdded
  <1> DEFINE next == [lane[e] EXCEPT !.step = step]
  <1>1. LaneOK(next) /\ next.data = lane[e].data
    BY NextStepIsFine
  <1>2. lane' = [lane EXCEPT ![e] = next]
    BY DEF IntakeInv
  <1> HIDE DEF next
  <1> QED
    BY <1>1, <1>2, LaneGoesOn

LEMMA RepliesKeep ==
  ASSUME TemplateInv, IntakeInv, NEW e \in Lanes, lane[e] # None, NEW n \in Found(e),
         lane' = Replied(e, n.row), UNCHANGED <<tables, settings>>
  PROVE  TemplateInv' /\ IntakeInv' /\ JobsKept /\ RowsAdded
  <1> DEFINE q == lane[e]
             next == [q EXCEPT !.step = "replied", !.row = n.row, !.event = "found"]
  <1>1. n \in notifications /\ n.key = q.data.key /\ n.row \in Nat
    BY DEF Found, IntakeInv, TablesOK
  <1>2. EventOf(n) \in events /\ EventOf(n).dedupe = q.data.key
    BY <1>1 DEF IntakeInv, TablesOK, EventOf
  <1>3. lane' = [lane EXCEPT ![e] = next]
    BY <1>2 DEF Replied, IntakeInv
  <1>4. q \in LaneRow /\ q.since \in 1..Len(offers)
    BY AtLane
  <1>5. /\ next \in LaneRow /\ next.since = q.since /\ next.data = q.data
        /\ next.step = "replied" /\ next.row = n.row /\ next.event = "found"
    BY <1>1, <1>4 DEF LaneRow, Ended
  <1> HIDE DEF next
  <1>6. LaneOK(next)
    BY <1>1, <1>4, <1>5 DEF LaneOK, LaneFine, Ended
  <1> QED
    BY <1>3, <1>5, <1>6, LaneGoesOn

LEMMA FindExistingKeeps ==
  ASSUME TemplateInv, IntakeInv, NEW e \in Lanes, FindExisting(e)
  PROVE  TemplateInv' /\ IntakeInv' /\ JobsKept /\ RowsAdded
  BY RepliesKeep, StepOnly DEF FindExisting, At, Ended

LEMMA FindRacedKeeps ==
  ASSUME TemplateInv, IntakeInv, NEW e \in Lanes, FindRaced(e)
  PROVE  TemplateInv' /\ IntakeInv' /\ JobsKept /\ RowsAdded
  BY RepliesKeep, StepOnly DEF FindRaced, FoundRaced, At, Ended

LEMMA FindThrowsKeeps ==
  ASSUME TemplateInv, IntakeInv, NEW e \in Lanes, FindThrows(e)
  PROVE  TemplateInv' /\ IntakeInv' /\ JobsKept /\ RowsAdded
  BY StepOnly DEF FindThrows, Ended

LEMMA EnqueueDiesKeeps ==
  ASSUME TemplateInv, IntakeInv, NEW e \in Lanes, EnqueueDies(e)
  PROVE  TemplateInv' /\ IntakeInv' /\ JobsKept /\ RowsAdded
  BY StepOnly DEF EnqueueDies, Running

LEMMA JobTexts == \A data \in Jobs : data.templateData \in TextData
  BY DEF Jobs, ClientJobs, DigestJobs, JobData, TextData

(* Both rows are stored in one step.                                        *)
LEMMA InsertKeeps ==
  ASSUME TemplateInv, IntakeInv, NEW e \in Lanes, At(e, "create"), Accepted(e),
         InsertBoth(e), UNCHANGED settings, NEW next,
         lane' = [lane EXCEPT ![e] = next],
         LaneFine(next, versions, offers, notifications \cup {NewRow(e)}),
         next.data = lane[e].data
  PROVE  TemplateInv' /\ IntakeInv' /\ JobsKept /\ RowsAdded
  <1> DEFINE row == NewRow(e)
  <1>1. TemplateInv' /\ OffersKept
    BY SettingsStay
  <1>2. lane[e] # None /\ lane[e].step = "create" /\ lane[e].step \notin Ended
    BY DEF At, Ended
  <1>3. /\ lane[e] \in LaneRow /\ lane[e].since \in 1..Len(offers)
        /\ lane[e].version # 0 => Offered(offers, lane[e].since, lane[e].version)
    BY <1>2, AtLane
  <1>4. /\ row.row \in Nat /\ row.id = lane[e].data.id /\ row.key = lane[e].data.key
        /\ row.version = lane[e].version /\ row.templateData = lane[e].data.templateData
    <2>1. Cardinality(notifications) \in Nat
      BY FS_CardinalityType DEF IntakeInv, TablesOK
    <2> QED
      BY <2>1 DEF NewRow
  <1>5. /\ notifications' = notifications \cup {row}
        /\ events' = events \cup {EventOf(row)}
        /\ versions' = versions /\ offers' = offers
    BY DEF InsertBoth, EventOf, settings, templateVars
  <1>6. /\ \A f \in Lanes : lane'[f] = IF f = e THEN next ELSE lane[f]
        /\ DOMAIN lane' = Lanes
    BY DEF IntakeInv
  <1>7. \A f \in Lanes : LaneOK(lane[f])'
    <2>1. ASSUME NEW f \in Lanes
          PROVE  LaneFine(lane'[f], versions', offers', notifications')
      <3>1. CASE f = e
        BY <1>5, <1>6, <3>1
      <3>2. CASE f # e
        <4>1. LaneFine(lane[f], versions, offers, notifications)
          BY DEF IntakeInv, LaneOK
        <4>2. LaneFine(lane[f], versions', offers', notifications')
          BY <1>1, <1>5, <4>1, LaneKept DEF OffersKept
        <4> QED
          BY <1>6, <3>2, <4>2
      <3> QED
        BY <3>1, <3>2
    <2> QED
      BY <2>1 DEF LaneOK
  <1>8. TablesOK'
    <2>1. IsFiniteSet(notifications')
      BY <1>5, FS_AddElement DEF IntakeInv, TablesOK
    <2>2. events' = {EventOf(n) : n \in notifications'}
      BY <1>5 DEF IntakeInv, TablesOK
    <2>3. OneNotificationPerKey'
      BY <1>4, <1>5 DEF IntakeInv, TablesOK, OneNotificationPerKey, Accepted
    <2>4. row.version # 0 => row.version \in Range(offers)
      <3> SUFFICES ASSUME row.version # 0 PROVE row.version \in Range(offers)
        OBVIOUS
      <3>1. PICK i \in lane[e].since..Len(offers) : offers[i] = row.version
        BY <1>3, <1>4 DEF Offered
      <3>2. i \in DOMAIN offers
        BY <1>3 DEF TemplateInv
      <3> QED
        BY <3>1, <3>2 DEF Range
    <2>5. row.templateData \in TextData
      BY <1>3, <1>4, JobTexts DEF LaneRow
    <2> HIDE DEF row
    <2> QED
      BY <1>4, <1>5, <2>1, <2>2, <2>3, <2>4, <2>5 DEF IntakeInv, TablesOK
  <1>9. JobsKept
    BY <1>2, <1>6 DEF JobsKept, JobKept
  <1>10. RowsAdded
    BY <1>2, <1>4, <1>5 DEF RowsAdded, RowAdded
  <1> QED
    BY <1>1, <1>6, <1>7, <1>8, <1>9, <1>10 DEF IntakeInv

LEMMA CreateKeeps ==
  ASSUME TemplateInv, IntakeInv, NEW e \in Lanes, Create(e)
  PROVE  TemplateInv' /\ IntakeInv' /\ JobsKept /\ RowsAdded
  <1> DEFINE q == lane[e]
             row == NewRow(e).row
             next == [q EXCEPT !.step = "replied", !.row = row, !.event = "found"]
  <1>1. At(e, "create") /\ UNCHANGED settings /\ q # None /\ q.step \notin Ended
    BY DEF Create, At, Ended
  <1>2. CASE Accepted(e) /\ InsertBoth(e) /\ lane' = [lane EXCEPT
               ![e].step = "replied", ![e].row = NewRow(e).row, ![e].event = "found"]
    <2>1. lane' = [lane EXCEPT ![e] = next]
      BY <1>2 DEF IntakeInv
    <2>2. q \in LaneRow /\ q.since \in 1..Len(offers)
      BY <1>1, AtLane
    <2>3. row \in Nat /\ NewRow(e).key = q.data.key
      BY FS_CardinalityType DEF IntakeInv, TablesOK, NewRow
    <2> HIDE DEF row
    <2>4. /\ next \in LaneRow /\ next.since = q.since /\ next.data = q.data
          /\ next.step = "replied" /\ next.row = row /\ next.event = "found"
      BY <2>2, <2>3 DEF LaneRow, Ended
    <2> HIDE DEF next
    <2>5. LaneFine(next, versions, offers, notifications \cup {NewRow(e)})
      BY <2>2, <2>3, <2>4 DEF LaneFine, Ended, row
    <2> QED
      BY <1>1, <1>2, <2>1, <2>4, <2>5, InsertKeeps
  <1>3. CASE lane' = [lane EXCEPT ![e].step = "recheck"] /\ UNCHANGED tables
    BY <1>1, <1>3, StepOnly
  <1> QED
    BY <1>2, <1>3 DEF Create

LEMMA CreateThrowsKeeps ==
  ASSUME TemplateInv, IntakeInv, NEW e \in Lanes, CreateThrows(e)
  PROVE  TemplateInv' /\ IntakeInv' /\ JobsKept /\ RowsAdded
  <1> DEFINE next == [lane[e] EXCEPT !.step = "recheck"]
  <1>1. At(e, "create") /\ UNCHANGED settings /\ lane[e] # None /\ lane[e].step \notin Ended
        /\ lane' = [lane EXCEPT ![e].step = "recheck"]
    BY DEF CreateThrows, At, Ended
  <1>2. CASE UNCHANGED tables
    BY <1>1, <1>2, StepOnly
  <1>3. CASE Accepted(e) /\ InsertBoth(e)
    <2>1. LaneOK(next) /\ next.data = lane[e].data
      BY <1>1, NextStepIsFine
    <2>2. lane' = [lane EXCEPT ![e] = next]
      BY <1>1 DEF IntakeInv
    <2>3. Kept(versions, offers, versions, offers)
      BY DEF Kept, TemplateInv
    <2> HIDE DEF next
    <2>4. LaneFine(next, versions, offers, notifications \cup {NewRow(e)})
      BY <2>1, <2>3, LaneKept DEF LaneOK
    <2> QED
      BY <1>1, <1>3, <2>1, <2>2, <2>4, InsertKeeps
  <1> QED
    BY <1>2, <1>3 DEF CreateThrows

LEMMA EditsKeepIntake ==
  ASSUME TemplateInv, IntakeInv, NEW c \in Authors, EditStep(c), UNCHANGED <<tables, lane>>
  PROVE  TemplateInv' /\ IntakeInv' /\ JobsKept /\ RowsAdded
  <1>1. TemplateInv' /\ OffersKept
    BY EditKeeps
  <1>2. notifications' = notifications /\ events' = events /\ lane' = lane
    BY DEF tables
  <1>3. \A e \in Lanes : LaneOK(lane[e])'
    <2>1. \A e \in Lanes : LaneFine(lane[e], versions, offers, notifications)
      BY DEF IntakeInv, LaneOK
    <2>2. \A e \in Lanes : LaneFine(lane[e], versions', offers', notifications)
      BY <1>1, <2>1, LaneKept DEF OffersKept
    <2> QED
      BY <1>2, <2>2 DEF LaneOK
  <1>4. ASSUME NEW v \in Range(offers) PROVE v \in Range(offers')
    <2>1. PICK i \in DOMAIN offers : v = offers[i]
      BY DEF Range
    <2>2. /\ offers \in Seq(Nat) /\ offers' \in Seq(Nat) /\ Len(offers) <= Len(offers')
          /\ \A j \in 1..Len(offers) : offers'[j] = offers[j]
      BY <1>1, Zenon DEF OffersKept, Kept
    <2>3. i \in DOMAIN offers' /\ offers'[i] = offers[i]
      BY <2>1, <2>2
    <2> QED
      BY <2>1, <2>3 DEF Range
  <1>5. TablesOK'
    BY <1>2, <1>4 DEF IntakeInv, TablesOK, OneNotificationPerKey
  <1> QED
    BY <1>1, <1>2, <1>3, <1>5 DEF IntakeInv, JobsKept, JobKept, RowsAdded

LEMMA IntakeKeeps ==
  ASSUME TemplateInv, IntakeInv, IntakeNext
  PROVE  TemplateInv' /\ IntakeInv' /\ JobsKept /\ RowsAdded
  <1>1. ASSUME NEW e \in Lanes, EnqueueStep(e) \/ EnqueueFault(e)
        PROVE  TemplateInv' /\ IntakeInv' /\ JobsKept /\ RowsAdded
    BY <1>1, ResolveTemplateKeeps, RenderVersionKeeps, FindExistingKeeps, CreateKeeps,
       FindRacedKeeps, FindThrowsKeeps, CreateThrowsKeeps, EnqueueDiesKeeps
       DEF EnqueueStep, EnqueueFault
  <1> QED
    BY <1>1, EditsKeepIntake, SubmitKeeps, EndCallKeeps DEF IntakeNext

LEMMA InitIntake == IntakeInit => TemplateInv /\ IntakeInv
  <1> SUFFICES ASSUME IntakeInit PROVE TemplateInv /\ IntakeInv
    OBVIOUS
  <1>1. TemplateInv
    BY InitTemplates DEF IntakeInit
  <1>2. /\ notifications = workload.seeded /\ workload \in Workloads
        /\ events = {EventOf(n) : n \in notifications}
    BY DEF IntakeInit, EventOf
  <1>3. TablesOK
    <2>1. \A n \in notifications : n.templateData \in TextData
      BY <1>2 DEF TextData
    <2>2. ASSUME NEW n \in notifications, n.version # 0 PROVE n.version \in Range(offers)
      <3>1. n.version = OnOffer /\ offers = <<OnOffer>>
        BY <1>2, <2>2, RequestsAreTyped DEF IntakeInit, TemplateInit, OnOffer
      <3> QED
        BY <3>1 DEF Range
    <2> QED
      BY <1>2, <2>1, <2>2, RequestsAreTyped DEF TablesOK, OneNotificationPerKey
  <1>4. DOMAIN lane = Lanes /\ \A e \in Lanes : LaneOK(lane[e])
    BY NoLane DEF IntakeInit
  <1> QED
    BY <1>1, <1>3, <1>4 DEF IntakeInv

-----------------------------------------------------------------------------
(* Aggregation: a group that left "OPEN" has its window behind it, so that  *)
(* what a flush reads of it holds every item it should.                    *)
GroupRow == [status : GroupStatus, start : Nat, count : Nat]
Closed == {"FLUSHING", "FLUSHED", "FAILED"}

Inserting(g) == {a \in Adders : add[a] # None /\ add[a].step = "insert" /\ add[a].group = g}

GroupOK(g) ==
  /\ groups[g].start <= now
  /\ groups[g].status \in Closed => WindowEnd(groups[g]) <= now
  /\ groups[g].count = Cardinality(ListItems(g))
  /\ groups[g].count + Cardinality(Inserting(g)) < MaximumItems + Cardinality(Adders)
  /\ groups[g].status = "FLUSHED" => \E n \in notifications : n.key = DigestKey(g)

ItemsOK ==
  /\ items \subseteq ItemRow /\ IsFiniteSet(items)
  /\ \A i \in items : i.at <= now /\ i.created <= now
  /\ \A i, j \in items : i.group = j.group /\ i.source = j.source => i = j
  /\ ItemsFallInWindow

AddRow == [step : {"upsert", "insert"}, group : Groups, source : Sources, at : Nat,
           copy : GroupRow]

(* An addition when gs and time are groups and now.                        *)
AddFine(q, gs, time) ==
  q # None => /\ q \in AddRow /\ q.at <= time
              /\ q.step = "insert" => /\ gs[q.group].status # "NONE"
                                      /\ IsWithinWindow(q.at, gs[q.group].start)

(* Of the items its, all those of g that were stored before its window     *)
(* ended, and none of another group.                                       *)
Whole(found, g, gs, its) ==
  /\ found # {} /\ \A i \in found : i \in its /\ i.group = g
  /\ \A i \in its : i.group = g /\ i.created < WindowEnd(gs[g]) => i \in found

(* The text d of a digest of these items when ns is notifications: it is    *)
(* every item's, or displaces that of literal ones by one of them.         *)
HasText(i, d, ns) == \E n \in ns : n.id = i.source /\ n.templateData = d

Told(found, d, ns) ==
  \A i \in found :
    \/ HasText(i, d, ns)
    \/ d # None /\ HasText(i, None, ns) /\ \E j \in found : HasText(j, d, ns)

Busy == {"read", "build", "enqueue", "mark", "fail"}

FlushRow == [step : {"idle", "claim"} \cup Busy, todo : SUBSET Groups,
             group : Groups \cup {None}, cutoff : Nat, items : SUBSET ItemRow]

FlushFine(q, gs, its, time, ns) ==
  /\ q \in FlushRow /\ q.cutoff <= time
  /\ q.step = "claim" => q.todo # {}
  /\ q.step \notin Busy => q.group = None
  /\ q.step \in Busy => q.group \in Groups /\ gs[q.group].status \in Closed
  /\ q.step \in {"build", "enqueue"} => Whole(q.items, q.group, gs, its)
  /\ q.step = "mark" => \E n \in ns : n.key = DigestKey(q.group)

OneFlush ==
  \A s, t \in Instances : flush[s].step \in Busy /\ flush[t].step \in Busy
                          /\ flush[s].group = flush[t].group => s = t

(* The job of the flush q when ns is notifications.                        *)
MadeFor(data, q, ns) ==
  data.key = DigestKey(q.group) /\ data.of = q.items /\ Told(data.of, data.templateData, ns)

(* A lane works for a client, or for a flush that waits for it.            *)
JobOK(e) ==
  lane[e] # None =>
    \/ e \in Calls \X Channels /\ lane[e].data \in ClientJobs
    \/ \E s \in Instances : /\ e = Lane(s) /\ FlushAt(s, "enqueue")
                            /\ MadeFor(lane[e].data, flush[s], notifications)

DigestFine(n, gs, its, ns) ==
  /\ n.of # {} => \E g \in Groups : n.key = DigestKey(g)
  /\ \A g \in Groups : n.key = DigestKey(g) =>
       /\ gs[g].status \in Closed /\ Whole(n.of, g, gs, its)
       /\ Told(n.of, n.templateData, ns)

AggregationInv ==
  /\ groups \in [Groups -> GroupRow] /\ \A g \in Groups : GroupOK(g)
  /\ ItemsOK
  /\ DOMAIN add = Adders /\ \A a \in Adders : AddFine(add[a], groups, now)
  /\ DOMAIN flush = Instances
  /\ \A s \in Instances : FlushFine(flush[s], groups, items, now, notifications)
  /\ OneFlush
  /\ \A e \in Lanes : JobOK(e)
  /\ \A n \in notifications : DigestFine(n, groups, items, notifications)
  /\ now \in 0..workload.ticks

Inv == TemplateInv /\ IntakeInv /\ AggregationInv

-----------------------------------------------------------------------------
(* What a step may do to groups and items without disturbing what was read *)
(* of them: groups do not come to be open again, and an item that is new   *)
(* in a closed group came too late for its digest.                         *)
GroupsKept(gs, gs2) ==
  \A g \in Groups : gs[g].status # "NONE" =>
    /\ gs2[g].start = gs[g].start /\ gs2[g].status # "NONE"
    /\ gs[g].status \in Closed => gs2[g].status \in Closed

ItemsKept(gs, its, its2) ==
  /\ its \subseteq its2
  /\ \A i \in its2 \ its : gs[i.group].status \in Closed => ~(i.created < WindowEnd(gs[i.group]))

LEMMA Numbers ==
  /\ MaximumItems \in Nat /\ WindowSeconds \in Nat /\ MaximumItems > 0
  /\ Cardinality(Adders) \in Nat
  BY PolicyIsValid, FS_CardinalityType

LEMMA AddKept ==
  ASSUME NEW q, NEW gs, NEW gs2, NEW time \in Nat, NEW time2 \in Nat, time <= time2,
         AddFine(q, gs, time), GroupsKept(gs, gs2)
  PROVE  AddFine(q, gs2, time2)
  BY DEF AddFine, AddRow, GroupsKept

LEMMA WholeKept ==
  ASSUME NEW found, NEW g \in Groups, NEW gs, NEW gs2, NEW its, NEW its2,
         gs[g].status \in Closed, Whole(found, g, gs, its),
         GroupsKept(gs, gs2), ItemsKept(gs, its, its2)
  PROVE  Whole(found, g, gs2, its2)
  <1>1. gs2[g].start = gs[g].start /\ WindowEnd(gs2[g]) = WindowEnd(gs[g])
    BY DEF GroupsKept, Closed, WindowEnd
  <1> QED
    BY <1>1 DEF Whole, ItemsKept

LEMMA FlushKept ==
  ASSUME NEW q, NEW gs, NEW gs2, NEW its, NEW its2, NEW ns, NEW ns2,
         NEW time \in Nat, NEW time2 \in Nat, time <= time2,
         FlushFine(q, gs, its, time, ns),
         GroupsKept(gs, gs2), ItemsKept(gs, its, its2), ns \subseteq ns2
  PROVE  FlushFine(q, gs2, its2, time2, ns2)
  <1>1. q \in FlushRow /\ q.cutoff <= time2
    BY DEF FlushFine, FlushRow
  <1>2. q.step \in Busy => q.group \in Groups /\ gs2[q.group].status \in Closed
    BY DEF FlushFine, GroupsKept, Closed
  <1>3. q.step \in {"build", "enqueue"} => Whole(q.items, q.group, gs2, its2)
    BY WholeKept DEF FlushFine, Busy
  <1> QED
    BY <1>1, <1>2, <1>3 DEF FlushFine

LEMMA ToldKept ==
  ASSUME NEW found, NEW d, NEW ns, NEW ns2, Told(found, d, ns), ns \subseteq ns2
  PROVE  Told(found, d, ns2)
  <1>1. \A i, e : HasText(i, e, ns) => HasText(i, e, ns2)
    BY DEF HasText
  <1> QED
    BY <1>1 DEF Told

LEMMA DigestKept ==
  ASSUME NEW n, NEW gs, NEW gs2, NEW its, NEW its2, NEW ns, NEW ns2,
         DigestFine(n, gs, its, ns),
         GroupsKept(gs, gs2), ItemsKept(gs, its, its2), ns \subseteq ns2
  PROVE  DigestFine(n, gs2, its2, ns2)
  <1>1. ASSUME NEW g \in Groups, n.key = DigestKey(g)
        PROVE  /\ gs2[g].status \in Closed /\ Whole(n.of, g, gs2, its2)
               /\ Told(n.of, n.templateData, ns2)
    <2>1. gs[g].status \in Closed /\ Whole(n.of, g, gs, its) /\ Told(n.of, n.templateData, ns)
      BY <1>1 DEF DigestFine
    <2>2. Told(n.of, n.templateData, ns2)
      BY <2>1, ToldKept
    <2> QED
      BY <2>1, <2>2, WholeKept DEF GroupsKept, Closed
  <1> QED
    BY <1>1 DEF DigestFine

LEMMA GroupsStay == \A gs : GroupsKept(gs, gs)
  BY DEF GroupsKept

LEMMA ItemsStay == \A gs, its : ItemsKept(gs, its, its)
  BY DEF ItemsKept

LEMMA DigestKeys ==
  \A g, h : DigestKey(g) = DigestKey(h) => g = h
  BY DEF DigestKey

LEMMA LanesOfInstances ==
  ASSUME NEW s \in Instances
  PROVE  /\ Lane(s) \in Lanes /\ Lane(s) \notin Calls \X Channels
         /\ \A t \in Instances : Lane(s) = Lane(t) => s = t
  BY PolicyIsValid DEF Lane

LEMMA LaneFree ==
  ASSUME Inv, NEW s \in Instances, ~FlushAt(s, "enqueue")
  PROVE  lane[Lane(s)] = None
  BY LanesOfInstances DEF Inv, AggregationInv, JobOK

-----------------------------------------------------------------------------
(* Steps of the intake.                                                    *)

LEMMA WorkloadStays == ASSUME [Next]_vars PROVE workload' = workload
  BY DEF Next, IntakeNext, EditStep, BeginEdit, ReadTemplate, Write, FindPublished,
         ArchivePublished, MarkPublished, CommitPublication, EditFails, Submit, EndCall,
         EnqueueStep, ResolveTemplate, RenderVersion, FindExisting, Create, FindRaced,
         EnqueueFault, FindThrows, CreateThrows, EnqueueDies, BeginAdd, AddStep,
         UpsertGroup, InsertItem, AddThrows, FlushStep, Poll, Claim, ReadItems, Build,
         Enqueued, MarkFlushed, MarkFailed, FlushThrows, Crash, Tick, settings, intakeVars,
         vars

(* A new row of a lane is a client's, or the digest that its flush built.   *)
LEMMA NewRowIsFine ==
  ASSUME Inv, NEW e \in Lanes, lane[e] # None
  PROVE  DigestFine(NewRow(e), groups, items, notifications)
  <1> DEFINE row == NewRow(e)
  <1>1. row.key = lane[e].data.key /\ row.of = lane[e].data.of
        /\ row.templateData = lane[e].data.templateData
    BY DEF NewRow
  <1>2. CASE lane[e].data \in ClientJobs
    <2>1. PICK req \in UNION {w.requests : w \in Workloads}, ch \in Channels :
            lane[e].data = JobData(req, ch)
      BY <1>2 DEF ClientJobs
    <2>2. lane[e].data.of = {} /\ \A g \in Groups : lane[e].data.key # DigestKey(g)
      BY <2>1, DigestKeysAreTheirOwn DEF JobData
    <2> QED
      BY <1>1, <2>2 DEF DigestFine
  <1>3. ASSUME NEW s \in Instances, FlushAt(s, "enqueue"),
               MadeFor(lane[e].data, flush[s], notifications)
        PROVE  DigestFine(row, groups, items, notifications)
    <2>1. /\ flush[s].group \in Groups /\ groups[flush[s].group].status \in Closed
          /\ Whole(flush[s].items, flush[s].group, groups, items)
      BY <1>3 DEF Inv, AggregationInv, FlushFine, FlushAt, Busy
    <2>2. row.key = DigestKey(flush[s].group) /\ row.of = flush[s].items
          /\ Told(row.of, row.templateData, notifications)
      BY <1>1, <1>3 DEF MadeFor
    <2> QED
      BY <2>1, <2>2, DigestKeys DEF DigestFine
  <1> QED
    BY <1>2, <1>3 DEF Inv, AggregationInv, JobOK

LEMMA IntakeKeepsGroups ==
  ASSUME Inv, IntakeNext, UNCHANGED aggregationVars, workload' = workload
  PROVE  Inv'
  <1>1. TemplateInv' /\ IntakeInv' /\ JobsKept /\ RowsAdded
    BY IntakeKeeps DEF Inv
  <1>2. /\ groups' = groups /\ items' = items /\ add' = add /\ flush' = flush /\ now' = now
    BY DEF aggregationVars
  <1>3. /\ notifications \subseteq notifications'
        /\ \A n \in notifications' : DigestFine(n, groups, items, notifications')
    <2>1. /\ notifications \subseteq notifications'
          /\ \A n \in notifications' : DigestFine(n, groups, items, notifications)
      BY <1>1, NewRowIsFine DEF RowsAdded, RowAdded, Inv, AggregationInv
    <2> QED
      BY <2>1, DigestKept, GroupsStay, ItemsStay
  <1>4. ASSUME NEW e \in Lanes PROVE JobOK(e)'
    <2>1. ASSUME NEW s \in Instances, MadeFor(lane[e].data, flush[s], notifications)
          PROVE  MadeFor(lane[e].data, flush[s], notifications')
      BY <1>3, <2>1, ToldKept DEF MadeFor
    <2> QED
      BY <1>1, <1>2, <2>1 DEF Inv, AggregationInv, JobOK, JobsKept, JobKept, FlushAt
  <1>5. \A s \in Instances : FlushFine(flush'[s], groups', items', now', notifications')
    <2>1. now \in Nat
      BY DEF Inv, AggregationInv
    <2> QED
      BY <1>2, <1>3, <2>1, FlushKept, GroupsStay, ItemsStay DEF Inv, AggregationInv
  <1>6. \A g \in Groups : GroupOK(g)'
    <2>1. \A g \in Groups : ListItems(g)' = ListItems(g) /\ Inserting(g)' = Inserting(g)
      BY <1>2 DEF ListItems, Inserting
    <2> QED
      BY <1>2, <1>3, <2>1 DEF Inv, AggregationInv, GroupOK
  <1>7. ItemsOK' /\ OneFlush'
    BY <1>2 DEF Inv, AggregationInv, ItemsOK, ItemsFallInWindow, Exists, OneFlush
  <1>8. \A n \in notifications' : DigestFine(n, groups', items', notifications')
    BY <1>2, <1>3
  <1> QED
    BY <1>1, <1>2, <1>4, <1>5, <1>6, <1>7, <1>8 DEF Inv, AggregationInv

LEMMA IntakeStays ==
  ASSUME Inv, UNCHANGED <<tables, lane, settings>>
  PROVE  /\ TemplateInv' /\ IntakeInv' /\ workload' = workload
         /\ notifications' = notifications /\ events' = events
  <1>1. DOMAIN lane' = Lanes
        /\ \A e \in Lanes : LaneFine(lane'[e], versions, offers, notifications)
    BY DEF Inv, IntakeInv, LaneOK
  <1> QED
    BY <1>1, LanesStep DEF Inv, tables, settings

-----------------------------------------------------------------------------
(* Additions.                                                              *)

LEMMA AddMoves ==
  ASSUME Inv, NEW a \in Adders, NEW next, add' = [add EXCEPT ![a] = next],
         AddFine(next, groups', now), UNCHANGED <<intakeVars, flush, now>>,
         groups' \in [Groups -> GroupRow], GroupsKept(groups, groups'),
         ItemsKept(groups, items, items'), \A g \in Groups : GroupOK(g)', ItemsOK'
  PROVE  Inv'
  <1>1. /\ TemplateInv' /\ IntakeInv' /\ workload' = workload
        /\ notifications' = notifications /\ lane' = lane /\ flush' = flush /\ now' = now
    BY IntakeStays DEF intakeVars
  <1>2. now \in Nat /\ now <= now
    BY DEF Inv, AggregationInv
  <1>3. \A b \in Adders : AddFine(add'[b], groups', now')
    <2>1. \A b \in Adders : AddFine(add[b], groups', now)
      BY <1>2, AddKept DEF Inv, AggregationInv
    <2> QED
      BY <1>1, <2>1 DEF Inv, AggregationInv
  <1>4. \A s \in Instances : FlushFine(flush'[s], groups', items', now', notifications')
    BY <1>1, <1>2, FlushKept DEF Inv, AggregationInv
  <1>5. \A n \in notifications' : DigestFine(n, groups', items', notifications')
    BY <1>1, DigestKept DEF Inv, AggregationInv
  <1>6. OneFlush' /\ \A e \in Lanes : JobOK(e)'
    BY <1>1 DEF Inv, AggregationInv, OneFlush, JobOK, FlushAt
  <1>7. DOMAIN add' = Adders
    BY DEF Inv, AggregationInv
  <1> QED
    BY <1>1, <1>3, <1>4, <1>5, <1>6, <1>7 DEF Inv, AggregationInv

LEMMA InsertingIsFinite ==
  ASSUME NEW g
  PROVE  /\ IsFiniteSet(Inserting(g)) /\ Cardinality(Inserting(g)) \in Nat
         /\ Cardinality(Inserting(g)) <= Cardinality(Adders)
         /\ IsFiniteSet(Inserting(g)') /\ Cardinality(Inserting(g)') \in Nat
         /\ Cardinality(Inserting(g)') <= Cardinality(Adders)
  <1>1. Inserting(g) \subseteq Adders /\ Inserting(g)' \subseteq Adders
    BY DEF Inserting
  <1> QED
    BY <1>1, PolicyIsValid, FS_Subset, FS_CardinalityType

(* A call that is not about to insert, or does not begin to.               *)
LEMMA FewerInserting ==
  ASSUME Inv, NEW a \in Adders, NEW next, add' = [add EXCEPT ![a] = next],
         next = None \/ next.step # "insert", NEW g \in Groups
  PROVE  /\ Inserting(g)' \subseteq Inserting(g)
         /\ Cardinality(Inserting(g)') <= Cardinality(Inserting(g))
  <1>1. Inserting(g)' \subseteq Inserting(g)
    BY DEF Inserting, Inv, AggregationInv
  <1> QED
    BY <1>1, InsertingIsFinite, FS_Subset

LEMMA NoRowChanges ==
  ASSUME Inv, NEW a \in Adders, NEW next, add' = [add EXCEPT ![a] = next],
         next = None \/ next.step # "insert", AddFine(next, groups, now),
         UNCHANGED <<intakeVars, groups, items, flush, now>>
  PROVE  Inv'
  <1>1. groups' = groups /\ items' = items /\ now' = now /\ notifications' = notifications
    BY DEF intakeVars, tables
  <1>2. ASSUME NEW g \in Groups PROVE GroupOK(g)'
    <2>1. ListItems(g)' = ListItems(g)
      BY <1>1 DEF ListItems
    <2>2. groups[g].count + Cardinality(Inserting(g)') < MaximumItems + Cardinality(Adders)
      <3>1. groups[g].count \in Nat
        BY DEF Inv, AggregationInv, GroupRow
      <3>2. groups[g].count + Cardinality(Inserting(g)) < MaximumItems + Cardinality(Adders)
        BY DEF Inv, AggregationInv, GroupOK
      <3>3. Cardinality(Inserting(g)') <= Cardinality(Inserting(g))
        BY FewerInserting
      <3> QED
        BY <3>1, <3>2, <3>3, InsertingIsFinite, Numbers
    <2> QED
      BY <1>1, <2>1, <2>2 DEF Inv, AggregationInv, GroupOK
  <1>3. ItemsOK'
    BY <1>1 DEF Inv, AggregationInv, ItemsOK, ItemsFallInWindow, Exists
  <1>4. GroupsKept(groups, groups') /\ ItemsKept(groups, items, items')
        /\ groups' \in [Groups -> GroupRow] /\ AddFine(next, groups', now)
    BY <1>1, GroupsStay, ItemsStay DEF Inv, AggregationInv
  <1> QED
    BY <1>2, <1>3, <1>4, AddMoves

LEMMA BeginAddKeeps ==
  ASSUME Inv, NEW a \in Adders, BeginAdd(a) PROVE Inv'
  <1>1. PICK it \in workload.adds, at \in 0..now :
          add' = [add EXCEPT ![a] = [step |-> "upsert", group |-> it.group,
                                     source |-> it.source, at |-> at, copy |-> NoGroup]]
    BY DEF BeginAdd
  <1> DEFINE next == [step |-> "upsert", group |-> it.group, source |-> it.source,
                      at |-> at, copy |-> NoGroup]
  <1>2. it.group \in Groups /\ it.source \in Sources
    BY PolicyIsValid DEF Inv, TemplateInv, Sources
  <1>3. at \in Nat /\ at <= now
    BY DEF Inv, AggregationInv
  <1>4. NoGroup \in GroupRow
    BY DEF NoGroup, GroupRow, GroupStatus
  <1>5. AddFine(next, groups, now) /\ next.step # "insert"
    BY <1>2, <1>3, <1>4 DEF AddFine, AddRow
  <1> HIDE DEF next
  <1>6. add' = [add EXCEPT ![a] = next]
    BY <1>1 DEF next
  <1> QED
    BY <1>5, <1>6, NoRowChanges DEF BeginAdd

LEMMA AddThrowsKeeps ==
  ASSUME Inv, NEW a \in Adders, AddThrows(a) PROVE Inv'
  <1>1. AddFine(None, groups, now)
    BY DEF AddFine
  <1> QED
    BY <1>1, NoRowChanges DEF AddThrows

LEMMA UpsertGroupKeeps ==
  ASSUME Inv, NEW a \in Adders, UpsertGroup(a) PROVE Inv'
  <1> DEFINE q == add[a]
             key == q.group
             group == IF Exists(key) THEN groups[key]
                      ELSE [status |-> "OPEN", start |-> q.at, count |-> 0]
             fits == IsWithinWindow(q.at, group.start) /\ CanAcceptItem(group.count)
             next == IF fits THEN [q EXCEPT !.step = "insert", !.copy = group] ELSE None
  <1>1. /\ q # None /\ q.step = "upsert"
        /\ groups' = [groups EXCEPT ![key] = group]
        /\ add' = [add EXCEPT ![a] = next]
        /\ UNCHANGED <<intakeVars, items, flush, now>>
    BY DEF UpsertGroup
  <1>2. q \in AddRow /\ q.at <= now /\ q.at \in Nat /\ key \in Groups /\ now \in Nat
    BY <1>1 DEF Inv, AggregationInv, AddFine, AddRow
  <1>3. group \in GroupRow /\ group.status # "NONE"
    BY <1>2 DEF Exists, Inv, AggregationInv, GroupRow, GroupStatus
  <1>4. \A g \in Groups : groups'[g] = IF g = key THEN group ELSE groups[g]
    BY <1>1, <1>2 DEF Inv, AggregationInv
  <1>5. Exists(key) => group = groups[key]
    OBVIOUS
  <1>6. ~Exists(key) => /\ group.status = "OPEN" /\ group.start = q.at /\ group.count = 0
                        /\ ListItems(key) = {}
    BY DEF ListItems, Inv, AggregationInv, ItemsOK, ItemsFallInWindow
  <1>7. groups' \in [Groups -> GroupRow] /\ GroupsKept(groups, groups')
    BY <1>1, <1>2, <1>3, <1>4, <1>5 DEF GroupsKept, Exists, Inv, AggregationInv
  <1> HIDE DEF group
  <1>8. AddFine(next, groups', now)
    <2>1. fits => /\ [q EXCEPT !.step = "insert", !.copy = group] \in AddRow
                  /\ groups'[key] = group
      BY <1>2, <1>3, <1>4 DEF AddRow
    <2> QED
      BY <1>2, <1>3, <2>1 DEF AddFine, AddRow
  <1>9. items' = items /\ now' = now /\ notifications' = notifications
    BY <1>1 DEF intakeVars, tables
  <1>10. ASSUME NEW g \in Groups PROVE GroupOK(g)'
    <2>1. ListItems(g)' = ListItems(g)
      BY <1>9 DEF ListItems
    <2>2. groups'[g].count = Cardinality(ListItems(g))
      BY <1>4, <1>5, <1>6, FS_EmptySet DEF Inv, AggregationInv, GroupOK
    <2>3. /\ groups'[g].start <= now /\ groups'[g].count \in Nat
          /\ groups'[g].status \in Closed => WindowEnd(groups'[g]) <= now
          /\ groups'[g].status = "FLUSHED" => \E n \in notifications : n.key = DigestKey(g)
      BY <1>2, <1>4, <1>5, <1>6, <1>7 DEF Inv, AggregationInv, GroupOK, Closed, GroupRow
    <2>4. groups'[g].count + Cardinality(Inserting(g)') < MaximumItems + Cardinality(Adders)
      <3>1. CASE g = key /\ fits
        BY <1>4, <2>3, <3>1, InsertingIsFinite, Numbers DEF CanAcceptItem
      <3>2. CASE ~(g = key /\ fits)
        <4>1. Inserting(g)' \subseteq Inserting(g)
          BY <1>1, <1>2, <3>2 DEF Inserting, Inv, AggregationInv, AddRow
        <4>2. Cardinality(Inserting(g)') <= Cardinality(Inserting(g))
          BY <4>1, InsertingIsFinite, FS_Subset
        <4>3. groups'[g].count <= groups[g].count /\ groups[g].count \in Nat
          BY <1>4, <1>5, <1>6 DEF Inv, AggregationInv, GroupRow
        <4>4. groups[g].count + Cardinality(Inserting(g)) < MaximumItems + Cardinality(Adders)
          BY DEF Inv, AggregationInv, GroupOK
        <4> QED
          BY <2>3, <4>2, <4>3, <4>4, InsertingIsFinite, Numbers
      <3> QED
        BY <3>1, <3>2
    <2> QED
      BY <1>9, <2>1, <2>2, <2>3, <2>4 DEF GroupOK
  <1>11. ItemsOK'
    <2>1. \A i \in items : Exists(i.group) /\ groups'[i.group] = groups[i.group]
      <3>1. \A i \in items : i.group \in Groups /\ Exists(i.group)
        BY DEF Inv, AggregationInv, ItemsOK, ItemsFallInWindow, ItemRow
      <3> QED
        BY <1>4, <1>5, <3>1
    <2>2. ItemsFallInWindow'
      BY <1>9, <2>1 DEF Inv, AggregationInv, ItemsOK, ItemsFallInWindow, Exists
    <2> QED
      BY <1>9, <2>2 DEF Inv, AggregationInv, ItemsOK
  <1>12. ItemsKept(groups, items, items')
    BY <1>9, ItemsStay
  <1> HIDE DEF next
  <1> QED
    BY <1>1, <1>7, <1>8, <1>10, <1>11, <1>12, AddMoves

LEMMA InsertItemKeeps ==
  ASSUME Inv, NEW a \in Adders, InsertItem(a) PROVE Inv'
  <1> DEFINE q == add[a]
             g == q.group
             new == NewItem(a)
  <1>1. /\ q # None /\ q.step = "insert" /\ add' = [add EXCEPT ![a] = None]
        /\ UNCHANGED <<intakeVars, flush, now>>
    BY DEF InsertItem
  <1>2. CASE IsStored(a) /\ UNCHANGED <<groups, items>>
    BY <1>1, <1>2, NoRowChanges DEF AddFine
  <1>3. CASE ~IsStored(a) /\ StoreItem(a)
    <2>1. /\ q \in AddRow /\ g \in Groups /\ groups[g].status # "NONE" /\ q.at <= now
          /\ IsWithinWindow(q.at, groups[g].start) /\ now \in Nat
      BY <1>1 DEF Inv, AggregationInv, AddFine, AddRow
    <2>2. /\ items' = items \cup {new} /\ new \notin items
          /\ groups' = [groups EXCEPT ![g].count = @ + 1]
          /\ now' = now /\ notifications' = notifications
      BY <1>1, <1>3 DEF StoreItem, IsStored, NewItem, intakeVars, tables
    <2>3. /\ new \in ItemRow /\ new.group = g /\ new.source = q.source /\ new.at = q.at
          /\ new.created = now
      BY <2>1 DEF NewItem, ItemRow, AddRow
    <2>4. groups[g] \in GroupRow /\ groups[g].count \in Nat
      BY <2>1 DEF Inv, AggregationInv, GroupRow
    <2>5. groups' \in [Groups -> GroupRow]
      BY <2>1, <2>2, <2>4 DEF Inv, AggregationInv, GroupRow
    <2>6. \A h \in Groups :
            /\ groups'[h].status = groups[h].status /\ groups'[h].start = groups[h].start
            /\ groups'[h].count = IF h = g THEN groups[h].count + 1 ELSE groups[h].count
      <3>1. groups \in [Groups -> GroupRow]
        BY DEF Inv, AggregationInv
      <3> QED
        BY <2>1, <2>2, <3>1 DEF GroupRow
    <2>7. GroupsKept(groups, groups')
      BY <2>6 DEF GroupsKept
    <2>8. ItemsKept(groups, items, items')
      <3>1. groups[g].status \in Closed => WindowEnd(groups[g]) <= now
        BY <2>1 DEF Inv, AggregationInv, GroupOK
      <3>2. WindowEnd(groups[g]) \in Nat
        BY <2>4, Numbers DEF WindowEnd, GroupRow
      <3>3. groups[g].status \in Closed => ~(now < WindowEnd(groups[g]))
        BY <2>1, <3>1, <3>2
      <3> HIDE DEF g, new
      <3> QED
        BY <2>2, <2>3, <3>3 DEF ItemsKept
    <2>9. ASSUME NEW h \in Groups PROVE GroupOK(h)'
      <3>1. groups'[h].count = Cardinality(ListItems(h)')
        <4>1. IsFiniteSet(ListItems(h)) /\ groups[h].count = Cardinality(ListItems(h))
          <5>1. ListItems(h) \subseteq items
            BY DEF ListItems
          <5> QED
            BY <5>1, FS_Subset DEF Inv, AggregationInv, ItemsOK, GroupOK
        <4>2. CASE h = g
          <5>1. ListItems(h)' = ListItems(h) \cup {new} /\ new \notin ListItems(h)
            BY <2>2, <2>3, <4>2 DEF ListItems
          <5>2. Cardinality(ListItems(h)') = Cardinality(ListItems(h)) + 1
            <6> HIDE DEF new
            <6> QED
              BY <4>1, <5>1, FS_AddElement
          <5>3. groups'[h].count = groups[h].count + 1
            BY <2>6, <4>2
          <5> QED
            BY <4>1, <5>2, <5>3
        <4>3. CASE h # g
          <5>1. ListItems(h)' = ListItems(h)
            BY <2>2, <2>3, <4>3 DEF ListItems
          <5> QED
            BY <2>6, <4>1, <4>3, <5>1
        <4> QED
          BY <4>2, <4>3
      <3>2. groups'[h].count + Cardinality(Inserting(h)') < MaximumItems + Cardinality(Adders)
        <4>1. /\ groups[h].count + Cardinality(Inserting(h)) < MaximumItems + Cardinality(Adders)
              /\ groups[h].count \in Nat
          BY DEF Inv, AggregationInv, GroupOK, GroupRow
        <4>2. CASE h = g
          <5>1. Inserting(h)' = Inserting(h) \ {a} /\ a \in Inserting(h)
            BY <1>1, <4>2 DEF Inserting, Inv, AggregationInv
          <5>2. Cardinality(Inserting(h)') = Cardinality(Inserting(h)) - 1
            BY <5>1, InsertingIsFinite, FS_RemoveElement
          <5> QED
            BY <2>6, <4>1, <4>2, <5>2, InsertingIsFinite, Numbers
        <4>3. CASE h # g
          <5>1. Cardinality(Inserting(h)') <= Cardinality(Inserting(h))
            BY <1>1, FewerInserting
          <5> QED
            BY <2>6, <4>1, <4>3, <5>1, InsertingIsFinite, Numbers
        <4> QED
          BY <4>2, <4>3
      <3>3. /\ groups'[h].start <= now
            /\ groups'[h].status \in Closed => WindowEnd(groups'[h]) <= now
            /\ groups'[h].status = "FLUSHED" => \E n \in notifications : n.key = DigestKey(h)
        BY <2>6 DEF Inv, AggregationInv, GroupOK, WindowEnd
      <3> QED
        BY <2>2, <3>1, <3>2, <3>3 DEF GroupOK
    <2>10. ItemsOK'
      <3>1. /\ items' \subseteq ItemRow /\ IsFiniteSet(items')
            /\ \A i \in items' : i.at <= now /\ i.created <= now
        BY <2>1, <2>2, <2>3, FS_AddElement DEF Inv, AggregationInv, ItemsOK
      <3>2. \A i, j \in items' : i.group = j.group /\ i.source = j.source => i = j
        <4>1. \A i \in items : ~(i.group = g /\ i.source = q.source)
          BY <1>3 DEF IsStored
        <4> QED
          BY <2>2, <2>3, <4>1 DEF Inv, AggregationInv, ItemsOK
      <3>3. ItemsFallInWindow'
        <4>1. ASSUME NEW i \in items
              PROVE  /\ groups'[i.group].status # "NONE" /\ i.at >= groups'[i.group].start
                     /\ i.at < WindowEnd(groups'[i.group])
          <5>1. i.group \in Groups
            BY DEF Inv, AggregationInv, ItemsOK, ItemRow
          <5> QED
            BY <2>6, <5>1
               DEF Inv, AggregationInv, ItemsOK, ItemsFallInWindow, Exists, WindowEnd
        <4>2. /\ groups'[g].status # "NONE" /\ q.at >= groups'[g].start
              /\ q.at < WindowEnd(groups'[g])
          BY <2>1, <2>6 DEF IsWithinWindow, WindowEnd
        <4> HIDE DEF g, new
        <4> QED
          BY <2>2, <2>3, <4>1, <4>2 DEF ItemsFallInWindow, Exists
      <3> QED
        BY <2>2, <3>1, <3>2, <3>3 DEF ItemsOK
    <2>11. AddFine(None, groups', now)
      BY DEF AddFine
    <2> QED
      BY <1>1, <2>5, <2>7, <2>8, <2>9, <2>10, <2>11, AddMoves
  <1> QED
    BY <1>2, <1>3 DEF InsertItem

-----------------------------------------------------------------------------
(* Flushes.  A step of a flush closes groups whose windows have ended.      *)
GroupsClose(gs, gs2) ==
  \A g \in Groups :
    /\ gs2[g].start = gs[g].start /\ gs2[g].count = gs[g].count
    /\ \/ gs2[g].status = gs[g].status
       \/ /\ gs2[g].status \in Closed /\ WindowEnd(gs[g]) <= now
          /\ gs2[g].status = "FLUSHED" => \E n \in notifications : n.key = DigestKey(g)

LEMMA NothingCloses == \A gs : GroupsClose(gs, gs)
  BY DEF GroupsClose

LEMMA Closes ==
  ASSUME Inv, NEW g \in Groups, NEW status \in Closed, SetStatus(g, status),
         WindowEnd(groups[g]) <= now,
         status = "FLUSHED" => \E n \in notifications : n.key = DigestKey(g)
  PROVE  /\ groups' \in [Groups -> GroupRow] /\ GroupsClose(groups, groups')
         /\ groups'[g].status = status
  <1>1. groups \in [Groups -> GroupRow] /\ status \in GroupStatus
    BY DEF Inv, AggregationInv, Closed, GroupStatus
  <1>2. groups' = [groups EXCEPT ![g].status = status]
    BY DEF SetStatus
  <1>3. groups' \in [Groups -> GroupRow]
    BY <1>1, <1>2 DEF GroupRow
  <1>4. \A h \in Groups : /\ groups'[h].start = groups[h].start
                          /\ groups'[h].count = groups[h].count
                          /\ groups'[h].status = IF h = g THEN status ELSE groups[h].status
    BY <1>1, <1>2 DEF GroupRow
  <1> QED
    BY <1>3, <1>4 DEF GroupsClose

LEMMA JobsStay ==
  ASSUME Inv, NEW s \in Instances, NEW next, flush' = [flush EXCEPT ![s] = next],
         \A e \in Lanes : e # Lane(s) => lane'[e] = lane[e],
         notifications' = notifications,
         \/ lane'[Lane(s)] = None
         \/ next.step = "enqueue" /\ MadeFor(lane'[Lane(s)].data, next, notifications)
  PROVE  \A e \in Lanes : JobOK(e)'
  <1>1. \A t \in Instances : flush'[t] = IF t = s THEN next ELSE flush[t]
    BY DEF Inv, AggregationInv
  <1> SUFFICES ASSUME NEW e \in Lanes, lane'[e] # None PROVE JobOK(e)'
    BY DEF JobOK
  <1>2. CASE e = Lane(s)
    BY <1>1, <1>2 DEF JobOK, FlushAt
  <1>3. CASE e # Lane(s)
    <2>1. lane'[e] = lane[e] /\ JobOK(e)
      BY <1>3 DEF Inv, AggregationInv
    <2>2. CASE e \in Calls \X Channels /\ lane[e].data \in ClientJobs
      BY <2>1, <2>2 DEF JobOK
    <2>3. ASSUME NEW t \in Instances, e = Lane(t), FlushAt(t, "enqueue"),
                 MadeFor(lane[e].data, flush[t], notifications)
          PROVE  JobOK(e)'
      <3>1. t # s /\ flush'[t] = flush[t]
        BY <1>1, <1>3, <2>3
      <3> QED
        BY <2>1, <2>3, <3>1 DEF JobOK, FlushAt
    <2> QED
      BY <2>1, <2>2, <2>3 DEF JobOK
  <1> QED
    BY <1>2, <1>3

LEMMA FlushMoves ==
  ASSUME Inv, NEW s \in Instances, NEW next, flush' = [flush EXCEPT ![s] = next],
         TemplateInv', IntakeInv', UNCHANGED <<tables, workload, items, add, now>>,
         groups' \in [Groups -> GroupRow], GroupsClose(groups, groups'),
         FlushFine(next, groups', items, now, notifications),
         next.step \in Busy => \A t \in Instances \ {s} :
           flush[t].step \in Busy => flush[t].group # next.group,
         \A e \in Lanes : JobOK(e)'
  PROVE  Inv'
  <1>1. /\ notifications' = notifications /\ items' = items /\ add' = add /\ now' = now
        /\ workload' = workload /\ now \in Nat
    BY DEF tables, Inv, AggregationInv
  <1>2. GroupsKept(groups, groups') /\ ItemsKept(groups, items, items')
    <2>1. GroupsKept(groups, groups')
      BY DEF GroupsClose, GroupsKept, Closed
    <2> QED
      BY <1>1, <2>1, ItemsStay
  <1>3. ASSUME NEW g \in Groups PROVE GroupOK(g)'
    <2>1. ListItems(g)' = ListItems(g) /\ Inserting(g)' = Inserting(g)
      BY <1>1 DEF ListItems, Inserting
    <2>2. GroupOK(g) /\ WindowEnd(groups'[g]) = WindowEnd(groups[g])
      BY DEF Inv, AggregationInv, GroupsClose, WindowEnd
    <2>3. /\ groups'[g].status \in Closed => WindowEnd(groups'[g]) <= now
          /\ groups'[g].status = "FLUSHED" => \E n \in notifications : n.key = DigestKey(g)
      BY <2>2 DEF GroupOK, GroupsClose
    <2> QED
      BY <1>1, <2>1, <2>2, <2>3 DEF GroupOK, GroupsClose
  <1>4. ItemsOK'
    <2>1. ASSUME NEW i \in items
          PROVE  /\ groups'[i.group].status # "NONE"
                 /\ i.at >= groups'[i.group].start /\ i.at < WindowEnd(groups'[i.group])
      <3>1. i.group \in Groups /\ groups[i.group].status # "NONE"
            /\ i.at >= groups[i.group].start /\ i.at < WindowEnd(groups[i.group])
        BY DEF Inv, AggregationInv, ItemsOK, ItemRow, ItemsFallInWindow, Exists
      <3> QED
        BY <3>1 DEF GroupsClose, Closed, WindowEnd
    <2>2. ItemsFallInWindow'
      BY <1>1, <2>1 DEF ItemsFallInWindow, Exists
    <2> QED
      BY <1>1, <2>2 DEF Inv, AggregationInv, ItemsOK
  <1>5. \A a \in Adders : AddFine(add'[a], groups', now')
    BY <1>1, <1>2, AddKept DEF Inv, AggregationInv
  <1>6. \A t \in Instances : flush'[t] = IF t = s THEN next ELSE flush[t]
    BY DEF Inv, AggregationInv
  <1>7. \A t \in Instances : FlushFine(flush'[t], groups', items', now', notifications')
    <2>1. \A t \in Instances : FlushFine(flush[t], groups', items', now', notifications')
      BY <1>1, <1>2, FlushKept DEF Inv, AggregationInv
    <2> QED
      BY <1>1, <1>6, <2>1
  <1>8. OneFlush'
    BY <1>6 DEF OneFlush, Inv, AggregationInv
  <1>9. \A n \in notifications' : DigestFine(n, groups', items', notifications')
    BY <1>1, <1>2, DigestKept DEF Inv, AggregationInv
  <1>10. DOMAIN flush' = Instances /\ DOMAIN add' = Adders /\ now' \in 0..workload'.ticks
    BY <1>1 DEF Inv, AggregationInv
  <1> QED
    BY <1>3, <1>4, <1>5, <1>7, <1>8, <1>9, <1>10 DEF Inv, AggregationInv

(* A step of the flush itself, when it is not waiting for its lane.         *)
LEMMA FlushAlone ==
  ASSUME Inv, NEW s \in Instances, NEW next, ~FlushAt(s, "enqueue"),
         flush' = [flush EXCEPT ![s] = next],
         UNCHANGED <<tables, lane, settings, items, add, now>>,
         groups' \in [Groups -> GroupRow], GroupsClose(groups, groups'),
         FlushFine(next, groups', items, now, notifications),
         next.step \in Busy => \A t \in Instances \ {s} :
           flush[t].step \in Busy => flush[t].group # next.group
  PROVE  Inv'
  <1>1. TemplateInv' /\ IntakeInv' /\ UNCHANGED workload
    BY IntakeStays
  <1>2. lane'[Lane(s)] = None /\ lane' = lane /\ notifications' = notifications
    BY LaneFree DEF tables
  <1>3. \A e \in Lanes : JobOK(e)'
    BY <1>2, JobsStay
  <1> QED
    BY <1>1, <1>3, FlushMoves

LEMMA GroupsAreRows ==
  ASSUME Inv, UNCHANGED groups
  PROVE  groups' \in [Groups -> GroupRow] /\ GroupsClose(groups, groups')
  BY NothingCloses DEF Inv, AggregationInv

LEMMA AtFlush ==
  ASSUME Inv, NEW s \in Instances
  PROVE  /\ flush[s] \in FlushRow /\ flush[s].cutoff <= now /\ now \in Nat
         /\ FlushFine(flush[s], groups, items, now, notifications)
         /\ flush[s].todo \subseteq Groups /\ flush[s].cutoff \in Nat
  BY DEF Inv, AggregationInv, FlushFine, FlushRow

NextFlush(s, todo) == IF todo = {} THEN NoFlush ELSE NextClaim(s, todo)

LEMMA IdleIsFine ==
  ASSUME Inv, NEW gs
  PROVE  /\ FlushFine(NoFlush, gs, items, now, notifications)
         /\ NoFlush.step \notin Busy /\ NoFlush.step # "enqueue"
  <1>1. NoFlush \in FlushRow
    BY DEF NoFlush, FlushRow
  <1> QED
    BY <1>1 DEF NoFlush, FlushFine, Busy, Inv, AggregationInv

LEMMA GoingOnIsFine ==
  ASSUME Inv, NEW s \in Instances, NEW todo \in SUBSET Groups, NEW gs
  PROVE  /\ FlushFine(NextFlush(s, todo), gs, items, now, notifications)
         /\ NextFlush(s, todo).step \notin Busy
  <1>1. CASE todo = {}
    BY <1>1, IdleIsFine DEF NextFlush
  <1>2. CASE todo # {}
    <2> DEFINE next == NextClaim(s, todo)
    <2>1. /\ next.step = "claim" /\ next.todo = todo /\ next.cutoff = flush[s].cutoff
          /\ next.group = None /\ next.items = {} /\ next \in FlushRow
      BY AtFlush DEF NextClaim, NoFlush, FlushRow
    <2>2. NextFlush(s, todo) = next
      BY <1>2 DEF NextFlush
    <2> HIDE DEF next
    <2>3. FlushFine(next, gs, items, now, notifications) /\ next.step \notin Busy
      BY <1>2, <2>1, AtFlush DEF FlushFine, Busy
    <2> QED
      BY <2>2, <2>3
  <1> QED
    BY <1>1, <1>2

LEMMA GoesOn ==
  ASSUME Inv, NEW s \in Instances, NEW todo \in SUBSET Groups, ~FlushAt(s, "enqueue"),
         GoOn(s, todo), UNCHANGED <<tables, lane, settings, items, add, now>>,
         groups' \in [Groups -> GroupRow], GroupsClose(groups, groups')
  PROVE  Inv'
  <1> DEFINE next == NextFlush(s, todo)
  <1>1. flush' = [flush EXCEPT ![s] = next]
    BY DEF GoOn, NextFlush
  <1>2. FlushFine(next, groups', items, now, notifications) /\ next.step \notin Busy
    BY GoingOnIsFine
  <1> HIDE DEF next
  <1> QED
    BY <1>1, <1>2, FlushAlone

(* Going to another step with the same group.                               *)
LEMMA SameGroup ==
  ASSUME Inv, NEW s \in Instances, flush[s].step \in Busy
  PROVE  \A t \in Instances \ {s} : flush[t].step \in Busy => flush[t].group # flush[s].group
  BY DEF Inv, AggregationInv, OneFlush

LEMMA GoesTo ==
  ASSUME Inv, NEW s \in Instances, flush[s].step \in Busy \ {"enqueue"}, GoTo(s, "fail"),
         UNCHANGED <<tables, lane, settings, items, add, now>>,
         groups' \in [Groups -> GroupRow], GroupsClose(groups, groups')
  PROVE  Inv'
  <1> DEFINE next == [flush[s] EXCEPT !.step = "fail"]
  <1>1. flush' = [flush EXCEPT ![s] = next]
    BY DEF GoTo, Inv, AggregationInv
  <1>2. /\ next \in FlushRow /\ next.step = "fail" /\ next.group = flush[s].group
        /\ next.cutoff = flush[s].cutoff
    BY AtFlush DEF FlushRow, Busy
  <1> HIDE DEF next
  <1>3. flush[s].group \in Groups /\ groups'[flush[s].group].status \in Closed
    BY DEF Inv, AggregationInv, FlushFine, GroupsClose
  <1>4. FlushFine(next, groups', items, now, notifications)
    BY <1>2, <1>3, AtFlush DEF FlushFine, Busy
  <1>5. \A t \in Instances \ {s} : flush[t].step \in Busy => flush[t].group # next.group
    BY <1>2, SameGroup
  <1>6. ~FlushAt(s, "enqueue")
    BY DEF FlushAt
  <1> QED
    BY <1>1, <1>4, <1>5, <1>6, FlushAlone

LEMMA PollKeeps == ASSUME Inv, NEW s \in Instances, Poll(s) PROVE Inv'
  <1> DEFINE found == {g \in Groups : Eligible(g, now)}
             next == [NoFlush EXCEPT !.step = "claim", !.todo = found, !.cutoff = now]
  <1>1. /\ FlushAt(s, "idle") /\ found # {} /\ flush' = [flush EXCEPT ![s] = next]
        /\ UNCHANGED <<tables, lane, settings, groups, items, add, now>>
    BY DEF Poll, intakeVars
  <1>2. found \in SUBSET Groups /\ now \in Nat
    BY DEF Inv, AggregationInv
  <1> HIDE DEF found
  <1>3. /\ next \in FlushRow /\ next.step = "claim" /\ next.todo = found /\ next.cutoff = now
        /\ next.group = None
    BY <1>2 DEF NoFlush, FlushRow
  <1> HIDE DEF next
  <1>4. FlushFine(next, groups', items, now, notifications) /\ next.step \notin Busy
    BY <1>1, <1>2, <1>3 DEF FlushFine, Busy
  <1>5. ~FlushAt(s, "enqueue")
    BY <1>1 DEF FlushAt
  <1> QED
    BY <1>1, <1>4, <1>5, GroupsAreRows, FlushAlone

LEMMA ClaimedCloses ==
  ASSUME Inv, NEW s \in Instances, NEW g \in Groups, Claims(s, g), SetStatus(g, "FLUSHING")
  PROVE  /\ groups' \in [Groups -> GroupRow] /\ GroupsClose(groups, groups')
         /\ groups'[g].status = "FLUSHING" /\ groups[g].status = "OPEN"
  <1>1. groups[g].status = "OPEN" /\ WindowEnd(groups[g]) <= flush[s].cutoff
    BY DEF Claims, Eligible, IsExpired
  <1>2. WindowEnd(groups[g]) \in Nat
    BY Numbers DEF WindowEnd, Inv, AggregationInv, GroupRow
  <1>3. WindowEnd(groups[g]) <= now
    BY <1>1, <1>2, AtFlush
  <1> QED
    BY <1>1, <1>3, Closes DEF Closed

LEMMA ClaimKeeps == ASSUME Inv, NEW s \in Instances, Claim(s) PROVE Inv'
  <1>1. /\ FlushAt(s, "claim") /\ ~FlushAt(s, "enqueue")
        /\ UNCHANGED <<tables, lane, settings, items, add, now>>
    BY DEF Claim, FlushAt, intakeVars
  <1>2. ASSUME NEW g \in Groups, Claims(s, g), SetStatus(g, "FLUSHING"),
               flush' = [flush EXCEPT ![s].step = "read", ![s].group = g,
                                      ![s].todo = @ \ {g}]
        PROVE  Inv'
    <2> DEFINE next == [flush[s] EXCEPT !.step = "read", !.group = g,
                                        !.todo = flush[s].todo \ {g}]
    <2>1. flush' = [flush EXCEPT ![s] = next]
      BY <1>2 DEF Inv, AggregationInv
    <2>2. /\ next \in FlushRow /\ next.step = "read" /\ next.group = g
          /\ next.cutoff = flush[s].cutoff
      BY AtFlush DEF FlushRow, Busy
    <2> HIDE DEF next
    <2>3. /\ groups' \in [Groups -> GroupRow] /\ GroupsClose(groups, groups')
          /\ groups'[g].status = "FLUSHING" /\ groups[g].status = "OPEN"
      BY <1>2, ClaimedCloses
    <2>4. FlushFine(next, groups', items, now, notifications)
      BY <2>2, <2>3, AtFlush DEF FlushFine, Busy, Closed
    <2>5. \A t \in Instances \ {s} : flush[t].step \in Busy => flush[t].group # next.group
      BY <2>2, <2>3 DEF Inv, AggregationInv, FlushFine, Closed
    <2> QED
      BY <1>1, <2>1, <2>3, <2>4, <2>5, FlushAlone
  <1>3. ASSUME NEW g \in Groups, GoOn(s, flush[s].todo \ {g}), UNCHANGED groups PROVE Inv'
    BY <1>1, <1>3, AtFlush, GroupsAreRows, GoesOn
  <1> QED
    BY <1>2, <1>3 DEF Claim

LEMMA ReadItemsKeeps == ASSUME Inv, NEW s \in Instances, ReadItems(s) PROVE Inv'
  <1> DEFINE q == flush[s]
             found == ListItems(q.group)
             next == [q EXCEPT !.items = found,
                               !.step = IF found = {} THEN "fail" ELSE "build"]
  <1>1. /\ q.step = "read" /\ flush' = [flush EXCEPT ![s] = next]
        /\ UNCHANGED <<tables, lane, settings, groups, items, add, now>>
    BY DEF ReadItems, FlushAt, intakeVars, Inv, AggregationInv
  <1>2. q.group \in Groups /\ groups[q.group].status \in Closed
    BY <1>1, AtFlush DEF FlushFine, Busy
  <1>3. found \in SUBSET ItemRow
    BY DEF ListItems, Inv, AggregationInv, ItemsOK
  <1>4. found # {} => Whole(found, q.group, groups, items)
    BY DEF ListItems, Whole
  <1> HIDE DEF found
  <1>5. /\ next \in FlushRow /\ next.step = IF found = {} THEN "fail" ELSE "build"
        /\ next.group = q.group /\ next.cutoff = q.cutoff /\ next.items = found
    BY <1>3, AtFlush DEF FlushRow, Busy
  <1> HIDE DEF next
  <1>6. FlushFine(next, groups', items, now, notifications)
    BY <1>1, <1>2, <1>4, <1>5, AtFlush DEF FlushFine, Busy
  <1>7. \A t \in Instances \ {s} : flush[t].step \in Busy => flush[t].group # next.group
    BY <1>1, <1>5, SameGroup DEF Busy
  <1>8. ~FlushAt(s, "enqueue")
    BY <1>1 DEF FlushAt
  <1> QED
    BY <1>1, <1>6, <1>7, <1>8, GroupsAreRows, FlushAlone

(* The steps that start and end the enqueue of the flush.                   *)
LEMMA FlushWithLane ==
  ASSUME Inv, NEW s \in Instances, NEW next, flush' = [flush EXCEPT ![s] = next],
         DOMAIN lane' = Lanes, \A e \in Lanes : e # Lane(s) => lane'[e] = lane[e],
         LaneFine(lane'[Lane(s)], versions, offers, notifications),
         UNCHANGED <<tables, settings, groups, items, add, now>>,
         FlushFine(next, groups, items, now, notifications),
         next.step \in Busy => \A t \in Instances \ {s} :
           flush[t].step \in Busy => flush[t].group # next.group,
         \/ lane'[Lane(s)] = None
         \/ next.step = "enqueue" /\ MadeFor(lane'[Lane(s)].data, next, notifications)
  PROVE  Inv'
  <1>1. \A e \in Lanes : LaneFine(lane'[e], versions, offers, notifications)
    BY DEF Inv, IntakeInv, LaneOK
  <1>2. TemplateInv' /\ IntakeInv' /\ UNCHANGED workload
    BY <1>1, LanesStep DEF Inv, settings
  <1>3. \A e \in Lanes : JobOK(e)'
    BY JobsStay DEF tables
  <1>4. /\ groups' \in [Groups -> GroupRow] /\ GroupsClose(groups, groups')
        /\ FlushFine(next, groups', items, now, notifications)
    BY GroupsAreRows
  <1> QED
    BY <1>2, <1>3, <1>4, FlushMoves

LEMMA LaneChanges ==
  ASSUME Inv, NEW s \in Instances, NEW q, lane' = [lane EXCEPT ![Lane(s)] = q]
  PROVE  /\ DOMAIN lane' = Lanes /\ \A e \in Lanes : e # Lane(s) => lane'[e] = lane[e]
         /\ lane'[Lane(s)] = q
  BY LanesOfInstances DEF Inv, IntakeInv

(* No flush waits for a lane any more.                                      *)
LEMMA FlushLeavesLane ==
  ASSUME Inv, NEW s \in Instances, NEW next, flush' = [flush EXCEPT ![s] = next],
         lane' = [lane EXCEPT ![Lane(s)] = None],
         UNCHANGED <<tables, settings, groups, items, add, now>>,
         FlushFine(next, groups, items, now, notifications),
         next.step \in Busy => \A t \in Instances \ {s} :
           flush[t].step \in Busy => flush[t].group # next.group
  PROVE  Inv'
  <1>1. /\ DOMAIN lane' = Lanes /\ \A e \in Lanes : e # Lane(s) => lane'[e] = lane[e]
        /\ lane'[Lane(s)] = None
    BY LaneChanges
  <1>2. LaneFine(lane'[Lane(s)], versions, offers, notifications)
    BY <1>1, NoLane DEF LaneOK
  <1> QED
    BY <1>1, <1>2, FlushWithLane

LEMMA StepChanges ==
  ASSUME Inv, NEW s \in Instances, flush[s].step \in Busy, NEW step \in Busy, GoTo(s, step)
  PROVE  LET next == [flush[s] EXCEPT !.step = step]
         IN /\ flush' = [flush EXCEPT ![s] = next]
            /\ next \in FlushRow /\ next.step = step /\ next.group = flush[s].group
            /\ next.cutoff = flush[s].cutoff /\ next.items = flush[s].items
            /\ next.group \in Groups /\ groups[next.group].status \in Closed
            /\ \A t \in Instances \ {s} :
                 flush[t].step \in Busy => flush[t].group # next.group
  <1> DEFINE next == [flush[s] EXCEPT !.step = step]
  <1>1. flush' = [flush EXCEPT ![s] = next]
    BY DEF GoTo, Inv, AggregationInv
  <1>2. /\ next \in FlushRow /\ next.step = step /\ next.group = flush[s].group
        /\ next.cutoff = flush[s].cutoff /\ next.items = flush[s].items
    BY AtFlush DEF FlushRow, Busy
  <1> HIDE DEF next
  <1>3. flush[s].group \in Groups /\ groups[flush[s].group].status \in Closed
    BY AtFlush DEF FlushFine
  <1>4. next.group \in Groups /\ groups[next.group].status \in Closed
    BY <1>2, <1>3
  <1>5. \A t \in Instances \ {s} : flush[t].step \in Busy => flush[t].group # next.group
    BY <1>2, SameGroup
  <1> QED
    BY <1>1, <1>2, <1>4, <1>5 DEF next

(* What the builder makes of sources that it found and that agree.         *)
LEMMA DigestTells ==
  ASSUME Inv, NEW found, \A i \in found : Resolves(i.source), AgreesOnData(found)
  PROVE  CommonData(found) \in TextData /\ Told(found, CommonData(found), notifications)
  <1> DEFINE d == CommonData(found)
  <1>1. \A i \in found : \E n \in SourceRows(found) : n \in notifications /\ n.id = i.source
    BY DEF Resolves, SourceRows
  <1>2. \A n \in SourceRows(found) : n.templateData = None \/ n.templateData \in DataOf(found)
    BY DEF DataOf
  <1>3. CASE DataOf(found) = {}
    <2>1. d = None
      BY <1>3 DEF CommonData
    <2> QED
      BY <1>1, <1>2, <1>3, <2>1 DEF Told, HasText, TextData
  <1>4. CASE DataOf(found) # {}
    <2>1. d \in DataOf(found) /\ \A e \in DataOf(found) : e = d
      BY <1>4 DEF CommonData, AgreesOnData
    <2>2. PICK m \in SourceRows(found) : m.templateData = d
      BY <2>1 DEF DataOf
    <2>3. d # None /\ d \in TextData
      BY <2>1, <2>2 DEF DataOf, SourceRows, Inv, IntakeInv, TablesOK
    <2>4. \E j \in found : HasText(j, d, notifications)
      BY <2>2 DEF SourceRows, HasText
    <2> HIDE DEF d
    <2>5. \A i \in found : HasText(i, d, notifications) \/ HasText(i, None, notifications)
      BY <1>1, <1>2, <2>1 DEF HasText
    <2> QED
      BY <2>3, <2>4, <2>5 DEF Told, d
  <1> QED
    BY <1>3, <1>4

LEMMA BuildKeeps == ASSUME Inv, NEW s \in Instances, Build(s) PROVE Inv'
  <1> DEFINE q == flush[s]
             data == Digest(q.group, q.items)
             next == [q EXCEPT !.step = "enqueue"]
  <1>1. /\ q.step = "build" /\ UNCHANGED <<tables, settings, groups, items, add, now>>
        /\ q.step \in Busy
    BY DEF Build, FlushAt, Busy
  <1>2. CASE /\ \A i \in q.items : Resolves(i.source)
             /\ AgreesOnData(q.items)
             /\ lane' = [lane EXCEPT ![Lane(s)] = Started(data)] /\ GoTo(s, "enqueue")
    <2> DEFINE common == CommonData(q.items)
    <2>0. common \in TextData /\ Told(q.items, common, notifications)
      BY <1>2, DigestTells
    <2>1. data \in Jobs /\ Started(data).data = data /\ MadeFor(data, q, notifications)
      <3>1. data = [id |-> DigestKey(q.group), key |-> DigestKey(q.group), of |-> q.items,
                    templateData |-> common]
        BY DEF Digest
      <3>2. q.group \in Groups /\ q.items \in SUBSET ItemRow
        BY <1>1, AtFlush DEF FlushFine, FlushRow
      <3> HIDE DEF common, data
      <3> QED
        BY <2>0, <3>1, <3>2 DEF Jobs, DigestJobs, Started, MadeFor
    <2>2. LaneOK(Started(data))
      BY <2>1, StartedIsFine DEF Inv
    <2>3. Whole(q.items, q.group, groups, items)
      BY <1>1, AtFlush DEF FlushFine
    <2>4. /\ flush' = [flush EXCEPT ![s] = next]
          /\ next \in FlushRow /\ next.step = "enqueue" /\ next.group = q.group
          /\ next.cutoff = q.cutoff /\ next.items = q.items
          /\ next.group \in Groups /\ groups[next.group].status \in Closed
          /\ \A t \in Instances \ {s} : flush[t].step \in Busy => flush[t].group # next.group
      BY <1>1, <1>2, StepChanges DEF Busy
    <2> HIDE DEF next
    <2>5. FlushFine(next, groups, items, now, notifications)
      BY <2>3, <2>4, AtFlush DEF FlushFine, Busy
    <2>6. /\ DOMAIN lane' = Lanes /\ \A e \in Lanes : e # Lane(s) => lane'[e] = lane[e]
          /\ lane'[Lane(s)] = Started(data)
      BY <1>2, LaneChanges
    <2>7. /\ LaneFine(lane'[Lane(s)], versions, offers, notifications)
          /\ MadeFor(lane'[Lane(s)].data, next, notifications)
      BY <2>1, <2>2, <2>4, <2>6 DEF LaneOK, MadeFor
    <2> HIDE DEF data
    <2> QED
      BY <1>1, <1>2, <2>4, <2>5, <2>6, <2>7, FlushWithLane
  <1>3. CASE GoTo(s, "fail") /\ UNCHANGED lane
    BY <1>1, <1>3, GroupsAreRows, GoesTo DEF Busy
  <1> QED
    BY <1>2, <1>3 DEF Build

(* A flush that waits has its lane work for the digest it built.            *)
LEMMA LaneOfFlush ==
  ASSUME Inv, NEW s \in Instances, FlushAt(s, "enqueue"), lane[Lane(s)] # None
  PROVE  MadeFor(lane[Lane(s)].data, flush[s], notifications)
  BY LanesOfInstances DEF Inv, AggregationInv, JobOK

LEMMA EnqueuedKeeps == ASSUME Inv, NEW s \in Instances, Enqueued(s) PROVE Inv'
  <1> DEFINE q == flush[s]
  <1>1. /\ q.step = "enqueue" /\ q.step \in Busy /\ lane' = [lane EXCEPT ![Lane(s)] = None]
        /\ UNCHANGED <<tables, settings, groups, items, add, now>>
    BY DEF Enqueued, FlushAt, Busy
  <1>2. ASSUME NEW step \in {"mark", "fail"}, GoTo(s, step),
               step = "mark" => \E n \in notifications : n.key = DigestKey(q.group)
        PROVE  Inv'
    <2> DEFINE next == [q EXCEPT !.step = step]
    <2>1. /\ flush' = [flush EXCEPT ![s] = next]
          /\ next \in FlushRow /\ next.step = step /\ next.group = q.group
          /\ next.cutoff = q.cutoff
          /\ next.group \in Groups /\ groups[next.group].status \in Closed
          /\ \A t \in Instances \ {s} : flush[t].step \in Busy => flush[t].group # next.group
      <3>1. step \in Busy
        BY DEF Busy
      <3> QED
        BY <1>1, <1>2, <3>1, StepChanges
    <2> HIDE DEF next
    <2>2. FlushFine(next, groups, items, now, notifications)
      BY <1>2, <2>1, AtFlush DEF FlushFine, Busy
    <2> QED
      BY <1>1, <2>1, <2>2, FlushLeavesLane
  <1>3. CASE At(Lane(s), "replied") /\ GoTo(s, "mark")
    <2>1. lane[Lane(s)] # None /\ lane[Lane(s)].step = "replied"
      BY <1>3 DEF At
    <2>2. \E n \in notifications : n.key = lane[Lane(s)].data.key
      BY <2>1, LanesOfInstances, AtLane DEF Inv, LaneOK, LaneFine
    <2>3. MadeFor(lane[Lane(s)].data, q, notifications)
      BY <1>1, <2>1, LaneOfFlush DEF FlushAt
    <2>4. lane[Lane(s)].data.key = DigestKey(q.group)
      BY <2>3 DEF MadeFor
    <2> QED
      BY <1>2, <1>3, <2>2, <2>4
  <1> QED
    BY <1>2, <1>3 DEF Enqueued

(* Marking the group of a flush, which has its window behind it.            *)
LEMMA MarkCloses ==
  ASSUME Inv, NEW s \in Instances, flush[s].step \in Busy, NEW status \in Closed,
         MayHaveSet(flush[s].group, status), status = "FLUSHED" => FlushAt(s, "mark")
  PROVE  groups' \in [Groups -> GroupRow] /\ GroupsClose(groups, groups')
  <1>1. flush[s].group \in Groups /\ groups[flush[s].group].status \in Closed
    BY AtFlush DEF FlushFine
  <1>2. WindowEnd(groups[flush[s].group]) <= now
    BY <1>1 DEF Inv, AggregationInv, GroupOK
  <1>3. status = "FLUSHED" => \E n \in notifications : n.key = DigestKey(flush[s].group)
    BY AtFlush DEF FlushAt, FlushFine
  <1> QED
    BY <1>1, <1>2, <1>3, Closes, GroupsAreRows DEF MayHaveSet

LEMMA MarkFlushedKeeps == ASSUME Inv, NEW s \in Instances, MarkFlushed(s) PROVE Inv'
  BY MarkCloses, AtFlush, GoesOn DEF MarkFlushed, FlushAt, Busy, MayHaveSet, Closed, intakeVars

LEMMA MarkFailedKeeps == ASSUME Inv, NEW s \in Instances, MarkFailed(s) PROVE Inv'
  BY MarkCloses, AtFlush, GoesOn DEF MarkFailed, FlushAt, Busy, MayHaveSet, Closed, intakeVars

LEMMA FlushThrowsKeeps == ASSUME Inv, NEW s \in Instances, FlushThrows(s) PROVE Inv'
  <1>1. UNCHANGED <<tables, lane, settings, items, add, now>>
    BY DEF FlushThrows
  <1>2. CASE ClaimThrows(s)
    <2>1. PICK g \in Groups : /\ FlushAt(s, "claim") /\ GoOn(s, flush[s].todo \ {g})
                              /\ \/ Claims(s, g) /\ SetStatus(g, "FLUSHING")
                                 \/ UNCHANGED groups
      BY <1>2 DEF ClaimThrows
    <2>2. groups' \in [Groups -> GroupRow] /\ GroupsClose(groups, groups')
      BY <2>1, ClaimedCloses, GroupsAreRows
    <2> QED
      BY <1>1, <2>1, <2>2, AtFlush, GoesOn DEF FlushAt
  <1>3. CASE ReadThrows(s)
    BY <1>1, <1>3, GroupsAreRows, GoesTo DEF ReadThrows, FlushAt, Busy
  <1>4. CASE /\ FlushAt(s, "mark") /\ MayHaveSet(flush[s].group, "FLUSHED")
             /\ GoTo(s, "fail")
    BY <1>1, <1>4, MarkCloses, GoesTo DEF FlushAt, Busy, Closed
  <1>5. CASE /\ FlushAt(s, "fail") /\ MayHaveSet(flush[s].group, "FAILED")
             /\ GoOn(s, flush[s].todo)
    BY <1>1, <1>5, MarkCloses, AtFlush, GoesOn DEF FlushAt, Busy, Closed
  <1> QED
    BY <1>2, <1>3, <1>4, <1>5 DEF FlushThrows, MarkThrows

LEMMA CrashKeeps == ASSUME Inv, NEW s \in Instances, Crash(s) PROVE Inv'
  <1>1. UNCHANGED <<tables, settings, groups, items, add, now>>
        /\ lane' = [lane EXCEPT ![Lane(s)] = None] /\ flush' = [flush EXCEPT ![s] = NoFlush]
    BY DEF Crash
  <1>2. FlushFine(NoFlush, groups, items, now, notifications) /\ NoFlush.step \notin Busy
    BY IdleIsFine
  <1> QED
    BY <1>1, <1>2, FlushLeavesLane

LEMMA TickKeeps == ASSUME Inv, Tick PROVE Inv'
  <1>1. /\ now < workload.ticks /\ now' = now + 1 /\ groups' = groups /\ items' = items
        /\ add' = add /\ flush' = flush /\ lane' = lane /\ UNCHANGED <<tables, lane, settings>>
    BY DEF Tick, intakeVars
  <1>2. /\ TemplateInv' /\ IntakeInv' /\ workload' = workload
        /\ notifications' = notifications
    BY <1>1, IntakeStays
  <1>3. workload.ticks \in Nat
    BY PolicyIsValid DEF Inv, TemplateInv
  <1>4. now \in Nat /\ now' \in Nat /\ now <= now' /\ now' \in 0..workload'.ticks
    BY <1>1, <1>2, <1>3 DEF Inv, AggregationInv
  <1>5. ASSUME NEW g \in Groups PROVE GroupOK(g)'
    <2>1. ListItems(g)' = ListItems(g) /\ Inserting(g)' = Inserting(g)
      BY <1>1 DEF ListItems, Inserting
    <2>2. groups[g].start \in Nat /\ WindowEnd(groups[g]) \in Nat
      BY Numbers DEF WindowEnd, Inv, AggregationInv, GroupRow
    <2> QED
      BY <1>1, <1>2, <1>4, <2>1, <2>2 DEF Inv, AggregationInv, GroupOK
  <1>6. ItemsOK'
    <2>1. \A i \in items : i.at \in Nat /\ i.created \in Nat
      BY DEF Inv, AggregationInv, ItemsOK, ItemRow
    <2> QED
      BY <1>1, <1>4, <2>1 DEF Inv, AggregationInv, ItemsOK, ItemsFallInWindow, Exists
  <1>7. \A a \in Adders : AddFine(add[a], groups, now')
    BY <1>4, GroupsStay, AddKept DEF Inv, AggregationInv
  <1>8. \A s \in Instances : FlushFine(flush[s], groups, items, now', notifications)
    BY <1>4, GroupsStay, ItemsStay, FlushKept DEF Inv, AggregationInv
  <1>9. OneFlush' /\ \A e \in Lanes : JobOK(e)'
    BY <1>1, <1>2 DEF Inv, AggregationInv, OneFlush, JobOK, FlushAt
  <1> QED
    BY <1>1, <1>2, <1>4, <1>5, <1>6, <1>7, <1>8, <1>9 DEF Inv, AggregationInv

-----------------------------------------------------------------------------
(* The invariant, and what it means.                                       *)

LEMMA InitInv == Init => Inv
  <1> SUFFICES ASSUME Init PROVE Inv
    OBVIOUS
  <1>1. TemplateInv /\ IntakeInv /\ notifications = workload.seeded /\ workload \in Workloads
    BY InitIntake DEF Init, IntakeInit
  <1>2. /\ groups = [g \in Groups |-> NoGroup] /\ items = {} /\ now = 0
        /\ add = [a \in Adders |-> None] /\ flush = [s \in Instances |-> NoFlush]
        /\ lane = [e \in Lanes |-> None]
    BY DEF Init, IntakeInit
  <1>3. NoGroup \in GroupRow /\ NoGroup.status = "NONE" /\ NoGroup.start = 0 /\ NoGroup.count = 0
    BY DEF NoGroup, GroupRow, GroupStatus
  <1>4. groups \in [Groups -> GroupRow]
    BY <1>2, <1>3
  <1>5. ASSUME NEW g \in Groups PROVE GroupOK(g)
    <2>1. ListItems(g) = {} /\ Inserting(g) = {}
      BY <1>2 DEF ListItems, Inserting
    <2>2. Cardinality({}) = 0
      BY FS_EmptySet
    <2> QED
      BY <1>2, <1>3, <2>1, <2>2, Numbers DEF GroupOK, Closed
  <1>6. ItemsOK
    BY <1>2, FS_EmptySet DEF ItemsOK, ItemsFallInWindow
  <1>7. \A s \in Instances : FlushFine(flush[s], groups, items, now, notifications)
    <2>1. NoFlush \in FlushRow /\ NoFlush.step = "idle" /\ NoFlush.cutoff = 0
          /\ NoFlush.group = None
      BY DEF NoFlush, FlushRow
    <2> QED
      BY <1>2, <2>1 DEF FlushFine, Busy
  <1>8. OneFlush
    BY <1>2 DEF OneFlush, NoFlush, Busy
  <1>9. \A n \in notifications : DigestFine(n, groups, items, notifications)
    BY <1>1, DigestKeysAreTheirOwn DEF DigestFine
  <1>10. now \in 0..workload.ticks
    BY <1>1, <1>2, PolicyIsValid
  <1> QED
    BY <1>1, <1>2, <1>4, <1>5, <1>6, <1>7, <1>8, <1>9, <1>10
       DEF Inv, AggregationInv, AddFine, JobOK

LEMMA StutterKeeps == Inv /\ UNCHANGED vars => Inv'
  <1> SUFFICES ASSUME Inv, UNCHANGED vars PROVE Inv'
    OBVIOUS
  <1>1. /\ UNCHANGED <<tables, lane, settings>> /\ UNCHANGED aggregationVars
    BY DEF vars, intakeVars
  <1>2. TemplateInv' /\ IntakeInv' /\ workload' = workload /\ notifications' = notifications
        /\ lane' = lane
    BY <1>1, IntakeStays
  <1>3. groups' = groups /\ items' = items /\ add' = add /\ flush' = flush /\ now' = now
    BY <1>1 DEF aggregationVars
  <1>4. \A g \in Groups : GroupOK(g)'
    BY <1>2, <1>3 DEF Inv, AggregationInv, GroupOK, ListItems, Inserting
  <1>5. ItemsOK'
    BY <1>3 DEF Inv, AggregationInv, ItemsOK, ItemsFallInWindow, Exists
  <1>6. OneFlush' /\ \A e \in Lanes : JobOK(e)'
    BY <1>2, <1>3 DEF Inv, AggregationInv, OneFlush, JobOK, FlushAt
  <1> QED
    BY <1>2, <1>3, <1>4, <1>5, <1>6 DEF Inv, AggregationInv

LEMMA NextKeeps == Inv /\ Next => Inv'
  <1> SUFFICES ASSUME Inv, Next PROVE Inv'
    OBVIOUS
  <1>1. CASE IntakeNext /\ UNCHANGED aggregationVars
    <2>1. workload' = workload
      BY WorkloadStays
    <2> QED
      BY <1>1, <2>1, IntakeKeepsGroups
  <1>2. ASSUME NEW a \in Adders, BeginAdd(a) \/ AddStep(a) \/ AddThrows(a) PROVE Inv'
    BY <1>2, BeginAddKeeps, UpsertGroupKeeps, InsertItemKeeps, AddThrowsKeeps DEF AddStep
  <1>3. ASSUME NEW s \in Instances, FlushStep(s) \/ FlushThrows(s) \/ Crash(s) PROVE Inv'
    BY <1>3, PollKeeps, ClaimKeeps, ReadItemsKeeps, BuildKeeps, EnqueuedKeeps,
       MarkFlushedKeeps, MarkFailedKeeps, FlushThrowsKeeps, CrashKeeps DEF FlushStep
  <1> QED
    BY <1>1, <1>2, <1>3, TickKeeps DEF Next

(* The inductive invariant of templates, intake and aggregation.            *)
THEOREM AggregationInvariant == Spec => []Inv
  <1>1. Init => Inv
    BY InitInv
  <1>2. Inv /\ [Next]_vars => Inv'
    BY NextKeeps, StutterKeeps
  <1> QED
    BY <1>1, <1>2, PTL DEF Spec

(* Repeated, overlapping and failing requests leave each idempotency key   *)
(* with one notification, stored together with its one event.              *)
THEOREM RequestsStayStored == Spec => []RequestsAreStored
  <1>1. Inv => RequestsAreStored
    <2> SUFFICES ASSUME Inv PROVE RequestsAreStored
      OBVIOUS
    <2>1. OneNotificationPerKey /\ events = {EventOf(n) : n \in notifications}
      BY DEF Inv, IntakeInv, TablesOK
    <2>2. ASSUME NEW n \in notifications
          PROVE  Cardinality({v \in events : v.about = n.row /\ v.dedupe = n.key}) = 1
      <3>1. {v \in events : v.about = n.row /\ v.dedupe = n.key} = {EventOf(n)}
        BY <2>1 DEF EventOf
      <3> QED
        BY <3>1, FS_Singleton
    <2>3. \A v \in events : \E n \in notifications : n.row = v.about /\ n.key = v.dedupe
      BY <2>1 DEF EventOf
    <2> QED
      BY <2>1, <2>2, <2>3 DEF RequestsAreStored, StoredTogether
  <1> QED
    BY <1>1, AggregationInvariant, PTL

(* A caller that is told its request was accepted has a notification of its *)
(* own key, and the event that will deliver it.                            *)
THEOREM RepliesStayBacked == Spec => []RepliesAreBacked
  <1>1. Inv => RepliesAreBacked
    BY DEF Inv, IntakeInv, LaneOK, LaneFine, RepliesAreBacked, At
  <1> QED
    BY <1>1, AggregationInvariant, PTL

(* Overlapping publications leave a published version on offer, and what is *)
(* rendered and stored meanwhile is one that was on offer during the call.  *)
THEOREM TemplatesStaySound == Spec => []TemplatesAreSound
  <1>1. Inv => TemplatesAreSound
    BY DEF Inv, TemplateInv, IntakeInv, LaneOK, LaneFine, Offered, TablesOK,
           TemplatesAreSound, RenderedWasCurrent, Running
  <1> QED
    BY <1>1, AggregationInvariant, PTL

(* Additions, polls and flushes that overlap leave every group with a true *)
(* count, items of its window, a bounded overrun and one flush.            *)
THEOREM GroupsStaySound == Spec => []GroupsAreSound
  <1>1. Inv => GroupsAreSound
    <2> SUFFICES ASSUME Inv PROVE GroupsAreSound
      OBVIOUS
    <2>1. now \in Nat /\ workload.ticks \in Nat /\ now <= workload.ticks
      BY PolicyIsValid DEF Inv, TemplateInv, AggregationInv
    <2>2. groups \in [Groups -> [status : GroupStatus, start : 0..workload.ticks, count : Nat]]
      BY <2>1 DEF Inv, AggregationInv, GroupOK, GroupRow
    <2>3. \A i \in items : /\ i.group \in Groups /\ i.at \in 0..workload.ticks
                           /\ i.created \in 0..workload.ticks
      BY <2>1 DEF Inv, AggregationInv, ItemsOK, ItemRow
    <2>4. ASSUME NEW a \in Adders, add[a] # None
          PROVE  /\ add[a].step \in {"upsert", "insert"} /\ add[a].group \in Groups
                 /\ add[a].at \in 0..workload.ticks
      BY <2>1, <2>4 DEF Inv, AggregationInv, AddFine, AddRow
    <2>5. ASSUME NEW s \in Instances
          PROVE  /\ flush[s].step \in {"idle", "claim", "read", "build", "enqueue", "mark", "fail"}
                 /\ FlushAt(s, "claim") => flush[s].todo # {}
                 /\ flush[s].todo \subseteq Groups /\ flush[s].cutoff \in 0..now
                 /\ ~FlushAt(s, "idle") /\ ~FlushAt(s, "claim") => flush[s].group \in Groups
      BY <2>1 DEF Inv, AggregationInv, FlushFine, FlushRow, Busy, FlushAt
    <2>6. AggregationTypeOK
      BY <2>1, <2>2, <2>3, <2>4, <2>5
         DEF AggregationTypeOK, Inv, TemplateInv, TemplateRow
    <2>7. CountsAgree /\ ItemsFallInWindow
      BY DEF Inv, AggregationInv, GroupOK, ListItems, ItemsOK, CountsAgree
    <2>8. OverrunIsBounded
      <3>1. \A g \in Groups : /\ groups[g].count \in Nat
                              /\ groups[g].count + Cardinality(Inserting(g))
                                   < MaximumItems + Cardinality(Adders)
        BY DEF Inv, AggregationInv, GroupOK, GroupRow
      <3> QED
        BY <3>1, InsertingIsFinite, Numbers DEF OverrunIsBounded
    <2>9. OneFlusher
      BY DEF Inv, AggregationInv, FlushFine, OneFlush, OneFlusher, Holds
    <2> QED
      BY <2>6, <2>7, <2>8, <2>9 DEF GroupsAreSound
  <1> QED
    BY <1>1, AggregationInvariant, PTL

(* A flushed group has its digest, made of items of that group only, and   *)
(* every item that was stored before the window ended is in its text: but  *)
(* for literal items whose place the rendering of another one has taken.   *)
THEOREM TimelyItemsStaySent == Spec => []TimelyItemsAreSent
  <1>1. Inv => TimelyItemsAreSent
    <2> SUFFICES ASSUME Inv, NEW g \in Groups, groups[g].status = "FLUSHED"
                 PROVE  \E n \in Digests(g) :
                          /\ \A i \in n.of : i \in items /\ i.group = g
                          /\ \A i \in items :
                               i.group = g /\ i.created < WindowEnd(groups[g]) =>
                                 Shows(n, i) \/ IsDisplaced(n, i)
      BY DEF TimelyItemsAreSent
    <2>1. PICK n \in notifications : n.key = DigestKey(g)
      BY DEF Inv, AggregationInv, GroupOK
    <2>2. Whole(n.of, g, groups, items) /\ Told(n.of, n.templateData, notifications)
      BY <2>1 DEF Inv, AggregationInv, DigestFine
    <2>3. n \in Digests(g)
      BY <2>1, <2>2 DEF Whole, Digests
    <2>4. \A i \in n.of : Shows(n, i) \/ IsDisplaced(n, i)
      BY <2>2 DEF Told, HasText, Shows, IsDisplaced, SourceHas
    <2> QED
      BY <2>2, <2>3, <2>4 DEF Whole
  <1> QED
    BY <1>1, AggregationInvariant, PTL

-----------------------------------------------------------------------------
(* Aggregation implements the digest it promises.                           *)

Collected(its) == [g \in Groups |-> SourcesIn(its, g)]
Sent(ns) == [g \in Groups |-> SourcesIn(UNION {n.of : n \in ns}, g)]

LEMMA AddCollects ==
  ASSUME Inv, NEW a \in Adders, InsertItem(a)
  PROVE  \/ UNCHANGED <<Collected(items), Sent(notifications)>>
         \/ \E g \in Groups : Promise!Collect(g)
  <1> DEFINE q == add[a]
             g == q.group
             new == NewItem(a)
  <1>1. /\ q # None /\ notifications' = notifications
        /\ Sent(notifications)' = Sent(notifications)
    BY DEF InsertItem, intakeVars, tables, Sent
  <1>2. CASE UNCHANGED items
    BY <1>1, <1>2 DEF Collected
  <1>3. CASE ~IsStored(a) /\ StoreItem(a)
    <2>1. g \in Groups /\ q.source \in Sources
      BY <1>1 DEF Inv, AggregationInv, AddFine, AddRow
    <2>2. items' = items \cup {new} /\ new.group = g /\ new.source = q.source
      BY <1>3 DEF StoreItem, NewItem
    <2>3. q.source \notin SourcesIn(items, g)
      BY <1>3 DEF IsStored, SourcesIn
    <2> HIDE DEF new
    <2>4. SourcesIn(items', g) = SourcesIn(items, g) \cup {q.source}
      BY <2>2 DEF SourcesIn
    <2>5. \A h \in Groups : h # g => SourcesIn(items', h) = SourcesIn(items, h)
      BY <2>2 DEF SourcesIn
    <2>6. Collected(items)' = [Collected(items) EXCEPT ![g] = @ \cup {q.source}]
      BY <2>1, <2>4, <2>5 DEF Collected
    <2>7. q.source \in Sources \ Collected(items)[g]
      BY <2>1, <2>3 DEF Collected
    <2>8. Promise!Collect(g)
      BY <1>1, <2>6, <2>7 DEF Promise!Collect, Collected, Sent
    <2> QED
      BY <2>1, <2>8
  <1> QED
    BY <1>2, <1>3 DEF InsertItem

LEMMA RowSends ==
  ASSUME Inv, NEW e \in Lanes, RowAdded(e), UNCHANGED items
  PROVE  \/ UNCHANGED <<Collected(items), Sent(notifications)>>
         \/ \E g \in Groups : Promise!Send(g)
  <1> DEFINE row == NewRow(e)
             of == UNION {n.of : n \in notifications}
             of2 == UNION {n.of : n \in notifications'}
  <1>1. lane[e] # None /\ notifications' = notifications \cup {row}
        /\ DigestFine(row, groups, items, notifications)
    BY NewRowIsFine DEF RowAdded
  <1>2. of2 = of \cup row.of
    BY <1>1
  <1>3. Collected(items)' = Collected(items)
    BY DEF Collected
  <1>4. Sent(notifications) = [g \in Groups |-> SourcesIn(of, g)]
        /\ Sent(notifications)' = [g \in Groups |-> SourcesIn(of2, g)]
    BY DEF Sent
  <1>5. CASE row.of = {}
    <2>1. of2 = of
      BY <1>2, <1>5
    <2> QED
      BY <1>3, <1>4, <2>1
  <1>6. CASE row.of # {}
    <2>1. PICK g \in Groups : row.key = DigestKey(g)
      BY <1>1, <1>6 DEF DigestFine
    <2>2. Whole(row.of, g, groups, items)
      BY <1>1, <2>1 DEF DigestFine
    <2>3. \A i \in row.of : i \in items /\ i.group = g
      BY <2>2 DEF Whole
    <2>4. \A i \in of : i.group # g
      <3> SUFFICES ASSUME NEW n \in notifications, NEW i \in n.of, i.group = g PROVE FALSE
        OBVIOUS
      <3>1. PICK h \in Groups : n.key = DigestKey(h)
        BY DEF Inv, AggregationInv, DigestFine
      <3>2. Whole(n.of, h, groups, items)
        BY <3>1 DEF Inv, AggregationInv, DigestFine
      <3>3. h = g
        BY <3>2 DEF Whole
      <3> QED
        BY <2>1, <3>1, <3>3 DEF RowAdded, Accepted, NewRow
    <2> HIDE DEF of, of2, row
    <2> DEFINE chosen == SourcesIn(row.of, g)
    <2>5. SourcesIn(of, g) = {} /\ SourcesIn(of2, g) = chosen
      BY <1>2, <2>4 DEF SourcesIn
    <2>6. \A h \in Groups : h # g => SourcesIn(of2, h) = SourcesIn(of, h)
      BY <1>2, <2>3 DEF SourcesIn
    <2>7. chosen \subseteq SourcesIn(items, g) /\ chosen # {}
      BY <1>6, <2>3 DEF SourcesIn
    <2> HIDE DEF chosen
    <2>8. Sent(notifications)' = [Sent(notifications) EXCEPT ![g] = chosen]
      BY <1>4, <2>5, <2>6
    <2>9. Sent(notifications)[g] = {} /\ chosen \in (SUBSET Collected(items)[g]) \ {{}}
      <3>1. Sent(notifications)[g] = SourcesIn(of, g)
        BY <1>4
      <3>2. Collected(items)[g] = SourcesIn(items, g)
        BY DEF Collected
      <3>3. chosen \in SUBSET SourcesIn(items, g)
        BY <2>7, Zenon
      <3>4. chosen \notin {{}}
        BY <2>7
      <3>5. chosen \in (SUBSET SourcesIn(items, g)) \ {{}}
        BY <3>3, <3>4, Zenon
      <3> QED
        BY <2>5, <3>1, <3>2, <3>5, Zenon
    <2>10. Promise!Send(g)
      BY <1>3, <2>8, <2>9 DEF Promise!Send, Collected, Sent
    <2> QED
      BY <2>10
  <1> QED
    BY <1>5, <1>6

LEMMA OtherStepsStutter ==
  ASSUME UNCHANGED <<tables, items>>
  PROVE  UNCHANGED <<Collected(items), Sent(notifications)>>
  BY DEF tables, Collected, Sent

LEMMA FlushWritesNoRow ==
  ASSUME NEW s \in Instances, FlushStep(s) \/ FlushThrows(s) \/ Crash(s)
  PROVE  UNCHANGED <<tables, items>>
  BY DEF FlushStep, Poll, Claim, ReadItems, Build, Enqueued, MarkFlushed, MarkFailed,
         FlushThrows, Crash, intakeVars

LEMMA StepsImplement ==
  Inv /\ [Next]_vars =>
    [\E g \in Groups : Promise!Collect(g) \/ Promise!Send(g)]_<<Collected(items), Sent(notifications)>>
  <1> DEFINE Goal == \/ \E g \in Groups : Promise!Collect(g) \/ Promise!Send(g)
                     \/ UNCHANGED <<Collected(items), Sent(notifications)>>
  <1> SUFFICES ASSUME Inv, [Next]_vars PROVE Goal
    OBVIOUS
  <1>1. CASE IntakeNext /\ UNCHANGED aggregationVars
    <2>1. RowsAdded /\ items' = items
      BY <1>1, IntakeKeeps DEF Inv, aggregationVars
    <2>2. CASE notifications' = notifications
      BY <2>1, <2>2 DEF Collected, Sent
    <2> QED
      BY <2>1, <2>2, RowSends DEF RowsAdded
  <1>2. ASSUME NEW a \in Adders, BeginAdd(a) \/ AddStep(a) \/ AddThrows(a) PROVE Goal
    <2>1. CASE InsertItem(a)
      BY <2>1, AddCollects
    <2>2. CASE BeginAdd(a) \/ UpsertGroup(a) \/ AddThrows(a)
      BY <2>2, OtherStepsStutter DEF BeginAdd, UpsertGroup, AddThrows, intakeVars
    <2> QED
      BY <1>2, <2>1, <2>2 DEF AddStep
  <1>3. ASSUME NEW s \in Instances, FlushStep(s) \/ FlushThrows(s) \/ Crash(s) PROVE Goal
    BY <1>3, FlushWritesNoRow, OtherStepsStutter
  <1>4. CASE Tick \/ UNCHANGED vars
    BY <1>4, OtherStepsStutter DEF Tick, vars, intakeVars, aggregationVars
  <1> QED
    BY <1>1, <1>2, <1>3, <1>4 DEF Next

(* Whatever the flushes, their failures and the intake do, a group gets at *)
(* most one digest, made of items the group had.                           *)
THEOREM AggregationKeepsPromise == Spec => KeepsPromise
  <1>1. Init => Promise!Init
    <2> SUFFICES ASSUME Init PROVE Promise!Init
      OBVIOUS
    <2>1. items = {} /\ \A n \in notifications : n.of = {}
      BY DigestKeysAreTheirOwn DEF Init, IntakeInit
    <2>2. UNION {n.of : n \in notifications} = {}
      BY <2>1
    <2>3. \A g \in Groups : SourcesIn({}, g) = {}
      BY DEF SourcesIn
    <2> QED
      BY <2>1, <2>2, <2>3 DEF Promise!Init
  <1>2. Inv /\ [Next]_vars =>
          [Promise!Next]_<<[g \in Groups |-> SourcesIn(items, g)],
                           [g \in Groups |-> SourcesIn(UNION {n.of : n \in notifications}, g)]>>
    BY StepsImplement DEF Promise!Next, Collected, Sent
  <1> QED
    BY <1>1, <1>2, AggregationInvariant, PTL DEF Spec, KeepsPromise, Promise!Spec
=============================================================================
