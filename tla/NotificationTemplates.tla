------------------------- MODULE NotificationTemplates -------------------------
(***************************************************************************)
(* One notification template and its versions: authors create both,        *)
(* publish a version and set the template's status, in calls that overlap. *)
(* A publication is a transaction of three statements at the database's    *)
(* default isolation: each sees what was committed when it began, and      *)
(* waits for rows another transaction has changed.  Whoever renders the    *)
(* template reads its row and then the rows of its versions.               *)
(***************************************************************************)
EXTENDS Integers, FiniteSets, Sequences, SequencesExt

CONSTANTS
  None,              \* no call in a slot
  Authors,           \* calls of the template service that may overlap
  TemplateVersions,  \* the numbers authors give to versions
  Workloads          \* [template, versions, edits, editing, ...]: rows and calls

VARIABLES
  template,  \* the row of NotificationTemplate
  versions,  \* the status of each row of NotificationTemplateVersion
  edit,      \* the call in each slot and its transaction
  edited,    \* calls so far
  workload,
  offers     \* history: the version on offer, after each change of the rows

templateVars == <<template, versions, edit, edited, offers>>

TemplateStatus == {"DRAFT", "REVIEW", "PUBLISHED", "ARCHIVED"}

NoTemplate == [status |-> "ABSENT", current |-> 0]

TemplateRow == [status : TemplateStatus \cup {"ABSENT"}, current : Nat]

EditCalls ==
  [op : {"create"}, to : {0}] \cup [op : {"createVersion", "publish"}, to : TemplateVersions]
  \cup [op : {"updateStatus"}, to : TemplateStatus]

(* The current version, when it and the template are published; or 0.      *)
OfferOf(row, vs) ==
  IF /\ row.status = "PUBLISHED" /\ row.current \in TemplateVersions
     /\ vs[row.current] = "PUBLISHED"
    THEN row.current ELSE 0

OnOffer == OfferOf(template, versions)

WasPublished(vs) == \E v \in TemplateVersions : vs[v] \in {"PUBLISHED", "ARCHIVED"}

CurrentIsPublished(row, vs) ==
  row.current \in TemplateVersions /\ vs[row.current] = "PUBLISHED"

(* A behaviour starts with drafts, or with a current version on offer.     *)
ASSUME TemplatesAreTyped ==
  /\ TemplateVersions \subseteq Nat \ {0}
  /\ \A w \in Workloads :
       /\ w.template \in TemplateRow /\ w.edits \subseteq EditCalls
       /\ w.versions \in [TemplateVersions -> {"ABSENT", "DRAFT", "PUBLISHED", "ARCHIVED"}]
       /\ WasPublished(w.versions) => CurrentIsPublished(w.template, w.versions)

Offers == offers' = IF OnOffer' = Last(offers) THEN offers ELSE Append(offers, OnOffer')

-----------------------------------------------------------------------------
(* Every call first reads the template with its versions.                  *)

EditAt(c, step) == edit[c] # None /\ edit[c].step = step

BeginEdit(c) ==
  /\ edit[c] = None /\ edited < workload.editing
  /\ \E call \in workload.edits :
       edit' = [edit EXCEPT ![c] =
         [op |-> call.op, to |-> call.to, step |-> "read", snapshot |-> {},
          archived |-> {}, published |-> {}]]
  /\ edited' = edited + 1
  /\ UNCHANGED <<template, versions, offers, workload>>

Allowed(call) ==
  IF call.op = "create" THEN template = NoTemplate
  ELSE /\ template # NoTemplate
       /\ call.op = "createVersion" => versions[call.to] = "ABSENT"
       /\ call.op = "publish" => versions[call.to] \notin {"ABSENT", "ARCHIVED"}

ReadTemplate(c) ==
  /\ EditAt(c, "read")
  /\ edit' = [edit EXCEPT ![c] =
       IF Allowed(edit[c]) THEN [@ EXCEPT !.step = "write"] ELSE None]
  /\ UNCHANGED <<template, versions, edited, offers, workload>>

(* Creating is refused by the unique index when a row was created since.   *)
Write(c) ==
  LET call == edit[c]
  IN /\ EditAt(c, "write") /\ call.op # "publish"
     /\ template' = CASE call.op = "create" /\ template = NoTemplate ->
                           [status |-> "DRAFT", current |-> 1]
                      [] call.op = "updateStatus" -> [template EXCEPT !.status = call.to]
                      [] OTHER -> template
     /\ versions' = IF call.op = "createVersion" /\ versions[call.to] = "ABSENT"
                      THEN [versions EXCEPT ![call.to] = "DRAFT"] ELSE versions
     /\ edit' = [edit EXCEPT ![c] = None]
     /\ Offers /\ UNCHANGED <<edited, workload>>

-----------------------------------------------------------------------------
(* The publication of a version.                                           *)

Locked(c, v) ==
  \E d \in Authors \ {c} :
    edit[d] # None /\ v \in edit[d].archived \cup edit[d].published

(* The first statement archives the versions that it finds published.  It  *)
(* waits for all of them before it changes any: two publications that      *)
(* would wait for each other are one that goes first.                      *)
FindPublished(c) ==
  /\ EditAt(c, "write") /\ edit[c].op = "publish"
  /\ edit' = [edit EXCEPT ![c].step = "archive",
       ![c].snapshot = {v \in TemplateVersions : versions[v] = "PUBLISHED"}]
  /\ UNCHANGED <<template, versions, edited, offers, workload>>

ArchivePublished(c) ==
  /\ EditAt(c, "archive")
  /\ \A v \in edit[c].snapshot : ~Locked(c, v)
  /\ edit' = [edit EXCEPT ![c].step = "mark",
       ![c].archived = {v \in edit[c].snapshot : versions[v] = "PUBLISHED"}]
  /\ UNCHANGED <<template, versions, edited, offers, workload>>

(* Mutant: written beside the transaction.                                  *)
MarkBeside(c) ==
  /\ EditAt(c, "mark") /\ ~Locked(c, edit[c].to)
  /\ versions' = [versions EXCEPT ![edit[c].to] = "PUBLISHED"]
  /\ edit' = [edit EXCEPT ![c].step = "commit", ![c].archived = @ \ {edit[c].to}]
  /\ UNCHANGED <<template, edited, workload>> /\ Offers

MarkPublished(c) ==
  /\ EditAt(c, "mark") /\ ~Locked(c, edit[c].to)
  /\ edit' = [edit EXCEPT ![c].step = "commit", ![c].archived = @ \ {edit[c].to},
                          ![c].published = {edit[c].to}]
  /\ UNCHANGED <<template, versions, edited, offers, workload>>

(* The template's own row is the last one changed before the commit.       *)
CommitPublication(c) ==
  /\ EditAt(c, "commit")
  /\ template' = [status |-> "PUBLISHED", current |-> edit[c].to]
  /\ versions' = [v \in TemplateVersions |->
       IF v \in edit[c].published THEN "PUBLISHED"
       ELSE IF v \in edit[c].archived THEN "ARCHIVED" ELSE versions[v]]
  /\ edit' = [edit EXCEPT ![c] = None]
  /\ Offers /\ UNCHANGED <<edited, workload>>

(* A statement fails or the process dies: nothing of the call is stored.   *)
EditFails(c) ==
  /\ edit[c] # None
  /\ edit' = [edit EXCEPT ![c] = None]
  /\ UNCHANGED <<template, versions, edited, offers, workload>>

EditStep(c) ==
  \/ BeginEdit(c) \/ ReadTemplate(c) \/ Write(c) \/ FindPublished(c)
  \/ ArchivePublished(c) \/ MarkPublished(c) \/ CommitPublication(c) \/ EditFails(c)

TemplateInit ==
  /\ template = workload.template /\ versions = workload.versions
  /\ edit = [c \in Authors |-> None]
  /\ edited = 0
  /\ offers = <<OnOffer>>

-----------------------------------------------------------------------------
(* Once a version was published, the version the template names is a       *)
(* published one: of two overlapping publications neither archives what    *)
(* the other makes the template name, although both can stay published.    *)
CurrentStaysPublished ==
  WasPublished(versions) => CurrentIsPublished(template, versions)
=============================================================================
