---------------------- MODULE MCNotificationAggregation ----------------------
(***************************************************************************)
(* Instances of NotificationAggregation: what clients request and add.     *)
(***************************************************************************)
EXTENDS NotificationAggregation, TLC

CONSTANTS a, b, x, y, s, t, g, h, email, push, n1, n2, k1, k2, d1, d2

Request(id, key, channels) ==
  [id |-> id, key |-> key, channels |-> channels, templateData |-> None]

Row(row, id) ==
  [row |-> row, id |-> id, key |-> id, of |-> {}, version |-> 0, templateData |-> None]

RenderedRow(row, id, data) == [Row(row, id) EXCEPT !.version = 1, !.templateData = data]

Event(group, source) == [group |-> group, source |-> source]

Nothing == [requests |-> {}, calls |-> 0, seeded |-> {}, failures |-> 0,
            adds |-> {}, additions |-> 0, ticks |-> 0, misfits |-> {}, up |-> {},
            edits |-> {}, editing |-> 0, template |-> NoTemplate,
            versions |-> [v \in TemplateVersions |-> "ABSENT"]]

(* Fan-outs that are retried, and requests that share a key or an          *)
(* identifier.                                                             *)
Requesting ==
  [Nothing EXCEPT
     !.requests = {Request(n1, k1, {email, push}), Request(n1, k1, {email}),
                   Request(n1, k2, {email}), Request(n2, k1, {email})},
     !.calls = 2, !.failures = 2]

(* Overlapping additions to one group, flushed by two instances.           *)
Collecting ==
  [Nothing EXCEPT
     !.seeded = {Row(1, n1), Row(2, n2)},
     !.adds = {Event(g, n1), Event(g, n2)}, !.ticks = 2, !.additions = 2, !.failures = 1,
     !.up = {s, t}]

(* More additions than the group may have items, some of sources that do   *)
(* not fit together.                                                       *)
Limiting ==
  [Nothing EXCEPT
     !.seeded = {Row(1, n1), Row(2, n2), Row(3, k1)},
     !.adds = {Event(g, n) : n \in {n1, n2, k1}}, !.ticks = 2, !.additions = 3,
     !.misfits = {k1}, !.up = {s}]

(* Two groups, one of a source that is requested meanwhile.                *)
Flushing ==
  [Nothing EXCEPT
     !.seeded = {Row(1, n2)},
     !.requests = {Request(n1, k1, {email})}, !.calls = 1,
     !.adds = {Event(g, <<n1, "alone">>), Event(h, n2)},
     !.ticks = 2, !.additions = 2, !.up = {s}]

(* Publications of two drafts that overlap each other, changes of the      *)
(* status and a request of the template.                                   *)
Edit(op, to) == [op |-> op, to |-> to]

Publishing ==
  [Nothing EXCEPT
     !.requests = {[Request(n1, k1, {email}) EXCEPT !.templateData = d1]}, !.calls = 1,
     !.template = [status |-> "DRAFT", current |-> 1],
     !.versions = [v \in TemplateVersions |-> "DRAFT"],
     !.edits = {Edit("publish", v) : v \in TemplateVersions}
               \cup {Edit("updateStatus", to) : to \in {"PUBLISHED", "ARCHIVED"}},
     !.editing = 3]

(* A template from its creation on.                                        *)
Authoring ==
  [Nothing EXCEPT
     !.edits = {Edit("create", 0), Edit("createVersion", 1), Edit("publish", 1)},
     !.editing = 4]

(* Rendered and literal sources in one group, of a template that another   *)
(* version is published of or that is archived before the digest is made.  *)
Rendering ==
  [Nothing EXCEPT
     !.seeded = {RenderedRow(1, n1, d1), RenderedRow(2, n2, d2), RenderedRow(3, k2, d1),
                Row(4, k1)},
     !.adds = {Event(g, n) : n \in {n1, n2, k1, k2}}, !.ticks = 1, !.additions = 2,
     !.up = {s},
     !.template = [status |-> "PUBLISHED", current |-> 1],
     !.versions = [v \in TemplateVersions |-> IF v = 1 THEN "PUBLISHED" ELSE "DRAFT"],
     !.edits = {Edit("publish", 2), Edit("updateStatus", "ARCHIVED")}, !.editing = 1]

AllWorkloads == {Requesting, Collecting, Limiting, Flushing, Publishing,
                 Authoring, Rendering}

EveryLane == (Calls \X Channels) \cup (Instances \X {"digest"})
=============================================================================
