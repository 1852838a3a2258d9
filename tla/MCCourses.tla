------------------------------ MODULE MCCourses ------------------------------
(***************************************************************************)
(* Instances of Courses and CourseProjection: the calls each behaviour may *)
(* mix.                                                                    *)
(***************************************************************************)
EXTENDS CourseProjection, TLC

CONSTANTS a, b, c1, c2, v1, v2, v3, v4, t1, t2, p1, p2

Call(op, title, owners, version, source) ==
  [op |-> op, title |-> title, owners |-> owners, version |-> version,
   source |-> source]

Plain(op) == Call(op, t1, {}, v1, v1)
Edit(title) == Call("edit", title, {}, v1, v1)
OnOwners(op, owners) == Call(op, t1, owners, v1, v1)
OnVersion(op, v) == Call(op, t1, {}, v, v)
To(source, v) == Call("rollback", t1, {}, v, source)

Draft == NewCourse(t1)
NoVersions == [v \in VersionIds |-> Absent]
Owner(p) == [principal |-> p, role |-> "OWNER"]
Editor(p) == [principal |-> p, role |-> "EDITOR"]

(* Editing, review and the rest of the lifecycle.                          *)
Reviewing ==
  [calls |-> {Plain(op) : op \in DOMAIN NextStatus} \cup {Edit(t2)},
   course |-> Draft, versions |-> NoVersions, max |-> 5, consumers |-> {}]

(* Changes of ownership while the course is submitted.                     *)
Owning ==
  [calls |-> {OnOwners("assign", {Owner(p)}) : p \in {p1, p2}}
             \cup {OnOwners("assign", {Editor(p1)}), OnOwners("unassign", {Owner(p1)}),
                   OnOwners("replaceOwners", {Owner(p2), Editor(p1)}), Plain("submit")},
   course |-> Draft, versions |-> NoVersions, max |-> 5, consumers |-> {}]

(* Versions of a published and a reviewed version, and of edited metadata. *)
Versioning ==
  [calls |-> {OnVersion("createVersion", v) : v \in {v3, v4}}
             \cup {To(s, v) : s \in {v1, v2}, v \in {v3, v4}}
             \cup {OnVersion("publishVersion", v2), Edit(t2)},
   course |-> Draft,
   versions |-> [NoVersions EXCEPT
     ![v1] = [NewVersion(1, t1) EXCEPT !.status = "PUBLISHED"],
     ![v2] = [NewVersion(2, t2) EXCEPT !.status = "IN_REVIEW"]],
   max |-> 4, consumers |-> {}]

(* A course is created, edited and submitted while its events arrive.      *)
Cataloguing ==
  [calls |-> {Plain("create"), Edit(t2), Plain("submit"), Plain("publish")},
   course |-> Absent, versions |-> NoVersions, max |-> 3, consumers |-> {c1, c2}]

AllWorkloads == {Reviewing, Owning, Versioning, Cataloguing}

Either == Permutations(Requests) \cup Permutations(Consumers)
=============================================================================
