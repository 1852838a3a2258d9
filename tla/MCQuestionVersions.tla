-------------------------- MODULE MCQuestionVersions --------------------------
(***************************************************************************)
(* Instances of QuestionVersions: what authors write and what is added.    *)
(***************************************************************************)
EXTENDS QuestionVersions, SequencesExt, TLC

CONSTANTS call1, call2, question1, question2, tenant1, tenant2, id1, id2

Ids == {id1, id2}

Snapshot(kind, mode, items, others, key) ==
  [kind |-> kind, mode |-> mode, items |-> items, others |-> others, key |-> key]

Pairs == {[left |-> left, right |-> right] : left \in Ids, right \in Ids}

(* Every snapshot of at most two items, or three segments, and two answers. *)
AllSnapshots ==
  {Snapshot("single", "none", items, << >>, <<id>>) :
     items \in BoundedSeq(Ids, 2), id \in Ids}
  \cup {Snapshot(kind, "none", items, << >>, key) :
     kind \in {"multiple", "ordering"}, items \in BoundedSeq(Ids, 2),
     key \in BoundedSeq(Ids, 2)}
  \cup {Snapshot("matching", mode, items, others, key) :
     mode \in {"ONE_TO_ONE", "MANY_TO_ONE"}, items \in BoundedSeq(Ids, 2),
     others \in BoundedSeq(Ids, 2), key \in BoundedSeq(Pairs, 2)}
  \cup {Snapshot("blanks", "none", items, << >>, key) :
     items \in BoundedSeq(Ids \cup {Text}, 3), key \in BoundedSeq(Ids, 2)}
  \cup {Snapshot("scalar", "none", << >>, << >>, <<value>>) : value \in {0, 1}}

Reordered == Snapshot("ordering", "none", <<id1, id2>>, << >>, <<id2, id1>>)
AllDrafts == [every |-> AllSnapshots, one |-> {Reordered}]

Nothing == [ops |-> {}, drafts |-> "one", numbers |-> {1}, calls |-> 0,
            overlap |-> 2, questions |-> 2, failures |-> 0, leave |-> FALSE]

Symmetry ==
  Permutations(Requests) \cup Permutations(Questions) \cup Permutations(Tenants)

(* Every snapshot once, by an author, and restored.                        *)
Drafting == [Nothing EXCEPT !.ops = {"create", "restore"}, !.drafts = "every",
                            !.calls = 2, !.overlap = 1, !.questions = 1]

(* Every snapshot once, added as it is.                                    *)
Adding == [Nothing EXCEPT !.ops = {"add"}, !.drafts = "every", !.calls = 1]

(* Authors of two tenants at the same question.                            *)
Revising == [Nothing EXCEPT !.ops = {"create", "revise", "restore"},
                            !.calls = 4, !.failures = 1, !.leave = TRUE]

(* Additions with made-up numbers among the authors' calls.                *)
Importing == [Nothing EXCEPT !.ops = {"create", "revise", "add"},
                             !.numbers = 1 .. 3, !.calls = 3]

AllWorkloads == {Drafting, Adding, Revising, Importing}
=============================================================================
