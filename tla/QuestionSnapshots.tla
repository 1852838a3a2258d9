--------------------------- MODULE QuestionSnapshots ---------------------------
(***************************************************************************)
(* A version of a question as data: what the domain accepts, the rows the  *)
(* mapper makes of it, what the database accepts of those rows, and what   *)
(* reading them gives back.                                                *)
(*                                                                         *)
(* A snapshot has a kind, the identifiers of its items in order (options,  *)
(* left items, ordering items, or the segments of a prompt), for matching  *)
(* those of the right items in others, and the answer key.  The texts      *)
(* stay with the positions and are left out.  "scalar" stands for          *)
(* the four kinds whose key is a plain value.                              *)
(***************************************************************************)
EXTENDS Integers, FiniteSets, Sequences, Functions

CONSTANT Text  \* a segment of a prompt that is not a blank

Kinds == {"single", "multiple", "matching", "ordering", "blanks", "scalar"}

(* The positions of a prompt's blanks, and the blanks.                      *)
BlankPlaces(s) == {i \in DOMAIN s.items : s.items[i] # Text}
Blanks(s) == {s.items[i] : i \in BlankPlaces(s)}

Lefts(s) == {s.key[i].left : i \in DOMAIN s.key}
Rights(s) == {s.key[i].right : i \in DOMAIN s.key}

(* The shapes of a snapshot's parts, which its types already fix.          *)
IsSnapshot(s) ==
  /\ s = [kind |-> s.kind, mode |-> s.mode, items |-> s.items, others |-> s.others,
          key |-> s.key]
  /\ s.kind \in Kinds
  /\ \A part \in {"items", "others", "key"} : s[part] \in Seq(Range(s[part]))
  /\ s.kind \in {"single", "scalar"} => Len(s.key) = 1
  /\ s.kind # "matching" => s.others = << >>
  /\ s.kind = "matching" => \A i \in DOMAIN s.key :
       s.key[i] = [left |-> s.key[i].left, right |-> s.key[i].right]

-----------------------------------------------------------------------------
(* What createQuestionVersionSnapshot accepts.                             *)

ContentIsWellFormed(s) ==
  /\ IsInjective(IF s.kind = "blanks" THEN Restrict(s.items, BlankPlaces(s)) ELSE s.items)
  /\ IsInjective(s.others)

KeyIsWellFormed(s) ==
  s.kind \in {"multiple", "ordering", "blanks"} => IsInjective(s.key)

KeyMatchesContent(s) ==
  /\ s.kind \in {"single", "multiple"} => Range(s.key) \subseteq Range(s.items)
  /\ s.kind = "matching" =>
       /\ Lefts(s) \subseteq Range(s.items) /\ Rights(s) \subseteq Range(s.others)
       /\ Len(s.key) = Len(s.items) /\ Cardinality(Lefts(s)) = Len(s.items)
       /\ s.mode = "ONE_TO_ONE" => Cardinality(Rights(s)) = Len(s.key)
  /\ s.kind = "ordering" =>
       Len(s.key) = Len(s.items) /\ Range(s.items) \subseteq Range(s.key)
  /\ s.kind = "blanks" =>
       Len(s.key) = Cardinality(BlankPlaces(s)) /\ Blanks(s) \subseteq Range(s.key)

IsValid(s) == ContentIsWellFormed(s) /\ KeyIsWellFormed(s) /\ KeyMatchesContent(s)

(* Mutant: the answer key keeps the order of the items instead of its own.  *)
CloneIdentitiesInPlace(v, s) ==
  LET Name(side, seq) ==
        [i \in DOMAIN seq |-> IF seq[i] = Text THEN Text ELSE <<v, side, i>>]
  IN [s EXCEPT !.items = Name("item", s.items), !.others = Name("other", s.others),
               !.key = [i \in DOMAIN s.key |->
                  CASE s.kind = "matching" -> [left |-> <<v, "item", i>>,
                                               right |-> <<v, "other", i>>]
                    [] s.kind = "scalar" -> s.key[i]
                    [] OTHER -> <<v, "item", i>>]]

(* A copy of a version under new identifiers, its key renamed alike.       *)
CloneIdentities(v, s) ==
  LET Name(side, seq) ==
        [i \in DOMAIN seq |-> IF seq[i] = Text THEN Text ELSE <<v, side, i>>]
      Mapped(side, seq, id) == Name(side, seq)[CHOOSE i \in DOMAIN seq : seq[i] = id]
      Key(answer) ==
        CASE s.kind = "matching" -> [left |-> Mapped("item", s.items, answer.left),
                                     right |-> Mapped("other", s.others, answer.right)]
          [] s.kind = "scalar" -> answer
          [] OTHER -> Mapped("item", s.items, answer)
  IN [s EXCEPT !.items = Name("item", s.items), !.others = Name("other", s.others),
               !.key = [i \in DOMAIN s.key |-> Key(s.key[i])]]

-----------------------------------------------------------------------------
(* The rows of a snapshot.  A row has its position, counted from zero, and *)
(* a blank is referred to by the segment that holds it.                    *)

Positioned(seq) == {[position |-> i - 1, value |-> seq[i]] : i \in DOMAIN seq}

SegmentId(v, i) == <<v, "segment", i - 1>>

ContentRows(v, s) ==
  [items |-> IF s.kind = "blanks"
     THEN {[position |-> i - 1, id |-> SegmentId(v, i), blank |-> s.items[i]] :
             i \in DOMAIN s.items}
     ELSE {[position |-> i - 1, id |-> s.items[i], blank |-> Text] :
             i \in DOMAIN s.items},
   others |-> Positioned(s.others)]

KeyRows(v, s) ==
  IF s.kind = "blanks"
    THEN Positioned([p \in DOMAIN s.key |->
           SegmentId(v, CHOOSE i \in DOMAIN s.items : s.items[i] = s.key[p])])
    ELSE Positioned(s.key)

(* An answer to a blank that is not in the prompt has no segment: throws.  *)
HasRows(s) == s.kind = "blanks" => Range(s.key) \subseteq Blanks(s)

Rows(v, s) ==
  [kind |-> s.kind, mode |-> s.mode, content |-> ContentRows(v, s),
   answers |-> KeyRows(v, s)]

-----------------------------------------------------------------------------
(* What the tables accept: primary and unique keys, foreign keys, and the  *)
(* deferred trigger that runs when the transaction commits.                *)

Distinct(rows, Field(_)) ==
  \A row1, row2 \in rows : Field(row1) = Field(row2) => row1 = row2

(* Items are keyed by identifier (segments by the blank as well), answers  *)
(* by what they answer, and both by position.                              *)
KeysAreUnique(rows) ==
  /\ Distinct(rows.content.items, LAMBDA row : row.id)
  /\ Distinct({row \in rows.content.items : row.blank # Text}, LAMBDA row : row.blank)
  /\ Distinct(rows.content.others, LAMBDA row : row.value)
  /\ Distinct(rows.answers, LAMBDA row :
       IF rows.kind = "matching" THEN row.value.left ELSE row.value)

ReferencesResolve(rows) ==
  LET items == {row.id : row \in rows.content.items}
      others == {row.value : row \in rows.content.others}
  IN \A row \in rows.answers :
       CASE rows.kind = "matching" -> row.value.left \in items /\ row.value.right \in others
         [] rows.kind = "scalar" -> TRUE
         [] OTHER -> row.value \in items

BlankSegments(rows) == {row \in rows.content.items : row.blank # Text}

(* Mutant: the trigger counts the mappings, not the right items reused.     *)
CompletionGuardCounting(rows) ==
  rows.kind \in {"matching", "ordering"} =>
    Cardinality(rows.answers) = Cardinality(rows.content.items)

CompletionGuard(rows) ==
  LET answers == Cardinality(rows.answers)
  IN /\ rows.kind = "single" => answers = 1
     /\ rows.kind = "matching" =>
          /\ answers = Cardinality(rows.content.items)
          /\ rows.mode = "ONE_TO_ONE" =>
               Distinct(rows.answers, LAMBDA row : row.value.right)
     /\ rows.kind = "ordering" => answers = Cardinality(rows.content.items)
     /\ rows.kind = "blanks" =>
          /\ answers = Cardinality(BlankSegments(rows))
          /\ {row.value : row \in rows.answers} \subseteq
               {row.id : row \in BlankSegments(rows)}

RowsAccepted(rows) ==
  KeysAreUnique(rows) /\ ReferencesResolve(rows) /\ CompletionGuard(rows)

-----------------------------------------------------------------------------
(* Reading rows back: positions must count from zero without gaps, and the *)
(* result is validated again.                                              *)

IsOrdered(rows) == {row.position : row \in rows} = 0 .. Cardinality(rows) - 1

InOrder(rows) ==
  [i \in 1 .. Cardinality(rows) |-> CHOOSE row \in rows : row.position = i - 1]

ReadContent(rows) ==
  LET items == InOrder(rows.content.items)
      others == InOrder(rows.content.others)
  IN [items |-> [i \in DOMAIN items |->
        IF rows.kind = "blanks" THEN items[i].blank ELSE items[i].id],
      others |-> [i \in DOMAIN others |-> others[i].value]]

ReadKey(rows) ==
  LET answers == InOrder(rows.answers)
      BlankOf(id) == (CHOOSE row \in rows.content.items : row.id = id).blank
  IN [i \in DOMAIN answers |->
        IF rows.kind = "blanks" THEN BlankOf(answers[i].value) ELSE answers[i].value]

ReadSnapshot(rows) ==
  [kind |-> rows.kind, mode |-> rows.mode, items |-> ReadContent(rows).items,
   others |-> ReadContent(rows).others, key |-> ReadKey(rows)]

IsReadable(rows) ==
  /\ IsOrdered(rows.content.items) /\ IsOrdered(rows.content.others)
  /\ IsOrdered(rows.answers)
  /\ rows.kind = "single" => Cardinality(rows.answers) = 1
  /\ IsValid(ReadSnapshot(rows))

-----------------------------------------------------------------------------
(* A snapshot up to the names of its items: every identifier is replaced   *)
(* by where it first stands.                                               *)
Shape(s) ==
  LET Place(seq, id) == CHOOSE i \in DOMAIN seq :
        seq[i] = id /\ \A j \in DOMAIN seq : seq[j] = id => i <= j
  IN [kind |-> s.kind, mode |-> s.mode,
      items |-> [i \in DOMAIN s.items |-> s.items[i] = Text],
      others |-> Len(s.others),
      key |-> [i \in DOMAIN s.key |->
        CASE s.kind = "matching" ->
               <<Place(s.items, s.key[i].left), Place(s.others, s.key[i].right)>>
          [] s.kind = "scalar" -> s.key[i]
          [] OTHER -> Place(s.items, s.key[i])]]
=============================================================================
