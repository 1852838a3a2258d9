------------------------- MODULE QuestionVersionsProofs -------------------------
(***************************************************************************)
(* Proofs about the question bank: snapshots of any size and their rows,   *)
(* and the versions of any questions written by any overlapping calls.     *)
(***************************************************************************)
EXTENDS QuestionVersions, FiniteSetTheorems, TLAPS

-----------------------------------------------------------------------------
(* Rows with positions.                                                     *)

LEMMA SequencesHaveLength ==
  ASSUME NEW seq, seq \in Seq(Range(seq))
  PROVE  Len(seq) \in Nat /\ DOMAIN seq = 1..Len(seq)
  OBVIOUS

LEMMA IntervalSize == \A n \in Nat : IsFiniteSet(1..n) /\ Cardinality(1..n) = n
  BY FS_Interval

(* The rows of a sequence, one for each position, are read back in order.   *)
LEMMA RowsInOrder ==
  ASSUME NEW n \in Nat, NEW f, f = [i \in 1..n |-> f[i]],
         \A i \in 1..n : f[i].position = i - 1,
         NEW rows, rows = {f[i] : i \in 1..n}
  PROVE  /\ IsFiniteSet(rows) /\ Cardinality(rows) = n
         /\ IsOrdered(rows) /\ InOrder(rows) = f
  <1>1. \A i, j \in 1..n : f[i] = f[j] => i = j
    <2>1. \A i, j \in 1..n : i - 1 = j - 1 => i = j
      OBVIOUS
    <2> QED
      BY <2>1
  <1>2. f \in Bijection(1..n, rows)
    BY <1>1 DEF Bijection, Injection, Surjection, IsInjective
  <1>3. IsFiniteSet(1..n) /\ Cardinality(1..n) = n
    BY IntervalSize
  <1>4. IsFiniteSet(rows) /\ Cardinality(rows) = n
    BY <1>2, <1>3, FS_Bijection DEF ExistsBijection
  <1>5. {row.position : row \in rows} = 0 .. n - 1
    <2>1. ASSUME NEW row \in rows PROVE row.position \in 0 .. n - 1
      OBVIOUS
    <2>2. ASSUME NEW p \in 0 .. n - 1 PROVE \E row \in rows : row.position = p
      <3>1. p + 1 \in 1..n /\ (p + 1) - 1 = p
        OBVIOUS
      <3> QED
        BY <3>1
    <2> QED
      BY <2>1, <2>2
  <1>6. \A i \in 1..n : (CHOOSE row \in rows : row.position = i - 1) = f[i]
    <2> SUFFICES ASSUME NEW i \in 1..n
                 PROVE  (CHOOSE row \in rows : row.position = i - 1) = f[i]
      OBVIOUS
    <2>1. f[i] \in rows /\ f[i].position = i - 1
      OBVIOUS
    <2>2. ASSUME NEW row \in rows, row.position = i - 1 PROVE row = f[i]
      <3>1. PICK j \in 1..n : row = f[j]
        OBVIOUS
      <3>2. j = i
        BY <2>2, <3>1
      <3> QED
        BY <3>1, <3>2
    <2> QED
      BY <2>1, <2>2
  <1>7. InOrder(rows) = f
    BY <1>4, <1>6 DEF InOrder
  <1> QED
    BY <1>4, <1>5, <1>7 DEF IsOrdered

LEMMA ImageSize ==
  ASSUME NEW n \in Nat, NEW f, DOMAIN f = 1..n, NEW image, image = {f[i] : i \in 1..n}
  PROVE  /\ IsFiniteSet(image) /\ Cardinality(image) \in Nat
         /\ Cardinality(image) = n <=> \A i, j \in 1..n : f[i] = f[j] => i = j
  <1> DEFINE g == [i \in 1..n |-> f[i]]
  <1>1. IsFiniteSet(1..n) /\ Cardinality(1..n) = n
    BY IntervalSize
  <1>2. g \in Surjection(1..n, image)
    BY DEF Surjection
  <1>3. g \in Injection(1..n, image) <=> \A i, j \in 1..n : f[i] = f[j] => i = j
    BY DEF Injection, IsInjective
  <1> HIDE DEF g
  <1> QED
    BY <1>1, <1>2, <1>3, FS_Surjection, FS_CardinalityType

-----------------------------------------------------------------------------
(* The rows of a snapshot.                                                  *)

ItemRowAt(v, s, i) ==
  IF s.kind = "blanks"
    THEN [position |-> i - 1, id |-> SegmentId(v, i), blank |-> s.items[i]]
    ELSE [position |-> i - 1, id |-> s.items[i], blank |-> Text]

BlankAt(s, b) == CHOOSE i \in DOMAIN s.items : s.items[i] = b

AnswerValue(v, s, i) ==
  IF s.kind = "blanks" THEN SegmentId(v, BlankAt(s, s.key[i])) ELSE s.key[i]

LEMMA PartsHaveLengths ==
  ASSUME NEW s, IsSnapshot(s)
  PROVE  /\ Len(s.items) \in Nat /\ DOMAIN s.items = 1..Len(s.items)
         /\ Len(s.others) \in Nat /\ DOMAIN s.others = 1..Len(s.others)
         /\ Len(s.key) \in Nat /\ DOMAIN s.key = 1..Len(s.key)
  BY SequencesHaveLength DEF IsSnapshot

LEMMA ItemsInRows ==
  ASSUME NEW s, IsSnapshot(s), NEW v
  PROVE  Rows(v, s).content.items = {ItemRowAt(v, s, i) : i \in 1..Len(s.items)}
  <1>1. DOMAIN s.items = 1..Len(s.items)
    BY PartsHaveLengths
  <1> QED
    BY <1>1 DEF Rows, ContentRows, ItemRowAt

LEMMA ItemRows ==
  ASSUME NEW s, IsSnapshot(s), NEW v
  PROVE  LET rows == Rows(v, s).content.items
             f == [i \in 1..Len(s.items) |-> ItemRowAt(v, s, i)]
         IN /\ rows = {ItemRowAt(v, s, i) : i \in 1..Len(s.items)}
            /\ Cardinality(rows) = Len(s.items)
            /\ IsOrdered(rows) /\ InOrder(rows) = f
  <1> DEFINE n == Len(s.items)
             rows == Rows(v, s).content.items
             f == [i \in 1..n |-> ItemRowAt(v, s, i)]
  <1>1. n \in Nat /\ DOMAIN s.items = 1..n
    BY PartsHaveLengths
  <1> HIDE DEF n
  <1>2. rows = {ItemRowAt(v, s, i) : i \in 1..n}
    BY <1>1 DEF Rows, ContentRows, ItemRowAt
  <1>3. rows = {f[i] : i \in 1..n}
    BY <1>2
  <1>4. \A i \in 1..n : f[i].position = i - 1
    BY DEF ItemRowAt
  <1>5. f = [i \in 1..n |-> f[i]]
    OBVIOUS
  <1> HIDE DEF rows, f
  <1>6. Cardinality(rows) = n /\ IsOrdered(rows) /\ InOrder(rows) = f
    BY <1>1, <1>3, <1>4, <1>5, RowsInOrder
  <1> QED
    BY <1>2, <1>6 DEF rows, f, n

LEMMA PositionedRows ==
  ASSUME NEW n \in Nat, NEW seq, seq = [i \in 1..n |-> seq[i]]
  PROVE  LET rows == Positioned(seq)
             f == [i \in 1..n |-> [position |-> i - 1, value |-> seq[i]]]
         IN /\ rows = {[position |-> i - 1, value |-> seq[i]] : i \in 1..n}
            /\ Cardinality(rows) = n /\ IsOrdered(rows) /\ InOrder(rows) = f
  <1> DEFINE rows == Positioned(seq)
             f == [i \in 1..n |-> [position |-> i - 1, value |-> seq[i]]]
  <1>1. DOMAIN seq = 1..n
    OBVIOUS
  <1>2. rows = {[position |-> i - 1, value |-> seq[i]] : i \in 1..n}
    BY <1>1 DEF Positioned
  <1>3. rows = {f[i] : i \in 1..n} /\ \A i \in 1..n : f[i].position = i - 1
    BY <1>2
  <1>4. f = [i \in 1..n |-> f[i]]
    OBVIOUS
  <1> HIDE DEF rows, f
  <1>5. Cardinality(rows) = n /\ IsOrdered(rows) /\ InOrder(rows) = f
    BY <1>3, <1>4, RowsInOrder
  <1> QED
    BY <1>2, <1>5 DEF rows, f

LEMMA OtherRows ==
  ASSUME NEW s, IsSnapshot(s), NEW v
  PROVE  LET rows == Rows(v, s).content.others
             f == [i \in 1..Len(s.others) |-> [position |-> i - 1, value |-> s.others[i]]]
         IN /\ rows = {[position |-> i - 1, value |-> s.others[i]] : i \in 1..Len(s.others)}
            /\ IsOrdered(rows) /\ InOrder(rows) = f
  <1>1. Len(s.others) \in Nat /\ s.others = [i \in 1..Len(s.others) |-> s.others[i]]
    <2>1. s.others \in Seq(Range(s.others))
      BY DEF IsSnapshot
    <2> QED
      BY <2>1
  <1>2. Rows(v, s).content.others = Positioned(s.others)
    BY DEF Rows, ContentRows
  <1> QED
    BY <1>1, <1>2, PositionedRows, SMTT(30)

LEMMA KeyIsPositioned ==
  ASSUME NEW s, IsSnapshot(s), NEW v
  PROVE  Rows(v, s).answers = Positioned([i \in 1..Len(s.key) |-> AnswerValue(v, s, i)])
  <1> DEFINE values == [i \in 1..Len(s.key) |-> AnswerValue(v, s, i)]
  <1>1. DOMAIN s.key = 1..Len(s.key) /\ s.key = [i \in 1..Len(s.key) |-> s.key[i]]
    <2>1. s.key \in Seq(Range(s.key))
      BY DEF IsSnapshot
    <2> QED
      BY <2>1
  <1>2. KeyRows(v, s) = Positioned(values)
    <2>1. CASE s.kind = "blanks"
      BY <1>1, <2>1 DEF KeyRows, AnswerValue, BlankAt
    <2>2. CASE s.kind # "blanks"
      <3>1. values = s.key
        BY <1>1, <2>2 DEF AnswerValue
      <3> QED
        BY <2>2, <3>1 DEF KeyRows
    <2> QED
      BY <2>1, <2>2
  <1> QED
    BY <1>2 DEF Rows

AnswerRowAt(v, s, i) == [position |-> i - 1, value |-> AnswerValue(v, s, i)]

LEMMA AnswersInRows ==
  ASSUME NEW s, IsSnapshot(s), NEW v
  PROVE  /\ Rows(v, s).answers = {AnswerRowAt(v, s, i) : i \in 1..Len(s.key)}
         /\ Cardinality(Rows(v, s).answers) = Len(s.key)
         /\ IsOrdered(Rows(v, s).answers)
         /\ InOrder(Rows(v, s).answers) = [i \in 1..Len(s.key) |-> AnswerRowAt(v, s, i)]
  <1> DEFINE n == Len(s.key)
             values == [i \in 1..n |-> AnswerValue(v, s, i)]
             rows == Rows(v, s).answers
             f == [i \in 1..n |-> AnswerRowAt(v, s, i)]
  <1>1. n \in Nat
    BY PartsHaveLengths
  <1>2. rows = Positioned(values)
    BY KeyIsPositioned
  <1> HIDE DEF n
  <1>3. rows = {AnswerRowAt(v, s, i) : i \in 1..n}
    BY <1>2 DEF Positioned, AnswerRowAt
  <1>4. rows = {f[i] : i \in 1..n}
    BY <1>3
  <1>5. \A i \in 1..n : f[i].position = i - 1
    BY DEF AnswerRowAt
  <1>6. f = [i \in 1..n |-> f[i]]
    OBVIOUS
  <1> HIDE DEF rows, f
  <1>7. Cardinality(rows) = n /\ IsOrdered(rows) /\ InOrder(rows) = f
    BY <1>1, <1>4, <1>5, <1>6, RowsInOrder
  <1> QED
    BY <1>3, <1>7 DEF rows, f, n

-----------------------------------------------------------------------------
(* What is stored is read back.                                             *)

LEMMA SegmentIds ==
  ASSUME NEW v, NEW i \in Int, NEW j \in Int, SegmentId(v, i) = SegmentId(v, j)
  PROVE  i = j
  <1>1. i - 1 = j - 1
    BY DEF SegmentId
  <1> QED
    BY <1>1

LEMMA BlanksAreFound ==
  ASSUME NEW s, NEW b \in Blanks(s)
  PROVE  BlankAt(s, b) \in BlankPlaces(s) /\ s.items[BlankAt(s, b)] = b /\ b # Text
  <1>1. PICK i \in DOMAIN s.items : s.items[i] = b /\ b # Text
    BY DEF Blanks, BlankPlaces
  <1>2. BlankAt(s, b) \in DOMAIN s.items /\ s.items[BlankAt(s, b)] = b
    BY <1>1 DEF BlankAt
  <1> QED
    BY <1>1, <1>2 DEF BlankPlaces

LEMMA AnswersHaveBlanks ==
  ASSUME NEW s, IsSnapshot(s), HasRows(s), s.kind = "blanks", NEW p \in 1..Len(s.key)
  PROVE  /\ BlankAt(s, s.key[p]) \in BlankPlaces(s) /\ BlankAt(s, s.key[p]) \in 1..Len(s.items)
         /\ s.items[BlankAt(s, s.key[p])] = s.key[p]
  <1>1. s.key[p] \in Range(s.key)
    BY PartsHaveLengths DEF Range
  <1>2. s.key[p] \in Blanks(s)
    BY <1>1 DEF HasRows
  <1> QED
    BY <1>2, BlanksAreFound, PartsHaveLengths DEF BlankPlaces

LEMMA ContentReadBack ==
  ASSUME NEW s, IsSnapshot(s), NEW v
  PROVE  ReadContent(Rows(v, s)) = [items |-> s.items, others |-> s.others]
  <1> DEFINE rows == Rows(v, s)
             n == Len(s.items)
             m == Len(s.others)
  <1>1. InOrder(rows.content.items) = [i \in 1..n |-> ItemRowAt(v, s, i)]
    BY ItemRows
  <1>2. InOrder(rows.content.others) = [i \in 1..m |-> [position |-> i - 1, value |-> s.others[i]]]
    BY OtherRows
  <1>3. s.items = [i \in 1..n |-> s.items[i]] /\ s.others = [i \in 1..m |-> s.others[i]]
    <2>1. s.items \in Seq(Range(s.items)) /\ s.others \in Seq(Range(s.others))
      BY DEF IsSnapshot
    <2> QED
      BY <2>1
  <1>4. rows.kind = s.kind
    BY DEF Rows
  <1> HIDE DEF n, m, rows
  <1>5. [i \in DOMAIN InOrder(rows.content.items) |->
           IF rows.kind = "blanks" THEN InOrder(rows.content.items)[i].blank
           ELSE InOrder(rows.content.items)[i].id] = s.items
    BY <1>1, <1>3, <1>4 DEF ItemRowAt
  <1>6. [i \in DOMAIN InOrder(rows.content.others) |->
           InOrder(rows.content.others)[i].value] = s.others
    BY <1>2, <1>3
  <1> QED
    BY <1>5, <1>6 DEF ReadContent, rows

LEMMA KeyReadBack ==
  ASSUME NEW s, IsSnapshot(s), HasRows(s), NEW v
  PROVE  ReadKey(Rows(v, s)) = s.key
  <1> DEFINE rows == Rows(v, s)
             k == Len(s.key)
             BlankOf(id) == (CHOOSE row \in rows.content.items : row.id = id).blank
  <1>0. rows.content.items = {ItemRowAt(v, s, h) : h \in 1..Len(s.items)}
        /\ Len(s.items) \in Nat
    <2>1. Len(s.items) \in Nat
      BY PartsHaveLengths
    <2>2. rows.content.items = {ItemRowAt(v, s, h) : h \in 1..Len(s.items)}
      BY ItemsInRows
    <2> QED
      BY <2>1, <2>2
  <1>1. InOrder(rows.answers) =
          [i \in 1..k |-> [position |-> i - 1, value |-> AnswerValue(v, s, i)]]
    BY AnswersInRows DEF AnswerRowAt
  <1>2. s.key = [i \in 1..k |-> s.key[i]]
    <2>1. s.key \in Seq(Range(s.key))
      BY DEF IsSnapshot
    <2> QED
      BY <2>1
  <1>3. rows.kind = s.kind
    BY DEF Rows
  <1>4. ASSUME NEW i \in 1..k
        PROVE  s.key[i] = IF rows.kind = "blanks" THEN BlankOf(AnswerValue(v, s, i))
                          ELSE AnswerValue(v, s, i)
    <2>1. CASE s.kind # "blanks"
      BY <1>3, <2>1 DEF AnswerValue
    <2>2. CASE s.kind = "blanks"
      <3> DEFINE j == BlankAt(s, s.key[i])
                 id == SegmentId(v, j)
      <3>1. j \in 1..Len(s.items) /\ s.items[j] = s.key[i]
        BY <2>2, AnswersHaveBlanks
      <3>2. rows.content.items = {ItemRowAt(v, s, h) : h \in 1..Len(s.items)}
        BY <1>0
      <3>3. ItemRowAt(v, s, j) \in rows.content.items /\ ItemRowAt(v, s, j).id = id
        BY <2>2, <3>1, <3>2 DEF ItemRowAt
      <3> HIDE DEF j
      <3>4. ASSUME NEW row \in rows.content.items, row.id = id
            PROVE  row.blank = s.key[i]
        <4>1. PICK h \in 1..Len(s.items) : row = ItemRowAt(v, s, h)
          BY <3>2
        <4>2. row.id = SegmentId(v, h) /\ row.blank = s.items[h]
          BY <2>2, <4>1 DEF ItemRowAt
        <4>3. h = j
          <5>1. h \in Int /\ j \in Int
            BY <1>0, <3>1
          <5>2. SegmentId(v, h) = SegmentId(v, j)
            BY <3>4, <4>2
          <5> QED
            BY <5>1, <5>2, SegmentIds
        <4> QED
          BY <3>1, <4>2, <4>3
      <3> HIDE DEF rows, id
      <3>5. BlankOf(id) = s.key[i]
        BY <3>3, <3>4
      <3> QED
        BY <1>3, <2>2, <3>5 DEF AnswerValue, j, id
    <2> QED
      BY <2>1, <2>2
  <1> HIDE DEF rows, k, BlankOf
  <1>5. [i \in DOMAIN InOrder(rows.answers) |->
           IF rows.kind = "blanks" THEN BlankOf(InOrder(rows.answers)[i].value)
           ELSE InOrder(rows.answers)[i].value] = s.key
    BY <1>1, <1>2, <1>4
  <1> QED
    BY <1>5 DEF ReadKey, rows, BlankOf

(* Whatever the shape of a snapshot, its rows are read back as it was.      *)
THEOREM RowsReadBack ==
  ASSUME NEW s, IsSnapshot(s), HasRows(s), NEW v
  PROVE  /\ ReadSnapshot(Rows(v, s)) = s
         /\ IsReadable(Rows(v, s)) <=> IsValid(s)
  <1> DEFINE rows == Rows(v, s)
  <1>1. rows.kind = s.kind /\ rows.mode = s.mode
    BY DEF Rows
  <1>2. ReadSnapshot(rows) = s
    <2>1. s = [kind |-> s.kind, mode |-> s.mode, items |-> s.items, others |-> s.others,
               key |-> s.key]
      BY DEF IsSnapshot
    <2> QED
      BY <1>1, <2>1, ContentReadBack, KeyReadBack DEF ReadSnapshot
  <1>3. /\ IsOrdered(rows.content.items) /\ IsOrdered(rows.content.others)
        /\ IsOrdered(rows.answers) /\ Cardinality(rows.answers) = Len(s.key)
    BY ItemRows, OtherRows, AnswersInRows
  <1>4. s.kind = "single" => Len(s.key) = 1
    BY DEF IsSnapshot
  <1> HIDE DEF rows
  <1> QED
    BY <1>1, <1>2, <1>3, <1>4 DEF IsReadable, rows

-----------------------------------------------------------------------------
(* The tables accept of the rows of a snapshot what the domain accepts of   *)
(* the snapshot.                                                            *)

LEMMA OthersInRows ==
  ASSUME NEW s, IsSnapshot(s), NEW v
  PROVE  Rows(v, s).content.others =
           {[position |-> i - 1, value |-> s.others[i]] : i \in 1..Len(s.others)}
  BY OtherRows

(* The rows of items are distinct exactly when the items are.               *)
LEMMA ItemsApart ==
  ASSUME NEW s, IsSnapshot(s), NEW v
  PROVE  LET items == Rows(v, s).content.items
             IdsDiffer == \A row1, row2 \in items : row1.id = row2.id => row1 = row2
             BlanksDiffer == \A row1, row2 \in items :
               (row1.blank # Text /\ row1.blank = row2.blank) => row1 = row2
         IN (IdsDiffer /\ BlanksDiffer) <=>
              IsInjective(IF s.kind = "blanks" THEN Restrict(s.items, BlankPlaces(s))
                          ELSE s.items)
  <1> DEFINE n == Len(s.items)
             items == Rows(v, s).content.items
             IdsDiffer == \A row1, row2 \in items : row1.id = row2.id => row1 = row2
             BlanksDiffer == \A row1, row2 \in items :
               (row1.blank # Text /\ row1.blank = row2.blank) => row1 = row2
  <1>1. items = {ItemRowAt(v, s, i) : i \in 1..n}
    BY ItemsInRows
  <1>2. n \in Nat /\ DOMAIN s.items = 1..n
    BY PartsHaveLengths
  <1>3. \A i, j \in 1..n : ItemRowAt(v, s, i) = ItemRowAt(v, s, j) => i = j
    <2>1. \A i \in 1..n : ItemRowAt(v, s, i).position = i - 1
      BY DEF ItemRowAt
    <2>2. \A i, j \in 1..n : i - 1 = j - 1 => i = j
      BY <1>2
    <2> QED
      BY <2>1, <2>2
  <1> HIDE DEF n, items
  <1>4. IdsDiffer <=>
          \A i, j \in 1..n : ItemRowAt(v, s, i).id = ItemRowAt(v, s, j).id => i = j
    BY <1>1, <1>3
  <1>5. BlanksDiffer <=>
          \A i, j \in 1..n :
            (ItemRowAt(v, s, i).blank # Text /\
             ItemRowAt(v, s, i).blank = ItemRowAt(v, s, j).blank) => i = j
    BY <1>1, <1>3
  <1> HIDE DEF IdsDiffer, BlanksDiffer
  <1>6. CASE s.kind = "blanks"
    <2>1. \A i \in 1..n : /\ ItemRowAt(v, s, i).id = SegmentId(v, i)
                          /\ ItemRowAt(v, s, i).blank = s.items[i]
      BY <1>6 DEF ItemRowAt
    <2>2. IdsDiffer
      <3>1. \A i, j \in 1..n : SegmentId(v, i) = SegmentId(v, j) => i = j
        BY <1>2, SegmentIds
      <3> QED
        BY <1>4, <2>1, <3>1
    <2>3. IsInjective(Restrict(s.items, BlankPlaces(s))) <=>
            \A i, j \in 1..n : (s.items[i] # Text /\ s.items[i] = s.items[j]) => i = j
      BY <1>2 DEF IsInjective, Restrict, BlankPlaces
    <2>4. BlanksDiffer <=> IsInjective(Restrict(s.items, BlankPlaces(s)))
      BY <1>5, <2>1, <2>3
    <2> QED
      BY <1>6, <2>2, <2>4 DEF items, IdsDiffer, BlanksDiffer
  <1>7. CASE s.kind # "blanks"
    <2>1. \A i \in 1..n : /\ ItemRowAt(v, s, i).id = s.items[i]
                          /\ ItemRowAt(v, s, i).blank = Text
      BY <1>7 DEF ItemRowAt
    <2>2. IsInjective(s.items) <=> \A i, j \in 1..n : s.items[i] = s.items[j] => i = j
      BY <1>2 DEF IsInjective
    <2>3. IdsDiffer <=> IsInjective(s.items)
      BY <1>4, <2>1, <2>2
    <2>4. BlanksDiffer
      BY <1>5, <2>1
    <2> QED
      BY <1>7, <2>3, <2>4 DEF items, IdsDiffer, BlanksDiffer
  <1> QED
    BY <1>6, <1>7

LEMMA OthersApart ==
  ASSUME NEW s, IsSnapshot(s), NEW v
  PROVE  Distinct(Rows(v, s).content.others, LAMBDA row : row.value)
           <=> IsInjective(s.others)
  <1> DEFINE n == Len(s.others)
             others == Rows(v, s).content.others
             Row(i) == [position |-> i - 1, value |-> s.others[i]]
  <1>1. others = {Row(i) : i \in 1..n}
    BY OthersInRows
  <1>2. n \in Nat /\ DOMAIN s.others = 1..n
    BY PartsHaveLengths
  <1>3. \A i \in 1..n : Row(i).position = i - 1 /\ Row(i).value = s.others[i]
    OBVIOUS
  <1> HIDE DEF n, others, Row
  <1>4. \A i, j \in 1..n : Row(i) = Row(j) => i = j
    <2>1. \A i, j \in 1..n : i - 1 = j - 1 => i = j
      BY <1>2
    <2> QED
      BY <1>3, <2>1
  <1>5. Distinct(others, LAMBDA row : row.value) <=>
          \A i, j \in 1..n : s.others[i] = s.others[j] => i = j
    BY <1>1, <1>3, <1>4 DEF Distinct
  <1>6. IsInjective(s.others) <=> \A i, j \in 1..n : s.others[i] = s.others[j] => i = j
    BY <1>2 DEF IsInjective
  <1> QED
    BY <1>5, <1>6 DEF others

(* The rows of answers are as distinct in any respect as the answers are.   *)
LEMMA AnswersApart ==
  ASSUME NEW s, IsSnapshot(s), NEW v
  PROVE  LET answers == Rows(v, s).answers
             n == Len(s.key)
         IN /\ Distinct(answers, LAMBDA row :
                 IF Rows(v, s).kind = "matching" THEN row.value.left ELSE row.value)
               <=> IF s.kind = "matching"
                     THEN \A i, j \in 1..n : s.key[i].left = s.key[j].left => i = j
                     ELSE \A i, j \in 1..n :
                            AnswerValue(v, s, i) = AnswerValue(v, s, j) => i = j
            /\ s.kind = "matching" =>
                 (Distinct(answers, LAMBDA row : row.value.right)
                    <=> \A i, j \in 1..n : s.key[i].right = s.key[j].right => i = j)
  <1> DEFINE answers == Rows(v, s).answers
             n == Len(s.key)
  <1>1. answers = {AnswerRowAt(v, s, i) : i \in 1..n}
    BY AnswersInRows, ZenonT(60)
  <1>2. n \in Nat /\ Rows(v, s).kind = s.kind
    BY PartsHaveLengths DEF Rows
  <1>3. \A i \in 1..n : /\ AnswerRowAt(v, s, i).position = i - 1
                        /\ AnswerRowAt(v, s, i).value = AnswerValue(v, s, i)
    BY DEF AnswerRowAt
  <1> HIDE DEF n, answers
  <1>4. \A i, j \in 1..n : AnswerRowAt(v, s, i) = AnswerRowAt(v, s, j) => i = j
    <2>1. \A i, j \in 1..n : i - 1 = j - 1 => i = j
      BY <1>2
    <2> QED
      BY <1>3, <2>1
  <1>5. CASE s.kind = "matching"
    <2>1. \A i \in 1..n : AnswerValue(v, s, i) = s.key[i]
      BY <1>5 DEF AnswerValue
    <2>2. Distinct(answers, LAMBDA row : row.value.left)
            <=> \A i, j \in 1..n : s.key[i].left = s.key[j].left => i = j
      BY <1>1, <1>3, <1>4, <2>1 DEF Distinct
    <2>3. Distinct(answers, LAMBDA row : row.value.right)
            <=> \A i, j \in 1..n : s.key[i].right = s.key[j].right => i = j
      BY <1>1, <1>3, <1>4, <2>1 DEF Distinct
    <2>4. Distinct(answers, LAMBDA row :
            IF Rows(v, s).kind = "matching" THEN row.value.left ELSE row.value)
            <=> Distinct(answers, LAMBDA row : row.value.left)
      BY <1>2, <1>5 DEF Distinct
    <2> QED
      BY <1>5, <2>2, <2>3, <2>4 DEF answers, n
  <1>6. CASE s.kind # "matching"
    <2>1. Distinct(answers, LAMBDA row : row.value)
            <=> \A i, j \in 1..n : AnswerValue(v, s, i) = AnswerValue(v, s, j) => i = j
      BY <1>1, <1>3, <1>4 DEF Distinct
    <2>2. Distinct(answers, LAMBDA row :
            IF Rows(v, s).kind = "matching" THEN row.value.left ELSE row.value)
            <=> Distinct(answers, LAMBDA row : row.value)
      BY <1>2, <1>6 DEF Distinct
    <2> QED
      BY <1>6, <2>1, <2>2 DEF answers, n
  <1> QED
    BY <1>5, <1>6

LEMMA ItemIds ==
  ASSUME NEW s, IsSnapshot(s), NEW v
  PROVE  /\ s.kind # "blanks" =>
              {row.id : row \in Rows(v, s).content.items} = Range(s.items)
         /\ {row.value : row \in Rows(v, s).content.others} = Range(s.others)
  <1> DEFINE n == Len(s.items)
             m == Len(s.others)
             items == Rows(v, s).content.items
             others == Rows(v, s).content.others
             Row(i) == [position |-> i - 1, value |-> s.others[i]]
  <1>1. items = {ItemRowAt(v, s, i) : i \in 1..n} /\ others = {Row(i) : i \in 1..m}
    BY ItemsInRows, OthersInRows
  <1>2. DOMAIN s.items = 1..n /\ DOMAIN s.others = 1..m
    BY PartsHaveLengths
  <1>3. \A i \in 1..m : Row(i).value = s.others[i]
    OBVIOUS
  <1> HIDE DEF items, others, n, m, Row
  <1>4. {row.value : row \in others} = Range(s.others)
    BY <1>1, <1>2, <1>3 DEF Range
  <1>5. ASSUME s.kind # "blanks" PROVE {row.id : row \in items} = Range(s.items)
    <2>1. \A i \in 1..n : ItemRowAt(v, s, i).id = s.items[i]
      BY <1>5 DEF ItemRowAt
    <2> QED
      BY <1>1, <1>2, <2>1 DEF Range
  <1> QED
    BY <1>4, <1>5 DEF items, others

(* The references of the answers resolve exactly when the answers are       *)
(* items of the content; to a blank they always do.                         *)
LEMMA ReferencesAreItems ==
  ASSUME NEW s, IsSnapshot(s), HasRows(s), NEW v
  PROVE  /\ s.kind = "matching" => (ReferencesResolve(Rows(v, s)) <=>
              Lefts(s) \subseteq Range(s.items) /\ Rights(s) \subseteq Range(s.others))
         /\ s.kind \in {"scalar", "blanks"} => ReferencesResolve(Rows(v, s))
         /\ s.kind \in {"single", "multiple", "ordering"} => (ReferencesResolve(Rows(v, s)) <=>
              Range(s.key) \subseteq Range(s.items))
  <1> DEFINE k == Len(s.key)
             rows == Rows(v, s)
             items == {row.id : row \in rows.content.items}
             others == {row.value : row \in rows.content.others}
  <1>1. rows.answers = {AnswerRowAt(v, s, i) : i \in 1..k}
    BY AnswersInRows, ZenonT(60)
  <1>2. DOMAIN s.key = 1..k /\ rows.kind = s.kind
    BY PartsHaveLengths DEF Rows
  <1>3. \A i \in 1..k : AnswerRowAt(v, s, i).value = AnswerValue(v, s, i)
    BY DEF AnswerRowAt
  <1>4. others = Range(s.others) /\ (s.kind # "blanks" => items = Range(s.items))
    BY ItemIds
  <1>5. ReferencesResolve(rows) <=>
          \A i \in 1..k :
            CASE s.kind = "matching" ->
                   AnswerValue(v, s, i).left \in items /\ AnswerValue(v, s, i).right \in others
              [] s.kind = "scalar" -> TRUE
              [] OTHER -> AnswerValue(v, s, i) \in items
    BY <1>1, <1>2, <1>3 DEF ReferencesResolve
  <1>6. CASE s.kind = "blanks"
    <2>1. ASSUME NEW i \in 1..k PROVE AnswerValue(v, s, i) \in items
      <3> DEFINE j == BlankAt(s, s.key[i])
      <3>1. j \in 1..Len(s.items)
        BY <1>6, AnswersHaveBlanks
      <3>2. rows.content.items = {ItemRowAt(v, s, h) : h \in 1..Len(s.items)}
        BY ItemsInRows
      <3>3. ItemRowAt(v, s, j) \in rows.content.items
        BY <3>1, <3>2
      <3>4. ItemRowAt(v, s, j).id = AnswerValue(v, s, i)
        BY <1>6 DEF ItemRowAt, AnswerValue
      <3> QED
        BY <3>3, <3>4
    <2> HIDE DEF items
    <2> QED
      BY <1>5, <1>6, <2>1
  <1>7. CASE s.kind # "blanks"
    <2>1. \A i \in 1..k : AnswerValue(v, s, i) = s.key[i]
      BY <1>7 DEF AnswerValue
    <2> HIDE DEF items, others, k, rows
    <2>2. CASE s.kind = "matching"
      <3>1. (\A i \in 1..k : s.key[i].left \in items /\ s.key[i].right \in others)
              <=> Lefts(s) \subseteq items /\ Rights(s) \subseteq others
        BY <1>2 DEF Lefts, Rights
      <3> QED
        BY <1>4, <1>5, <1>7, <2>1, <2>2, <3>1 DEF rows
    <2>3. CASE s.kind \in {"single", "multiple", "ordering"}
      <3>1. (\A i \in 1..k : s.key[i] \in items) <=> Range(s.key) \subseteq items
        BY <1>2 DEF Range
      <3> QED
        BY <1>4, <1>5, <1>7, <2>1, <2>3, <3>1 DEF rows
    <2>4. CASE s.kind = "scalar"
      BY <1>5, <2>4 DEF rows
    <2>5. s.kind \in Kinds
      BY DEF IsSnapshot
    <2> QED
      BY <1>7, <2>2, <2>3, <2>4, <2>5 DEF Kinds
  <1> QED
    BY <1>6, <1>7

LEMMA BlankPlacesAreFinite ==
  ASSUME NEW s, IsSnapshot(s)
  PROVE  /\ IsFiniteSet(BlankPlaces(s)) /\ BlankPlaces(s) \subseteq 1..Len(s.items)
         /\ Cardinality(BlankPlaces(s)) \in Nat
  <1>1. BlankPlaces(s) \subseteq 1..Len(s.items) /\ Len(s.items) \in Nat
    BY PartsHaveLengths DEF BlankPlaces
  <1> QED
    BY <1>1, IntervalSize, FS_Subset, FS_CardinalityType

LEMMA SegmentsOfBlanks ==
  ASSUME NEW s, IsSnapshot(s), s.kind = "blanks", NEW v
  PROVE  /\ BlankSegments(Rows(v, s)) = {ItemRowAt(v, s, i) : i \in BlankPlaces(s)}
         /\ Cardinality(BlankSegments(Rows(v, s))) = Cardinality(BlankPlaces(s))
         /\ {row.id : row \in BlankSegments(Rows(v, s))} = {SegmentId(v, i) : i \in BlankPlaces(s)}
  <1> DEFINE n == Len(s.items)
             places == BlankPlaces(s)
             items == Rows(v, s).content.items
             segments == BlankSegments(Rows(v, s))
             f == [i \in places |-> ItemRowAt(v, s, i)]
  <1>1. items = {ItemRowAt(v, s, i) : i \in 1..n}
    BY ItemsInRows
  <1>2. places = {i \in 1..n : s.items[i] # Text} /\ n \in Nat
    BY PartsHaveLengths DEF BlankPlaces
  <1>3. IsFiniteSet(places)
    BY BlankPlacesAreFinite
  <1>4. \A i \in 1..n : /\ ItemRowAt(v, s, i).blank = s.items[i]
                        /\ ItemRowAt(v, s, i).position = i - 1
                        /\ ItemRowAt(v, s, i).id = SegmentId(v, i)
    BY DEF ItemRowAt
  <1>5. segments = {row \in items : row.blank # Text}
    BY DEF BlankSegments
  <1> HIDE DEF n, items, segments, places
  <1>6. segments = {ItemRowAt(v, s, i) : i \in places}
    BY <1>1, <1>2, <1>4, <1>5
  <1>7. \A i, j \in places : ItemRowAt(v, s, i) = ItemRowAt(v, s, j) => i = j
    <2>1. \A i, j \in places : i - 1 = j - 1 => i = j
      BY <1>2
    <2> QED
      BY <1>2, <1>4, <2>1
  <1>8. f \in Bijection(places, segments)
    BY <1>6, <1>7 DEF Bijection, Injection, Surjection, IsInjective
  <1>9. Cardinality(segments) = Cardinality(places)
    BY <1>3, <1>8, FS_Bijection DEF ExistsBijection
  <1>10. {row.id : row \in segments} = {SegmentId(v, i) : i \in places}
    BY <1>2, <1>4, <1>6
  <1> QED
    BY <1>6, <1>9, <1>10 DEF segments, places

(* The answers of a prompt are distinct rows when they are distinct blanks. *)
LEMMA BlankAnswersApart ==
  ASSUME NEW s, IsSnapshot(s), HasRows(s), s.kind = "blanks", NEW v
  PROVE  (\A i, j \in 1..Len(s.key) : AnswerValue(v, s, i) = AnswerValue(v, s, j) => i = j)
           <=> IsInjective(s.key)
  <1> DEFINE k == Len(s.key)
  <1>1. DOMAIN s.key = 1..k
    BY PartsHaveLengths
  <1>2. ASSUME NEW i \in 1..k, NEW j \in 1..k
        PROVE  AnswerValue(v, s, i) = AnswerValue(v, s, j) <=> s.key[i] = s.key[j]
    <2> DEFINE a == BlankAt(s, s.key[i])
               b == BlankAt(s, s.key[j])
    <2>1. AnswerValue(v, s, i) = SegmentId(v, a) /\ AnswerValue(v, s, j) = SegmentId(v, b)
      BY DEF AnswerValue
    <2>2. a \in 1..Len(s.items) /\ b \in 1..Len(s.items)
          /\ s.items[a] = s.key[i] /\ s.items[b] = s.key[j]
      BY AnswersHaveBlanks
    <2>3. a \in Int /\ b \in Int
      BY <2>2, PartsHaveLengths
    <2>4. s.key[i] = s.key[j] => a = b
      OBVIOUS
    <2> HIDE DEF a, b
    <2>5. SegmentId(v, a) = SegmentId(v, b) => a = b
      BY <2>3, SegmentIds
    <2> QED
      BY <2>1, <2>2, <2>4, <2>5
  <1> HIDE DEF k
  <1>3. IsInjective(s.key) <=> \A i, j \in 1..k : s.key[i] = s.key[j] => i = j
    BY <1>1 DEF IsInjective
  <1> QED
    BY <1>2, <1>3 DEF k

(* As many distinct answers as there are blanks answer every blank.         *)
LEMMA AnswersCoverBlanks ==
  ASSUME NEW s, IsSnapshot(s), HasRows(s), s.kind = "blanks",
         IsInjective(Restrict(s.items, BlankPlaces(s))), IsInjective(s.key),
         Len(s.key) = Cardinality(BlankPlaces(s))
  PROVE  Blanks(s) \subseteq Range(s.key)
  <1> DEFINE k == Len(s.key)
             places == BlankPlaces(s)
             f == [i \in places |-> s.items[i]]
  <1>1. k \in Nat /\ DOMAIN s.key = 1..k
    BY PartsHaveLengths
  <1>2. IsFiniteSet(places) /\ places \subseteq DOMAIN s.items
    BY BlankPlacesAreFinite DEF BlankPlaces
  <1>3. Restrict(s.items, places) = f
    BY <1>2 DEF Restrict
  <1>4. f \in Bijection(places, Blanks(s))
    <2>1. Blanks(s) = {s.items[i] : i \in places}
      BY DEF Blanks
    <2>2. \A i, j \in places : s.items[i] = s.items[j] => i = j
      BY <1>3 DEF IsInjective
    <2> HIDE DEF places
    <2> QED
      BY <2>1, <2>2 DEF Bijection, Injection, Surjection, IsInjective
  <1>5. IsFiniteSet(Blanks(s)) /\ Cardinality(Blanks(s)) = Cardinality(places)
    BY <1>2, <1>4, FS_Bijection DEF ExistsBijection
  <1>6. Range(s.key) = {s.key[i] : i \in 1..k} /\ \A i, j \in 1..k : s.key[i] = s.key[j] => i = j
    BY <1>1 DEF Range, IsInjective
  <1>7. Cardinality(Range(s.key)) = k
    BY <1>1, <1>6, ImageSize
  <1>8. Range(s.key) \subseteq Blanks(s)
    BY DEF HasRows
  <1> QED
    BY <1>5, <1>7, <1>8, FS_Subset

(* As many distinct answers as items: an answer for each item, exactly when *)
(* each answer is an item.                                                  *)
LEMMA OrderingCoversItems ==
  ASSUME NEW s, IsSnapshot(s), IsInjective(s.items), IsInjective(s.key),
         Len(s.key) = Len(s.items)
  PROVE  Range(s.items) \subseteq Range(s.key) <=> Range(s.key) \subseteq Range(s.items)
  <1> DEFINE n == Len(s.items)
  <1>1. n \in Nat /\ DOMAIN s.items = 1..n /\ DOMAIN s.key = 1..n
    BY PartsHaveLengths
  <1> HIDE DEF n
  <1>2. /\ Range(s.items) = {s.items[i] : i \in 1..n}
        /\ \A i, j \in 1..n : s.items[i] = s.items[j] => i = j
    BY <1>1 DEF Range, IsInjective
  <1>3. /\ Range(s.key) = {s.key[i] : i \in 1..n}
        /\ \A i, j \in 1..n : s.key[i] = s.key[j] => i = j
    BY <1>1 DEF Range, IsInjective
  <1>4. IsFiniteSet(Range(s.items)) /\ Cardinality(Range(s.items)) = n
    BY <1>1, <1>2, ImageSize
  <1>5. IsFiniteSet(Range(s.key)) /\ Cardinality(Range(s.key)) = n
    BY <1>1, <1>3, ImageSize
  <1> QED
    BY <1>4, <1>5, FS_Subset

LEMMA SidesOfMatching ==
  ASSUME NEW s, IsSnapshot(s), s.kind = "matching"
  PROVE  /\ Cardinality(Lefts(s)) = Len(s.key) <=>
              \A i, j \in 1..Len(s.key) : s.key[i].left = s.key[j].left => i = j
         /\ Cardinality(Rights(s)) = Len(s.key) <=>
              \A i, j \in 1..Len(s.key) : s.key[i].right = s.key[j].right => i = j
  <1> DEFINE n == Len(s.key)
             lefts == [i \in 1..n |-> s.key[i].left]
             rights == [i \in 1..n |-> s.key[i].right]
  <1>1. n \in Nat /\ DOMAIN s.key = 1..n
    BY PartsHaveLengths
  <1> HIDE DEF n
  <1>2. Lefts(s) = {lefts[i] : i \in 1..n} /\ Rights(s) = {rights[i] : i \in 1..n}
    BY <1>1 DEF Lefts, Rights
  <1>3. DOMAIN lefts = 1..n /\ DOMAIN rights = 1..n
    OBVIOUS
  <1>4. Cardinality(Lefts(s)) = n <=> \A i, j \in 1..n : lefts[i] = lefts[j] => i = j
    <2> HIDE DEF lefts
    <2> QED
      BY <1>1, <1>2, <1>3, ImageSize
  <1>5. Cardinality(Rights(s)) = n <=> \A i, j \in 1..n : rights[i] = rights[j] => i = j
    <2> HIDE DEF rights
    <2> QED
      BY <1>1, <1>2, <1>3, ImageSize
  <1> QED
    BY <1>4, <1>5 DEF n

(* The primary and unique keys hold of a snapshot's rows exactly when its   *)
(* content is well formed and no answer is given twice.                     *)
LEMMA KeysFitParts ==
  ASSUME NEW s, IsSnapshot(s), HasRows(s), NEW v
  PROVE  KeysAreUnique(Rows(v, s)) <=>
           /\ ContentIsWellFormed(s)
           /\ IF s.kind = "matching"
                THEN \A i, j \in 1..Len(s.key) : s.key[i].left = s.key[j].left => i = j
                ELSE s.kind \in {"single", "scalar"} \/ IsInjective(s.key)
  <1> DEFINE k == Len(s.key)
             rows == Rows(v, s)
             items == rows.content.items
             IdsDiffer == \A row1, row2 \in items : row1.id = row2.id => row1 = row2
             BlanksDiffer == \A row1, row2 \in items :
               (row1.blank # Text /\ row1.blank = row2.blank) => row1 = row2
             OthersDiffer == Distinct(rows.content.others, LAMBDA row : row.value)
             AnswersDiffer == Distinct(rows.answers, LAMBDA row :
               IF rows.kind = "matching" THEN row.value.left ELSE row.value)
             KeysDiffer ==
               IF s.kind = "matching"
                 THEN \A i, j \in 1..k : s.key[i].left = s.key[j].left => i = j
                 ELSE s.kind \in {"single", "scalar"} \/ IsInjective(s.key)
  <1>1. IdsDiffer /\ BlanksDiffer <=>
          IsInjective(IF s.kind = "blanks" THEN Restrict(s.items, BlankPlaces(s)) ELSE s.items)
    BY ItemsApart
  <1>2. OthersDiffer <=> IsInjective(s.others)
    BY OthersApart
  <1>3. AnswersDiffer <=>
          IF s.kind = "matching"
            THEN \A i, j \in 1..k : s.key[i].left = s.key[j].left => i = j
            ELSE \A i, j \in 1..k : AnswerValue(v, s, i) = AnswerValue(v, s, j) => i = j
    BY AnswersApart
  <1>4. AnswersDiffer <=> KeysDiffer
    <2>1. CASE s.kind = "matching"
      BY <1>3, <2>1
    <2>2. CASE s.kind = "blanks"
      BY <1>3, <2>2, BlankAnswersApart
    <2>3. CASE s.kind \notin {"matching", "blanks"}
      <3>1. \A i \in 1..k : AnswerValue(v, s, i) = s.key[i]
        BY <2>3 DEF AnswerValue
      <3>2. DOMAIN s.key = 1..k
        BY PartsHaveLengths
      <3>3. IsInjective(s.key) <=> \A i, j \in 1..k : s.key[i] = s.key[j] => i = j
        BY <3>2 DEF IsInjective
      <3>4. s.kind \in {"single", "scalar"} => k = 1
        BY DEF IsSnapshot
      <3>5. s.kind \in {"single", "scalar"} => IsInjective(s.key)
        BY <3>3, <3>4
      <3> HIDE DEF AnswersDiffer, k
      <3> QED
        BY <1>3, <2>3, <3>1, <3>3, <3>5
    <2> QED
      BY <2>1, <2>2, <2>3
  <1>5. KeysAreUnique(rows) <=> IdsDiffer /\ BlanksDiffer /\ OthersDiffer /\ AnswersDiffer
    <2>1. Distinct(items, LAMBDA row : row.id) <=> IdsDiffer
      BY DEF Distinct
    <2>2. Distinct({row \in items : row.blank # Text}, LAMBDA row : row.blank) <=> BlanksDiffer
      BY DEF Distinct
    <2> HIDE DEF IdsDiffer, BlanksDiffer
    <2> QED
      BY <2>1, <2>2 DEF KeysAreUnique
  <1>6. ContentIsWellFormed(s) <=>
          /\ IsInjective(IF s.kind = "blanks" THEN Restrict(s.items, BlankPlaces(s))
                         ELSE s.items)
          /\ IsInjective(s.others)
    BY DEF ContentIsWellFormed
  <1> HIDE DEF IdsDiffer, BlanksDiffer, OthersDiffer, AnswersDiffer, KeysDiffer
  <1>7. KeysAreUnique(rows) <=> ContentIsWellFormed(s) /\ KeysDiffer
    BY <1>1, <1>2, <1>4, <1>5, <1>6
  <1> QED
    BY <1>7 DEF KeysDiffer, rows, k

LEMMA CompletionCounts ==
  ASSUME NEW s, IsSnapshot(s), HasRows(s), NEW v
  PROVE  CompletionGuard(Rows(v, s)) <=>
           /\ s.kind \in {"matching", "ordering"} => Len(s.key) = Len(s.items)
           /\ s.kind = "matching" /\ s.mode = "ONE_TO_ONE" =>
                \A i, j \in 1..Len(s.key) : s.key[i].right = s.key[j].right => i = j
           /\ s.kind = "blanks" => Len(s.key) = Cardinality(BlankPlaces(s))
  <1> DEFINE k == Len(s.key)
             rows == Rows(v, s)
             ids == {row.id : row \in BlankSegments(rows)}
             values == {row.value : row \in rows.answers}
             RightsDiffer == Distinct(rows.answers, LAMBDA row : row.value.right)
  <1>1. rows.kind = s.kind /\ rows.mode = s.mode
    BY DEF Rows
  <1>2. /\ Cardinality(rows.answers) = k
        /\ Cardinality(rows.content.items) = Len(s.items)
    BY AnswersInRows, ItemRows
  <1>3. s.kind = "single" => k = 1
    BY DEF IsSnapshot
  <1>4. ASSUME s.kind = "matching"
        PROVE  RightsDiffer <=>
                 \A i, j \in 1..k : s.key[i].right = s.key[j].right => i = j
    BY <1>4, AnswersApart
  <1>5. ASSUME s.kind = "blanks"
        PROVE  /\ Cardinality(BlankSegments(rows)) = Cardinality(BlankPlaces(s))
               /\ values \subseteq ids
    <2>1. ids = {SegmentId(v, i) : i \in BlankPlaces(s)}
      BY <1>5, SegmentsOfBlanks
    <2>2. ASSUME NEW i \in 1..k PROVE AnswerRowAt(v, s, i).value \in ids
      <3>1. BlankAt(s, s.key[i]) \in BlankPlaces(s)
        BY <1>5, AnswersHaveBlanks
      <3>2. AnswerRowAt(v, s, i).value = SegmentId(v, BlankAt(s, s.key[i]))
        BY <1>5 DEF AnswerRowAt, AnswerValue
      <3> HIDE DEF ids
      <3> QED
        BY <2>1, <3>1, <3>2
    <2>3. rows.answers = {AnswerRowAt(v, s, i) : i \in 1..k}
      BY AnswersInRows, ZenonT(60)
    <2> HIDE DEF ids, rows
    <2>4. values \subseteq ids
      BY <2>2, <2>3
    <2> QED
      BY <1>5, <2>4, SegmentsOfBlanks DEF rows
  <1>6. CompletionGuard(rows) <=>
          /\ rows.kind = "single" => Cardinality(rows.answers) = 1
          /\ rows.kind = "matching" =>
               /\ Cardinality(rows.answers) = Cardinality(rows.content.items)
               /\ rows.mode = "ONE_TO_ONE" => RightsDiffer
          /\ rows.kind = "ordering" =>
               Cardinality(rows.answers) = Cardinality(rows.content.items)
          /\ rows.kind = "blanks" =>
               /\ Cardinality(rows.answers) = Cardinality(BlankSegments(rows))
               /\ values \subseteq ids
    BY DEF CompletionGuard
  <1> HIDE DEF rows, values, ids, RightsDiffer, k
  <1> QED
    BY <1>1, <1>2, <1>3, <1>4, <1>5, <1>6 DEF rows, k

LEMMA ValidBlanksHaveRows ==
  ASSUME NEW s, IsSnapshot(s), IsValid(s)
  PROVE  HasRows(s)
  <1> SUFFICES ASSUME s.kind = "blanks"
               PROVE  Range(s.key) \subseteq Blanks(s)
    BY DEF HasRows
  <1> DEFINE k == Len(s.key)
             places == BlankPlaces(s)
             f == [i \in places |-> s.items[i]]
  <1>1. k \in Nat /\ DOMAIN s.key = 1..k /\ k = Cardinality(places)
    BY PartsHaveLengths DEF IsValid, KeyMatchesContent
  <1>2. IsFiniteSet(places) /\ Restrict(s.items, places) = f
    BY BlankPlacesAreFinite DEF BlankPlaces, Restrict
  <1>3. \A i, j \in places : s.items[i] = s.items[j] => i = j
    <2>1. IsInjective(f)
      BY <1>2 DEF IsValid, ContentIsWellFormed
    <2> HIDE DEF places
    <2> QED
      BY <2>1 DEF IsInjective
  <1>4. f \in Bijection(places, Blanks(s))
    <2>1. Blanks(s) = {s.items[i] : i \in places}
      BY DEF Blanks
    <2> HIDE DEF places
    <2> QED
      BY <1>3, <2>1 DEF Bijection, Injection, Surjection, IsInjective
  <1>5. IsFiniteSet(Blanks(s)) /\ Cardinality(Blanks(s)) = k
    BY <1>1, <1>2, <1>4, FS_Bijection DEF ExistsBijection
  <1> HIDE DEF k, places, f
  <1>6. Range(s.key) = {s.key[i] : i \in 1..k} /\ \A i, j \in 1..k : s.key[i] = s.key[j] => i = j
    BY <1>1 DEF Range, IsInjective, IsValid, KeyIsWellFormed
  <1>7. IsFiniteSet(Range(s.key)) /\ Cardinality(Range(s.key)) = k
    BY <1>1, <1>6, ImageSize
  <1>8. Blanks(s) \subseteq Range(s.key)
    BY DEF IsValid, KeyMatchesContent
  <1> QED
    BY <1>5, <1>7, <1>8, FS_Subset

(* The tables take the rows of exactly the snapshots that the domain takes: *)
(* neither the keys, the references and the deferred trigger nor the checks *)
(* of createQuestionVersionSnapshot are stricter.                           *)
THEOREM TablesAcceptTheValid ==
  ASSUME NEW s, IsSnapshot(s), HasRows(s), NEW v
  PROVE  RowsAccepted(Rows(v, s)) <=> IsValid(s)
  <1> DEFINE k == Len(s.key)
             rows == Rows(v, s)
             LeftsDiffer == \A i, j \in 1..k : s.key[i].left = s.key[j].left => i = j
             RightsDiffer == \A i, j \in 1..k : s.key[i].right = s.key[j].right => i = j
  <1>1. KeysAreUnique(rows) <=>
          /\ ContentIsWellFormed(s)
          /\ IF s.kind = "matching" THEN LeftsDiffer
             ELSE s.kind \in {"single", "scalar"} \/ IsInjective(s.key)
    BY KeysFitParts
  <1>2. CompletionGuard(rows) <=>
          /\ s.kind \in {"matching", "ordering"} => k = Len(s.items)
          /\ s.kind = "matching" /\ s.mode = "ONE_TO_ONE" => RightsDiffer
          /\ s.kind = "blanks" => k = Cardinality(BlankPlaces(s))
    BY CompletionCounts
  <1>3. ContentIsWellFormed(s) =>
          IF s.kind = "blanks" THEN IsInjective(Restrict(s.items, BlankPlaces(s)))
          ELSE IsInjective(s.items)
    BY DEF ContentIsWellFormed
  <1>4. s.kind \in Kinds
    BY DEF IsSnapshot
  <1>5. RowsAccepted(rows) <=> KeysAreUnique(rows) /\ ReferencesResolve(rows) /\ CompletionGuard(rows)
    BY DEF RowsAccepted
  <1>6. IsValid(s) <=> ContentIsWellFormed(s) /\ KeyIsWellFormed(s) /\ KeyMatchesContent(s)
    BY DEF IsValid
  <1>7. CASE s.kind = "matching"
    <2>1. ReferencesResolve(rows) <=>
            Lefts(s) \subseteq Range(s.items) /\ Rights(s) \subseteq Range(s.others)
      BY <1>7, ReferencesAreItems
    <2>2. (Cardinality(Lefts(s)) = k <=> LeftsDiffer) /\ (Cardinality(Rights(s)) = k <=> RightsDiffer)
      BY <1>7, SidesOfMatching
    <2>3. KeyIsWellFormed(s)
      BY <1>7 DEF KeyIsWellFormed
    <2>4. KeyMatchesContent(s) <=>
            /\ Lefts(s) \subseteq Range(s.items) /\ Rights(s) \subseteq Range(s.others)
            /\ k = Len(s.items) /\ Cardinality(Lefts(s)) = Len(s.items)
            /\ s.mode = "ONE_TO_ONE" => Cardinality(Rights(s)) = k
      BY <1>7 DEF KeyMatchesContent
    <2> HIDE DEF LeftsDiffer, RightsDiffer, k, rows
    <2> QED
      BY <1>1, <1>2, <1>5, <1>6, <1>7, <2>1, <2>2, <2>3, <2>4 DEF rows
  <1>8. CASE s.kind = "ordering"
    <2>1. ReferencesResolve(rows) <=> Range(s.key) \subseteq Range(s.items)
      BY <1>8, ReferencesAreItems
    <2>2. ContentIsWellFormed(s) /\ IsInjective(s.key) /\ k = Len(s.items) =>
            (Range(s.items) \subseteq Range(s.key) <=> Range(s.key) \subseteq Range(s.items))
      BY <1>3, <1>8, OrderingCoversItems
    <2>3. KeyIsWellFormed(s) <=> IsInjective(s.key)
      BY <1>8 DEF KeyIsWellFormed
    <2>4. KeyMatchesContent(s) <=> k = Len(s.items) /\ Range(s.items) \subseteq Range(s.key)
      BY <1>8 DEF KeyMatchesContent
    <2> HIDE DEF LeftsDiffer, RightsDiffer, k, rows
    <2> QED
      BY <1>1, <1>2, <1>5, <1>6, <1>8, <2>1, <2>2, <2>3, <2>4 DEF rows
  <1>9. CASE s.kind = "blanks"
    <2>1. ReferencesResolve(rows)
      BY <1>9, ReferencesAreItems
    <2>2. ContentIsWellFormed(s) /\ IsInjective(s.key) /\ k = Cardinality(BlankPlaces(s)) =>
            Blanks(s) \subseteq Range(s.key)
      BY <1>3, <1>9, AnswersCoverBlanks
    <2>3. KeyIsWellFormed(s) <=> IsInjective(s.key)
      BY <1>9 DEF KeyIsWellFormed
    <2>4. KeyMatchesContent(s) <=>
            k = Cardinality(BlankPlaces(s)) /\ Blanks(s) \subseteq Range(s.key)
      BY <1>9 DEF KeyMatchesContent
    <2> HIDE DEF LeftsDiffer, RightsDiffer, k, rows
    <2> QED
      BY <1>1, <1>2, <1>5, <1>6, <1>9, <2>1, <2>2, <2>3, <2>4 DEF rows
  <1>10. CASE s.kind \in {"single", "multiple"}
    <2>1. ReferencesResolve(rows) <=> Range(s.key) \subseteq Range(s.items)
      BY <1>10, ReferencesAreItems
    <2>2. KeyIsWellFormed(s) <=> s.kind = "single" \/ IsInjective(s.key)
      BY <1>10 DEF KeyIsWellFormed
    <2>3. KeyMatchesContent(s) <=> Range(s.key) \subseteq Range(s.items)
      BY <1>10 DEF KeyMatchesContent
    <2> HIDE DEF LeftsDiffer, RightsDiffer, k, rows
    <2> QED
      BY <1>1, <1>2, <1>5, <1>6, <1>10, <2>1, <2>2, <2>3 DEF rows
  <1>11. CASE s.kind = "scalar"
    <2>1. ReferencesResolve(rows)
      BY <1>11, ReferencesAreItems
    <2>2. KeyIsWellFormed(s) /\ KeyMatchesContent(s)
      BY <1>11 DEF KeyIsWellFormed, KeyMatchesContent
    <2> HIDE DEF LeftsDiffer, RightsDiffer, k, rows
    <2> QED
      BY <1>1, <1>2, <1>5, <1>6, <1>11, <2>1, <2>2 DEF rows
  <1> QED
    BY <1>4, <1>7, <1>8, <1>9, <1>10, <1>11 DEF Kinds

-----------------------------------------------------------------------------
(* A copy under new identifiers.                                            *)

Named(v, side, seq) ==
  [i \in DOMAIN seq |-> IF seq[i] = Text THEN Text ELSE <<v, side, i>>]

PositionOf(seq, id) == CHOOSE i \in DOMAIN seq : seq[i] = id

PlaceOf(seq, id) == CHOOSE i \in DOMAIN seq :
  seq[i] = id /\ \A j \in DOMAIN seq : seq[j] = id => i <= j

(* An identifier that stands at one place stands there under its new name.  *)
LEMMA NamedInPlace ==
  ASSUME NEW v \in Versions, NEW side \in {"item", "other"},
         NEW n \in Nat, NEW seq, DOMAIN seq = 1..n,
         NEW j \in 1..n, \A i \in 1..n : seq[i] = seq[j] => i = j
  PROVE  /\ PositionOf(seq, seq[j]) = j /\ PlaceOf(seq, seq[j]) = j
         /\ PlaceOf(Named(v, side, seq), Named(v, side, seq)[j]) = j
  <1> DEFINE named == Named(v, side, seq)
  <1>1. PositionOf(seq, seq[j]) = j
    BY DEF PositionOf
  <1>2. PlaceOf(seq, seq[j]) = j
    BY DEF PlaceOf
  <1>3. DOMAIN named = 1..n
    BY DEF Named
  <1>4. \A i \in 1..n : named[i] = named[j] => i = j
    <2> SUFFICES ASSUME NEW i \in 1..n, named[i] = named[j] PROVE i = j
      OBVIOUS
    <2>1. \A h \in 1..n : named[h] = IF seq[h] = Text THEN Text ELSE <<v, side, h>>
      BY DEF Named
    <2>2. \A h \in 1..n : <<v, side, h>> # Text
      BY NamesAreApart
    <2>3. CASE seq[j] = Text
      BY <2>1, <2>2, <2>3
    <2>4. CASE seq[j] # Text
      <3>1. named[j] = <<v, side, j>> /\ named[i] = <<v, side, i>>
        BY <2>1, <2>2, <2>4
      <3> QED
        BY <3>1
    <2> QED
      BY <2>3, <2>4
  <1> HIDE DEF named
  <1>5. PlaceOf(named, named[j]) = j
    BY <1>3, <1>4 DEF PlaceOf
  <1> QED
    BY <1>1, <1>2, <1>5 DEF named

LEMMA NamedIsSequence ==
  ASSUME NEW v, NEW side, NEW seq, seq \in Seq(Range(seq))
  PROVE  /\ Named(v, side, seq) \in Seq(Range(Named(v, side, seq)))
         /\ Len(Named(v, side, seq)) = Len(seq)
         /\ seq = << >> => Named(v, side, seq) = << >>
  <1> DEFINE named == Named(v, side, seq)
  <1>1. Len(seq) \in Nat /\ DOMAIN seq = 1..Len(seq)
    BY SequencesHaveLength
  <1>2. named = [i \in 1..Len(seq) |-> named[i]]
    BY <1>1 DEF Named
  <1> HIDE DEF named
  <1>3. named \in Seq(Range(named)) /\ Len(named) = Len(seq)
    BY <1>1, <1>2 DEF Range
  <1>4. seq = << >> => named = << >>
    BY <1>3
  <1> QED
    BY <1>3, <1>4 DEF named

ClonedAnswer(v, s, answer) ==
  CASE s.kind = "matching" ->
         [left |-> Named(v, "item", s.items)[PositionOf(s.items, answer.left)],
          right |-> Named(v, "other", s.others)[PositionOf(s.others, answer.right)]]
    [] s.kind = "scalar" -> answer
    [] OTHER -> Named(v, "item", s.items)[PositionOf(s.items, answer)]

LEMMA ClonedParts ==
  ASSUME NEW s, IsSnapshot(s), NEW v
  PROVE  CloneIdentities(v, s) =
           [kind |-> s.kind, mode |-> s.mode, items |-> Named(v, "item", s.items),
            others |-> Named(v, "other", s.others),
            key |-> [i \in DOMAIN s.key |-> ClonedAnswer(v, s, s.key[i])]]
  <1>1. s = [kind |-> s.kind, mode |-> s.mode, items |-> s.items, others |-> s.others,
             key |-> s.key]
    BY DEF IsSnapshot
  <1>2. CloneIdentities(v, s) =
          [s EXCEPT !.items = Named(v, "item", s.items), !.others = Named(v, "other", s.others),
                    !.key = [i \in DOMAIN s.key |-> ClonedAnswer(v, s, s.key[i])]]
    BY DEF CloneIdentities, Named, ClonedAnswer, PositionOf
  <1> QED
    BY <1>1, <1>2

LEMMA CloneIsSnapshot ==
  ASSUME NEW s, IsSnapshot(s), NEW v
  PROVE  IsSnapshot(CloneIdentities(v, s))
  <1> DEFINE c == CloneIdentities(v, s)
             k == Len(s.key)
  <1>1. c = [kind |-> s.kind, mode |-> s.mode, items |-> Named(v, "item", s.items),
             others |-> Named(v, "other", s.others),
             key |-> [i \in DOMAIN s.key |-> ClonedAnswer(v, s, s.key[i])]]
    BY ClonedParts
  <1> HIDE DEF c
  <1>2. /\ s.items \in Seq(Range(s.items)) /\ s.others \in Seq(Range(s.others))
        /\ s.kind \in Kinds
        /\ s.kind \in {"single", "scalar"} => Len(s.key) = 1
        /\ s.kind # "matching" => s.others = << >>
    BY DEF IsSnapshot
  <1>3. k \in Nat /\ DOMAIN s.key = 1..k
    BY PartsHaveLengths
  <1>4. c.items \in Seq(Range(c.items)) /\ c.others \in Seq(Range(c.others))
        /\ (c.kind # "matching" => c.others = << >>)
    BY <1>1, <1>2, NamedIsSequence
  <1>5. c.key = [i \in 1..k |-> ClonedAnswer(v, s, s.key[i])]
    BY <1>1, <1>3
  <1> HIDE DEF k
  <1>6. c.key \in Seq(Range(c.key)) /\ Len(c.key) = k /\ DOMAIN c.key = 1..k
    <2>1. \A i \in 1..k : c.key[i] \in Range(c.key)
      BY <1>5 DEF Range
    <2>2. c.key = [i \in 1..k |-> c.key[i]]
      BY <1>5, SMTT(60)
    <2> QED
      BY <1>3, <2>1, <2>2
  <1>7. c.kind = "matching" => \A i \in DOMAIN c.key :
          c.key[i] = [left |-> c.key[i].left, right |-> c.key[i].right]
    BY <1>1, <1>5, <1>6 DEF ClonedAnswer
  <1>8. c = [kind |-> c.kind, mode |-> c.mode, items |-> c.items, others |-> c.others,
             key |-> c.key]
    BY <1>1
  <1>9. c.kind \in Kinds /\ (c.kind \in {"single", "scalar"} => Len(c.key) = 1)
    BY <1>1, <1>2, <1>6 DEF k
  <1>10. \A part \in {"items", "others", "key"} : c[part] \in Seq(Range(c[part]))
    BY <1>4, <1>6
  <1>11. IsSnapshot(c)
    BY <1>4, <1>7, <1>8, <1>9, <1>10 DEF IsSnapshot
  <1> QED
    BY <1>11 DEF c

(* The place of an answer is the same under the new names.                  *)
LEMMA AnswerKeepsPlace ==
  ASSUME NEW v \in Versions, NEW side \in {"item", "other"},
         NEW seq, seq \in Seq(Range(seq)), NEW id \in Range(seq),
         \A i, j \in DOMAIN seq : seq[i] = id /\ seq[j] = id => i = j
  PROVE  PlaceOf(Named(v, side, seq), Named(v, side, seq)[PositionOf(seq, id)])
           = PlaceOf(seq, id)
  <1>1. Len(seq) \in Nat /\ DOMAIN seq = 1..Len(seq)
    BY SequencesHaveLength
  <1>2. PICK j \in 1..Len(seq) : seq[j] = id
    BY <1>1 DEF Range
  <1>3. \A i \in 1..Len(seq) : seq[i] = seq[j] => i = j
    BY <1>1, <1>2
  <1> QED
    BY <1>1, <1>2, <1>3, NamedInPlace

(* A copy has the shape of the original: the same texts and answers at the  *)
(* same places.                                                             *)
THEOREM CopiesKeepShape ==
  ASSUME NEW s, IsSnapshot(s), IsValid(s), NEW v \in Versions
  PROVE  Shape(CloneIdentities(v, s)) = Shape(s)
  <1> DEFINE c == CloneIdentities(v, s)
             places(x) == [i \in DOMAIN x.key |->
               CASE x.kind = "matching" ->
                      <<PlaceOf(x.items, x.key[i].left), PlaceOf(x.others, x.key[i].right)>>
                 [] x.kind = "scalar" -> x.key[i]
                 [] OTHER -> PlaceOf(x.items, x.key[i])]
             shape(x) == [kind |-> x.kind, mode |-> x.mode,
                          items |-> [i \in DOMAIN x.items |-> x.items[i] = Text],
                          others |-> Len(x.others), key |-> places(x)]
  <1>1. c = [kind |-> s.kind, mode |-> s.mode, items |-> Named(v, "item", s.items),
             others |-> Named(v, "other", s.others),
             key |-> [i \in DOMAIN s.key |-> ClonedAnswer(v, s, s.key[i])]]
    BY ClonedParts
  <1>2. \A x : Shape(x) = shape(x)
    BY DEF Shape, PlaceOf
  <1>3. /\ s.items \in Seq(Range(s.items)) /\ s.others \in Seq(Range(s.others))
        /\ s.kind \in Kinds
    BY DEF IsSnapshot
  <1> HIDE DEF c
  <1>4. [i \in DOMAIN c.items |-> c.items[i] = Text] = [i \in DOMAIN s.items |-> s.items[i] = Text]
    <2>1. DOMAIN s.items \subseteq Nat
      BY PartsHaveLengths
    <2>2. \A i \in DOMAIN s.items : <<v, "item", i>> # Text
      BY <2>1, NamesAreApart
    <2>3. DOMAIN c.items = DOMAIN s.items /\ \A i \in DOMAIN s.items :
            c.items[i] = IF s.items[i] = Text THEN Text ELSE <<v, "item", i>>
      BY <1>1 DEF Named
    <2>4. \A i \in DOMAIN s.items : (c.items[i] = Text) = (s.items[i] = Text)
      BY <2>2, <2>3
    <2> QED
      BY <2>3, <2>4
  <1>5. Len(c.others) = Len(s.others)
    BY <1>1, <1>3, NamedIsSequence
  <1>6. DOMAIN c.key = DOMAIN s.key /\ c.kind = s.kind /\ c.mode = s.mode
        /\ c.items = Named(v, "item", s.items) /\ c.others = Named(v, "other", s.others)
        /\ \A i \in DOMAIN s.key : c.key[i] = ClonedAnswer(v, s, s.key[i])
    BY <1>1
  <1>7. ASSUME s.kind \notin {"matching", "scalar"}, NEW i \in DOMAIN s.key
        PROVE  PlaceOf(c.items, c.key[i]) = PlaceOf(s.items, s.key[i])
    <2>1. s.key[i] \in Range(s.items) /\ \A j, h \in DOMAIN s.items :
            s.items[j] = s.key[i] /\ s.items[h] = s.key[i] => j = h
      <3>1. s.key[i] \in Range(s.key)
        BY DEF Range
      <3>2. CASE s.kind = "blanks"
        <4>1. s.key[i] \in Blanks(s)
          BY <3>1, <3>2, ValidBlanksHaveRows DEF HasRows
        <4>2. IsInjective(Restrict(s.items, BlankPlaces(s)))
          BY <3>2 DEF IsValid, ContentIsWellFormed
        <4>3. \A j, h \in DOMAIN s.items :
                s.items[j] # Text /\ s.items[j] = s.items[h] => j = h
          BY <4>2 DEF IsInjective, Restrict, BlankPlaces
        <4> QED
          BY <4>1, <4>3 DEF Blanks, BlankPlaces, Range
      <3>3. CASE s.kind = "ordering"
        <4>1. IsInjective(s.items) /\ IsInjective(s.key) /\ Len(s.key) = Len(s.items)
              /\ Range(s.items) \subseteq Range(s.key)
          BY <3>3 DEF IsValid, ContentIsWellFormed, KeyIsWellFormed, KeyMatchesContent
        <4>2. Range(s.key) \subseteq Range(s.items)
          BY <4>1, OrderingCoversItems
        <4> QED
          BY <3>1, <4>1, <4>2 DEF IsInjective
      <3>4. CASE s.kind \in {"single", "multiple"}
        BY <3>1, <3>4 DEF IsValid, ContentIsWellFormed, KeyMatchesContent, IsInjective
      <3> QED
        BY <1>3, <1>7, <3>2, <3>3, <3>4 DEF Kinds
    <2>2. c.key[i] = Named(v, "item", s.items)[PositionOf(s.items, s.key[i])]
      BY <1>6, <1>7 DEF ClonedAnswer
    <2> QED
      BY <1>3, <1>6, <2>1, <2>2, AnswerKeepsPlace
  <1>8. ASSUME s.kind = "matching", NEW i \in DOMAIN s.key
        PROVE  /\ PlaceOf(c.items, c.key[i].left) = PlaceOf(s.items, s.key[i].left)
               /\ PlaceOf(c.others, c.key[i].right) = PlaceOf(s.others, s.key[i].right)
    <2>1. s.key[i].left \in Range(s.items) /\ s.key[i].right \in Range(s.others)
      BY <1>8 DEF IsValid, KeyMatchesContent, Lefts, Rights
    <2>2. /\ \A j, h \in DOMAIN s.items : s.items[j] = s.items[h] => j = h
          /\ \A j, h \in DOMAIN s.others : s.others[j] = s.others[h] => j = h
      BY <1>8 DEF IsValid, ContentIsWellFormed, IsInjective
    <2>3. c.key[i] =
            [left |-> Named(v, "item", s.items)[PositionOf(s.items, s.key[i].left)],
             right |-> Named(v, "other", s.others)[PositionOf(s.others, s.key[i].right)]]
      BY <1>6, <1>8 DEF ClonedAnswer
    <2>4. PlaceOf(c.items, c.key[i].left) = PlaceOf(s.items, s.key[i].left)
      BY <1>3, <1>6, <2>1, <2>2, <2>3, AnswerKeepsPlace
    <2>5. PlaceOf(c.others, c.key[i].right) = PlaceOf(s.others, s.key[i].right)
      BY <1>3, <1>6, <2>1, <2>2, <2>3, AnswerKeepsPlace
    <2> QED
      BY <2>4, <2>5
  <1>9. ASSUME s.kind = "scalar", NEW i \in DOMAIN s.key PROVE c.key[i] = s.key[i]
    BY <1>6, <1>9 DEF ClonedAnswer
  <1>10. places(c) = places(s)
    BY <1>6, <1>7, <1>8, <1>9
  <1> HIDE DEF places
  <1>11. shape(c) = shape(s)
    BY <1>4, <1>5, <1>6, <1>10
  <1> QED
    BY <1>2, <1>11 DEF c

-----------------------------------------------------------------------------
(* The inductive invariant.                                                 *)

Of(vs, q) == {v \in DOMAIN vs : vs[v].question = q}

(* A stored version is the rows of a valid snapshot.                        *)
RowFine(v, vs, ws, qs) ==
  /\ vs[v].question \in Questions /\ vs[v].number \in Nat \ {0}
  /\ qs[vs[v].question] # "absent"
  /\ IsSnapshot(ws[v].snapshot) /\ IsValid(ws[v].snapshot)
  /\ vs[v].rows = Rows(v, ws[v].snapshot)
  /\ ws[v].content = Shape(ws[v].snapshot)

(* The versions of a question are numbered 1 to n, each once, and refer to  *)
(* earlier ones.                                                            *)
ChainOf(mine, vs) ==
  /\ {vs[v].number : v \in mine} = 1 .. Cardinality(mine)
  /\ \A v, w \in mine : vs[v].number = vs[w].number => v = w
  /\ \A v \in mine :
       /\ IF vs[v].number = 1 THEN vs[v].previous = None
          ELSE /\ vs[v].previous \in mine
               /\ vs[vs[v].previous].number = vs[v].number - 1
       /\ vs[v].restoredFrom # None =>
            /\ vs[v].restoredFrom \in mine
            /\ vs[vs[v].restoredFrom].number < vs[v].number

ChainFine(q, vs) == ChainOf(Of(vs, q), vs)

EventOf(v, vs, qs) ==
  [question |-> vs[v].question, version |-> v, tenant |-> qs[vs[v].question],
   number |-> vs[v].number, previous |-> vs[v].previous, restoredFrom |-> vs[v].restoredFrom]

Authored(vs, ws) == {v \in DOMAIN vs : ws[v].op # "add"}

TablesInv ==
  /\ questions \in [Questions -> Tenants \cup {"legacy", "absent"}]
  /\ Stored \subseteq Versions /\ IsFiniteSet(Stored) /\ DOMAIN written = Stored
  /\ \A v \in Stored : RowFine(v, versions, written, questions)
  /\ \A q \in Questions : ChainFine(q, versions)
  /\ events = {EventOf(v, versions, questions) : v \in Authored(versions, written)}

(* What a call knows of the tables stays true while others commit.          *)
CallFields == {"op", "step", "question", "version", "tenant", "draft", "latest", "source",
               "copy", "number", "read"}

CallHasForm(call) ==
  /\ call = [field \in CallFields |-> call[field]]
  /\ call.op \in {"create", "revise", "restore", "add"}
  /\ call.step \in {"read", "membership", "lock", "insert"}
  /\ call.question \in Questions /\ call.version \in Versions
  /\ call.latest = [id |-> call.latest.id, number |-> call.latest.number]
  /\ call.source = [id |-> call.source.id, number |-> call.source.number]

RefersTo(reference, q, vs) ==
  /\ reference.id \in Of(vs, q) /\ reference.number = vs[reference.id].number

AdditionFine(call) ==
  /\ call.step \in {"lock", "insert"} /\ call.tenant = "legacy" /\ call.number \in Nat
  /\ IsSnapshot(call.draft) /\ HasRows(call.draft)

AuthoringFine(call, vs, ws, qs) ==
  /\ call.tenant \in Tenants
  /\ call.op \in {"create", "revise"} => IsSnapshot(call.draft) /\ call.source = NoVersion
  /\ call.op = "create" =>
       call.read = {} /\ call.latest = NoVersion /\ qs[call.question] = "absent"
  /\ call.op # "create" => qs[call.question] # "absent"
  /\ "latest" \in call.read => RefersTo(call.latest, call.question, vs)
  /\ "source" \in call.read =>
       /\ RefersTo(call.source, call.question, vs)
       /\ call.copy = ws[call.source.id].snapshot

PreparedFine(call, ws) ==
  /\ IsSnapshot(call.draft) /\ IsValid(call.draft)
  /\ call.read = Reads(call.op) /\ call.number = call.latest.number + 1
  /\ call.op = "restore" =>
       /\ call.source.number < call.number
       /\ Shape(call.draft) = ws[call.source.id].content

LockedFine(call, vs, qs) ==
  call.op # "create" =>
    /\ qs[call.question] = call.tenant
    /\ \A v \in Of(vs, call.question) : vs[v].number <= call.latest.number

CallFine(call, vs, ws, qs) ==
  /\ CallHasForm(call) /\ call.version \notin DOMAIN vs
  /\ call.op = "add" => AdditionFine(call)
  /\ call.op # "add" =>
       /\ AuthoringFine(call, vs, ws, qs)
       /\ call.step # "read" => PreparedFine(call, ws)
       /\ call.step = "insert" => LockedFine(call, vs, qs)

Active(r) == request[r] # Idle

CallsInv ==
  /\ request = [r \in Requests |-> request[r]]
  /\ workload \in Workloads /\ members \subseteq Tenants
  /\ \A r \in Requests : Active(r) => CallFine(request[r], versions, written, questions)
  /\ \A r1, r2 \in Requests : (r1 # r2 /\ Active(r1) /\ Active(r2)) =>
       /\ request[r1].version # request[r2].version
       /\ request[r1].op = "create" => request[r1].question # request[r2].question
  /\ lock \in [Questions -> Requests \cup {None}]
  /\ \A q \in Questions, r \in Requests :
       lock[q] = r <=> (At(r, "insert") /\ request[r].question = q)

QuestionInv == TablesInv /\ CallsInv

LEMMA IdleIsNoCall ==
  /\ Idle.step = "idle"
  /\ \A call, vs, ws, qs : CallFine(call, vs, ws, qs) => call # Idle
  BY DEF Idle, CallFine, CallHasForm

LEMMA InvInit == Init => QuestionInv
  <1> SUFFICES ASSUME Init PROVE QuestionInv
    OBVIOUS
  <1>1. Stored = {} /\ DOMAIN written = {}
    BY DEF Init, Stored
  <1>2. IsFiniteSet(Stored)
    BY <1>1, FS_EmptySet
  <1>3. ASSUME NEW q \in Questions PROVE ChainFine(q, versions)
    <2>1. Of(versions, q) = {}
      BY <1>1 DEF Stored, Of
    <2>2. Cardinality(Of(versions, q)) = 0 /\ 1..0 = {}
      BY <2>1, FS_EmptySet
    <2>3. {versions[v].number : v \in Of(versions, q)} = {}
      BY <2>1
    <2> QED
      BY <2>1, <2>2, <2>3 DEF ChainFine, ChainOf
  <1>4. Authored(versions, written) = {}
    BY <1>1 DEF Stored, Authored
  <1>5. events = {EventOf(v, versions, questions) : v \in Authored(versions, written)}
    BY <1>4 DEF Init
  <1>6. TablesInv
    BY <1>1, <1>2, <1>3, <1>5 DEF TablesInv, Init
  <1>7. \A r \in Requests : ~Active(r) /\ ~At(r, "insert")
    BY DEF Init, Active, At, Idle
  <1>8. \A q \in Questions, r \in Requests : lock[q] # r
    BY NamesAreApart DEF Init
  <1> QED
    BY <1>6, <1>7, <1>8 DEF QuestionInv, CallsInv, Init

(* A call that goes on, or ends, outside a transaction.                     *)
LEMMA CallMoves ==
  ASSUME QuestionInv, NEW r \in Requests, NEW next,
         request' = [request EXCEPT ![r] = next],
         UNCHANGED <<tables, lock, workload>>, members' \subseteq Tenants,
         request[r].step # "insert",
         next # Idle =>
           /\ Active(r) /\ CallFine(next, versions, written, questions)
           /\ next.step # "insert" /\ next.version = request[r].version
           /\ next.op = request[r].op /\ next.question = request[r].question
  PROVE  CallsInv'
  <1>1. request' = [s \in Requests |-> request'[s]]
    BY DEF QuestionInv, CallsInv
  <1>2. request'[r] = next /\ \A s \in Requests \ {r} : request'[s] = request[s]
    BY DEF QuestionInv, CallsInv
  <1>3. versions' = versions /\ written' = written /\ questions' = questions /\ lock' = lock
        /\ workload' = workload
    BY DEF tables
  <1>4. \A s \in Requests : Active(s)' => CallFine(request'[s], versions', written', questions')
    BY <1>2, <1>3 DEF QuestionInv, CallsInv, Active
  <1>5. \A r1, r2 \in Requests : (r1 # r2 /\ Active(r1)' /\ Active(r2)') =>
          /\ request'[r1].version # request'[r2].version
          /\ request'[r1].op = "create" => request'[r1].question # request'[r2].question
    BY <1>2 DEF QuestionInv, CallsInv, Active
  <1>6. next.step # "insert"
    BY IdleIsNoCall
  <1>7. \A q \in Questions, s \in Requests :
          lock'[q] = s <=> (At(s, "insert")' /\ request'[s].question = q)
    BY <1>2, <1>3, <1>6 DEF QuestionInv, CallsInv, At
  <1>8. workload' \in Workloads /\ lock' \in [Questions -> Requests \cup {None}]
    BY <1>3 DEF QuestionInv, CallsInv
  <1> QED
    BY <1>1, <1>4, <1>5, <1>7, <1>8 DEF CallsInv

LEMMA TablesStay ==
  ASSUME TablesInv, UNCHANGED tables
  PROVE  TablesInv'
  BY DEF TablesInv, tables, Stored, RowFine, ChainFine, ChainOf, EventOf, Authored

(* A question with versions has exactly one latest.                         *)
LEMMA LatestIsLast ==
  ASSUME TablesInv, NEW q \in Questions, VersionsOf(q) # {}
  PROVE  LET latest == LatestOf(VersionsOf(q))
             n == Cardinality(VersionsOf(q))
         IN /\ latest \in VersionsOf(q) /\ versions[latest].number = n /\ n \in Nat \ {0}
            /\ \A v \in VersionsOf(q) : versions[v].number <= n
  <1> DEFINE n == Cardinality(VersionsOf(q))
             latest == LatestOf(VersionsOf(q))
  <1>1. VersionsOf(q) = Of(versions, q)
    BY DEF VersionsOf, Of, Stored
  <1>2. IsFiniteSet(VersionsOf(q))
    BY FS_Subset DEF TablesInv, VersionsOf
  <1>3. n \in Nat /\ n # 0
    BY <1>2, FS_CardinalityType, FS_EmptySet
  <1>4. {versions[v].number : v \in VersionsOf(q)} = 1..n
    BY <1>1 DEF TablesInv, ChainFine, ChainOf
  <1>5. \A v \in VersionsOf(q) : versions[v].number \in 1..n
    BY <1>4
  <1>6. PICK w \in VersionsOf(q) : versions[w].number = n
    <2>1. n \in 1..n
      BY <1>3
    <2> HIDE DEF n
    <2> QED
      BY <1>4, <2>1
  <1>7. \A v \in VersionsOf(q) : versions[v].number <= versions[w].number
    BY <1>3, <1>5, <1>6
  <1>8. latest \in VersionsOf(q) /\ \A v \in VersionsOf(q) :
          versions[v].number <= versions[latest].number
    BY <1>7 DEF LatestOf
  <1>9. versions[latest].number = n
    <2>1. n <= versions[latest].number
      BY <1>6, <1>8
    <2>2. versions[latest].number \in 1..n
      BY <1>5, <1>8
    <2> HIDE DEF n, latest
    <2> QED
      BY <1>3, <2>1, <2>2
  <1> QED
    BY <1>3, <1>5, <1>8, <1>9

LEMMA OwnVersionsAreOf ==
  ASSUME NEW r, NEW v \in OwnVersions(r)
  PROVE  v \in Of(versions, request[r].question)
  BY DEF OwnVersions, VersionsOf, Of, Stored

LEMMA FindLatestKeeps ==
  ASSUME QuestionInv, NEW r \in Requests, FindLatest(r)
  PROVE  CallsInv'
  <1> DEFINE call == request[r]
             latest == LatestOf(OwnVersions(r))
             check == OwnVersions(r) # {} /\ IsReadable(versions[latest].rows)
             next == [call EXCEPT !.latest = Reference(latest), !.read = @ \cup {"latest"}]
  <1>1. /\ call.step = "read" /\ call.op \in {"revise", "restore"}
        /\ request' = [request EXCEPT ![r] = IF check THEN next ELSE Idle]
        /\ UNCHANGED <<tables, lock, env>>
    BY DEF FindLatest, Continue, At
  <1>2. Active(r) /\ CallFine(call, versions, written, questions)
    BY <1>1, IdleIsNoCall DEF QuestionInv, CallsInv, Active
  <1>3. ASSUME check PROVE RefersTo(Reference(latest), call.question, versions)
    <2>1. OwnVersions(r) = VersionsOf(call.question) /\ VersionsOf(call.question) # {}
      BY <1>3 DEF OwnVersions
    <2>2. latest \in VersionsOf(call.question)
      BY <1>2, <2>1, LatestIsLast DEF QuestionInv, CallFine, CallHasForm
    <2> QED
      BY <2>2 DEF RefersTo, Reference, VersionsOf, Of, Stored
  <1>4. ASSUME check PROVE
          /\ CallFine(next, versions, written, questions)
          /\ next.step # "insert" /\ next.version = call.version
          /\ next.op = call.op /\ next.question = call.question
    <2>1. /\ next.op = call.op /\ next.step = "read" /\ next.question = call.question
          /\ next.version = call.version /\ next.tenant = call.tenant
          /\ next.draft = call.draft /\ next.latest = Reference(latest)
          /\ next.source = call.source /\ next.copy = call.copy
          /\ next.read = call.read \cup {"latest"}
      BY <1>1, <1>2 DEF CallFine, CallHasForm, CallFields
    <2>2. CallHasForm(next)
      <3>1. CallHasForm(call)
        BY <1>2 DEF CallFine
      <3> HIDE DEF latest, call
      <3>2. next = [field \in CallFields |-> next[field]]
        BY <3>1 DEF CallHasForm, CallFields
      <3> HIDE DEF next
      <3> QED
        BY <1>1, <2>1, <3>1, <3>2 DEF CallHasForm, Reference
    <2>3. AuthoringFine(next, versions, written, questions)
      <3> HIDE DEF next, latest
      <3> QED
        BY <1>1, <1>2, <1>3, <1>4, <2>1 DEF CallFine, AuthoringFine
    <2> HIDE DEF next
    <2> QED
      BY <1>1, <1>2, <2>1, <2>2, <2>3 DEF CallFine
  <1> HIDE DEF next, check, call
  <1>5. members' \subseteq Tenants /\ workload' = workload
    BY <1>1 DEF QuestionInv, CallsInv, env
  <1>6. request[r].step # "insert"
    BY <1>1 DEF call
  <1> QED
    BY <1>1, <1>2, <1>4, <1>5, <1>6, CallMoves DEF call

LEMMA FindSourceKeeps ==
  ASSUME QuestionInv, NEW r \in Requests, FindSource(r)
  PROVE  CallsInv'
  <1> DEFINE call == request[r]
             source == call.source.id
             check == source \in OwnVersions(r) /\ IsReadable(versions[source].rows)
             next == [call EXCEPT !.source = Reference(source),
                                  !.copy = ReadSnapshot(versions[source].rows),
                                  !.read = @ \cup {"source"}]
  <1>1. /\ call.step = "read" /\ call.op = "restore"
        /\ request' = [request EXCEPT ![r] = IF check THEN next ELSE Idle]
        /\ UNCHANGED <<tables, lock, env>>
    BY DEF FindSource, Continue, At
  <1>2. Active(r) /\ CallFine(call, versions, written, questions)
    BY <1>1, IdleIsNoCall DEF QuestionInv, CallsInv, Active
  <1>3. ASSUME check
        PROVE  /\ RefersTo(Reference(source), call.question, versions)
               /\ ReadSnapshot(versions[source].rows) = written[source].snapshot
    <2>1. source \in Of(versions, call.question)
      BY <1>3, OwnVersionsAreOf
    <2>2. RowFine(source, versions, written, questions)
      BY <2>1 DEF QuestionInv, TablesInv, Of, Stored
    <2>3. ReadSnapshot(versions[source].rows) = written[source].snapshot
      <3>1. HasRows(written[source].snapshot) /\ IsSnapshot(written[source].snapshot)
            /\ versions[source].rows = Rows(source, written[source].snapshot)
        BY <2>2, ValidBlanksHaveRows DEF RowFine
      <3> QED
        BY <3>1, RowsReadBack
    <2> QED
      BY <2>1, <2>3 DEF RefersTo, Reference
  <1>4. ASSUME check PROVE
          /\ CallFine(next, versions, written, questions)
          /\ next.step # "insert" /\ next.version = call.version
          /\ next.op = call.op /\ next.question = call.question
    <2>1. /\ next.op = call.op /\ next.step = "read" /\ next.question = call.question
          /\ next.version = call.version /\ next.tenant = call.tenant
          /\ next.draft = call.draft /\ next.latest = call.latest
          /\ next.source = Reference(source) /\ next.copy = ReadSnapshot(versions[source].rows)
          /\ next.read = call.read \cup {"source"}
      BY <1>1, <1>2 DEF CallFine, CallHasForm, CallFields
    <2>2. CallHasForm(next)
      <3>1. CallHasForm(call)
        BY <1>2 DEF CallFine
      <3> HIDE DEF source, call
      <3>2. next = [field \in CallFields |-> next[field]]
        BY <3>1 DEF CallHasForm, CallFields
      <3> HIDE DEF next
      <3> QED
        BY <1>1, <2>1, <3>1, <3>2 DEF CallHasForm, Reference
    <2>3. next.source.id = source
      BY <2>1 DEF Reference
    <2>4. AuthoringFine(next, versions, written, questions)
      <3> HIDE DEF next, source
      <3> QED
        BY <1>1, <1>2, <1>3, <1>4, <2>1, <2>3 DEF CallFine, AuthoringFine
    <2> HIDE DEF next
    <2> QED
      BY <1>1, <1>2, <2>1, <2>2, <2>4 DEF CallFine
  <1> HIDE DEF next, check, call
  <1>5. members' \subseteq Tenants /\ workload' = workload
    BY <1>1 DEF QuestionInv, CallsInv, env
  <1>6. request[r].step # "insert"
    BY <1>1 DEF call
  <1> QED
    BY <1>1, <1>2, <1>4, <1>5, <1>6, CallMoves DEF call

LEMMA StepChangesStep ==
  ASSUME NEW call, CallHasForm(call), NEW step \in {"membership", "lock", "insert"}
  PROVE  LET next == [call EXCEPT !.step = step]
         IN /\ CallHasForm(next) /\ next.step = step
            /\ \A field \in CallFields \ {"step"} : next[field] = call[field]
  <1> DEFINE next == [call EXCEPT !.step = step]
  <1>1. next = [field \in CallFields |-> next[field]]
    BY DEF CallHasForm, CallFields
  <1>2. /\ next.step = step
        /\ \A field \in CallFields \ {"step"} : next[field] = call[field]
    BY DEF CallHasForm, CallFields
  <1> HIDE DEF next
  <1>3. CallHasForm(next)
    BY <1>1, <1>2 DEF CallHasForm, CallFields
  <1> QED
    BY <1>2, <1>3 DEF next

LEMMA PrepareKeeps ==
  ASSUME QuestionInv, NEW r \in Requests, Prepare(r)
  PROVE  CallsInv'
  <1> DEFINE call == request[r]
             number == call.latest.number + 1
             snapshot == IF call.op = "restore" THEN CloneIdentities(call.version, call.copy)
                         ELSE call.draft
             check == LineageIsValid(number, call.latest, call.source) /\ IsValid(snapshot)
             next == [call EXCEPT !.number = number, !.draft = snapshot, !.step = "membership"]
  <1>1. /\ call.step = "read" /\ call.op # "add" /\ call.read = Reads(call.op)
        /\ request' = [request EXCEPT ![r] = IF check THEN next ELSE Idle]
        /\ UNCHANGED <<tables, lock, env>>
    BY DEF Prepare, Continue, At
  <1>2. Active(r) /\ CallFine(call, versions, written, questions)
    BY <1>1, IdleIsNoCall DEF QuestionInv, CallsInv, Active
  <1>3. CallHasForm(call) /\ AuthoringFine(call, versions, written, questions)
    BY <1>1, <1>2 DEF CallFine
  <1>4. ASSUME check, call.op = "restore"
        PROVE  /\ IsSnapshot(snapshot) /\ Shape(snapshot) = written[call.source.id].content
               /\ call.source.number < number
    <2>1. RefersTo(call.source, call.question, versions)
          /\ call.copy = written[call.source.id].snapshot
      BY <1>1, <1>3, <1>4 DEF AuthoringFine, Reads
    <2>2. call.source.id \in Stored /\ RowFine(call.source.id, versions, written, questions)
      BY <2>1 DEF RefersTo, Of, QuestionInv, TablesInv, Stored
    <2>3. IsSnapshot(call.copy) /\ IsValid(call.copy)
          /\ Shape(call.copy) = written[call.source.id].content
      BY <2>1, <2>2 DEF RowFine
    <2>4. snapshot = CloneIdentities(call.version, call.copy) /\ call.version \in Versions
      BY <1>3, <1>4 DEF CallHasForm
    <2>5. IsSnapshot(snapshot) /\ Shape(snapshot) = Shape(call.copy)
      BY <2>3, <2>4, CloneIsSnapshot, CopiesKeepShape
    <2>6. call.source # NoVersion
      BY <2>2, NamesAreApart DEF NoVersion, QuestionInv, TablesInv
    <2> QED
      BY <1>4, <2>3, <2>5, <2>6 DEF LineageIsValid
  <1>5. call.op # "restore" => snapshot = call.draft /\ IsSnapshot(snapshot)
    BY <1>1, <1>3 DEF AuthoringFine, CallHasForm
  <1> HIDE DEF snapshot, number
  <1>6. ASSUME check PROVE
          /\ CallFine(next, versions, written, questions)
          /\ next.step # "insert" /\ next.version = call.version
          /\ next.op = call.op /\ next.question = call.question
    <2>1. /\ next.number = number /\ next.draft = snapshot /\ next.step = "membership"
          /\ \A field \in CallFields \ {"number", "draft", "step"} : next[field] = call[field]
          /\ next = [field \in CallFields |-> next[field]]
      BY <1>3 DEF CallHasForm, CallFields
    <2>2. /\ next.op = call.op /\ next.question = call.question
          /\ next.version = call.version /\ next.tenant = call.tenant
          /\ next.latest = call.latest /\ next.source = call.source /\ next.copy = call.copy
          /\ next.read = call.read
      BY <2>1 DEF CallFields
    <2> HIDE DEF next, call
    <2>3. CallHasForm(next)
      BY <1>3, <2>1, <2>2 DEF CallHasForm
    <2>4. IsSnapshot(snapshot)
      BY <1>4, <1>5, <1>6
    <2>5. AuthoringFine(next, versions, written, questions)
      BY <1>3, <2>1, <2>2, <2>4 DEF AuthoringFine
    <2>6. PreparedFine(next, written)
      BY <1>1, <1>4, <1>6, <2>1, <2>2, <2>4 DEF PreparedFine, number
    <2> QED
      BY <1>1, <1>2, <2>1, <2>2, <2>3, <2>5, <2>6 DEF CallFine
  <1> HIDE DEF next, check, call
  <1>7. members' \subseteq Tenants /\ workload' = workload
    BY <1>1 DEF QuestionInv, CallsInv, env
  <1>8. request[r].step # "insert"
    BY <1>1 DEF call
  <1> QED
    BY <1>1, <1>2, <1>6, <1>7, <1>8, CallMoves DEF call

LEMMA CheckMembershipKeeps ==
  ASSUME QuestionInv, NEW r \in Requests, CheckMembership(r)
  PROVE  CallsInv'
  <1> DEFINE call == request[r]
             check == call.tenant \in members
             next == [call EXCEPT !.step = "lock"]
  <1>1. /\ call.step = "membership"
        /\ request' = [request EXCEPT ![r] = IF check THEN next ELSE Idle]
        /\ UNCHANGED <<tables, lock, env>>
    BY DEF CheckMembership, Continue, At
  <1>2. Active(r) /\ CallFine(call, versions, written, questions)
    BY <1>1, IdleIsNoCall DEF QuestionInv, CallsInv, Active
  <1>3. /\ CallHasForm(next) /\ next.step = "lock"
        /\ \A field \in CallFields \ {"step"} : next[field] = call[field]
    BY <1>2, StepChangesStep DEF CallFine
  <1>4. /\ next.op = call.op /\ next.question = call.question
        /\ next.version = call.version /\ next.tenant = call.tenant
        /\ next.latest = call.latest /\ next.source = call.source /\ next.copy = call.copy
        /\ next.read = call.read /\ next.number = call.number /\ next.draft = call.draft
    BY <1>3 DEF CallFields
  <1> HIDE DEF next, check, call
  <1>5. CallFine(next, versions, written, questions)
    BY <1>1, <1>2, <1>3, <1>4 DEF CallFine, AdditionFine, AuthoringFine, PreparedFine
  <1>6. members' \subseteq Tenants /\ workload' = workload
    BY <1>1 DEF QuestionInv, CallsInv, env
  <1>7. request[r].step # "insert" /\ next.step # "insert"
    BY <1>1, <1>3 DEF call
  <1> QED
    BY <1>1, <1>2, <1>4, <1>5, <1>6, <1>7, CallMoves DEF call

LEMMA LockKeeps ==
  ASSUME QuestionInv, NEW r \in Requests, Lock(r)
  PROVE  CallsInv'
  <1> DEFINE call == request[r]
             q == call.question
             allowed == call.op \in {"create", "add"} \/
               (questions[q] = call.tenant /\ PredecessorIsCurrent(r))
             next == [call EXCEPT !.step = "insert"]
  <1>1. /\ call.step = "lock" /\ lock[q] = None
        /\ request' = [request EXCEPT ![r] = IF allowed THEN next ELSE Idle]
        /\ lock' = [lock EXCEPT ![q] = IF allowed THEN r ELSE None]
        /\ UNCHANGED <<tables, env>>
    BY DEF Lock, At, QuestionInv, CallsInv
  <1>2. Active(r) /\ CallFine(call, versions, written, questions)
    BY <1>1, IdleIsNoCall DEF QuestionInv, CallsInv, Active
  <1>3. q \in Questions
    BY <1>2 DEF CallFine, CallHasForm
  <1>4. CASE ~allowed
    <2>1. lock' = lock /\ request' = [request EXCEPT ![r] = Idle]
      BY <1>1, <1>3, <1>4 DEF QuestionInv, CallsInv
    <2>2. members' \subseteq Tenants /\ workload' = workload /\ request[r].step # "insert"
      BY <1>1 DEF QuestionInv, CallsInv, env
    <2> HIDE DEF allowed, next, call
    <2> QED
      BY <1>1, <2>1, <2>2, CallMoves
  <1>5. CASE allowed
    <2>1. /\ CallHasForm(next) /\ next.step = "insert"
          /\ \A field \in CallFields \ {"step"} : next[field] = call[field]
      BY <1>2, StepChangesStep DEF CallFine
    <2>2. /\ next.op = call.op /\ next.question = call.question
          /\ next.version = call.version /\ next.tenant = call.tenant
          /\ next.latest = call.latest /\ next.source = call.source /\ next.copy = call.copy
          /\ next.read = call.read /\ next.number = call.number /\ next.draft = call.draft
      BY <2>1 DEF CallFields
    <2>3. call.op # "add" => LockedFine(next, versions, questions)
      <3> SUFFICES ASSUME call.op \in {"revise", "restore"}
                   PROVE  LockedFine(next, versions, questions)
        BY <1>2, <2>2 DEF LockedFine, CallFine, CallHasForm
      <3>1. /\ questions[q] = call.tenant /\ VersionsOf(q) # {}
            /\ LatestOf(VersionsOf(q)) = call.latest.id
        BY <1>5 DEF PredecessorIsCurrent
      <3>2. \A v \in VersionsOf(q) : versions[v].number <= versions[call.latest.id].number
        BY <1>3, <3>1, LatestIsLast DEF QuestionInv
      <3>3. call.latest.number = versions[call.latest.id].number
        BY <1>1, <1>2 DEF CallFine, AuthoringFine, PreparedFine, Reads, RefersTo
      <3>4. VersionsOf(q) = Of(versions, q)
        BY DEF VersionsOf, Of, Stored
      <3> HIDE DEF next
      <3> QED
        BY <2>2, <3>1, <3>2, <3>3, <3>4 DEF LockedFine
    <2>4. request' = [request EXCEPT ![r] = next] /\ lock' = [lock EXCEPT ![q] = r]
          /\ UNCHANGED <<versions, written, questions, workload, members>>
      BY <1>1, <1>5 DEF tables, env
    <2> HIDE DEF next
    <2>5. CallFine(next, versions, written, questions)
      BY <1>1, <1>2, <2>1, <2>2, <2>3 DEF CallFine, AdditionFine, AuthoringFine, PreparedFine
    <2>6. /\ request'[r] = next /\ \A s \in Requests \ {r} : request'[s] = request[s]
          /\ request' = [s \in Requests |-> request'[s]]
      BY <2>4 DEF QuestionInv, CallsInv
    <2>7. \A s \in Requests : Active(s)' => CallFine(request'[s], versions', written', questions')
      BY <2>4, <2>5, <2>6 DEF QuestionInv, CallsInv, Active
    <2>8. \A r1, r2 \in Requests : (r1 # r2 /\ Active(r1)' /\ Active(r2)') =>
            /\ request'[r1].version # request'[r2].version
            /\ request'[r1].op = "create" => request'[r1].question # request'[r2].question
      BY <1>2, <2>2, <2>6 DEF QuestionInv, CallsInv, Active
    <2>9. \A p \in Questions, s \in Requests :
            lock'[p] = s <=> (At(s, "insert")' /\ request'[s].question = p)
      <3> SUFFICES ASSUME NEW p \in Questions, NEW s \in Requests
                   PROVE  lock'[p] = s <=> (At(s, "insert")' /\ request'[s].question = p)
        OBVIOUS
      <3>1. lock[p] = s <=> (At(s, "insert") /\ request[s].question = p)
        BY DEF QuestionInv, CallsInv
      <3>2. lock[q] # s
        BY <1>1, NamesAreApart
      <3>3. lock'[p] = IF p = q THEN r ELSE lock[p]
        BY <2>4 DEF QuestionInv, CallsInv
      <3>4. ~(At(r, "insert"))
        BY <1>1 DEF At
      <3>5. lock[p] # r \/ p # q
        BY <3>2, <1>1, NamesAreApart
      <3>6. lock[p] # r
        BY <3>4 DEF QuestionInv, CallsInv
      <3>7. CASE s = r
        BY <2>1, <2>2, <2>6, <3>3, <3>6, <3>7 DEF At
      <3>8. CASE s # r
        BY <2>6, <3>1, <3>2, <3>3, <3>8 DEF At
      <3> QED
        BY <3>7, <3>8
    <2>10. lock' \in [Questions -> Requests \cup {None}]
           /\ workload' \in Workloads /\ members' \subseteq Tenants
      BY <2>4 DEF QuestionInv, CallsInv
    <2> QED
      BY <2>6, <2>7, <2>8, <2>9, <2>10 DEF CallsInv
  <1> QED
    BY <1>4, <1>5

(* A transaction that ends releases the question, whichever way it ends.    *)
LEMMA EndReleases ==
  ASSUME QuestionInv, NEW r \in Requests, At(r, "insert"), Unlocked(r),
         request' = [request EXCEPT ![r] = Idle]
  PROVE  /\ request'[r] = Idle /\ \A s \in Requests \ {r} : request'[s] = request[s]
         /\ request' = [s \in Requests |-> request'[s]]
         /\ lock' \in [Questions -> Requests \cup {None}]
         /\ \A q \in Questions, s \in Requests :
              lock'[q] = s <=> (At(s, "insert")' /\ request'[s].question = q)
  <1>1. /\ request'[r] = Idle /\ \A s \in Requests \ {r} : request'[s] = request[s]
        /\ request' = [s \in Requests |-> request'[s]]
    BY DEF QuestionInv, CallsInv
  <1>2. lock' \in [Questions -> Requests \cup {None}]
    BY DEF QuestionInv, CallsInv, Unlocked
  <1>3. ASSUME NEW q \in Questions, NEW s \in Requests
        PROVE  lock'[q] = s <=> (At(s, "insert")' /\ request'[s].question = q)
    <2>1. \A t \in Requests : lock[q] = t <=> (At(t, "insert") /\ request[t].question = q)
      BY DEF QuestionInv, CallsInv
    <2>2. lock'[q] = IF q = request[r].question THEN None ELSE lock[q]
      BY DEF QuestionInv, CallsInv, Unlocked
    <2>3. ~At(r, "insert")'
      BY <1>1 DEF At, Idle
    <2>4. None # s
      BY NamesAreApart
    <2>5. CASE s = r
      BY <2>1, <2>2, <2>3, <2>4, <2>5
    <2>6. CASE s # r
      <3>1. At(s, "insert")' <=> At(s, "insert")
        BY <1>1, <2>6 DEF At
      <3>2. lock[q] = r => lock[q] # s
        BY <2>6
      <3> QED
        BY <1>1, <2>1, <2>2, <2>4, <2>6, <3>1, <3>2
    <2> QED
      BY <2>5, <2>6
  <1> QED
    BY <1>1, <1>2, <1>3

LEMMA RollbackKeeps ==
  ASSUME QuestionInv, NEW r \in Requests, Rollback(r)
  PROVE  CallsInv'
  <1>1. At(r, "insert") /\ Unlocked(r) /\ request' = [request EXCEPT ![r] = Idle]
        /\ UNCHANGED <<versions, written, questions, workload, members>>
    BY DEF Rollback, tables
  <1>2. /\ request'[r] = Idle /\ \A s \in Requests \ {r} : request'[s] = request[s]
        /\ request' = [s \in Requests |-> request'[s]]
        /\ lock' \in [Questions -> Requests \cup {None}]
        /\ \A q \in Questions, s \in Requests :
             lock'[q] = s <=> (At(s, "insert")' /\ request'[s].question = q)
    BY <1>1, EndReleases
  <1>3. \A s \in Requests : Active(s)' => s # r /\ request'[s] = request[s] /\ Active(s)
    BY <1>2 DEF Active
  <1>4. \A s \in Requests : Active(s)' => CallFine(request'[s], versions', written', questions')
    BY <1>1, <1>3 DEF QuestionInv, CallsInv
  <1>5. \A r1, r2 \in Requests : (r1 # r2 /\ Active(r1)' /\ Active(r2)') =>
          /\ request'[r1].version # request'[r2].version
          /\ request'[r1].op = "create" => request'[r1].question # request'[r2].question
    BY <1>3 DEF QuestionInv, CallsInv
  <1>6. workload' \in Workloads /\ members' \subseteq Tenants
    BY <1>1 DEF QuestionInv, CallsInv
  <1> QED
    BY <1>2, <1>4, <1>5, <1>6 DEF CallsInv

LEMMA LeaveKeeps ==
  ASSUME QuestionInv, NEW tenant \in Tenants, Leave(tenant)
  PROVE  CallsInv'
  <1>1. UNCHANGED <<versions, written, questions, lock, request, workload>>
        /\ members' \subseteq Tenants
    BY DEF Leave, tables, QuestionInv, CallsInv
  <1> QED
    BY <1>1 DEF QuestionInv, CallsInv, Active, At

LEMMA CallHasFields ==
  ASSUME NEW op, NEW q, NEW v, NEW tenant, NEW draft
  PROVE  LET call == Call(op, q, v, tenant, draft)
         IN /\ call = [field \in CallFields |-> call[field]]
            /\ call.op = op /\ call.step = "read" /\ call.question = q /\ call.version = v
            /\ call.tenant = tenant /\ call.draft = draft /\ call.latest = NoVersion
            /\ call.source = NoVersion /\ call.number = 0 /\ call.read = {}
  BY DEF Call, CallFields

LEMMA BeginKeeps ==
  ASSUME QuestionInv, NEW r \in Requests, Begin(r)
  PROVE  CallsInv'
  <1>1. ~Active(r) /\ UNCHANGED <<versions, written, questions, lock, members, workload>>
    BY DEF Begin, tables, Active
  <1>2. PICK op \in workload.ops, q \in Questions, tenant \in Tenants :
          \E v \in {CHOOSE unused \in Versions : Unused(unused)} :
          /\ v \in Versions /\ Unused(v)
          /\ op = "create" => UnusedQuestion(q) /\ Cardinality(Existing) < workload.questions
          /\ op \in {"revise", "restore"} => questions[q] # "absent"
          /\ op = "add" => \A other \in Requests :
               request[other].op = "create" => request[other].question # q
          /\ \/ /\ op \in {"create", "revise"}
                /\ \E draft \in Drafts[workload.drafts] :
                     request' = [request EXCEPT ![r] = Call(op, q, v, tenant, draft)]
             \/ /\ op = "restore"
                /\ \E source \in Stored :
                     request' = [request EXCEPT ![r] =
                       [Call(op, q, v, tenant, None) EXCEPT !.source.id = source]]
             \/ /\ op = "add"
                /\ \E draft \in Drafts[workload.drafts], number \in workload.numbers,
                      previous \in Stored \cup {None}, source \in Stored \cup {None} :
                     HasRows(draft) /\ request' = [request EXCEPT ![r] =
                       [Call(op, q, v, "legacy", draft) EXCEPT
                          !.number = number, !.latest.id = previous,
                          !.source.id = source, !.step = "lock"]]
    BY Zenon DEF Begin
  <1>3. PICK v \in Versions :
          /\ Unused(v)
          /\ op = "create" => UnusedQuestion(q)
          /\ op \in {"revise", "restore"} => questions[q] # "absent"
          /\ op = "add" => \A other \in Requests :
               request[other].op = "create" => request[other].question # q
          /\ \/ /\ op \in {"create", "revise"}
                /\ \E draft \in Drafts[workload.drafts] :
                     request' = [request EXCEPT ![r] = Call(op, q, v, tenant, draft)]
             \/ /\ op = "restore"
                /\ \E source \in Stored :
                     request' = [request EXCEPT ![r] =
                       [Call(op, q, v, tenant, None) EXCEPT !.source.id = source]]
             \/ /\ op = "add"
                /\ \E draft \in Drafts[workload.drafts], number \in workload.numbers,
                      previous \in Stored \cup {None}, source \in Stored \cup {None} :
                     HasRows(draft) /\ request' = [request EXCEPT ![r] =
                       [Call(op, q, v, "legacy", draft) EXCEPT
                          !.number = number, !.latest.id = previous,
                          !.source.id = source, !.step = "lock"]]
    BY <1>2, Zenon
  <1>4. \A draft \in Drafts[workload.drafts] : IsSnapshot(draft)
    BY DraftsAreTyped DEF QuestionInv, CallsInv
  <1>5. v \notin Stored
    BY <1>3 DEF Unused
  <1>6. \E next : /\ request' = [request EXCEPT ![r] = next]
                  /\ next.op = op /\ next.question = q /\ next.version = v
                  /\ next.step # "insert"
                  /\ CallFine(next, versions, written, questions)
    <2>1. CASE op \in {"create", "revise"}
      <3>1. PICK draft \in Drafts[workload.drafts] :
              request' = [request EXCEPT ![r] = Call(op, q, v, tenant, draft)]
        BY <1>3, <2>1
      <3> DEFINE next == Call(op, q, v, tenant, draft)
      <3>2. /\ next = [field \in CallFields |-> next[field]]
            /\ next.op = op /\ next.step = "read" /\ next.question = q /\ next.version = v
            /\ next.tenant = tenant /\ next.draft = draft /\ next.latest = NoVersion
            /\ next.source = NoVersion /\ next.number = 0 /\ next.read = {}
        BY CallHasFields
      <3> HIDE DEF next
      <3>3. CallHasForm(next)
        BY <2>1, <3>2 DEF CallHasForm, NoVersion
      <3>4. AuthoringFine(next, versions, written, questions)
        BY <1>3, <1>4, <2>1, <3>2 DEF AuthoringFine, UnusedQuestion
      <3>5. CallFine(next, versions, written, questions)
        BY <1>5, <2>1, <3>2, <3>3, <3>4 DEF CallFine, Stored
      <3> QED
        BY <3>1, <3>2, <3>5 DEF next
    <2>2. CASE op = "restore"
      <3>1. PICK source \in Stored : request' = [request EXCEPT ![r] =
              [Call(op, q, v, tenant, None) EXCEPT !.source.id = source]]
        BY <1>3, <2>2
      <3> DEFINE call == Call(op, q, v, tenant, None)
                 next == [call EXCEPT !.source.id = source]
      <3>2. /\ call = [field \in CallFields |-> call[field]]
            /\ call.op = op /\ call.step = "read" /\ call.question = q /\ call.version = v
            /\ call.tenant = tenant /\ call.latest = NoVersion
            /\ call.source = NoVersion /\ call.read = {}
        BY CallHasFields
      <3> HIDE DEF call
      <3>3. /\ next = [field \in CallFields |-> next[field]]
            /\ next.op = op /\ next.step = "read" /\ next.question = q /\ next.version = v
            /\ next.tenant = tenant /\ next.latest = NoVersion
            /\ next.source = [NoVersion EXCEPT !.id = source] /\ next.read = {}
        BY <3>2 DEF CallFields
      <3> HIDE DEF next
      <3>4. CallHasForm(next)
        BY <2>2, <3>3 DEF CallHasForm, NoVersion
      <3>5. AuthoringFine(next, versions, written, questions)
        BY <1>3, <2>2, <3>3 DEF AuthoringFine
      <3>6. CallFine(next, versions, written, questions)
        BY <1>5, <2>2, <3>3, <3>4, <3>5 DEF CallFine, Stored
      <3> QED
        BY <3>1, <3>3, <3>6 DEF next, call
    <2>3. CASE op = "add"
      <3>1. PICK draft \in Drafts[workload.drafts], number \in workload.numbers,
                 previous \in Stored \cup {None}, source \in Stored \cup {None} :
              HasRows(draft) /\ request' = [request EXCEPT ![r] =
                [Call(op, q, v, "legacy", draft) EXCEPT
                   !.number = number, !.latest.id = previous,
                   !.source.id = source, !.step = "lock"]]
        BY <1>3, <2>3
      <3> DEFINE call == Call(op, q, v, "legacy", draft)
                 next == [call EXCEPT !.number = number, !.latest.id = previous,
                                      !.source.id = source, !.step = "lock"]
      <3>2. /\ call = [field \in CallFields |-> call[field]]
            /\ call.op = op /\ call.question = q /\ call.version = v
            /\ call.tenant = "legacy" /\ call.latest = NoVersion
            /\ call.source = NoVersion /\ call.draft = draft
        BY CallHasFields
      <3> HIDE DEF call
      <3>3. /\ next = [field \in CallFields |-> next[field]]
            /\ next.op = op /\ next.step = "lock" /\ next.question = q /\ next.version = v
            /\ next.tenant = "legacy" /\ next.latest = [NoVersion EXCEPT !.id = previous]
            /\ next.source = [NoVersion EXCEPT !.id = source] /\ next.draft = draft
            /\ next.number = number
        BY <3>2 DEF CallFields
      <3>4. number \in Nat
        BY DraftsAreTyped DEF QuestionInv, CallsInv
      <3> HIDE DEF next
      <3>5. CallHasForm(next)
        BY <2>3, <3>3 DEF CallHasForm, NoVersion
      <3>6. AdditionFine(next)
        BY <1>4, <3>1, <3>3, <3>4 DEF AdditionFine
      <3>7. CallFine(next, versions, written, questions)
        BY <1>5, <2>3, <3>3, <3>5, <3>6 DEF CallFine, Stored
      <3> QED
        BY <3>1, <3>3, <3>7 DEF next, call
    <2> QED
      BY <1>3, <2>1, <2>2, <2>3
  <1>7. PICK next : /\ request' = [request EXCEPT ![r] = next]
                    /\ next.op = op /\ next.question = q /\ next.version = v
                    /\ next.step # "insert"
                    /\ CallFine(next, versions, written, questions)
    BY <1>6
  <1>8. /\ request'[r] = next /\ \A s \in Requests \ {r} : request'[s] = request[s]
        /\ request' = [s \in Requests |-> request'[s]]
    BY <1>7 DEF QuestionInv, CallsInv
  <1>9. \A s \in Requests : Active(s)' => CallFine(request'[s], versions', written', questions')
    BY <1>1, <1>7, <1>8 DEF QuestionInv, CallsInv, Active
  <1>10. ASSUME NEW s \in Requests \ {r}, Active(s)
        PROVE  /\ request[s].version # v
               /\ op = "create" => request[s].question # q
               /\ request[s].op = "create" => request[s].question # q
    <2>1. request[s].version # v
      BY <1>3, <1>10 DEF Unused, Active
    <2>2. op = "create" => request[s].question # q
      BY <1>3, <1>10 DEF UnusedQuestion, Active
    <2>3. request[s].op = "create" => questions[request[s].question] = "absent"
      BY <1>10 DEF QuestionInv, CallsInv, CallFine, AuthoringFine
    <2> QED
      BY <1>3, <2>1, <2>2, <2>3
  <1>11. \A r1, r2 \in Requests : (r1 # r2 /\ Active(r1)' /\ Active(r2)') =>
           /\ request'[r1].version # request'[r2].version
           /\ request'[r1].op = "create" => request'[r1].question # request'[r2].question
    BY <1>7, <1>8, <1>10 DEF QuestionInv, CallsInv, Active
  <1>12. \A p \in Questions, s \in Requests :
           lock'[p] = s <=> (At(s, "insert")' /\ request'[s].question = p)
    <2>1. ~At(r, "insert") /\ ~At(r, "insert")'
      BY <1>1, <1>7, <1>8 DEF At, Active, Idle
    <2> QED
      BY <1>1, <1>8, <2>1 DEF QuestionInv, CallsInv, At
  <1> QED
    BY <1>1, <1>8, <1>9, <1>11, <1>12 DEF QuestionInv, CallsInv

-----------------------------------------------------------------------------
(* A transaction that commits.                                              *)

LEMMA InsertedRows ==
  ASSUME NEW table, NEW v, v \notin DOMAIN table, NEW row
  PROVE  LET larger == Inserted(table, v, row)
         IN /\ DOMAIN larger = DOMAIN table \cup {v} /\ larger[v] = row
            /\ \A w \in DOMAIN table : larger[w] = table[w]
  BY DEF Inserted

LEMMA MaxOfInterval ==
  ASSUME NEW n \in Nat
  PROVE  Max((1..n) \cup {0}) = n
  <1> DEFINE S == (1..n) \cup {0}
  <1>1. n \in S /\ \A x \in S : n >= x
    OBVIOUS
  <1>2. \A x \in S : (\A y \in S : x >= y) => x = n
    BY <1>1
  <1> HIDE DEF S
  <1>3. Max(S) = n
    BY <1>1, <1>2 DEF Max
  <1> QED
    BY <1>3 DEF S

(* What the guard and the keys accept continues the chain.                  *)
LEMMA LineageContinues ==
  ASSUME TablesInv, NEW row, row.question \in Questions, row.number \in Nat,
         LineageGuard(row), LineageKeys(row)
  PROVE  LET mine == Of(versions, row.question)
         IN /\ row.number = Cardinality(mine) + 1 /\ Cardinality(mine) \in Nat
            /\ IsFiniteSet(mine)
            /\ IF row.number = 1 THEN row.previous = None
               ELSE row.previous \in mine /\ versions[row.previous].number = row.number - 1
            /\ row.restoredFrom # None =>
                 row.restoredFrom \in mine /\ versions[row.restoredFrom].number < row.number
  <1> DEFINE mine == Of(versions, row.question)
             n == Cardinality(mine)
             numbers == {versions[v].number : v \in mine}
             NumberOf(v) == IF v \in mine THEN versions[v].number ELSE 0
  <1>1. VersionsOf(row.question) = mine
    BY DEF VersionsOf, Of, Stored
  <1>2. IsFiniteSet(mine) /\ n \in Nat
    BY FS_Subset, FS_CardinalityType DEF TablesInv, Of, Stored
  <1>3. numbers = 1..n
    BY DEF TablesInv, ChainFine, ChainOf
  <1>4. IF row.number = 1 THEN row.previous = None /\ row.restoredFrom = None /\ numbers = {}
        ELSE /\ row.previous # None /\ NumberOf(row.previous) = row.number - 1
             /\ row.number - 1 = Max(numbers \cup {0})
             /\ row.restoredFrom # None => NumberOf(row.restoredFrom) \in 1 .. row.number - 1
    BY <1>1 DEF LineageGuard
  <1>5. \A v \in {row.previous, row.restoredFrom} \ {None} : v \in mine
    BY <1>1 DEF LineageKeys
  <1> HIDE DEF n, numbers, mine
  <1>6. row.number = n + 1
    <2>1. CASE row.number = 1
      <3>1. 1..n = {}
        BY <1>3, <1>4, <2>1
      <3>2. n = 0
        BY <1>2, <3>1
      <3> QED
        BY <2>1, <3>2
    <2>2. CASE row.number # 1
      <3>1. row.number - 1 = Max((1..n) \cup {0})
        BY <1>3, <1>4, <2>2
      <3>2. row.number - 1 = n
        BY <1>2, <3>1, MaxOfInterval
      <3> QED
        BY <1>2, <3>2
    <2> QED
      BY <2>1, <2>2
  <1>7. row.number # 1 =>
          row.previous \in mine /\ versions[row.previous].number = row.number - 1
    BY <1>4, <1>5
  <1>8. row.restoredFrom # None =>
          row.restoredFrom \in mine /\ versions[row.restoredFrom].number < row.number
    <2> SUFFICES ASSUME row.restoredFrom # None
                 PROVE  row.restoredFrom \in mine
                        /\ versions[row.restoredFrom].number < row.number
      OBVIOUS
    <2>1. row.restoredFrom \in mine /\ row.number # 1
      BY <1>4, <1>5
    <2>2. versions[row.restoredFrom].number \in 1 .. row.number - 1
      BY <1>4, <2>1
    <2> QED
      BY <2>1, <2>2
  <1> QED
    BY <1>2, <1>4, <1>6, <1>7, <1>8 DEF mine, n

LEMMA OfInserted ==
  ASSUME NEW vs, NEW v, v \notin DOMAIN vs, NEW row, NEW q
  PROVE  LET larger == Inserted(vs, v, row)
         IN Of(larger, q) = IF row.question = q THEN Of(vs, q) \cup {v} ELSE Of(vs, q)
  <1> DEFINE larger == Inserted(vs, v, row)
  <1>1. /\ DOMAIN larger = DOMAIN vs \cup {v} /\ larger[v] = row
        /\ \A w \in DOMAIN vs : larger[w] = vs[w]
    BY DEF Inserted
  <1> HIDE DEF larger
  <1>2. Of(larger, q) = IF row.question = q THEN Of(vs, q) \cup {v} ELSE Of(vs, q)
    BY <1>1 DEF Of
  <1> QED
    BY <1>2 DEF larger

LEMMA ChainGrows ==
  ASSUME TablesInv, NEW v, v \notin Stored, NEW row, row.question \in Questions,
         row.number \in Nat, LineageGuard(row), LineageKeys(row), NEW q \in Questions
  PROVE  ChainFine(q, Inserted(versions, v, row))
  <1> DEFINE larger == Inserted(versions, v, row)
             mine == Of(versions, q)
             n == Cardinality(mine)
  <1>1. /\ DOMAIN larger = DOMAIN versions \cup {v} /\ larger[v] = row
        /\ \A w \in DOMAIN versions : larger[w] = versions[w]
    BY DEF Inserted, Stored
  <1>2. Of(larger, q) = IF row.question = q THEN mine \cup {v} ELSE mine
    BY OfInserted DEF Stored
  <1>3. ChainFine(q, versions)
    BY DEF TablesInv
  <1>4. mine \subseteq DOMAIN versions /\ v \notin mine
    BY DEF Of, Stored
  <1> HIDE DEF larger
  <1>5. \A w \in mine : larger[w] = versions[w]
    BY <1>1, <1>4
  <1>6. CASE row.question # q
    <2>1. Of(larger, q) = mine
      BY <1>2, <1>6
    <2> HIDE DEF mine
    <2>2. {larger[w].number : w \in mine} = {versions[w].number : w \in mine}
      BY <1>5
    <2>3. ChainOf(mine, versions)
      BY <1>3 DEF ChainFine, mine
    <2>4. ChainOf(mine, larger)
      BY <1>5, <2>2, <2>3 DEF ChainOf
    <2> QED
      BY <2>1, <2>4 DEF ChainFine, larger
  <1>7. CASE row.question = q
    <2>1. /\ row.number = n + 1 /\ n \in Nat /\ IsFiniteSet(mine)
          /\ IF row.number = 1 THEN row.previous = None
             ELSE row.previous \in mine /\ versions[row.previous].number = row.number - 1
          /\ row.restoredFrom # None =>
               row.restoredFrom \in mine /\ versions[row.restoredFrom].number < row.number
      BY <1>7, LineageContinues
    <2>2. Of(larger, q) = mine \cup {v}
      BY <1>2, <1>7
    <2>3. Cardinality(mine \cup {v}) = n + 1
      BY <1>4, <2>1, FS_AddElement
    <2>4. {versions[w].number : w \in mine} = 1..n
      BY <1>3 DEF ChainFine, ChainOf
    <2> HIDE DEF mine, n
    <2>5. {larger[w].number : w \in mine \cup {v}} = 1 .. n + 1
      <3>1. {larger[w].number : w \in mine \cup {v}} = {versions[w].number : w \in mine} \cup {n + 1}
        BY <1>1, <1>5, <2>1
      <3>2. (1..n) \cup {n + 1} = 1 .. n + 1
        BY <2>1
      <3> QED
        BY <2>4, <3>1, <3>2
    <2>6. \A w \in mine : versions[w].number \in 1..n
      BY <2>4
    <2>7. \A w, u \in mine \cup {v} : larger[w].number = larger[u].number => w = u
      <3>1. \A w \in mine : larger[w].number # larger[v].number
        BY <1>1, <1>5, <2>1, <2>6
      <3>2. \A w, u \in mine : larger[w].number = larger[u].number => w = u
        BY <1>3, <1>5 DEF ChainFine, ChainOf, mine
      <3> QED
        BY <3>1, <3>2
    <2>8. ASSUME NEW w \in mine \cup {v}
          PROVE  /\ IF larger[w].number = 1 THEN larger[w].previous = None
                    ELSE /\ larger[w].previous \in mine \cup {v}
                         /\ larger[larger[w].previous].number = larger[w].number - 1
                 /\ larger[w].restoredFrom # None =>
                      /\ larger[w].restoredFrom \in mine \cup {v}
                      /\ larger[larger[w].restoredFrom].number < larger[w].number
      <3>1. CASE w = v
        BY <1>1, <1>5, <2>1, <3>1
      <3>2. CASE w \in mine
        <4>1. /\ IF versions[w].number = 1 THEN versions[w].previous = None
                 ELSE /\ versions[w].previous \in mine
                      /\ versions[versions[w].previous].number = versions[w].number - 1
              /\ versions[w].restoredFrom # None =>
                   /\ versions[w].restoredFrom \in mine
                   /\ versions[versions[w].restoredFrom].number < versions[w].number
          BY <1>3, <3>2 DEF ChainFine, ChainOf, mine
        <4> QED
          BY <1>5, <3>2, <4>1
      <3> QED
        BY <3>1, <3>2
    <2>9. ChainOf(mine \cup {v}, larger)
      BY <2>3, <2>5, <2>7, <2>8, SMTT(30) DEF ChainOf
    <2> QED
      BY <2>2, <2>9 DEF ChainFine, larger
  <1> QED
    BY <1>6, <1>7 DEF larger

LEMMA CommitFacts ==
  ASSUME QuestionInv, NEW r \in Requests, Commit(r)
  PROVE  LET call == request[r]
             v == call.version
             q == call.question
         IN /\ Active(r) /\ call.step = "insert" /\ CallFine(call, versions, written, questions)
            /\ v \in Versions \ Stored /\ q \in Questions
            /\ versions' = Inserted(versions, v, NewRow(r))
            /\ DOMAIN versions' = Stored \cup {v} /\ versions'[v] = NewRow(r)
            /\ \A w \in Stored : versions'[w] = versions[w]
            /\ DOMAIN written' = Stored \cup {v}
            /\ written'[v] = [op |-> call.op, snapshot |-> call.draft,
                              content |-> Shape(call.draft)]
            /\ \A w \in Stored : written'[w] = written[w]
            /\ questions' \in [Questions -> Tenants \cup {"legacy", "absent"}]
            /\ questions'[q] = (IF questions[q] = "absent" THEN call.tenant ELSE questions[q])
            /\ questions'[q] # "absent"
            /\ \A p \in Questions \ {q} : questions'[p] = questions[p]
            /\ \A p \in Questions : questions[p] # "absent" => questions'[p] = questions[p]
            /\ IsSnapshot(call.draft) /\ IsValid(call.draft)
            /\ NewRow(r).question = q /\ NewRow(r).number = call.number /\ call.number \in Nat
            /\ LineageGuard(NewRow(r)) /\ LineageKeys(NewRow(r))
  <1> DEFINE call == request[r]
             v == call.version
             q == call.question
  <1>1. call.step = "insert" /\ Storable(r)
    BY DEF Commit, At
  <1>2. Active(r) /\ CallFine(call, versions, written, questions)
    BY <1>1, IdleIsNoCall DEF QuestionInv, CallsInv, Active
  <1>3. v \in Versions \ Stored /\ q \in Questions
    BY <1>2 DEF CallFine, CallHasForm, Stored
  <1>4. /\ versions' = Inserted(versions, v, NewRow(r))
        /\ written' = Inserted(written, v, [op |-> call.op, snapshot |-> call.draft,
                                            content |-> Shape(call.draft)])
        /\ questions' = [questions EXCEPT ![q] = IF @ = "absent" THEN call.tenant ELSE @]
    BY DEF Commit
  <1>5. /\ NewRow(r).question = q /\ NewRow(r).number = call.number
        /\ NewRow(r).rows = Rows(v, call.draft)
    BY DEF NewRow
  <1>6. LineageGuard(NewRow(r)) /\ LineageKeys(NewRow(r)) /\ RowsAccepted(Rows(v, call.draft))
    BY <1>1, <1>5 DEF Storable
  <1>7. DOMAIN written = Stored /\ questions \in [Questions -> Tenants \cup {"legacy", "absent"}]
    BY DEF QuestionInv, TablesInv
  <1> HIDE DEF call, v, q
  <1>8. IsSnapshot(call.draft) /\ IsValid(call.draft)
    <2>1. CASE call.op = "add"
      <3>1. IsSnapshot(call.draft) /\ HasRows(call.draft)
        BY <1>2, <2>1 DEF CallFine, AdditionFine
      <3> QED
        BY <1>6, <3>1, TablesAcceptTheValid
    <2>2. CASE call.op # "add"
      BY <1>1, <1>2, <2>2 DEF CallFine, PreparedFine, call
    <2> QED
      BY <2>1, <2>2
  <1>9. call.number \in Nat /\ call.tenant \in Tenants \cup {"legacy"}
    <2>1. CASE call.op = "add"
      BY <1>2, <2>1 DEF CallFine, AdditionFine
    <2>2. CASE call.op = "create"
      BY <1>1, <1>2, <2>2 DEF CallFine, PreparedFine, AuthoringFine, NoVersion, call
    <2>3. CASE call.op \in {"revise", "restore"}
      <3>1. RefersTo(call.latest, call.question, versions) /\ call.number = call.latest.number + 1
            /\ call.tenant \in Tenants
        BY <1>1, <1>2, <2>3 DEF CallFine, PreparedFine, AuthoringFine, Reads, call
      <3>2. call.latest.number \in Nat
        BY <3>1 DEF RefersTo, Of, QuestionInv, TablesInv, RowFine, Stored
      <3> QED
        BY <3>1, <3>2
    <2> QED
      BY <1>2, <2>1, <2>2, <2>3 DEF CallFine, CallHasForm
  <1>10. /\ DOMAIN versions' = Stored \cup {v} /\ versions'[v] = NewRow(r)
         /\ \A w \in Stored : versions'[w] = versions[w]
    BY <1>3, <1>4 DEF Inserted, Stored
  <1>11. /\ DOMAIN written' = Stored \cup {v}
         /\ written'[v] = [op |-> call.op, snapshot |-> call.draft,
                           content |-> Shape(call.draft)]
         /\ \A w \in Stored : written'[w] = written[w]
    BY <1>3, <1>4, <1>7 DEF Inserted
  <1>12. /\ questions' \in [Questions -> Tenants \cup {"legacy", "absent"}]
         /\ questions'[q] = (IF questions[q] = "absent" THEN call.tenant ELSE questions[q])
         /\ questions'[q] # "absent"
         /\ \A p \in Questions \ {q} : questions'[p] = questions[p]
         /\ \A p \in Questions : questions[p] # "absent" => questions'[p] = questions[p]
    BY <1>3, <1>4, <1>7, <1>9, NamesAreApart
  <1> QED
    BY <1>1, <1>2, <1>3, <1>4, <1>5, <1>6, <1>8, <1>9, <1>10, <1>11, <1>12 DEF call, v, q

LEMMA CommitKeepsTables ==
  ASSUME QuestionInv, NEW r \in Requests, Commit(r)
  PROVE  TablesInv'
  <1> DEFINE call == request[r]
             v == call.version
             q == call.question
  <1>1. /\ Active(r) /\ call.step = "insert" /\ CallFine(call, versions, written, questions)
        /\ v \in Versions \ Stored /\ q \in Questions
        /\ versions' = Inserted(versions, v, NewRow(r))
        /\ DOMAIN versions' = Stored \cup {v} /\ versions'[v] = NewRow(r)
        /\ \A w \in Stored : versions'[w] = versions[w]
        /\ DOMAIN written' = Stored \cup {v}
        /\ written'[v] = [op |-> call.op, snapshot |-> call.draft, content |-> Shape(call.draft)]
        /\ \A w \in Stored : written'[w] = written[w]
        /\ questions' \in [Questions -> Tenants \cup {"legacy", "absent"}]
        /\ questions'[q] = (IF questions[q] = "absent" THEN call.tenant ELSE questions[q])
        /\ questions'[q] # "absent"
        /\ \A p \in Questions \ {q} : questions'[p] = questions[p]
        /\ \A p \in Questions : questions[p] # "absent" => questions'[p] = questions[p]
        /\ IsSnapshot(call.draft) /\ IsValid(call.draft)
        /\ NewRow(r).question = q /\ NewRow(r).number = call.number /\ call.number \in Nat
        /\ LineageGuard(NewRow(r)) /\ LineageKeys(NewRow(r))
    BY CommitFacts
  <1>2. events' = IF call.op = "add" THEN events ELSE events \cup {Event(r)}
    BY DEF Commit
  <1>3. /\ NewRow(r).previous = call.latest.id /\ NewRow(r).restoredFrom = call.source.id
        /\ NewRow(r).rows = Rows(v, call.draft)
    BY DEF NewRow
  <1>4. Event(r) = [question |-> q, version |-> v, tenant |-> call.tenant,
                    number |-> call.number, previous |-> call.latest.id,
                    restoredFrom |-> call.source.id]
    BY DEF Event
  <1> HIDE DEF call, v, q
  <1>5. TablesInv
    BY DEF QuestionInv
  <1>6. Stored' \subseteq Versions /\ IsFiniteSet(Stored') /\ DOMAIN written' = Stored'
    BY <1>1, <1>5, FS_AddElement DEF TablesInv, Stored
  <1>7. ASSUME NEW w \in Stored' PROVE RowFine(w, versions', written', questions')
    <2>1. CASE w \in Stored
      <3>1. RowFine(w, versions, written, questions)
        BY <1>5, <2>1 DEF TablesInv
      <3> QED
        BY <1>1, <2>1, <3>1 DEF RowFine
    <2>2. CASE w = v
      <3>1. call.number >= 1
        <4>1. call.number = Cardinality(Of(versions, NewRow(r).question)) + 1
              /\ Cardinality(Of(versions, NewRow(r).question)) \in Nat
          BY <1>1, <1>5, LineageContinues
        <4> QED
          BY <1>1, <4>1
      <3>2. /\ versions'[w].question = q /\ versions'[w].number = call.number
            /\ versions'[w].rows = Rows(v, call.draft)
        BY <1>1, <1>3, <2>2
      <3>3. written'[w].snapshot = call.draft /\ written'[w].content = Shape(call.draft)
        BY <1>1, <2>2
      <3> QED
        BY <1>1, <2>2, <3>1, <3>2, <3>3 DEF RowFine
    <2> QED
      BY <1>1, <2>1, <2>2 DEF Stored
  <1>8. ASSUME NEW p \in Questions PROVE ChainFine(p, versions')
    BY <1>1, <1>5, ChainGrows
  <1>9. events' = {EventOf(w, versions', questions') : w \in Authored(versions', written')}
    <2>1. \A w \in Stored : EventOf(w, versions', questions') = EventOf(w, versions, questions)
      BY <1>1, <1>5 DEF EventOf, TablesInv, RowFine
    <2>2. Authored(versions, written) \subseteq Stored
      BY DEF Authored, Stored
    <2>3. Authored(versions', written') =
            Authored(versions, written) \cup (IF call.op = "add" THEN {} ELSE {v})
      <3>1. written'[v].op = call.op /\ \A w \in Stored : written'[w].op = written[w].op
        BY <1>1
      <3> QED
        BY <1>1, <3>1 DEF Authored, Stored
    <2>4. call.op # "add" => EventOf(v, versions', questions') = Event(r)
      <3> SUFFICES ASSUME call.op # "add"
                   PROVE  EventOf(v, versions', questions') = Event(r)
        OBVIOUS
      <3>1. questions'[q] = call.tenant
        <4>1. call.op = "create" => questions[q] = "absent"
          BY <1>1 DEF CallFine, AuthoringFine, q
        <4>2. call.op # "create" => questions[q] = call.tenant
          BY <1>1 DEF CallFine, LockedFine, q
        <4> QED
          BY <1>1, <4>1, <4>2
      <3>2. /\ versions'[v].question = q /\ versions'[v].number = call.number
            /\ versions'[v].previous = call.latest.id
            /\ versions'[v].restoredFrom = call.source.id
        BY <1>1, <1>3
      <3> QED
        BY <1>4, <3>1, <3>2 DEF EventOf
    <2>5. events = {EventOf(w, versions, questions) : w \in Authored(versions, written)}
      BY <1>5 DEF TablesInv
    <2>6. events = {EventOf(w, versions', questions') : w \in Authored(versions, written)}
      BY <2>1, <2>2, <2>5
    <2>7. CASE call.op = "add"
      BY <1>2, <2>3, <2>6, <2>7
    <2>8. CASE call.op # "add"
      <3>1. Authored(versions', written') = Authored(versions, written) \cup {v}
        BY <2>3, <2>8
      <3>2. events' = events \cup {EventOf(v, versions', questions')}
        BY <1>2, <2>4, <2>8
      <3> QED
        BY <2>6, <3>1, <3>2
    <2> QED
      BY <2>7, <2>8
  <1> QED
    BY <1>1, <1>6, <1>7, <1>8, <1>9 DEF TablesInv

(* What another call knows of the tables is still true after a commit.      *)
LEMMA OthersSurvive ==
  ASSUME QuestionInv, NEW r \in Requests, Commit(r), NEW s \in Requests, s # r, Active(s)
  PROVE  CallFine(request[s], versions', written', questions')
  <1> DEFINE call == request[s]
             mine == request[r]
             v == mine.version
             q == mine.question
             p == call.question
  <1>1. /\ Active(r) /\ mine.step = "insert" /\ CallFine(mine, versions, written, questions)
        /\ v \in Versions \ Stored /\ q \in Questions
        /\ versions' = Inserted(versions, v, NewRow(r))
        /\ DOMAIN versions' = Stored \cup {v}
        /\ \A w \in Stored : versions'[w] = versions[w]
        /\ \A w \in Stored : written'[w] = written[w]
        /\ NewRow(r).question = q
        /\ \A x \in Questions \ {q} : questions'[x] = questions[x]
        /\ \A x \in Questions : questions[x] # "absent" => questions'[x] = questions[x]
    BY CommitFacts
  <1>2. CallFine(call, versions, written, questions)
    BY DEF QuestionInv, CallsInv
  <1>3. call.version # v /\ (call.op = "create" => p # q)
    BY <1>1 DEF QuestionInv, CallsInv
  <1>4. call.step = "insert" => p # q
    <2>1. lock[q] = r
      BY <1>1 DEF QuestionInv, CallsInv, At
    <2>2. call.step = "insert" /\ p = q => lock[q] = s
      BY <1>1 DEF QuestionInv, CallsInv, At
    <2> QED
      BY <2>1, <2>2
  <1> HIDE DEF call, mine, v, q, p
  <1>5. p \in Questions /\ p = call.question
    BY <1>2 DEF CallFine, CallHasForm, p
  <1>6. Of(versions', p) = IF p = q THEN Of(versions, p) \cup {v} ELSE Of(versions, p)
    BY <1>1, OfInserted DEF Stored
  <1>7. Of(versions, p) \subseteq Stored
    BY DEF Of, Stored
  <1>8. ASSUME NEW reference, RefersTo(reference, p, versions)
        PROVE  /\ RefersTo(reference, p, versions') /\ reference.id \in Stored
               /\ written'[reference.id] = written[reference.id]
    BY <1>1, <1>6, <1>7, <1>8 DEF RefersTo
  <1>9. call.version \notin DOMAIN versions'
    BY <1>1, <1>2, <1>3 DEF CallFine, Stored
  <1>10. ASSUME call.op # "add" PROVE AuthoringFine(call, versions', written', questions')
    <2>1. AuthoringFine(call, versions, written, questions)
      BY <1>2, <1>10 DEF CallFine
    <2>2. "latest" \in call.read => RefersTo(call.latest, p, versions')
      BY <1>5, <1>8, <2>1 DEF AuthoringFine
    <2>3. "source" \in call.read =>
            RefersTo(call.source, p, versions') /\ call.copy = written'[call.source.id].snapshot
      BY <1>5, <1>8, <2>1 DEF AuthoringFine
    <2>4. (call.op = "create" => questions'[p] = "absent")
          /\ (call.op # "create" => questions'[p] # "absent")
      BY <1>1, <1>3, <1>5, <2>1 DEF AuthoringFine
    <2> QED
      BY <1>5, <2>1, <2>2, <2>3, <2>4 DEF AuthoringFine
  <1>11. ASSUME call.op # "add", call.step # "read" PROVE PreparedFine(call, written')
    <2>1. PreparedFine(call, written) /\ AuthoringFine(call, versions, written, questions)
      BY <1>2, <1>11 DEF CallFine
    <2>2. call.op = "restore" => RefersTo(call.source, p, versions)
      BY <1>5, <2>1 DEF PreparedFine, AuthoringFine, Reads
    <2>3. call.op = "restore" => written'[call.source.id] = written[call.source.id]
      BY <1>8, <2>2
    <2> QED
      BY <2>1, <2>3 DEF PreparedFine
  <1>12. ASSUME call.op # "add", call.step = "insert" PROVE LockedFine(call, versions', questions')
    <2>1. LockedFine(call, versions, questions)
      BY <1>2, <1>12 DEF CallFine
    <2>2. p # q /\ Of(versions', p) = Of(versions, p) /\ questions'[p] = questions[p]
      BY <1>1, <1>4, <1>5, <1>6, <1>12
    <2>3. \A w \in Of(versions, p) : versions'[w] = versions[w]
      BY <1>1, <1>7
    <2> QED
      BY <1>5, <2>1, <2>2, <2>3 DEF LockedFine
  <1> QED
    BY <1>2, <1>9, <1>10, <1>11, <1>12 DEF CallFine, call

LEMMA CommitKeeps ==
  ASSUME QuestionInv, NEW r \in Requests, Commit(r)
  PROVE  CallsInv'
  <1>1. At(r, "insert") /\ Unlocked(r) /\ request' = [request EXCEPT ![r] = Idle]
        /\ UNCHANGED <<workload, members>>
    BY DEF Commit, env
  <1>2. /\ request'[r] = Idle /\ \A s \in Requests \ {r} : request'[s] = request[s]
        /\ request' = [s \in Requests |-> request'[s]]
        /\ lock' \in [Questions -> Requests \cup {None}]
        /\ \A q \in Questions, s \in Requests :
             lock'[q] = s <=> (At(s, "insert")' /\ request'[s].question = q)
    BY <1>1, EndReleases
  <1>3. \A s \in Requests : Active(s)' => s # r /\ request'[s] = request[s] /\ Active(s)
    BY <1>2 DEF Active
  <1>4. \A s \in Requests : Active(s)' => CallFine(request'[s], versions', written', questions')
    BY <1>3, OthersSurvive
  <1>5. \A r1, r2 \in Requests : (r1 # r2 /\ Active(r1)' /\ Active(r2)') =>
          /\ request'[r1].version # request'[r2].version
          /\ request'[r1].op = "create" => request'[r1].question # request'[r2].question
    BY <1>3 DEF QuestionInv, CallsInv
  <1>6. workload' \in Workloads /\ members' \subseteq Tenants
    BY <1>1 DEF QuestionInv, CallsInv
  <1> QED
    BY <1>2, <1>4, <1>5, <1>6 DEF CallsInv

LEMMA StepKeepsInv == QuestionInv /\ [Next]_vars => QuestionInv'
  <1> SUFFICES ASSUME QuestionInv, [Next]_vars PROVE QuestionInv'
    BY SMTT(60)
  <1>1. ASSUME NEW r \in Requests, Begin(r) PROVE QuestionInv'
    BY <1>1, BeginKeeps, TablesStay DEF QuestionInv, Begin
  <1>2. ASSUME NEW r \in Requests, FindLatest(r) PROVE QuestionInv'
    BY <1>2, FindLatestKeeps, TablesStay DEF QuestionInv, FindLatest, Continue
  <1>3. ASSUME NEW r \in Requests, FindSource(r) PROVE QuestionInv'
    BY <1>3, FindSourceKeeps, TablesStay DEF QuestionInv, FindSource, Continue
  <1>4. ASSUME NEW r \in Requests, Prepare(r) PROVE QuestionInv'
    BY <1>4, PrepareKeeps, TablesStay DEF QuestionInv, Prepare, Continue
  <1>5. ASSUME NEW r \in Requests, CheckMembership(r) PROVE QuestionInv'
    BY <1>5, CheckMembershipKeeps, TablesStay DEF QuestionInv, CheckMembership, Continue
  <1>6. ASSUME NEW r \in Requests, Lock(r) PROVE QuestionInv'
    BY <1>6, LockKeeps, TablesStay DEF QuestionInv, Lock
  <1>7. ASSUME NEW r \in Requests, Commit(r) PROVE QuestionInv'
    BY <1>7, CommitKeeps, CommitKeepsTables DEF QuestionInv
  <1>8. ASSUME NEW r \in Requests, Rollback(r) PROVE QuestionInv'
    BY <1>8, RollbackKeeps, TablesStay DEF QuestionInv, Rollback
  <1>9. ASSUME NEW tenant \in Tenants, Leave(tenant) PROVE QuestionInv'
    BY <1>9, LeaveKeeps, TablesStay DEF QuestionInv, Leave
  <1>10. CASE UNCHANGED vars
    <2>1. UNCHANGED <<tables, lock, request, env>>
      BY <1>10 DEF vars
    <2>2. TablesInv'
      BY <2>1, TablesStay DEF QuestionInv
    <2>3. CallsInv'
      BY <2>1 DEF QuestionInv, CallsInv, tables, env, Active, At
    <2> QED
      BY <2>2, <2>3 DEF QuestionInv
  <1> QED
    BY <1>1, <1>2, <1>3, <1>4, <1>5, <1>6, <1>7, <1>8, <1>9, <1>10 DEF Next

THEOREM QuestionInvariant == Spec => []QuestionInv
  BY InvInit, StepKeepsInv, PTL DEF Spec

-----------------------------------------------------------------------------
(* What the invariant says of the question bank.                            *)

LEMMA InvGivesChain == QuestionInv => VersionsFormChain
  <1> SUFFICES ASSUME QuestionInv PROVE VersionsFormChain
    OBVIOUS
  <1>1. \A q \in Questions : ChainOf(Of(versions, q), versions)
    BY DEF QuestionInv, TablesInv, ChainFine
  <1>2. \A q : VersionsOf(q) = Of(versions, q)
    BY DEF VersionsOf, Of, Stored
  <1> QED
    BY <1>1, <1>2 DEF VersionsFormChain, ChainOf

(* Of any number of overlapping creations, revisions, restorations and      *)
(* additions, whatever fails: the versions of a question are numbered 1 to  *)
(* n and linked to their predecessors and sources                           *)
(* (lockAndValidatePredecessor, validate_question_version_lineage).         *)
THEOREM VersionsStayChained == Spec => []VersionsFormChain
  BY QuestionInvariant, InvGivesChain, PTL

LEMMA InvGivesReadable == QuestionInv => VersionsAreReadable
  <1> SUFFICES ASSUME QuestionInv, NEW v \in Stored
               PROVE  /\ IsReadable(versions[v].rows)
                      /\ ReadSnapshot(versions[v].rows) = written[v].snapshot
    BY DEF VersionsAreReadable
  <1>1. RowFine(v, versions, written, questions)
    BY DEF QuestionInv, TablesInv
  <1>2. IsSnapshot(written[v].snapshot) /\ IsValid(written[v].snapshot)
        /\ versions[v].rows = Rows(v, written[v].snapshot)
    BY <1>1 DEF RowFine
  <1> QED
    BY <1>2, ValidBlanksHaveRows, RowsReadBack

LEMMA InvGivesSuccess == QuestionInv => LockedAppendsSucceed
  <1> SUFFICES ASSUME QuestionInv, NEW r \in Requests, At(r, "insert"), request[r].op # "add"
               PROVE  Storable(r)
    BY DEF LockedAppendsSucceed
  <1> DEFINE call == request[r]
             q == call.question
             row == NewRow(r)
             mine == Of(versions, q)
  <1>1. call.step = "insert" /\ call.op # "add"
    BY DEF At
  <1>2. Active(r) /\ CallFine(call, versions, written, questions)
    BY <1>1, IdleIsNoCall DEF QuestionInv, CallsInv, Active
  <1>3. CallHasForm(call) /\ AuthoringFine(call, versions, written, questions)
        /\ PreparedFine(call, written) /\ LockedFine(call, versions, questions)
    BY <1>1, <1>2 DEF CallFine
  <1>4. /\ row.question = q /\ row.number = call.number /\ row.previous = call.latest.id
        /\ row.restoredFrom = call.source.id /\ row.rows = Rows(call.version, call.draft)
    BY DEF NewRow
  <1>5. q \in Questions /\ call.op \in {"create", "revise", "restore"}
    BY <1>1, <1>3 DEF CallHasForm
  <1>6. VersionsOf(q) = mine
    BY DEF VersionsOf, Of, Stored
  <1>7. mine \subseteq Stored /\ None \notin Stored
    BY NamesAreApart DEF Of, Stored, QuestionInv, TablesInv
  <1>8. \A v \in mine : versions[v].number \in Nat \ {0}
    BY <1>7 DEF QuestionInv, TablesInv, RowFine
  <1>9. RowsAccepted(row.rows)
    BY <1>3, <1>4, ValidBlanksHaveRows, TablesAcceptTheValid DEF PreparedFine
  <1> HIDE DEF row, mine
  <1>10. CASE call.op = "create"
    <2>1. mine = {}
      <3>1. questions[q] = "absent"
        BY <1>3, <1>10 DEF AuthoringFine
      <3>2. \A v \in mine : questions[versions[v].question] # "absent" /\ versions[v].question = q
        BY <1>7 DEF QuestionInv, TablesInv, RowFine, mine, Of
      <3> QED
        BY <3>1, <3>2
    <2>2. row.number = 1 /\ row.previous = None /\ row.restoredFrom = None
      BY <1>3, <1>4, <1>10 DEF AuthoringFine, PreparedFine, NoVersion
    <2>3. VersionsOf(row.question) = {}
      BY <1>4, <1>6, <2>1
    <2>4. LineageGuard(row)
      BY <2>2, <2>3 DEF LineageGuard
    <2>5. LineageKeys(row)
      BY <2>2, <2>3 DEF LineageKeys
    <2> QED
      BY <1>9, <2>4, <2>5 DEF Storable, row
  <1>11. CASE call.op \in {"revise", "restore"}
    <2>1. RefersTo(call.latest, q, versions)
      BY <1>3, <1>11 DEF AuthoringFine, PreparedFine, Reads
    <2>2. call.latest.id \in mine /\ call.latest.number = versions[call.latest.id].number
      BY <2>1 DEF RefersTo, mine
    <2>3. call.number = call.latest.number + 1
      BY <1>3 DEF PreparedFine
    <2>4. \A v \in mine : versions[v].number <= call.latest.number
      BY <1>3, <1>11 DEF LockedFine, mine
    <2>5. row.restoredFrom # None =>
            row.restoredFrom \in mine /\ versions[row.restoredFrom].number < call.number
      <3>1. CASE call.op = "revise"
        BY <1>3, <1>4, <3>1 DEF AuthoringFine, NoVersion
      <3>2. CASE call.op = "restore"
        <4>1. RefersTo(call.source, q, versions) /\ call.source.number < call.number
          BY <1>3, <3>2 DEF AuthoringFine, PreparedFine, Reads
        <4> QED
          BY <1>4, <4>1 DEF RefersTo, mine
      <3> QED
        BY <1>11, <3>1, <3>2
    <2>6. call.latest.number \in Nat \ {0}
      BY <1>8, <2>2
    <2>7. row.number = call.latest.number + 1 /\ row.number # 1 /\ row.number \in Nat
          /\ row.number - 1 = call.latest.number
      BY <1>4, <2>3, <2>6
    <2>8. Max({versions[v].number : v \in mine} \cup {0}) = call.latest.number
      <3> DEFINE S == {versions[v].number : v \in mine} \cup {0}
      <3>1. call.latest.number \in S
        BY <2>2
      <3>2. \A x \in S : x \in Nat /\ call.latest.number >= x
        BY <1>8, <2>4, <2>6
      <3> HIDE DEF S
      <3>3. \A x \in S : (\A y \in S : x >= y) => x = call.latest.number
        BY <2>6, <3>1, <3>2
      <3>4. Max(S) = call.latest.number
        BY <3>1, <3>2, <3>3 DEF Max
      <3> QED
        BY <3>4 DEF S
    <2>9. VersionsOf(row.question) = mine
      BY <1>4, <1>6
    <2>10. row.previous \in mine /\ versions[row.previous].number = row.number - 1
           /\ row.previous # None
      BY <1>4, <1>7, <2>2, <2>7
    <2>11. row.restoredFrom # None =>
             row.restoredFrom \in mine /\ versions[row.restoredFrom].number \in 1 .. row.number - 1
      BY <1>4, <1>8, <2>5, <2>7
    <2>12. LineageGuard(row)
      BY <2>7, <2>8, <2>9, <2>10, <2>11 DEF LineageGuard
    <2>13. LineageKeys(row)
      <3>1. \A v \in mine : versions[v].number # row.number
        BY <1>8, <2>4, <2>6, <2>7
      <3> QED
        BY <2>9, <2>10, <2>11, <3>1 DEF LineageKeys
    <2> QED
      BY <1>9, <2>12, <2>13 DEF Storable, row
  <1> QED
    BY <1>5, <1>10, <1>11

(* Whatever is stored is read back as it was written and passes the checks  *)
(* of the domain again; and once an author's call has the lock and found    *)
(* its predecessor current, no trigger or key refuses it.                   *)
THEOREM TablesKeepFit == Spec => []TablesFitDomain
  BY QuestionInvariant, InvGivesReadable, InvGivesSuccess, PTL DEF TablesFitDomain

LEMMA InvGivesEvents == QuestionInv => EventsMatchVersions
  <1> SUFFICES ASSUME QuestionInv PROVE EventsMatchVersions
    OBVIOUS
  <1>1. events = {EventOf(v, versions, questions) : v \in Authored(versions, written)}
    BY DEF QuestionInv, TablesInv
  <1>2. Authored(versions, written) = {v \in Stored : written[v].op # "add"}
    BY DEF Authored, Stored
  <1>3. \A v : EventOf(v, versions, questions).version = v
    BY DEF EventOf
  <1>4. ASSUME NEW v \in Stored, written[v].op # "add"
        PROVE  Cardinality({e \in events : e.version = v}) = 1
    <2>1. {e \in events : e.version = v} = {EventOf(v, versions, questions)}
      BY <1>1, <1>2, <1>3, <1>4
    <2> QED
      BY <2>1, FS_Singleton
  <1>5. ASSUME NEW e \in events
        PROVE  /\ e.version \in Stored /\ written[e.version].op # "add"
               /\ e.tenant = questions[e.question]
               /\ \A field \in {"question", "number", "previous", "restoredFrom"} :
                    e[field] = versions[e.version][field]
    <2>1. PICK v \in Stored : written[v].op # "add" /\ e = EventOf(v, versions, questions)
      BY <1>1, <1>2
    <2> QED
      BY <2>1 DEF EventOf
  <1> QED
    BY <1>4, <1>5 DEF EventsMatchVersions

LEMMA InvGivesTypes == QuestionInv => QuestionTypeOK
  BY DEF QuestionInv, TablesInv, CallsInv, RowFine, QuestionTypeOK

(* A transaction leaves everything or nothing, whatever it overlaps with    *)
(* and wherever it fails: each version of an author has its one event, no   *)
(* event is without its version, and a question is locked only by a         *)
(* transaction that is still under way.                                     *)
THEOREM TransactionsStayWhole == Spec => []TransactionsAreWhole
  BY QuestionInvariant, InvGivesTypes, InvGivesEvents, PTL DEF TransactionsAreWhole

-----------------------------------------------------------------------------
(* The tables implement QuestionHistory.                                    *)

NumberedIn(mine, vs, n) == CHOOSE v \in mine : vs[v].number = n

ContentsOf(q, vs, ws) ==
  [n \in 1 .. Cardinality(Of(vs, q)) |-> ws[NumberedIn(Of(vs, q), vs, n)].content]

Told(e, vs) ==
  [version |-> e.number,
   restored |-> IF e.restoredFrom = None THEN 0 ELSE vs[e.restoredFrom].number]

ToldOf(q, es, vs) == {Told(e, vs) : e \in {event \in es : event.question = q}}

History(vs, ws) == [q \in Questions |-> ContentsOf(q, vs, ws)]
Announced(es, vs) == [q \in Questions |-> ToldOf(q, es, vs)]

LEMMA PromiseIsAbout ==
  /\ [q \in Questions |-> [n \in 1 .. Cardinality(VersionsOf(q)) |->
        written[Numbered(q, n)].content]] = History(versions, written)
  /\ [q \in Questions |->
        {[version |-> e.number,
          restored |-> IF e.restoredFrom = None THEN 0 ELSE versions[e.restoredFrom].number] :
            e \in {event \in events : event.question = q}}] = Announced(events, versions)
  <1>1. \A q : VersionsOf(q) = Of(versions, q)
    BY DEF VersionsOf, Of, Stored
  <1>2. \A q, n : Numbered(q, n) = NumberedIn(Of(versions, q), versions, n)
    BY <1>1 DEF Numbered, NumberedIn
  <1> QED
    BY <1>1, <1>2 DEF History, ContentsOf, Announced, ToldOf, Told

LEMMA PromiseIsAboutNext ==
  /\ [q \in Questions |-> [n \in 1 .. Cardinality(VersionsOf(q)) |->
        written[Numbered(q, n)].content]]' = History(versions', written')
  /\ [q \in Questions |->
        {[version |-> e.number,
          restored |-> IF e.restoredFrom = None THEN 0 ELSE versions[e.restoredFrom].number] :
            e \in {event \in events : event.question = q}}]' = Announced(events', versions')
  <1>1. \A q : VersionsOf(q)' = Of(versions', q)
    BY DEF VersionsOf, Of, Stored
  <1>2. \A q, n : Numbered(q, n)' = NumberedIn(Of(versions', q), versions', n)
    BY <1>1 DEF Numbered, NumberedIn
  <1> QED
    BY <1>1, <1>2 DEF History, ContentsOf, Announced, ToldOf, Told

LEMMA NumberedOnce ==
  ASSUME NEW mine, NEW vs, ChainOf(mine, vs), NEW n, NEW v \in mine, vs[v].number = n
  PROVE  NumberedIn(mine, vs, n) = v
  <1>1. \A w \in mine : vs[w].number = n => w = v
    BY DEF ChainOf
  <1> QED
    BY <1>1 DEF NumberedIn

(* A commit adds one content to the history of its question.                *)
LEMMA HistoryGrows ==
  ASSUME QuestionInv, NEW r \in Requests, Commit(r)
  PROVE  LET q == request[r].question
             n == Cardinality(Of(versions, q))
             old == ContentsOf(q, versions, written)
             new == ContentsOf(q, versions', written')
         IN /\ n \in Nat /\ request[r].number = n + 1 /\ q \in Questions
            /\ DOMAIN old = 1..n /\ DOMAIN new = 1 .. n + 1
            /\ \A i \in 1..n : new[i] = old[i]
            /\ new[n + 1] = Shape(request[r].draft)
            /\ \A p \in Questions \ {q} :
                 ContentsOf(p, versions', written') = ContentsOf(p, versions, written)
  <1> DEFINE call == request[r]
             v == call.version
             q == call.question
             mine == Of(versions, q)
             n == Cardinality(mine)
             old == ContentsOf(q, versions, written)
             new == ContentsOf(q, versions', written')
  <1>1. /\ v \in Versions \ Stored /\ q \in Questions
        /\ versions' = Inserted(versions, v, NewRow(r)) /\ versions'[v] = NewRow(r)
        /\ \A w \in Stored : versions'[w] = versions[w]
        /\ written'[v] = [op |-> call.op, snapshot |-> call.draft, content |-> Shape(call.draft)]
        /\ \A w \in Stored : written'[w] = written[w]
        /\ NewRow(r).question = q /\ NewRow(r).number = call.number /\ call.number \in Nat
        /\ LineageGuard(NewRow(r)) /\ LineageKeys(NewRow(r))
    BY CommitFacts
  <1>2. call.number = n + 1 /\ n \in Nat /\ IsFiniteSet(mine)
    BY <1>1, LineageContinues DEF QuestionInv
  <1> HIDE DEF call, v, q
  <1>3. mine \subseteq Stored /\ v \notin mine
    BY <1>1 DEF Of, Stored
  <1>4. Of(versions', q) = mine \cup {v}
    BY <1>1, OfInserted DEF Stored
  <1>5. Cardinality(mine \cup {v}) = n + 1
    BY <1>2, <1>3, FS_AddElement
  <1>6. ChainOf(mine, versions) /\ ChainOf(mine \cup {v}, versions')
    BY <1>1, <1>4, CommitKeepsTables DEF QuestionInv, TablesInv, ChainFine
  <1>7. {versions[w].number : w \in mine} = 1..n
    BY <1>6 DEF ChainOf
  <1> HIDE DEF mine, n
  <1>8. ASSUME NEW i \in 1..n
        PROVE  /\ NumberedIn(mine, versions, i) = NumberedIn(mine \cup {v}, versions', i)
               /\ NumberedIn(mine, versions, i) \in mine
    <2>1. PICK w \in mine : versions[w].number = i
      BY <1>7
    <2>2. versions'[w].number = i
      BY <1>1, <1>3, <2>1
    <2>3. NumberedIn(mine, versions, i) = w
      BY <1>6, <2>1, NumberedOnce
    <2>4. NumberedIn(mine \cup {v}, versions', i) = w
      BY <1>6, <2>2, NumberedOnce
    <2> QED
      BY <2>3, <2>4
  <1>9. NumberedIn(mine \cup {v}, versions', n + 1) = v
    <2>1. versions'[v].number = n + 1
      BY <1>1, <1>2
    <2> QED
      BY <1>6, <2>1, NumberedOnce
  <1>10. old = [i \in 1..n |-> written[NumberedIn(mine, versions, i)].content]
    BY DEF ContentsOf, mine, n
  <1>11. new = [i \in 1 .. n + 1 |-> written'[NumberedIn(mine \cup {v}, versions', i)].content]
    BY <1>4, <1>5 DEF ContentsOf
  <1> HIDE DEF old, new
  <1>12. \A i \in 1..n : i \in 1 .. n + 1 /\ new[i] = old[i]
    <2> SUFFICES ASSUME NEW i \in 1..n PROVE i \in 1 .. n + 1 /\ new[i] = old[i]
      OBVIOUS
    <2>1. i \in 1 .. n + 1
      BY <1>2
    <2>2. written'[NumberedIn(mine, versions, i)] = written[NumberedIn(mine, versions, i)]
      BY <1>1, <1>3, <1>8
    <2> QED
      BY <1>8, <1>10, <1>11, <2>1, <2>2
  <1>13. new[n + 1] = Shape(call.draft)
    <2>1. n + 1 \in 1 .. n + 1
      BY <1>2
    <2> QED
      BY <1>1, <1>9, <1>11, <2>1
  <1>14. ASSUME NEW p \in Questions \ {q}
         PROVE  ContentsOf(p, versions', written') = ContentsOf(p, versions, written)
    <2> DEFINE theirs == Of(versions, p)
               m == Cardinality(theirs)
    <2>1. Of(versions', p) = theirs
      BY <1>1, OfInserted DEF Stored
    <2>2. theirs \subseteq Stored
      BY DEF Of, Stored
    <2>3. ChainOf(theirs, versions) /\ ChainOf(theirs, versions')
      BY <2>1, CommitKeepsTables DEF QuestionInv, TablesInv, ChainFine
    <2>4. {versions[w].number : w \in theirs} = 1..m
      BY <2>3 DEF ChainOf
    <2> HIDE DEF theirs, m
    <2>5. ASSUME NEW i \in 1..m
          PROVE  written'[NumberedIn(theirs, versions', i)].content =
                 written[NumberedIn(theirs, versions, i)].content
      <3>1. PICK w \in theirs : versions[w].number = i
        BY <2>4
      <3>2. versions'[w].number = i /\ written'[w] = written[w]
        BY <1>1, <2>2, <3>1
      <3>3. NumberedIn(theirs, versions, i) = w
        BY <2>3, <3>1, NumberedOnce
      <3>4. NumberedIn(theirs, versions', i) = w
        BY <2>3, <3>2, NumberedOnce
      <3> QED
        BY <3>2, <3>3, <3>4
    <2>6. ContentsOf(p, versions', written') =
            [i \in 1..m |-> written'[NumberedIn(theirs, versions', i)].content]
      BY <2>1 DEF ContentsOf, theirs, m
    <2>7. ContentsOf(p, versions, written) =
            [i \in 1..m |-> written[NumberedIn(theirs, versions, i)].content]
      BY DEF ContentsOf, theirs, m
    <2> QED
      BY <2>5, <2>6, <2>7
  <1> QED
    BY <1>1, <1>2, <1>10, <1>11, <1>12, <1>13, <1>14 DEF call, q, n, mine, old, new

(* A commit announces at most the version it adds.                          *)
LEMMA AnnouncementsGrow ==
  ASSUME QuestionInv, NEW r \in Requests, Commit(r)
  PROVE  LET call == request[r]
             q == call.question
         IN /\ \A p \in Questions \ {q} : ToldOf(p, events', versions') = ToldOf(p, events, versions)
            /\ ToldOf(q, events', versions') =
                 IF call.op = "add" THEN ToldOf(q, events, versions)
                 ELSE ToldOf(q, events, versions) \cup
                        {[version |-> call.number,
                          restored |-> IF call.source.id = None THEN 0
                                       ELSE versions[call.source.id].number]}
  <1> DEFINE call == request[r]
             q == call.question
  <1>1. /\ call.version \in Versions \ Stored /\ q \in Questions
        /\ \A w \in Stored : versions'[w] = versions[w]
        /\ NewRow(r).question = q /\ NewRow(r).number = call.number /\ call.number \in Nat
        /\ LineageGuard(NewRow(r)) /\ LineageKeys(NewRow(r))
    BY CommitFacts
  <1>2. events' = IF call.op = "add" THEN events ELSE events \cup {Event(r)}
    BY DEF Commit
  <1>3. /\ Event(r).question = q /\ Event(r).number = call.number
        /\ Event(r).restoredFrom = call.source.id
    BY DEF Event
  <1>4. \A x : Of(versions, x) \subseteq Stored
    BY DEF Of, Stored
  <1>5. call.source.id # None => call.source.id \in Stored
    <2>1. NewRow(r).restoredFrom = call.source.id
      BY DEF NewRow
    <2>2. NewRow(r).restoredFrom # None => NewRow(r).restoredFrom \in Of(versions, NewRow(r).question)
      BY <1>1, LineageContinues DEF QuestionInv
    <2> QED
      BY <1>4, <2>1, <2>2
  <1>6. ASSUME NEW e \in events PROVE Told(e, versions') = Told(e, versions)
    <2>1. PICK w \in Stored : e = EventOf(w, versions, questions)
      BY DEF QuestionInv, TablesInv, Authored, Stored
    <2>2. versions[w].question \in Questions /\ w \in Of(versions, versions[w].question)
      BY DEF QuestionInv, TablesInv, RowFine, Of, Stored
    <2>3. versions[w].restoredFrom # None => versions[w].restoredFrom \in Stored
      BY <1>4, <2>2 DEF QuestionInv, TablesInv, ChainFine, ChainOf
    <2>4. e.restoredFrom # None => e.restoredFrom \in Stored
      BY <2>1, <2>3 DEF EventOf
    <2> QED
      BY <1>1, <2>4 DEF Told
  <1>7. Told(Event(r), versions') =
          [version |-> call.number,
           restored |-> IF call.source.id = None THEN 0 ELSE versions[call.source.id].number]
    BY <1>1, <1>3, <1>5 DEF Told
  <1> HIDE DEF call, q
  <1>8. \A p : ToldOf(p, events, versions') = ToldOf(p, events, versions)
    BY <1>6 DEF ToldOf
  <1>9. CASE call.op = "add"
    BY <1>2, <1>8, <1>9 DEF call, q
  <1>10. CASE call.op # "add"
    <2>1. events' = events \cup {Event(r)}
      BY <1>2, <1>10
    <2>2. ASSUME NEW p, p # q PROVE ToldOf(p, events', versions') = ToldOf(p, events, versions')
      BY <1>3, <2>1, <2>2 DEF ToldOf
    <2>3. ToldOf(q, events', versions') =
            ToldOf(q, events, versions') \cup {Told(Event(r), versions')}
      BY <1>3, <2>1 DEF ToldOf
    <2> QED
      BY <1>7, <1>8, <1>10, <2>2, <2>3 DEF call, q
  <1> QED
    BY <1>9, <1>10

LEMMA CommitImplements ==
  ASSUME QuestionInv, NEW r \in Requests, Commit(r)
  PROVE  Promise!Next
  <1> DEFINE call == request[r]
             h == History(versions, written)
             next == History(versions', written')
             a == Announced(events, versions)
             told == Announced(events', versions')
  <1>1. PICK q \in Questions : q = call.question
    BY CommitFacts
  <1> DEFINE n == Cardinality(Of(versions, q))
  <1>2. /\ n \in Nat /\ call.number = n + 1
        /\ DOMAIN h[q] = 1..n /\ DOMAIN next[q] = 1 .. n + 1
        /\ \A i \in 1..n : next[q][i] = h[q][i]
        /\ next[q][n + 1] = Shape(call.draft)
        /\ \A p \in Questions \ {q} : next[p] = h[p]
    BY <1>1, HistoryGrows DEF History
  <1>3. a = [p \in Questions |-> a[p]] /\ told = [p \in Questions |-> told[p]]
    BY DEF Announced
  <1>4. /\ \A p \in Questions \ {q} : told[p] = a[p]
        /\ told[q] = IF call.op = "add" THEN a[q]
             ELSE a[q] \cup {[version |-> call.number,
                              restored |-> IF call.source.id = None THEN 0
                                           ELSE versions[call.source.id].number]}
    BY <1>1, AnnouncementsGrow DEF Announced
  <1>5. CallFine(call, versions, written, questions) /\ call.step = "insert"
    BY CommitFacts
  <1>6. \A i \in 1..n : h[q][i] = written[NumberedIn(Of(versions, q), versions, i)].content
    BY DEF History, ContentsOf
  <1>7. h[q] = [i \in 1..n |-> h[q][i]] /\ next[q] = [i \in 1 .. n + 1 |-> next[q][i]]
    <2>1. h[q] = ContentsOf(q, versions, written) /\ next[q] = ContentsOf(q, versions', written')
      BY DEF History
    <2> HIDE DEF h, next
    <2> QED
      BY <1>2, <2>1 DEF ContentsOf
  <1> HIDE DEF h, next, a, told, n
  <1>8. Len(h[q]) = n /\ Len(next[q]) = n + 1
    BY <1>2, <1>7
  <1>9. Promise!Grow(q)
    BY <1>2, <1>8, PromiseIsAbout, PromiseIsAboutNext DEF Promise!Grow, h, next
  <1>10. ASSUME NEW restored, told[q] = a[q] \cup {[version |-> n + 1, restored |-> restored]}
         PROVE  Promise!Announce(q, restored)
    <2>1. told = [a EXCEPT ![q] = @ \cup {[version |-> n + 1, restored |-> restored]}]
      BY <1>3, <1>4, <1>10
    <2> QED
      BY <1>8, <2>1, PromiseIsAbout, PromiseIsAboutNext DEF Promise!Announce, h, a, told
  <1>11. CASE call.op \in {"create", "revise"}
    <2>1. call.source.id = None
      BY <1>5, <1>11 DEF CallFine, AuthoringFine, NoVersion
    <2>2. told[q] = a[q] \cup {[version |-> n + 1, restored |-> 0]}
      BY <1>2, <1>4, <1>11, <2>1
    <2>3. Promise!Revise(q)
      BY <1>9, <1>10, <2>2 DEF Promise!Revise
    <2> QED
      BY <2>3 DEF Promise!Next
  <1>12. CASE call.op = "restore"
    <2>1. /\ RefersTo(call.source, q, versions)
          /\ Shape(call.draft) = written[call.source.id].content
      BY <1>1, <1>5, <1>12 DEF CallFine, AuthoringFine, PreparedFine, Reads
    <2>2. PICK k : k = versions[call.source.id].number
      OBVIOUS
    <2>3. call.source.id # None /\ call.source.id \in Of(versions, q)
      BY <2>1, NamesAreApart DEF RefersTo, Of, Stored, QuestionInv, TablesInv
    <2>4. told[q] = a[q] \cup {[version |-> n + 1, restored |-> k]}
      BY <1>2, <1>4, <1>12, <2>2, <2>3
    <2>5. ChainOf(Of(versions, q), versions)
      BY DEF QuestionInv, TablesInv, ChainFine
    <2>6. k \in 1..n
      BY <2>2, <2>3, <2>5 DEF ChainOf, n
    <2>7. NumberedIn(Of(versions, q), versions, k) = call.source.id
      BY <2>2, <2>3, <2>5, NumberedOnce
    <2>8. next[q][Len(next[q])] = h[q][k] /\ k \in DOMAIN h[q]
      BY <1>2, <1>6, <1>8, <2>1, <2>6, <2>7
    <2>9. Promise!Announce(q, k)
      BY <1>10, <2>4
    <2>10. Promise!Restore(q)
      BY <1>9, <2>8, <2>9, PromiseIsAbout, PromiseIsAboutNext DEF Promise!Restore, h, next
    <2> QED
      BY <2>10 DEF Promise!Next
  <1>13. CASE call.op = "add"
    <2>1. told = a
      BY <1>3, <1>4, <1>13
    <2>2. Promise!Import(q)
      BY <1>9, <2>1, PromiseIsAbout, PromiseIsAboutNext, SMTT(60) DEF Promise!Import, a, told
    <2> QED
      BY <2>2 DEF Promise!Next
  <1> QED
    BY <1>5, <1>11, <1>12, <1>13 DEF CallFine, CallHasForm

LEMMA OnlyCommitsWrite ==
  ASSUME [Next]_vars
  PROVE  UNCHANGED tables \/ \E r \in Requests : Commit(r)
  BY DEF Next, Begin, FindLatest, FindSource, Prepare, CheckMembership, Lock, Rollback, Leave,
         Continue, vars

LEMMA StepsKeepPromise ==
  QuestionInv /\ [Next]_vars =>
    Promise!Next \/ UNCHANGED <<History(versions, written), Announced(events, versions)>>
  <1> SUFFICES ASSUME QuestionInv, [Next]_vars
               PROVE  Promise!Next
                        \/ UNCHANGED <<History(versions, written), Announced(events, versions)>>
    OBVIOUS
  <1>1. CASE UNCHANGED tables
    BY <1>1 DEF tables
  <1>2. CASE \E r \in Requests : Commit(r)
    BY <1>2, CommitImplements
  <1> QED
    BY <1>1, <1>2, OnlyCommitsWrite

(* The versions of each question are a history that only grows, announced   *)
(* in the step that adds them, and a restored version has the content and   *)
(* the answers of its source: QuestionVersions implements QuestionHistory.  *)
THEOREM QuestionsKeepPromise == Spec => KeepsPromise
  <1>1. Init => Promise!Init
    <2> SUFFICES ASSUME Init PROVE Promise!Init
      OBVIOUS
    <2>1. \A q : Of(versions, q) = {}
      BY DEF Init, Of
    <2>2. Cardinality({}) = 0 /\ 1..0 = {}
      BY FS_EmptySet
    <2>3. \A q : ContentsOf(q, versions, written) = << >>
      <3>1. \A f : f = [n \in {} |-> f[n]] => f = << >>
        OBVIOUS
      <3> QED
        BY <2>1, <2>2, <3>1 DEF ContentsOf
    <2>4. History(versions, written) = [q \in Questions |-> << >>]
      BY <2>3 DEF History
    <2>5. Announced(events, versions) = [q \in Questions |-> {}]
      BY DEF Init, Announced, ToldOf
    <2> QED
      BY <2>4, <2>5, PromiseIsAbout DEF Promise!Init
  <1>2. QuestionInv /\ [Next]_vars =>
          [Promise!Next]_<<[q \in Questions |-> [n \in 1 .. Cardinality(VersionsOf(q)) |->
                              written[Numbered(q, n)].content]],
                           [q \in Questions |->
                              {[version |-> e.number,
                                restored |-> IF e.restoredFrom = None THEN 0
                                             ELSE versions[e.restoredFrom].number] :
                                 e \in {event \in events : event.question = q}}]>>
    BY StepsKeepPromise, PromiseIsAbout, PromiseIsAboutNext
  <1> QED
    BY <1>1, <1>2, QuestionInvariant, PTL DEF Spec, KeepsPromise, Promise!Spec
=============================================================================
