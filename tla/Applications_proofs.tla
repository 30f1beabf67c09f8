-------------------------- MODULE Applications_proofs --------------------------
(***************************************************************************)
(* Proofs about Applications: whatever the file and the number of lanes,   *)
(* the compiled columns and the scalar loop add to a location what the     *)
(* plain loop adds, every element once.  First the reader: whatever the    *)
(* file, when it is complete, the two walks over its entries count alike,  *)
(* so that every entry and every image gets a slot of its own, in the      *)
(* slots of its row, and no slot is left.                                  *)
(***************************************************************************)
EXTENDS Applications, FiniteSetTheorems, SequenceTheorems, FunctionTheorems, TLAPS

-----------------------------------------------------------------------------
(* The reader.                                                             *)
EntryRecord == [row : Int, column : Int, value : Int]
Rest == SizeLine(file.lines).rest
Rows == 0 .. matrix.m - 1

(* The places of a row, and their number.                                  *)
Have(h, t, r)  == {p \in Places(h, t) : EntryAt(p).row = r}
Count(h, t, r) == Cardinality(Have(h, t, r))
Total(r)       == Count(matrix.nnz, matrix.nnz, r)

(* Behind the start of its row, as many slots as the row has places of     *)
(* earlier entries.                                                        *)
SlotOf(p) == csr_row_ptr[EntryAt(p).row] + Count(p[1] - 1, p[1] - 1, EntryAt(p).row)

(* c holds the starts of the rows up to row n.                             *)
Starts(c, n) ==
  /\ c[0] = 0
  /\ \A r \in 0 .. n - 1 : c[r + 1] = c[r] + Total(r)
  /\ \A r, s \in 0 .. n : r <= s => c[r] <= c[s]
  /\ \A slot \in 0 .. c[n] - 1 : \E r \in 0 .. n - 1 : c[r] <= slot /\ slot < c[r + 1]

-----------------------------------------------------------------------------
Opened == reader_pc \notin {"open", "refused"}

HeaderOK ==
  Opened =>
    /\ matrix.m \in Nat /\ matrix.nnz \in Nat
    /\ matrix.isSymmetric = Symmetric(file)
    /\ Rest \in Seq(Int) /\ Len(Rest) >= Width(file) * matrix.nnz
    /\ \A k \in 1 .. matrix.nnz :
         /\ Said(file, k).row \in Rows /\ Said(file, k).column \in Nat
         /\ Symmetric(file) => Said(file, k).column \in Rows

EntriesOK ==
  Opened =>
    /\ entries \in Seq(EntryRecord) /\ Len(entries) <= matrix.nnz
    /\ \A k \in 1 .. Len(entries) : entries[k] = Said(file, k)
    /\ reader_pc # "entries" => Len(entries) = matrix.nnz
    /\ counter \in [0 .. matrix.m -> Nat]

ReadingOK ==
  reader_pc = "entries" =>
    /\ numbers \in Seq(Int) /\ Len(numbers) = Len(Rest) - Width(file) * Len(entries)
    /\ \A j \in 1 .. Len(numbers) : numbers[j] = Rest[Width(file) * Len(entries) + j]
    /\ \A r \in 0 .. matrix.m : counter[r] = Count(Len(entries), 0, r)

MirrorOK ==
  reader_pc = "mirror" =>
    /\ matrix.isSymmetric /\ i \in 1 .. matrix.nnz + 1
    /\ \A r \in 0 .. matrix.m : counter[r] = Count(matrix.nnz, i - 1, r)

(* Rows from i on still have their totals, the ones before their starts.   *)
ScanOK ==
  reader_pc = "scan" =>
    /\ i \in 1 .. matrix.m + 1
    /\ old_val = Total(i - 1)
    /\ Starts(Counted, i - 1)
    /\ \A r \in i .. matrix.m : counter[r] = Total(r)
    /\ i > matrix.m => counter[0] = 0

ArraysOK ==
  reader_pc \in {"fill", "read"} =>
    /\ csr_row_ptr \in [0 .. matrix.m -> Nat] /\ Starts(csr_row_ptr, matrix.m)
    /\ DOMAIN csr_column = Slots /\ DOMAIN csr_data = Slots

(* Of every row, the slots below its counter have the entries of the       *)
(* places before i, and the others are free.                               *)
FillOK ==
  reader_pc = "fill" =>
    /\ i \in 1 .. matrix.nnz + 1
    /\ \A r \in 0 .. matrix.m : counter[r] = Count(i - 1, i - 1, r)
    /\ \A p \in Places(i - 1, i - 1) :
         csr_column[SlotOf(p)] = EntryAt(p).column /\ csr_data[SlotOf(p)] = EntryAt(p).value
    /\ \A r \in Rows : \A c \in 0 .. counter[r] - 1 :
         \E p \in Have(i - 1, i - 1, r) : SlotOf(p) = csr_row_ptr[r] + c
    /\ \A r \in Rows : \A c \in counter[r] .. Total(r) - 1 : csr_column[csr_row_ptr[r] + c] = Unset

RInv ==
  /\ Complete(file) /\ (reader_pc = "open" => entries = <<>>)
  /\ HeaderOK /\ EntriesOK /\ ReadingOK /\ MirrorOK /\ ScanOK /\ ArraysOK /\ FillOK

-----------------------------------------------------------------------------
(* Places are finitely many.                                               *)
LEMMA PlacesAreFinite ==
  ASSUME NEW h \in Nat, NEW t \in Nat, NEW r
  PROVE  IsFiniteSet(Places(h, t)) /\ IsFiniteSet(Have(h, t, r)) /\ Count(h, t, r) \in Nat
<1>1. IsFiniteSet(1 .. h) /\ IsFiniteSet(1 .. t)
  BY FS_Interval
<1>2. IsFiniteSet({k \in 1 .. t : HasImage(k)})
  BY <1>1, FS_Subset
<1>3. IsFiniteSet({"entry"}) /\ IsFiniteSet({"image"})
  BY FS_Singleton
<1>4. IsFiniteSet((1 .. h) \X {"entry"}) /\ IsFiniteSet({k \in 1 .. t : HasImage(k)} \X {"image"})
  BY <1>1, <1>2, <1>3, FS_Product
<1>5. IsFiniteSet(Places(h, t))
  BY <1>4, FS_Union DEF Places
<1>6. IsFiniteSet(Have(h, t, r))
  BY <1>5, FS_Subset DEF Have
<1> QED BY <1>5, <1>6, FS_CardinalityType DEF Count

(* A place is that of an entry or of an image.                             *)
LEMMA PlacesAre ==
  ASSUME NEW h \in Nat, NEW t \in Nat, NEW p
  PROVE  p \in Places(h, t) <=>
           \/ \E k \in 1 .. h : p = <<k, "entry">>
           \/ \E k \in 1 .. t : HasImage(k) /\ p = <<k, "image">>
  BY DEF Places

(* What is at a place.                                                     *)
LEMMA AtPlace ==
  ASSUME NEW k
  PROVE  /\ EntryAt(<<k, "entry">>) = Said(file, k)
         /\ EntryAt(<<k, "image">>).row = Said(file, k).column
         /\ EntryAt(<<k, "image">>).column = Said(file, k).row
         /\ EntryAt(<<k, "image">>).value = Said(file, k).value
  BY DEF EntryAt

(* One entry more is one place more, in its row.                           *)
LEMMA CountEntry ==
  ASSUME NEW h \in Nat, NEW t \in Nat, NEW r
  PROVE  /\ Places(h + 1, t) = Places(h, t) \cup {<<h + 1, "entry">>}
         /\ Count(h + 1, t, r) = Count(h, t, r) + (IF Said(file, h + 1).row = r THEN 1 ELSE 0)
<1> DEFINE p == <<h + 1, "entry">>
<1>1. Places(h + 1, t) = Places(h, t) \cup {p}
  BY PlacesAre
<1>2. p \notin Places(h, t)
  BY PlacesAre
<1>3. EntryAt(p).row = Said(file, h + 1).row
  BY AtPlace
<1> HIDE DEF p
<1>4. CASE Said(file, h + 1).row = r
  <2>1. Have(h + 1, t, r) = Have(h, t, r) \cup {p} /\ p \notin Have(h, t, r)
    BY <1>1, <1>2, <1>3, <1>4 DEF Have
  <2>2. IsFiniteSet(Have(h, t, r))
    BY PlacesAreFinite
  <2> QED BY <1>1, <1>4, <2>1, <2>2, FS_AddElement DEF Count, p
<1>5. CASE Said(file, h + 1).row # r
  <2>1. Have(h + 1, t, r) = Have(h, t, r)
    BY <1>1, <1>3, <1>5 DEF Have
  <2>2. Count(h, t, r) \in Nat
    BY PlacesAreFinite
  <2> QED BY <1>1, <1>5, <2>1, <2>2 DEF Count, p
<1> QED BY <1>4, <1>5

(* One image more likewise.                                                *)
LEMMA CountImage ==
  ASSUME NEW h \in Nat, NEW t \in Nat, NEW r
  PROVE  /\ Places(h, t + 1) = Places(h, t) \cup (IF HasImage(t + 1) THEN {<<t + 1, "image">>} ELSE {})
         /\ Count(h, t + 1, r) =
              Count(h, t, r) + (IF HasImage(t + 1) /\ Said(file, t + 1).column = r THEN 1 ELSE 0)
<1> DEFINE p == <<t + 1, "image">>
<1>1. Places(h, t + 1) = Places(h, t) \cup (IF HasImage(t + 1) THEN {p} ELSE {})
  BY PlacesAre
<1>2. p \notin Places(h, t)
  BY PlacesAre
<1>3. EntryAt(p).row = Said(file, t + 1).column
  BY AtPlace
<1> HIDE DEF p
<1>4. CASE HasImage(t + 1) /\ Said(file, t + 1).column = r
  <2>1. Have(h, t + 1, r) = Have(h, t, r) \cup {p} /\ p \notin Have(h, t, r)
    BY <1>1, <1>2, <1>3, <1>4 DEF Have
  <2>2. IsFiniteSet(Have(h, t, r))
    BY PlacesAreFinite
  <2> QED BY <1>1, <1>4, <2>1, <2>2, FS_AddElement DEF Count, p
<1>5. CASE ~ (HasImage(t + 1) /\ Said(file, t + 1).column = r)
  <2>1. Have(h, t + 1, r) = Have(h, t, r)
    BY <1>1, <1>3, <1>5 DEF Have
  <2>2. Count(h, t, r) \in Nat
    BY PlacesAreFinite
  <2> QED BY <1>1, <1>5, <2>1, <2>2 DEF Count, p
<1> QED BY <1>4, <1>5

(* There is no place before the first entry, and no image in a matrix that *)
(* is not symmetric.                                                       *)
LEMMA CountNothing == \A r : Places(0, 0) = {} /\ Count(0, 0, r) = 0
<1>1. Places(0, 0) = {}
  BY PlacesAre
<1> QED BY <1>1, FS_EmptySet DEF Count, Have

LEMMA CountGeneral ==
  ASSUME NEW h \in Nat, NEW t \in Nat, NEW r, ~ Symmetric(file)
  PROVE  Count(h, t, r) = Count(h, 0, r)
<1>1. Places(h, t) = Places(h, 0)
  BY PlacesAre DEF HasImage
<1> QED BY <1>1 DEF Count, Have

(* Fewer entries have fewer places; the place of an entry that comes       *)
(* between makes a difference.                                             *)
LEMMA CountGrows ==
  ASSUME NEW h \in Nat, NEW n \in Nat, h <= n, NEW r
  PROVE  /\ Places(h, h) \subseteq Places(n, n)
         /\ Count(h, h, r) <= Count(n, n, r)
         /\ \A p \in Have(n, n, r) \ Have(h, h, r) : Count(h, h, r) < Count(n, n, r)
<1>1. Places(h, h) \subseteq Places(n, n)
  BY PlacesAre
<1>2. Have(h, h, r) \subseteq Have(n, n, r) /\ IsFiniteSet(Have(n, n, r))
  BY <1>1, PlacesAreFinite DEF Have
<1>3. Count(h, h, r) <= Count(n, n, r) /\ (Count(h, h, r) = Count(n, n, r) => Have(h, h, r) = Have(n, n, r))
  BY <1>2, FS_Subset DEF Count
<1>4. Count(h, h, r) \in Nat /\ Count(n, n, r) \in Nat
  BY PlacesAreFinite
<1> QED BY <1>1, <1>3, <1>4

(* What depends on the file stays as it is.                                *)
LEMMA FileStays ==
  ASSUME file' = file
  PROVE  /\ Complete(file)' = Complete(file) /\ Rest' = Rest
         /\ \A k : Said(file, k)' = Said(file, k) /\ HasImage(k)' = HasImage(k)
         /\ \A p : EntryAt(p)' = EntryAt(p)
         /\ \A h, t : Places(h, t)' = Places(h, t)
         /\ \A h, t, r : Have(h, t, r)' = Have(h, t, r) /\ Count(h, t, r)' = Count(h, t, r)
  BY DEF Rest, HasImage, EntryAt, Places, Have, Count

-----------------------------------------------------------------------------
(* The header is read.                                                     *)
LEMMA OpenStep ==
  ASSUME RInv, OpenMatrix
  PROVE  RInv'
<1>1. Complete(file) /\ entries = <<>> /\ reader_pc = "open"
  BY DEF RInv, OpenMatrix
<1>2. file' = file /\ entries' = <<>> /\ Complete(file)'
  BY <1>1, FileStays DEF OpenMatrix
<1>3. CASE ~ Accepted(file)
  <2>1. reader_pc' = "refused"
    BY <1>3 DEF OpenMatrix
  <2> QED BY <1>2, <2>1 DEF RInv, HeaderOK, EntriesOK, ReadingOK, MirrorOK, ScanOK, ArraysOK, FillOK, Opened
<1>4. CASE Accepted(file)
  <2> DEFINE size == SizeLine(file.lines).size
  <2>1. /\ matrix' = [m |-> size[1], n |-> size[2], nnz |-> size[3], isSymmetric |-> Symmetric(file)]
        /\ numbers' = Rest /\ counter' = [row \in 0 .. size[1] |-> 0] /\ reader_pc' = "entries"
    BY <1>4 DEF OpenMatrix, Rest
  <2>2. /\ size[1] \in Nat /\ size[2] \in Nat /\ size[3] \in Nat
        /\ Rest \in Seq(Int) /\ Len(Rest) >= Width(file) * size[3]
        /\ \A k \in 1 .. size[3] :
             /\ Said(file, k).row \in 0 .. size[1] - 1
             /\ Said(file, k).column \in 0 .. size[IF Symmetric(file) THEN 1 ELSE 2] - 1
    BY <1>1, <1>4 DEF Complete, Rest
  <2>3. /\ Symmetric(file)' = Symmetric(file) /\ Width(file)' = Width(file) /\ Rest' = Rest
        /\ \A k : Said(file, k)' = Said(file, k)
        /\ \A h, t, r : Count(h, t, r)' = Count(h, t, r)
    BY <1>2, FileStays DEF Symmetric, Width
  <2> HIDE DEF size
  <2>4. HeaderOK'
    <3>1. ASSUME NEW k \in 1 .. size[3]
          PROVE  /\ Said(file, k).row \in 0 .. size[1] - 1 /\ Said(file, k).column \in Nat
                 /\ Symmetric(file) => Said(file, k).column \in 0 .. size[1] - 1
      BY <2>2
    <3>2. /\ matrix'.m = size[1] /\ matrix'.nnz = size[3] /\ matrix'.isSymmetric = Symmetric(file)
          /\ Rows' = 0 .. size[1] - 1
      BY <2>1 DEF Rows
    <3> QED BY <2>2, <2>3, <3>1, <3>2 DEF HeaderOK
  <2>5. EntriesOK'
    <3>1. <<>> \in Seq(EntryRecord) /\ Len(<<>>) = 0
      OBVIOUS
    <3> QED BY <1>2, <2>1, <2>2, <3>1 DEF EntriesOK
  <2>6. ReadingOK'
    <3>1. Len(entries') = 0 /\ Width(file) * 0 = 0
      BY <1>2 DEF Width
    <3>2. \A j : Width(file) * 0 + j = 0 + j
      BY <3>1
    <3>3. \A r : Count(0, 0, r) = 0
      BY CountNothing
    <3> QED BY <2>1, <2>2, <2>3, <3>1, <3>2, <3>3 DEF ReadingOK
  <2> QED BY <1>2, <2>1, <2>4, <2>5, <2>6 DEF RInv, MirrorOK, ScanOK, ArraysOK, FillOK
<1> QED BY <1>3, <1>4

(* One row counted.                                                        *)
LEMMA Bumped ==
  ASSUME NEW m \in Nat, NEW c \in [0 .. m -> Nat], NEW r \in 0 .. m
  PROVE  /\ [c EXCEPT ![r] = @ + 1] \in [0 .. m -> Nat]
         /\ \A s \in 0 .. m : [c EXCEPT ![r] = @ + 1][s] = c[s] + (IF r = s THEN 1 ELSE 0)
  OBVIOUS

(* Some numbers read off the front.                                        *)
LEMMA NumbersLeft ==
  ASSUME NEW s \in Seq(Int), NEW w \in Nat, w <= Len(s)
  PROVE  /\ SubSeq(s, w + 1, Len(s)) \in Seq(Int)
         /\ Len(SubSeq(s, w + 1, Len(s))) = Len(s) - w
         /\ \A j \in 1 .. Len(s) - w : SubSeq(s, w + 1, Len(s))[j] = s[w + j] /\ w + j \in 1 .. Len(s)
<1> DEFINE n == Len(s)
<1>1. n \in Int /\ w <= n /\ w + 1 \in Int /\ n - (w + 1) + 1 = n - w
  OBVIOUS
<1>2. \A j \in w + 1 .. n : s[j] \in Int
  OBVIOUS
<1> HIDE DEF n
<1>3. SubSeq(s, w + 1, n) \in Seq(Int)
  BY <1>1, <1>2, SubSeqProperties
<1>4. Len(SubSeq(s, w + 1, n)) = IF w + 1 <= n THEN n - (w + 1) + 1 ELSE 0
  BY <1>1, <1>2, SubSeqProperties
<1>5. \A j \in 1 .. n - (w + 1) + 1 : SubSeq(s, w + 1, n)[j] = s[w + 1 + j - 1]
  <2> DEFINE from == w + 1
  <2>1. from \in Int /\ \A j \in from .. n : s[j] \in Int
    BY <1>1, <1>2
  <2> HIDE DEF from
  <2>2. \A j \in 1 .. n - from + 1 : SubSeq(s, from, n)[j] = s[from + j - 1]
    BY <1>1, <2>1, SubSeqProperties
  <2> QED BY <2>2 DEF from
<1>6. Len(SubSeq(s, w + 1, n)) = n - w
  BY <1>1, <1>4
<1>7. ASSUME NEW j \in 1 .. n - w
      PROVE  SubSeq(s, w + 1, n)[j] = s[w + j] /\ w + j \in 1 .. n
  <2>1. w + 1 + j - 1 = w + j /\ w + j \in 1 .. n
    BY <1>1
  <2> QED BY <1>1, <1>5, <2>1
<1> QED BY <1>3, <1>6, <1>7 DEF n

(* An entry of the file is a record.                                       *)
LEMMA SaidIs ==
  ASSUME HeaderOK, Opened, NEW k \in 1 .. matrix.nnz
  PROVE  Said(file, k) \in EntryRecord
<1>1. Rest \in Seq(Int) /\ Len(Rest) >= Width(file) * matrix.nnz /\ matrix.nnz \in Nat
  BY DEF HeaderOK
<1>2. Width(file) = 2 \/ Width(file) = 3
  BY DEF Width
<1> DEFINE number(j) == Rest[Width(file) * (k - 1) + j]
<1>3. number(1) \in Int /\ number(2) \in Int /\ (Width(file) = 3 => number(3) \in Int)
  <2>1. CASE Width(file) = 2
    <3>1. Len(Rest) >= 2 * matrix.nnz /\ Len(Rest) \in Nat /\ matrix.nnz \in Nat /\ k \in 1 .. matrix.nnz
      BY <1>1, <2>1
    <3>2. 2 * (k - 1) + 1 \in 1 .. Len(Rest) /\ 2 * (k - 1) + 2 \in 1 .. Len(Rest)
      BY ONLY <3>1
    <3>3. \A j \in 1 .. Len(Rest) : Rest[j] \in Int
      BY <1>1
    <3>4. Rest[2 * (k - 1) + 1] \in Int /\ Rest[2 * (k - 1) + 2] \in Int
      BY ONLY <3>2, <3>3
    <3> QED BY ONLY <2>1, <3>4
  <2>2. CASE Width(file) = 3
    <3>1. Len(Rest) >= 3 * matrix.nnz /\ Len(Rest) \in Nat /\ matrix.nnz \in Nat /\ k \in 1 .. matrix.nnz
      BY <1>1, <2>2
    <3>2. /\ 3 * (k - 1) + 1 \in 1 .. Len(Rest) /\ 3 * (k - 1) + 2 \in 1 .. Len(Rest)
          /\ 3 * (k - 1) + 3 \in 1 .. Len(Rest)
      BY ONLY <3>1
    <3>3. \A j \in 1 .. Len(Rest) : Rest[j] \in Int
      BY <1>1
    <3>4. Rest[3 * (k - 1) + 1] \in Int /\ Rest[3 * (k - 1) + 2] \in Int /\ Rest[3 * (k - 1) + 3] \in Int
      BY ONLY <3>2, <3>3
    <3> QED BY ONLY <2>2, <3>4
  <2> QED BY <1>2, <2>1, <2>2
<1>4. Said(file, k) = [row |-> number(1) - 1, column |-> number(2) - 1,
                       value |-> IF Width(file) = 3 THEN number(3) ELSE 1]
  BY DEF Said, Rest
<1> HIDE DEF number
<1> QED BY <1>3, <1>4 DEF EntryRecord

(* An entry is read.                                                       *)
LEMMA ReadEntryStep ==
  ASSUME RInv, ReadEntry
  PROVE  RInv'
<1> DEFINE len == Len(entries)
           w   == Width(file)
<1>1. /\ Complete(file) /\ HeaderOK /\ EntriesOK /\ ReadingOK /\ Opened /\ Opened'
      /\ reader_pc = "entries" /\ reader_pc' = "entries"
  BY DEF RInv, ReadEntry, Opened
<1>2. /\ file' = file /\ matrix' = matrix
      /\ entries' = Append(entries, FirstEntry) /\ counter' = [counter EXCEPT ![FirstEntry.row] = @ + 1]
      /\ numbers' = SubSeq(numbers, w + 1, Len(numbers))
  BY DEF ReadEntry
<1>3. /\ Complete(file)' /\ Symmetric(file)' = Symmetric(file) /\ w' = w
      /\ Rest' = Rest /\ Rows' = Rows
      /\ \A k : Said(file, k)' = Said(file, k)
      /\ \A h, t, r : Count(h, t, r)' = Count(h, t, r)
  BY <1>1, <1>2, FileStays DEF Symmetric, Width, Rows
<1>4. HeaderOK'
  BY <1>1, <1>2, <1>3 DEF HeaderOK
<1>5. /\ matrix.m \in Nat /\ matrix.nnz \in Nat /\ entries \in Seq(EntryRecord)
      /\ Rest \in Seq(Int) /\ Len(Rest) >= w * matrix.nnz
      /\ numbers \in Seq(Int) /\ Len(numbers) = Len(Rest) - w * len
  BY <1>1 DEF HeaderOK, EntriesOK, ReadingOK
<1>6. \A j \in 1 .. Len(numbers) : numbers[j] = Rest[w * len + j]
  BY <1>1 DEF ReadingOK
<1>7. /\ counter \in [0 .. matrix.m -> Nat]
      /\ \A r \in 0 .. matrix.m : counter[r] = Count(len, 0, r)
  BY <1>1 DEF EntriesOK, ReadingOK
<1>8. len \in Nat /\ len < matrix.nnz /\ len + 1 - 1 = len /\ len + 1 \in 1 .. matrix.nnz
  <2>1. len \in Nat
    BY <1>5
  <2>2. len < matrix.nnz
    BY DEF ReadEntry
  <2> HIDE DEF len
  <2> QED BY <1>5, <2>1, <2>2
<1>9. w \in {2, 3} /\ Len(numbers) \in Nat /\ Len(Rest) \in Nat
  BY <1>5 DEF Width
<1> HIDE DEF len, w
<1>10. /\ w * (len + 1) = w * len + w /\ w * len \in Nat
       /\ Len(numbers) >= w
  <2>1. CASE w = 2
    BY <1>5, <1>8, <1>9, <2>1
  <2>2. CASE w = 3
    BY <1>5, <1>8, <1>9, <2>2
  <2> QED BY <1>9, <2>1, <2>2
<1>11. FirstEntry = Said(file, len + 1)
  <2>1. /\ numbers[1] = Rest[w * len + 1] /\ numbers[2] = Rest[w * len + 2]
        /\ w = 3 => numbers[3] = Rest[w * len + 3]
    <3>1. 1 \in 1 .. Len(numbers) /\ 2 \in 1 .. Len(numbers) /\ (w = 3 => 3 \in 1 .. Len(numbers))
      BY <1>9, <1>10
    <3> QED BY <1>6, <3>1
  <2> QED BY <1>8, <2>1 DEF FirstEntry, Said, Rest, w
<1>12. FirstEntry \in EntryRecord /\ FirstEntry.row \in Rows
  BY <1>1, <1>8, <1>11, SaidIs DEF HeaderOK
<1>13. /\ entries' \in Seq(EntryRecord) /\ Len(entries') = len + 1
       /\ \A k \in 1 .. len : entries'[k] = entries[k]
       /\ entries'[len + 1] = FirstEntry
  BY <1>2, <1>5, <1>12, AppendProperties DEF len
<1>14. EntriesOK'
  <2>1. \A k \in 1 .. len : entries[k] = Said(file, k)
    BY <1>1 DEF EntriesOK, len
  <2>2. \A k \in 1 .. len + 1 : entries'[k] = Said(file, k)
    BY <1>8, <1>11, <1>13, <2>1
  <2>3. FirstEntry.row \in 0 .. matrix.m
    BY <1>5, <1>12 DEF Rows
  <2>5. counter' \in [0 .. matrix.m -> Nat]
    BY <1>2, <1>5, <1>7, <2>3, Bumped
  <2>4. Len(entries') <= matrix.nnz
    BY <1>5, <1>8, <1>13
  <2> QED BY <1>1, <1>2, <1>3, <1>13, <2>2, <2>5, <2>4 DEF EntriesOK
<1>15. ReadingOK'
  <2>1. /\ numbers' \in Seq(Int) /\ Len(numbers') = Len(numbers) - w
        /\ \A j \in 1 .. Len(numbers) - w : numbers'[j] = numbers[w + j] /\ w + j \in 1 .. Len(numbers)
    <3>1. w \in Nat /\ w <= Len(numbers)
      BY <1>9, <1>10
    <3> QED BY <1>2, <1>5, <3>1, NumbersLeft
  <2>2. ASSUME NEW j \in 1 .. Len(numbers') PROVE numbers'[j] = Rest[w * (len + 1) + j]
    <3>1. w + j \in 1 .. Len(numbers) /\ numbers'[j] = numbers[w + j]
      BY <2>1
    <3>2. w * len + (w + j) = w * (len + 1) + j
      BY <1>9, <1>10
    <3> QED BY <1>6, <3>1, <3>2
  <2>3. ASSUME NEW r \in 0 .. matrix.m PROVE counter'[r] = Count(len + 1, 0, r)
    <3>1. Count(len + 1, 0, r) = Count(len, 0, r) + (IF Said(file, len + 1).row = r THEN 1 ELSE 0)
      BY <1>8, CountEntry
    <3>2. Count(len, 0, r) \in Nat
      BY <1>8, PlacesAreFinite
    <3> QED BY <1>2, <1>7, <1>11, <3>1, <3>2
  <2>4. Len(numbers') = Len(Rest) - w * (len + 1)
    BY <1>5, <1>9, <1>10, <2>1
  <2> QED BY <1>2, <1>3, <1>13, <2>1, <2>2, <2>3, <2>4 DEF ReadingOK, w
<1> QED BY <1>1, <1>3, <1>4, <1>14, <1>15 DEF RInv, MirrorOK, ScanOK, ArraysOK, FillOK

(* The scan begins when every row has its total.                           *)
LEMMA BeginScanStep ==
  ASSUME RInv, Opened, reader_pc # "open", BeginScan, Len(entries) = matrix.nnz,
         counter' \in [0 .. matrix.m -> Nat], \A r \in 0 .. matrix.m : counter'[r] = Total(r)
  PROVE  RInv'
<1>1. /\ reader_pc' = "scan" /\ old_val' = counter'[0] /\ i' = 1
      /\ file' = file /\ matrix' = matrix /\ entries' = entries
  BY DEF BeginScan
<1>2. /\ Complete(file)' = Complete(file) /\ Symmetric(file)' = Symmetric(file)
      /\ Width(file)' = Width(file) /\ Rest' = Rest /\ Rows' = Rows
      /\ \A k : Said(file, k)' = Said(file, k)
      /\ \A r : Total(r)' = Total(r)
  BY <1>1, FileStays DEF Symmetric, Width, Rows, Total
<1>3. /\ matrix.m \in Nat /\ matrix.nnz \in Nat /\ HeaderOK
  BY DEF RInv, HeaderOK
<1>4. HeaderOK' /\ EntriesOK'
  BY <1>1, <1>2 DEF RInv, HeaderOK, EntriesOK, Opened
<1>5. Counted' = [counter' EXCEPT ![0] = 0] /\ Counted'[0] = 0
  BY <1>3 DEF Counted
<1>6. Starts(Counted, 0)'
  BY <1>5 DEF Starts
<1>7. matrix.m = 0 => counter'[0] = 0
  <2> SUFFICES ASSUME matrix.m = 0 PROVE Total(0) = 0
    BY <1>3
  <2>1. matrix.nnz = 0
    <3> SUFFICES ASSUME matrix.nnz # 0 PROVE FALSE
      OBVIOUS
    <3>1. 1 \in 1 .. matrix.nnz
      BY <1>3
    <3>2. Said(file, 1).row \in Rows
      BY <1>3, <3>1 DEF HeaderOK
    <3> QED BY <3>2 DEF Rows
  <2> QED BY <2>1, CountNothing DEF Total
<1>8. ScanOK'
  <2>1. 1 - 1 = 0 /\ 1 \in 1 .. matrix.m + 1 /\ 0 \in 0 .. matrix.m
    BY <1>3
  <2>2. 1 > matrix.m => matrix.m = 0
    BY <1>3
  <2>3. \A r \in 1 .. matrix.m : r \in 0 .. matrix.m
    BY <1>3
  <2> QED BY <1>1, <1>2, <1>6, <1>7, <2>1, <2>2, <2>3 DEF ScanOK
<1> QED BY <1>1, <1>2, <1>4, <1>8 DEF RInv, ReadingOK, MirrorOK, ArraysOK, FillOK

(* All entries are read.                                                   *)
LEMMA EntriesReadStep ==
  ASSUME RInv, EntriesRead
  PROVE  RInv'
<1>1. /\ HeaderOK /\ EntriesOK /\ ReadingOK /\ Opened /\ reader_pc = "entries" /\ Len(entries) = matrix.nnz
      /\ Complete(file)
  BY DEF RInv, EntriesRead, Opened
<1>2. /\ matrix.m \in Nat /\ matrix.nnz \in Nat /\ matrix.isSymmetric = Symmetric(file)
      /\ counter \in [0 .. matrix.m -> Nat]
      /\ \A r \in 0 .. matrix.m : counter[r] = Count(matrix.nnz, 0, r)
  BY <1>1 DEF HeaderOK, EntriesOK, ReadingOK
<1>3. CASE matrix.isSymmetric
  <2>1. /\ reader_pc' = "mirror" /\ i' = 1
        /\ UNCHANGED <<file, matrix, entries, counter>>
    BY <1>3 DEF EntriesRead
  <2>2. /\ Complete(file)' /\ Symmetric(file)' = Symmetric(file) /\ Width(file)' = Width(file)
        /\ Rest' = Rest /\ Rows' = Rows
        /\ \A k : Said(file, k)' = Said(file, k)
        /\ \A h, t, r : Count(h, t, r)' = Count(h, t, r)
    BY <1>1, <2>1, FileStays DEF Symmetric, Width, Rows
  <2>3. HeaderOK' /\ EntriesOK'
    BY <1>1, <2>1, <2>2 DEF HeaderOK, EntriesOK, Opened
  <2>4. MirrorOK'
    <3>1. 1 \in 1 .. matrix.nnz + 1 /\ 1 - 1 = 0
      BY <1>2
    <3> QED BY <1>2, <1>3, <2>1, <2>2, <3>1 DEF MirrorOK
  <2> QED BY <2>1, <2>2, <2>3, <2>4 DEF RInv, ReadingOK, ScanOK, ArraysOK, FillOK
<1>4. CASE ~ matrix.isSymmetric
  <2>1. counter' = counter /\ BeginScan
    BY <1>4 DEF EntriesRead
  <2>2. \A r \in 0 .. matrix.m : counter'[r] = Total(r)
    BY <1>2, <1>4, <2>1, CountGeneral DEF Total
  <2> QED BY <1>1, <1>2, <2>1, <2>2, BeginScanStep
<1> QED BY <1>3, <1>4

(* The image of an entry is counted.                                       *)
LEMMA CountMirrorStep ==
  ASSUME RInv, CountMirror
  PROVE  RInv'
<1>1. /\ HeaderOK /\ EntriesOK /\ MirrorOK /\ Opened /\ reader_pc = "mirror" /\ Complete(file)
  BY DEF RInv, CountMirror, Opened
<1>2. /\ matrix.m \in Nat /\ matrix.nnz \in Nat /\ matrix.isSymmetric = Symmetric(file) /\ Symmetric(file)
      /\ counter \in [0 .. matrix.m -> Nat] /\ Len(entries) = matrix.nnz
      /\ i \in 1 .. matrix.nnz + 1
  BY <1>1 DEF HeaderOK, EntriesOK, MirrorOK
<1>3. \A r \in 0 .. matrix.m : counter[r] = Count(matrix.nnz, i - 1, r)
  BY <1>1 DEF MirrorOK
<1>4. CASE i <= matrix.nnz
  <2> DEFINE e == entries[i]
  <2>1. /\ counter' = IF OffDiagonal(e) THEN [counter EXCEPT ![e.column] = @ + 1] ELSE counter
        /\ i' = i + 1
        /\ UNCHANGED <<file, reader_pc, matrix, entries>>
    BY <1>2, <1>4 DEF CountMirror
  <2>2. /\ Complete(file)' /\ Symmetric(file)' = Symmetric(file) /\ Width(file)' = Width(file)
        /\ Rest' = Rest /\ Rows' = Rows
        /\ \A k : Said(file, k)' = Said(file, k)
        /\ \A h, t, r : Count(h, t, r)' = Count(h, t, r)
    BY <1>1, <2>1, FileStays DEF Symmetric, Width, Rows
  <2>3. i \in 1 .. matrix.nnz /\ i - 1 \in Nat /\ i - 1 + 1 = i /\ i' - 1 = i /\ i' \in 1 .. matrix.nnz + 1
    BY <1>2, <1>4, <2>1
  <2>4. e = Said(file, i) /\ e.column \in 0 .. matrix.m
    <3>1. e = Said(file, i) /\ e.column \in Rows
      BY <1>1, <1>2, <2>3 DEF EntriesOK, HeaderOK
    <3> QED BY <1>2, <3>1 DEF Rows
  <2> HIDE DEF e
  <2>5. OffDiagonal(e) <=> HasImage(i)
    BY <1>2, <2>4 DEF OffDiagonal, HasImage
  <2>6. ASSUME NEW r \in 0 .. matrix.m
        PROVE  counter'[r] = counter[r] + (IF HasImage(i) /\ e.column = r THEN 1 ELSE 0)
    <3>1. CASE HasImage(i)
      BY <1>2, <2>1, <2>4, <2>5, <3>1, Bumped
    <3>2. CASE ~ HasImage(i)
      BY <1>2, <2>1, <2>5, <3>2
    <3> QED BY <3>1, <3>2
  <2>7. counter' \in [0 .. matrix.m -> Nat]
    BY <1>2, <2>1, <2>4, Bumped
  <2>8. ASSUME NEW r \in 0 .. matrix.m PROVE counter'[r] = Count(matrix.nnz, i, r)
    <3>1. Count(matrix.nnz, i - 1 + 1, r) =
            Count(matrix.nnz, i - 1, r)
              + (IF HasImage(i - 1 + 1) /\ Said(file, i - 1 + 1).column = r THEN 1 ELSE 0)
      BY <1>2, <2>3, CountImage
    <3> QED BY <1>3, <2>3, <2>4, <2>6, <3>1
  <2>9. HeaderOK' /\ EntriesOK'
    BY <1>1, <2>1, <2>2, <2>7 DEF HeaderOK, EntriesOK, Opened
  <2>10. MirrorOK'
    BY <1>2, <2>1, <2>2, <2>3, <2>8 DEF MirrorOK
  <2> QED BY <1>1, <2>1, <2>2, <2>9, <2>10 DEF RInv, ReadingOK, ScanOK, ArraysOK, FillOK
<1>5. CASE i > matrix.nnz
  <2>1. counter' = counter /\ BeginScan
    BY <1>2, <1>5 DEF CountMirror
  <2>2. i - 1 = matrix.nnz
    BY <1>2, <1>5
  <2>3. \A r \in 0 .. matrix.m : counter'[r] = Total(r)
    BY <1>3, <2>1, <2>2 DEF Total
  <2> QED BY <1>1, <1>2, <2>1, <2>3, BeginScanStep
<1> QED BY <1>2, <1>4, <1>5

(* The starts of one row more.                                             *)
LEMMA StartsStep ==
  ASSUME NEW m \in Nat, NEW n \in Nat, n < m, NEW c \in [0 .. m -> Nat], NEW d \in [0 .. m -> Nat],
         Starts(c, n), Total(n) \in Nat,
         \A r \in 0 .. n : d[r] = c[r], d[n + 1] = c[n] + Total(n)
  PROVE  Starts(d, n + 1)
<1>1. d[0] = 0
  BY DEF Starts
<1>2. ASSUME NEW r \in 0 .. n + 1 - 1 PROVE d[r + 1] = d[r] + Total(r)
  <2>1. CASE r = n
    BY <2>1
  <2>2. CASE r # n
    <3>1. r \in 0 .. n - 1 /\ r \in 0 .. n /\ r + 1 \in 0 .. n
      BY <2>2
    <3>2. c[r + 1] = c[r] + Total(r)
      BY <3>1 DEF Starts
    <3> QED BY <3>1, <3>2
  <2> QED BY <2>1, <2>2
<1>3. ASSUME NEW r \in 0 .. n + 1, NEW s \in 0 .. n + 1, r <= s PROVE d[r] <= d[s]
  <2>1. \A q \in 0 .. n : c[q] <= c[n]
    BY DEF Starts
  <2>2. CASE s = n + 1
    <3>1. CASE r = n + 1
      BY <2>2, <3>1
    <3>2. CASE r # n + 1
      <4>1. r \in 0 .. n /\ c[n] \in Nat /\ c[r] <= c[n]
        BY <2>1, <3>2
      <4> QED BY <2>2, <4>1
    <3> QED BY <3>1, <3>2
  <2>3. CASE s # n + 1
    <3>1. r \in 0 .. n /\ s \in 0 .. n
      BY <1>3, <2>3
    <3>2. c[r] <= c[s]
      BY <1>3, <3>1 DEF Starts
    <3> QED BY <3>1, <3>2
  <2> QED BY <2>2, <2>3
<1>4. ASSUME NEW slot \in 0 .. d[n + 1] - 1
      PROVE  \E r \in 0 .. n + 1 - 1 : d[r] <= slot /\ slot < d[r + 1]
  <2>1. CASE slot < c[n]
    <3>1. c[n] \in Nat /\ slot \in 0 .. c[n] - 1
      BY <2>1
    <3>2. PICK r \in 0 .. n - 1 : c[r] <= slot /\ slot < c[r + 1]
      BY <3>1 DEF Starts
    <3>3. r \in 0 .. n /\ r + 1 \in 0 .. n
      OBVIOUS
    <3> QED BY <3>2, <3>3
  <2>2. CASE slot >= c[n]
    <3>1. n \in 0 .. n /\ n \in 0 .. n + 1 - 1
      OBVIOUS
    <3> QED BY <2>2, <3>1
  <2>3. c[n] \in Nat /\ slot \in Int
    OBVIOUS
  <2> QED BY <2>1, <2>2, <2>3
<1> QED BY <1>1, <1>2, <1>3, <1>4 DEF Starts

(* One row of the scan.                                                    *)
LEMMA ScanStep ==
  ASSUME RInv, Scan
  PROVE  RInv'
<1>1. /\ HeaderOK /\ EntriesOK /\ ScanOK /\ Opened /\ reader_pc = "scan" /\ Complete(file)
  BY DEF RInv, Scan, Opened
<1>2. /\ matrix.m \in Nat /\ matrix.nnz \in Nat /\ counter \in [0 .. matrix.m -> Nat]
      /\ i \in 1 .. matrix.m + 1 /\ old_val = Total(i - 1) /\ Starts(Counted, i - 1)
  BY <1>1 DEF HeaderOK, EntriesOK, ScanOK
<1>3. \A r \in i .. matrix.m : counter[r] = Total(r)
  BY <1>1 DEF ScanOK
<1>4. /\ counter' = [Counted EXCEPT ![i] = old_val + Counted[i - 1]] /\ old_val' = counter[i] /\ i' = i + 1
      /\ i <= matrix.m
      /\ UNCHANGED <<file, reader_pc, matrix, entries>>
  BY DEF Scan
<1>5. /\ Complete(file)' /\ Symmetric(file)' = Symmetric(file) /\ Width(file)' = Width(file)
      /\ Rest' = Rest /\ Rows' = Rows
      /\ \A k : Said(file, k)' = Said(file, k)
      /\ \A r : Total(r)' = Total(r)
  BY <1>1, <1>4, FileStays DEF Symmetric, Width, Rows, Total
<1>6. /\ i \in 1 .. matrix.m /\ i - 1 \in Nat /\ i - 1 < matrix.m /\ i - 1 + 1 = i /\ i' - 1 = i
      /\ i' \in 1 .. matrix.m + 1 /\ i - 1 \in 0 .. matrix.m /\ i \in 0 .. matrix.m /\ i - 1 # i
      /\ \A r \in 0 .. i - 1 : r \in 0 .. matrix.m /\ r # i
  BY <1>2, <1>4
<1>7. Total(i - 1) \in Nat
  BY <1>2, PlacesAreFinite DEF Total
<1>8. Counted \in [0 .. matrix.m -> Nat] /\ Counted[0] = 0 /\ \A r \in 1 .. matrix.m : Counted[r] = counter[r]
  BY <1>2 DEF Counted
<1>9. /\ counter' \in [0 .. matrix.m -> Nat] /\ counter'[0] = 0
      /\ counter'[i] = Total(i - 1) + Counted[i - 1]
      /\ \A r \in 0 .. matrix.m : r # i => counter'[r] = Counted[r]
  <2> DEFINE start == Total(i - 1) + Counted[i - 1]
  <2>1. start \in Nat
    BY <1>6, <1>7, <1>8
  <2>2. counter' = [Counted EXCEPT ![i] = start]
    BY <1>2, <1>4
  <2>3. 0 \in 0 .. matrix.m /\ 0 # i
    BY <1>2, <1>6
  <2> HIDE DEF start
  <2>4. counter' \in [0 .. matrix.m -> Nat] /\ counter'[i] = start
    BY <1>6, <1>8, <2>1, <2>2
  <2>5. \A r \in 0 .. matrix.m : r # i => counter'[r] = Counted[r]
    BY <1>8, <2>2
  <2> QED BY <1>8, <2>3, <2>4, <2>5 DEF start
<1>10. Counted' = counter'
  BY <1>9 DEF Counted
<1>11. Starts(counter', i)
  <2>1. \A r \in 0 .. i - 1 : counter'[r] = Counted[r]
    BY <1>6, <1>9
  <2>2. counter'[i - 1 + 1] = Counted[i - 1] + Total(i - 1)
    <3>1. Counted[i - 1] \in Nat
      BY <1>6, <1>8
    <3> QED BY <1>6, <1>7, <1>9, <3>1
  <2>3. Starts(counter', i - 1 + 1)
    BY <1>2, <1>6, <1>7, <1>8, <1>9, <2>1, <2>2, StartsStep
  <2> QED BY <1>6, <2>3
<1>12. Starts(Counted, i - 1)'
  <2>1. \A c, n : Starts(c, n)' <=> Starts(c, n)
    BY <1>5 DEF Starts
  <2> QED BY <1>5, <1>6, <1>10, <1>11 DEF Starts
<1>13. \A r \in i + 1 .. matrix.m : counter'[r] = Total(r)
  BY <1>3, <1>6, <1>8, <1>9
<1>14. ScanOK'
  BY <1>3, <1>4, <1>5, <1>6, <1>9, <1>12, <1>13 DEF ScanOK
<1>15. HeaderOK' /\ EntriesOK'
  BY <1>1, <1>4, <1>5, <1>9 DEF HeaderOK, EntriesOK, Opened
<1> QED BY <1>1, <1>4, <1>5, <1>14, <1>15 DEF RInv, ReadingOK, MirrorOK, ArraysOK, FillOK

(* The slots of a row lie in the arrays.                                   *)
LEMMA RowInArrays ==
  ASSUME NEW m \in Nat, NEW c \in [0 .. m -> Nat], Starts(c, m), NEW r \in 0 .. m - 1, Total(r) \in Nat,
         NEW k \in 0 .. Total(r) - 1
  PROVE  c[r] + k \in 0 .. c[m] - 1 /\ c[r] + k < c[r + 1]
<1>1. r \in 0 .. m /\ r + 1 \in 0 .. m /\ m \in 0 .. m /\ r + 1 <= m
  OBVIOUS
<1>2. c[r + 1] = c[r] + Total(r) /\ c[r + 1] <= c[m]
  BY <1>1 DEF Starts
<1>3. c[r] \in Nat /\ c[r + 1] \in Nat /\ c[m] \in Nat
  BY <1>1
<1> QED BY <1>2, <1>3

(* The arrays are allocated.                                               *)
LEMMA AllocateStep ==
  ASSUME RInv, Allocate
  PROVE  RInv'
<1>1. /\ HeaderOK /\ EntriesOK /\ ScanOK /\ Opened /\ reader_pc = "scan" /\ Complete(file)
  BY DEF RInv, Allocate, Opened
<1>2. /\ matrix.m \in Nat /\ matrix.nnz \in Nat /\ counter \in [0 .. matrix.m -> Nat]
      /\ i = matrix.m + 1 /\ i - 1 = matrix.m /\ Starts(Counted, i - 1) /\ counter[0] = 0
  BY <1>1 DEF HeaderOK, EntriesOK, ScanOK, Allocate
<1>3. /\ csr_row_ptr' = counter /\ counter' = [row \in 0 .. matrix.m |-> 0]
      /\ csr_column' = [slot \in 0 .. counter[matrix.m] - 1 |-> Unset]
      /\ csr_data' = [slot \in 0 .. counter[matrix.m] - 1 |-> Unset]
      /\ reader_pc' = "fill" /\ i' = 1
      /\ UNCHANGED <<file, matrix, entries>>
  BY DEF Allocate
<1>4. /\ Complete(file)' /\ Symmetric(file)' = Symmetric(file) /\ Width(file)' = Width(file)
      /\ Rest' = Rest /\ Rows' = Rows
      /\ \A k : Said(file, k)' = Said(file, k)
      /\ \A h, t : Places(h, t)' = Places(h, t)
      /\ \A h, t, r : Count(h, t, r)' = Count(h, t, r)
      /\ \A r : Total(r)' = Total(r)
  BY <1>1, <1>3, FileStays DEF Symmetric, Width, Rows, Total
<1>5. Counted = counter
  BY <1>2 DEF Counted
<1>6. Starts(counter, matrix.m) /\ \A r \in Nat : Total(r) \in Nat
  BY <1>2, <1>5, PlacesAreFinite DEF Total
<1>7. ArraysOK'
  <2>1. Starts(csr_row_ptr, matrix.m)'
    BY <1>3, <1>4, <1>6 DEF Starts
  <2>2. Slots' = 0 .. counter[matrix.m] - 1
    BY <1>3 DEF Slots
  <2> QED BY <1>2, <1>3, <2>1, <2>2 DEF ArraysOK
<1>8. ASSUME NEW r \in Rows, NEW c \in 0 .. Total(r) - 1
      PROVE  csr_column'[csr_row_ptr'[r] + c] = Unset
  <2>1. r \in 0 .. matrix.m - 1 /\ Total(r) \in Nat
    BY <1>2, <1>6 DEF Rows
  <2>2. counter[r] + c \in 0 .. counter[matrix.m] - 1
    BY <1>2, <1>6, <2>1, RowInArrays
  <2> QED BY <1>3, <2>2
<1>9. FillOK'
  <2>1. 1 \in 1 .. matrix.nnz + 1 /\ 1 - 1 = 0
    BY <1>2
  <2>2. \A r : Count(0, 0, r) = 0 /\ Places(0, 0) = {}
    BY CountNothing
  <2>3. \A r \in Rows : counter'[r] = 0
    BY <1>2, <1>3 DEF Rows
  <2>4. \A r \in Rows : \A c \in 0 .. counter'[r] - 1 : FALSE
    BY <2>3
  <2>5. \A r \in Rows : \A c \in counter'[r] .. Total(r) - 1 : csr_column'[csr_row_ptr'[r] + c] = Unset
    BY <1>8, <2>3
  <2>6. \A r \in 0 .. matrix.m : counter'[r] = 0
    BY <1>3
  <2> QED BY <1>3, <1>4, <2>1, <2>2, <2>4, <2>5, <2>6 DEF FillOK
<1>10. HeaderOK' /\ EntriesOK'
  <2>1. counter' \in [0 .. matrix.m -> Nat]
    BY <1>3
  <2> QED BY <1>1, <1>3, <1>4, <2>1 DEF HeaderOK, EntriesOK, Opened
<1> QED BY <1>1, <1>3, <1>4, <1>7, <1>9, <1>10 DEF RInv, ReadingOK, MirrorOK, ScanOK

-----------------------------------------------------------------------------
(* A slot is in the slots of one row.                                      *)
LEMMA OneRow ==
  ASSUME NEW m \in Nat, NEW c \in [0 .. m -> Nat], Starts(c, m),
         NEW r \in 0 .. m - 1, NEW s \in 0 .. m - 1, NEW slot \in Nat,
         c[r] <= slot, slot < c[r + 1], c[s] <= slot, slot < c[s + 1]
  PROVE  r = s
<1>1. /\ r \in 0 .. m /\ r + 1 \in 0 .. m /\ s \in 0 .. m /\ s + 1 \in 0 .. m
      /\ c[r] \in Nat /\ c[s] \in Nat /\ c[r + 1] \in Nat /\ c[s + 1] \in Nat
  OBVIOUS
<1>2. ~ (r < s)
  <2> SUFFICES ASSUME r < s PROVE FALSE
    OBVIOUS
  <2>1. c[r + 1] <= c[s]
    BY <1>1 DEF Starts
  <2> QED BY <1>1, <2>1
<1>3. ~ (s < r)
  <2> SUFFICES ASSUME s < r PROVE FALSE
    OBVIOUS
  <2>1. c[s + 1] <= c[r]
    BY <1>1 DEF Starts
  <2> QED BY <1>1, <2>1
<1> QED BY <1>1, <1>2, <1>3

(* A place is in the row of its entry, behind fewer than all of them.      *)
LEMMA PlaceInRow ==
  ASSUME HeaderOK, Opened, NEW n \in 0 .. matrix.nnz, NEW p \in Places(n, n)
  PROVE  /\ p[1] \in 1 .. n /\ EntryAt(p).row \in Rows /\ p \in Have(n, n, EntryAt(p).row)
         /\ p \notin Have(p[1] - 1, p[1] - 1, EntryAt(p).row)
         /\ Count(p[1] - 1, p[1] - 1, EntryAt(p).row) \in Nat
         /\ Count(p[1] - 1, p[1] - 1, EntryAt(p).row) < Count(n, n, EntryAt(p).row)
         /\ Count(n, n, EntryAt(p).row) <= Total(EntryAt(p).row)
         /\ Count(n, n, EntryAt(p).row) \in Nat /\ Total(EntryAt(p).row) \in Nat
<1>1. matrix.nnz \in Nat /\ n \in Nat /\ n <= matrix.nnz
  BY DEF HeaderOK
<1>2. PICK k \in 1 .. n : p = <<k, "entry">> \/ (HasImage(k) /\ p = <<k, "image">>)
  BY <1>1, PlacesAre
<1>3. p[1] = k /\ k \in 1 .. matrix.nnz /\ k - 1 \in Nat /\ k - 1 <= n
  BY <1>1, <1>2
<1>4. EntryAt(p).row \in Rows
  BY <1>2, <1>3, AtPlace DEF HeaderOK, HasImage
<1>5. p \notin Places(k - 1, k - 1)
  BY <1>2, <1>3, PlacesAre
<1>6. p \in Have(n, n, EntryAt(p).row) /\ p \notin Have(k - 1, k - 1, EntryAt(p).row)
  BY <1>5 DEF Have
<1>7. Count(k - 1, k - 1, EntryAt(p).row) < Count(n, n, EntryAt(p).row)
  BY <1>1, <1>3, <1>6, CountGrows
<1>8. Count(n, n, EntryAt(p).row) <= Total(EntryAt(p).row)
  BY <1>1, CountGrows DEF Total
<1>9. /\ Count(k - 1, k - 1, EntryAt(p).row) \in Nat /\ Count(n, n, EntryAt(p).row) \in Nat
      /\ Total(EntryAt(p).row) \in Nat
  BY <1>1, <1>3, PlacesAreFinite DEF Total
<1> QED BY <1>2, <1>3, <1>4, <1>6, <1>7, <1>8, <1>9

(* Where an entry and its image go.                                        *)
Here  == Offset(Said(file, i).row)
There == Offset(Said(file, i).column)
New   == {<<i, "entry">>} \cup (IF HasImage(i) THEN {<<i, "image">>} ELSE {})

LEMMA AtFill ==
  ASSUME RInv, Fill
  PROVE  /\ HeaderOK /\ EntriesOK /\ ArraysOK /\ FillOK /\ Opened /\ reader_pc = "fill" /\ Complete(file)
         /\ matrix.m \in Nat /\ matrix.nnz \in Nat /\ counter \in [0 .. matrix.m -> Nat]
         /\ csr_row_ptr \in [0 .. matrix.m -> Nat] /\ Starts(csr_row_ptr, matrix.m)
         /\ DOMAIN csr_column = Slots /\ DOMAIN csr_data = Slots
         /\ i \in 1 .. matrix.nnz /\ i - 1 \in 0 .. matrix.nnz /\ i - 1 \in Nat /\ i - 1 + 1 = i
         /\ entries[i] = Said(file, i) /\ (matrix.isSymmetric /\ OffDiagonal(entries[i]) <=> HasImage(i))
         /\ Said(file, i).row \in Rows /\ (HasImage(i) => Said(file, i).column \in Rows)
         /\ \A r \in Rows : r \in 0 .. matrix.m /\ r \in 0 .. matrix.m - 1
         /\ UNCHANGED <<file, reader_pc, matrix, entries, csr_row_ptr>> /\ i' = i + 1
<1>1. HeaderOK /\ EntriesOK /\ ArraysOK /\ FillOK /\ Opened /\ reader_pc = "fill" /\ Complete(file)
  BY DEF RInv, Fill, Opened
<1>2. /\ matrix.m \in Nat /\ matrix.nnz \in Nat /\ counter \in [0 .. matrix.m -> Nat]
      /\ csr_row_ptr \in [0 .. matrix.m -> Nat] /\ Starts(csr_row_ptr, matrix.m)
      /\ DOMAIN csr_column = Slots /\ DOMAIN csr_data = Slots
  BY <1>1 DEF HeaderOK, EntriesOK, ArraysOK
<1>3. i \in 1 .. matrix.nnz /\ i - 1 \in 0 .. matrix.nnz /\ i - 1 \in Nat /\ i - 1 + 1 = i
  BY <1>1, <1>2 DEF FillOK, Fill
<1>4. entries[i] = Said(file, i) /\ matrix.isSymmetric = Symmetric(file)
  BY <1>1, <1>2, <1>3 DEF EntriesOK, HeaderOK
<1>5. matrix.isSymmetric /\ OffDiagonal(entries[i]) <=> HasImage(i)
  BY <1>4 DEF OffDiagonal, HasImage
<1>6. Said(file, i).row \in Rows /\ (HasImage(i) => Said(file, i).column \in Rows)
  BY <1>1, <1>3 DEF HeaderOK, HasImage
<1>7. \A r \in Rows : r \in 0 .. matrix.m /\ r \in 0 .. matrix.m - 1
  BY <1>2 DEF Rows
<1>8. UNCHANGED <<file, reader_pc, matrix, entries, csr_row_ptr>> /\ i' = i + 1
  BY DEF Fill
<1> QED BY <1>1, <1>2, <1>3, <1>4, <1>5, <1>6, <1>7, <1>8

(* The places an entry adds, and how they are counted.                     *)
LEMMA FillCounts ==
  ASSUME RInv, Fill
  PROVE  /\ Places(i, i) = Places(i - 1, i - 1) \cup New
         /\ \A r \in 0 .. matrix.m :
              /\ Count(i, i, r) = counter[r] + (IF Said(file, i).row = r THEN 1 ELSE 0)
                                    + (IF HasImage(i) /\ Said(file, i).column = r THEN 1 ELSE 0)
              /\ counter'[r] = Count(i, i, r)
         /\ counter' \in [0 .. matrix.m -> Nat]
         /\ \A p \in New : SlotOf(p) = csr_row_ptr[EntryAt(p).row] + counter[EntryAt(p).row]
         /\ SlotOf(<<i, "entry">>) = Here /\ (HasImage(i) => SlotOf(<<i, "image">>) = There)
<1> DEFINE e == Said(file, i)
<1>1. /\ i \in Nat /\ i - 1 \in Nat /\ i - 1 + 1 = i /\ matrix.m \in Nat
      /\ counter \in [0 .. matrix.m -> Nat]
      /\ e.row \in 0 .. matrix.m /\ (HasImage(i) => e.column \in 0 .. matrix.m)
      /\ entries[i] = e /\ (matrix.isSymmetric /\ OffDiagonal(entries[i]) <=> HasImage(i))
  BY AtFill
<1>2. \A r \in 0 .. matrix.m : counter[r] = Count(i - 1, i - 1, r)
  BY AtFill DEF FillOK
<1>3. Places(i - 1 + 1, i - 1) = Places(i - 1, i - 1) \cup {<<i - 1 + 1, "entry">>}
  BY <1>1, CountEntry
<1>4. Places(i, i - 1 + 1) =
        Places(i, i - 1) \cup (IF HasImage(i - 1 + 1) THEN {<<i - 1 + 1, "image">>} ELSE {})
  BY <1>1, CountImage
<1>5. Places(i, i) = Places(i - 1, i - 1) \cup New
  BY <1>1, <1>3, <1>4 DEF New
<1>6. ASSUME NEW r \in 0 .. matrix.m
      PROVE  Count(i, i, r) = counter[r] + (IF e.row = r THEN 1 ELSE 0)
                                + (IF HasImage(i) /\ e.column = r THEN 1 ELSE 0)
  <2>1. Count(i - 1 + 1, i - 1, r) = Count(i - 1, i - 1, r) + (IF Said(file, i - 1 + 1).row = r THEN 1 ELSE 0)
    BY <1>1, CountEntry
  <2>2. Count(i, i - 1 + 1, r) =
          Count(i, i - 1, r) + (IF HasImage(i - 1 + 1) /\ Said(file, i - 1 + 1).column = r THEN 1 ELSE 0)
    BY <1>1, CountImage
  <2> QED BY <1>1, <1>2, <2>1, <2>2
<1> HIDE DEF e
<1>7. /\ counter' \in [0 .. matrix.m -> Nat]
      /\ \A r \in 0 .. matrix.m : counter'[r] = counter[r] + (IF e.row = r THEN 1 ELSE 0)
                                                  + (IF HasImage(i) /\ e.column = r THEN 1 ELSE 0)
  <2>1. counter' = Filled(e)
    BY <1>1 DEF Fill
  <2>2. CASE ~ HasImage(i)
    <3>1. counter' = [counter EXCEPT ![e.row] = @ + 1]
      BY <1>1, <2>1, <2>2 DEF Filled
    <3>2. /\ counter' \in [0 .. matrix.m -> Nat]
          /\ \A r \in 0 .. matrix.m : counter'[r] = counter[r] + (IF e.row = r THEN 1 ELSE 0)
      BY <1>1, <3>1, Bumped
    <3> QED BY <1>1, <2>2, <3>2
  <2>3. CASE HasImage(i)
    <3>1. counter' = [counter EXCEPT ![e.row] = @ + 1, ![e.column] = @ + 1] /\ e.row # e.column
      BY <1>1, <2>1, <2>3 DEF Filled, HasImage, e
    <3> DEFINE once == [counter EXCEPT ![e.row] = @ + 1]
    <3>2. /\ once \in [0 .. matrix.m -> Nat]
          /\ \A r \in 0 .. matrix.m : once[r] = counter[r] + (IF e.row = r THEN 1 ELSE 0)
      BY <1>1, Bumped
    <3>3. counter' = [once EXCEPT ![e.column] = @ + 1]
      BY <3>1
    <3> HIDE DEF once
    <3>4. /\ counter' \in [0 .. matrix.m -> Nat]
          /\ \A r \in 0 .. matrix.m : counter'[r] = once[r] + (IF e.column = r THEN 1 ELSE 0)
      <4> DEFINE n == matrix.m
                 c == e.column
      <4>1. n \in Nat /\ c \in 0 .. n /\ once \in [0 .. n -> Nat]
        BY <1>1, <2>3, <3>2
      <4> HIDE DEF n, c
      <4>2. /\ [once EXCEPT ![c] = @ + 1] \in [0 .. n -> Nat]
            /\ \A r \in 0 .. n : [once EXCEPT ![c] = @ + 1][r] = once[r] + (IF c = r THEN 1 ELSE 0)
        BY ONLY <4>1, Bumped
      <4>3. counter' = [once EXCEPT ![c] = @ + 1]
        BY <3>3 DEF c
      <4> QED BY <4>2, <4>3 DEF n, c
    <3>5. ASSUME NEW r \in 0 .. matrix.m
          PROVE  counter'[r] = counter[r] + (IF e.row = r THEN 1 ELSE 0)
                                 + (IF HasImage(i) /\ e.column = r THEN 1 ELSE 0)
      <4> DEFINE here  == IF e.row = r THEN 1 ELSE 0
                 there == IF e.column = r THEN 1 ELSE 0
      <4>1. once[r] = counter[r] + here /\ counter'[r] = once[r] + there
        BY ONLY <3>2, <3>4, r \in 0 .. matrix.m
      <4>2. counter'[r] = counter[r] + here + there
        BY ONLY <4>1
      <4>3. (IF HasImage(i) /\ e.column = r THEN 1 ELSE 0) = there
        BY ONLY <2>3
      <4> QED BY ONLY <4>2, <4>3
    <3> QED BY <3>4, <3>5
  <2> QED BY <2>2, <2>3
<1>8. /\ EntryAt(<<i, "entry">>).row = e.row /\ EntryAt(<<i, "image">>).row = e.column
  BY AtPlace DEF e
<1>9. ASSUME NEW p \in New PROVE SlotOf(p) = csr_row_ptr[EntryAt(p).row] + counter[EntryAt(p).row]
  <2>1. p[1] = i
    BY DEF New
  <2>2. EntryAt(p).row \in 0 .. matrix.m
    <3>1. p = <<i, "entry">> \/ (HasImage(i) /\ p = <<i, "image">>)
      BY DEF New
    <3> QED BY ONLY <1>1, <1>8, <3>1
  <2> QED BY <1>2, <2>1, <2>2 DEF SlotOf
<1>10. SlotOf(<<i, "entry">>) = Here
  BY <1>1, <1>2, <1>8 DEF SlotOf, Here, Offset, e
<1>11. HasImage(i) => SlotOf(<<i, "image">>) = There
  BY <1>1, <1>2, <1>8 DEF SlotOf, There, Offset, e
<1> QED BY <1>5, <1>6, <1>7, <1>9, <1>10, <1>11 DEF e

(* A new place has the next slot of its row, which is free.                *)
LEMMA NewSlotFree ==
  ASSUME RInv, Fill, NEW p \in New
  PROVE  /\ EntryAt(p).row \in Rows /\ SlotOf(p) = csr_row_ptr[EntryAt(p).row] + counter[EntryAt(p).row]
         /\ counter[EntryAt(p).row] \in 0 .. Total(EntryAt(p).row) - 1 /\ Total(EntryAt(p).row) \in Nat
         /\ counter[EntryAt(p).row] < Count(i, i, EntryAt(p).row)
         /\ SlotOf(p) \in Slots /\ csr_column[SlotOf(p)] = Unset
<1> DEFINE r == EntryAt(p).row
<1>1. /\ HeaderOK /\ Opened /\ FillOK /\ reader_pc = "fill" /\ matrix.m \in Nat /\ matrix.nnz \in Nat /\ i \in 1 .. matrix.nnz
      /\ csr_row_ptr \in [0 .. matrix.m -> Nat] /\ Starts(csr_row_ptr, matrix.m)
      /\ \A s \in Rows : s \in 0 .. matrix.m /\ s \in 0 .. matrix.m - 1
  BY AtFill
<1>2. i \in 0 .. matrix.nnz /\ p \in Places(i, i) /\ p[1] = i
  BY <1>1, FillCounts DEF New
<1>3. /\ r \in Rows /\ Count(i - 1, i - 1, r) \in Nat /\ Count(i - 1, i - 1, r) < Count(i, i, r)
      /\ Count(i, i, r) <= Total(r) /\ Count(i, i, r) \in Nat /\ Total(r) \in Nat
  BY <1>1, <1>2, PlaceInRow
<1>4. SlotOf(p) = csr_row_ptr[r] + counter[r]
  BY FillCounts
<1>5. counter[r] = Count(i - 1, i - 1, r)
  BY <1>1, <1>3 DEF FillOK
<1> HIDE DEF r
<1>6. counter[r] \in 0 .. Total(r) - 1 /\ counter[r] < Count(i, i, r)
  BY <1>3, <1>5
<1>7. SlotOf(p) \in Slots
  BY <1>1, <1>3, <1>4, <1>6, RowInArrays DEF Slots
<1>8. csr_column[SlotOf(p)] = Unset
  <2>1. counter[r] \in counter[r] .. Total(r) - 1
    BY <1>6
  <2>2. csr_column[csr_row_ptr[r] + counter[r]] = Unset
    BY <1>1, <1>3, <2>1 DEF FillOK
  <2> QED BY <1>4, <2>2
<1> QED BY <1>3, <1>4, <1>6, <1>7, <1>8 DEF r

(* What an entry writes, and what it leaves.                               *)
LEMMA FillWrites ==
  ASSUME RInv, Fill
  PROVE  /\ DOMAIN csr_column' = Slots /\ DOMAIN csr_data' = Slots
         /\ \A p \in New : csr_column'[SlotOf(p)] = EntryAt(p).column /\ csr_data'[SlotOf(p)] = EntryAt(p).value
         /\ \A slot \in Slots :
              (\A p \in New : slot # SlotOf(p)) =>
                csr_column'[slot] = csr_column[slot] /\ csr_data'[slot] = csr_data[slot]
<1> DEFINE e == Said(file, i)
           mirror == HasImage(i)
           Put(array, here, there) ==
             [slot \in DOMAIN array \cup {Here} \cup (IF mirror THEN {There} ELSE {}) |->
                IF mirror /\ slot = There THEN there ELSE IF slot = Here THEN here ELSE array[slot]]
<1>1. /\ entries[i] = e /\ (matrix.isSymmetric /\ OffDiagonal(entries[i]) <=> mirror)
      /\ DOMAIN csr_column = Slots /\ DOMAIN csr_data = Slots
      /\ matrix.m \in Nat /\ csr_row_ptr \in [0 .. matrix.m -> Nat] /\ Starts(csr_row_ptr, matrix.m)
      /\ \A r \in Rows : r \in 0 .. matrix.m - 1
  BY AtFill
<1>2. csr_column' = Put(csr_column, e.column, e.row) /\ csr_data' = Put(csr_data, e.value, e.value)
  BY <1>1 DEF Fill, Here, There
<1>3. /\ <<i, "entry">> \in New /\ (mirror => <<i, "image">> \in New)
      /\ \A p \in New : p = <<i, "entry">> \/ (mirror /\ p = <<i, "image">>)
  BY DEF New
<1>4. SlotOf(<<i, "entry">>) = Here /\ (mirror => SlotOf(<<i, "image">>) = There)
  BY FillCounts
<1>5. Here \in Slots /\ (mirror => There \in Slots)
  BY <1>3, <1>4, NewSlotFree
<1>6. mirror => Here # There
  <2> SUFFICES ASSUME mirror, Here = There PROVE FALSE
    OBVIOUS
  <2> DEFINE p == <<i, "entry">>
             q == <<i, "image">>
  <2>1. EntryAt(p).row = e.row /\ EntryAt(q).row = e.column
    BY AtPlace
  <2>2. /\ e.row \in Rows /\ Here = csr_row_ptr[e.row] + counter[e.row]
        /\ counter[e.row] \in 0 .. Total(e.row) - 1 /\ Total(e.row) \in Nat
    BY <1>3, <1>4, <2>1, NewSlotFree
  <2>3. /\ e.column \in Rows /\ There = csr_row_ptr[e.column] + counter[e.column]
        /\ counter[e.column] \in 0 .. Total(e.column) - 1 /\ Total(e.column) \in Nat
    BY <1>3, <1>4, <2>1, NewSlotFree
  <2> HIDE DEF e
  <2>4. /\ e.row \in 0 .. matrix.m - 1 /\ e.column \in 0 .. matrix.m - 1
        /\ csr_row_ptr[e.row] \in Nat /\ csr_row_ptr[e.column] \in Nat
    BY <1>1, <2>2, <2>3
  <2> DEFINE r == e.row
             s == e.column
  <2>5. /\ r \in 0 .. matrix.m - 1 /\ s \in 0 .. matrix.m - 1
        /\ csr_row_ptr[r] \in Nat /\ csr_row_ptr[s] \in Nat
        /\ Here = csr_row_ptr[r] + counter[r] /\ Here = csr_row_ptr[s] + counter[s]
        /\ counter[r] \in 0 .. Total(r) - 1 /\ counter[s] \in 0 .. Total(s) - 1
        /\ Total(r) \in Nat /\ Total(s) \in Nat
    BY <2>2, <2>3, <2>4
  <2> HIDE DEF r, s
  <2>6. Here \in Nat /\ csr_row_ptr[r] <= Here /\ csr_row_ptr[s] <= Here
    BY <2>5
  <2>7. Here < csr_row_ptr[r + 1]
    BY <1>1, <2>5, RowInArrays
  <2>8. Here < csr_row_ptr[s + 1]
    BY <1>1, <2>5, RowInArrays
  <2>9. r = s
    BY <1>1, <2>5, <2>6, <2>7, <2>8, OneRow
  <2> QED BY <2>9 DEF HasImage, e, r, s
<1>7. /\ EntryAt(<<i, "entry">>) = e
      /\ EntryAt(<<i, "image">>).column = e.row /\ EntryAt(<<i, "image">>).value = e.value
  BY AtPlace
<1> HIDE DEF e, mirror
<1>8. DOMAIN csr_column' = Slots /\ DOMAIN csr_data' = Slots
  BY <1>1, <1>2, <1>5
<1>9. /\ csr_column'[Here] = e.column /\ csr_data'[Here] = e.value
      /\ mirror => csr_column'[There] = e.row /\ csr_data'[There] = e.value
  BY <1>1, <1>2, <1>5, <1>6
<1>10. ASSUME NEW slot \in Slots, \A p \in New : slot # SlotOf(p)
       PROVE  csr_column'[slot] = csr_column[slot] /\ csr_data'[slot] = csr_data[slot]
  <2>1. slot # Here /\ (mirror => slot # There)
    BY <1>3, <1>4, <1>10
  <2> QED BY <1>1, <1>2, <2>1
<1>11. \A p \in New : csr_column'[SlotOf(p)] = EntryAt(p).column /\ csr_data'[SlotOf(p)] = EntryAt(p).value
  BY <1>3, <1>4, <1>7, <1>9
<1> QED BY <1>8, <1>10, <1>11

(* An entry is put in its slot.                                            *)
LEMMA FillStep ==
  ASSUME RInv, Fill
  PROVE  RInv'
<1>1. /\ HeaderOK /\ EntriesOK /\ ArraysOK /\ FillOK /\ Opened /\ reader_pc = "fill" /\ Complete(file)
      /\ matrix.m \in Nat /\ matrix.nnz \in Nat /\ counter \in [0 .. matrix.m -> Nat]
      /\ csr_row_ptr \in [0 .. matrix.m -> Nat] /\ Starts(csr_row_ptr, matrix.m)
      /\ i \in 1 .. matrix.nnz /\ i - 1 \in 0 .. matrix.nnz /\ i - 1 \in Nat /\ i - 1 + 1 = i
  BY AtFill
<1>2. /\ \A r \in Rows : r \in 0 .. matrix.m /\ r \in 0 .. matrix.m - 1
      /\ UNCHANGED <<file, reader_pc, matrix, entries, csr_row_ptr>> /\ i' = i + 1
  BY AtFill
<1>3. /\ Complete(file)' /\ Symmetric(file)' = Symmetric(file) /\ Width(file)' = Width(file)
      /\ Rest' = Rest /\ Rows' = Rows /\ Slots' = Slots
      /\ \A k : Said(file, k)' = Said(file, k)
      /\ \A p : EntryAt(p)' = EntryAt(p)
      /\ \A h, t : Places(h, t)' = Places(h, t)
      /\ \A h, t, r : Count(h, t, r)' = Count(h, t, r) /\ Have(h, t, r)' = Have(h, t, r)
      /\ \A r : Total(r)' = Total(r)
  BY <1>1, <1>2, FileStays DEF Symmetric, Width, Rows, Total, Slots
<1>4. \A p : SlotOf(p)' = SlotOf(p)
  BY <1>2, <1>3 DEF SlotOf
<1>5. i' - 1 = i /\ i' \in 1 .. matrix.nnz + 1 /\ i \in Nat
  BY <1>1, <1>2
<1>6. /\ Places(i, i) = Places(i - 1, i - 1) \cup New
      /\ counter' \in [0 .. matrix.m -> Nat]
      /\ \A r \in 0 .. matrix.m : counter'[r] = Count(i, i, r)
  BY FillCounts
<1>7. /\ DOMAIN csr_column' = Slots /\ DOMAIN csr_data' = Slots
      /\ \A p \in New : csr_column'[SlotOf(p)] = EntryAt(p).column /\ csr_data'[SlotOf(p)] = EntryAt(p).value
      /\ \A slot \in Slots :
           (\A p \in New : slot # SlotOf(p)) =>
             csr_column'[slot] = csr_column[slot] /\ csr_data'[slot] = csr_data[slot]
  BY FillWrites
<1>8. ASSUME NEW r \in Rows, NEW c \in 0 .. Total(r) - 1, NEW p \in New, csr_row_ptr[r] + c = SlotOf(p)
      PROVE  r = EntryAt(p).row /\ c = counter[r]
  <2>1. /\ EntryAt(p).row \in Rows /\ SlotOf(p) = csr_row_ptr[EntryAt(p).row] + counter[EntryAt(p).row]
        /\ counter[EntryAt(p).row] \in 0 .. Total(EntryAt(p).row) - 1 /\ Total(EntryAt(p).row) \in Nat
    BY NewSlotFree
  <2>2. r \in Nat /\ Total(r) \in Nat
    BY <1>1, <1>2, PlacesAreFinite DEF Total
  <2> DEFINE s == EntryAt(p).row
  <2>3. /\ r \in 0 .. matrix.m - 1 /\ s \in 0 .. matrix.m - 1
        /\ csr_row_ptr[r] \in Nat /\ csr_row_ptr[s] \in Nat
    BY <1>1, <1>2, <2>1
  <2> HIDE DEF s
  <2>4. Total(s) \in Nat /\ counter[s] \in 0 .. Total(s) - 1 /\ SlotOf(p) = csr_row_ptr[s] + counter[s]
    BY <2>1 DEF s
  <2>5. /\ SlotOf(p) \in Nat /\ csr_row_ptr[r] <= SlotOf(p) /\ csr_row_ptr[s] <= SlotOf(p)
    BY <2>3, <2>4, <1>8
  <2>6. SlotOf(p) < csr_row_ptr[r + 1]
    BY <1>1, <1>8, <2>2, <2>3, RowInArrays
  <2>7. SlotOf(p) < csr_row_ptr[s + 1]
    BY <1>1, <2>3, <2>4, RowInArrays
  <2>8. r = s
    BY <1>1, <2>3, <2>5, <2>6, <2>7, OneRow
  <2> QED BY <1>8, <2>3, <2>4, <2>8 DEF s
<1>9. ASSUME NEW p \in Places(i - 1, i - 1)
      PROVE  csr_column'[SlotOf(p)] = EntryAt(p).column /\ csr_data'[SlotOf(p)] = EntryAt(p).value
  <2> DEFINE r == EntryAt(p).row
             c == Count(p[1] - 1, p[1] - 1, r)
  <2>1. /\ r \in Rows /\ c \in Nat /\ c < Count(i - 1, i - 1, r) /\ Count(i - 1, i - 1, r) <= Total(r)
        /\ Total(r) \in Nat /\ Count(i - 1, i - 1, r) \in Nat
    BY <1>1, PlaceInRow
  <2>2. SlotOf(p) = csr_row_ptr[r] + c
    BY DEF SlotOf
  <2>3. counter[r] = Count(i - 1, i - 1, r)
    BY <1>1, <1>2, <2>1 DEF FillOK
  <2> HIDE DEF r, c
  <2>4. c \in 0 .. Total(r) - 1 /\ c # counter[r]
    BY <2>1, <2>3
  <2>5. SlotOf(p) \in Slots
    BY <1>1, <1>2, <2>1, <2>2, <2>4, RowInArrays DEF Slots
  <2>6. \A q \in New : SlotOf(p) # SlotOf(q)
    BY <1>8, <2>1, <2>2, <2>4
  <2>7. csr_column[SlotOf(p)] = EntryAt(p).column /\ csr_data[SlotOf(p)] = EntryAt(p).value
    BY <1>1 DEF FillOK
  <2> QED BY <1>7, <2>5, <2>6, <2>7
<1>10. \A p \in Places(i, i) : csr_column'[SlotOf(p)] = EntryAt(p).column /\ csr_data'[SlotOf(p)] = EntryAt(p).value
  BY <1>6, <1>7, <1>9
<1>11. ASSUME NEW r \in Rows, NEW c \in 0 .. counter'[r] - 1
       PROVE  \E p \in Have(i, i, r) : SlotOf(p) = csr_row_ptr[r] + c
  <2>1. counter[r] \in Nat /\ counter'[r] \in Nat
    BY <1>1, <1>2, <1>6
  <2>2. CASE c < counter[r]
    <3>1. c \in 0 .. counter[r] - 1
      BY <2>1, <2>2
    <3>2. PICK p \in Have(i - 1, i - 1, r) : SlotOf(p) = csr_row_ptr[r] + c
      BY <1>1, <3>1 DEF FillOK
    <3>3. p \in Have(i, i, r)
      BY <1>6 DEF Have
    <3> QED BY <3>2, <3>3
  <2>3. CASE c >= counter[r]
    <3>1. counter'[r] = counter[r] + (IF Said(file, i).row = r THEN 1 ELSE 0)
                          + (IF HasImage(i) /\ Said(file, i).column = r THEN 1 ELSE 0)
      BY <1>2, FillCounts
    <3>2. HasImage(i) => Said(file, i).row # Said(file, i).column
      BY DEF HasImage
    <3>3. c = counter[r] /\ (Said(file, i).row = r \/ (HasImage(i) /\ Said(file, i).column = r))
      BY <2>1, <2>3, <3>1, <3>2
    <3>4. PICK p \in New : EntryAt(p).row = r
      BY <3>3, AtPlace DEF New
    <3>5. SlotOf(p) = csr_row_ptr[r] + c
      BY <3>3, <3>4, NewSlotFree
    <3>6. p \in Have(i, i, r)
      BY <1>6, <3>4 DEF Have
    <3> QED BY <3>5, <3>6
  <2>4. c \in Int
    BY <2>1
  <2> QED BY <2>1, <2>2, <2>3, <2>4
<1>12. ASSUME NEW r \in Rows, NEW c \in counter'[r] .. Total(r) - 1
       PROVE  csr_column'[csr_row_ptr[r] + c] = Unset
  <2>1. counter[r] \in Nat /\ counter'[r] \in Nat /\ counter[r] <= counter'[r] /\ Total(r) \in Nat
    <3>1. counter[r] \in Nat /\ counter'[r] \in Nat
      BY <1>1, <1>2, <1>6
    <3>2. counter'[r] = counter[r] + (IF Said(file, i).row = r THEN 1 ELSE 0)
                          + (IF HasImage(i) /\ Said(file, i).column = r THEN 1 ELSE 0)
      BY <1>2, FillCounts
    <3>3. Total(r) \in Nat
      BY <1>1, PlacesAreFinite DEF Total
    <3> QED BY <3>1, <3>2, <3>3
  <2>2. c \in 0 .. Total(r) - 1 /\ c \in counter[r] .. Total(r) - 1
    BY <2>1
  <2>3. csr_row_ptr[r] + c \in Slots
    BY <1>1, <1>2, <2>1, <2>2, RowInArrays DEF Slots
  <2>4. csr_column[csr_row_ptr[r] + c] = Unset
    BY <1>1, <2>2 DEF FillOK
  <2>5. ASSUME NEW p \in New, csr_row_ptr[r] + c = SlotOf(p) PROVE FALSE
    <3>1. r = EntryAt(p).row /\ c = counter[r]
      BY <1>8, <2>2, <2>5
    <3>2. counter[r] < counter'[r]
      BY <1>2, <1>6, <3>1, NewSlotFree
    <3> QED BY <2>1, <3>1, <3>2
  <2> QED BY <1>7, <2>3, <2>4, <2>5
<1>13. FillOK'
  BY <1>2, <1>3, <1>4, <1>5, <1>6, <1>10, <1>11, <1>12 DEF FillOK
<1>14. ArraysOK'
  <2>1. Starts(csr_row_ptr, matrix.m)'
    BY <1>1, <1>2, <1>3 DEF Starts
  <2> QED BY <1>1, <1>2, <1>3, <1>7, <2>1 DEF ArraysOK
<1>15. HeaderOK' /\ EntriesOK'
  BY <1>1, <1>2, <1>3, <1>6 DEF HeaderOK, EntriesOK, Opened
<1> QED BY <1>1, <1>2, <1>3, <1>13, <1>14, <1>15 DEF RInv, ReadingOK, MirrorOK, ScanOK

(* The values are replaced, the places of the entries are not.             *)
LEMMA SetValuesStep ==
  ASSUME RInv, SetValues
  PROVE  RInv'
<1>1. /\ HeaderOK /\ EntriesOK /\ ArraysOK /\ Opened /\ reader_pc = "fill" /\ Complete(file)
      /\ DOMAIN csr_data = Slots
  BY DEF RInv, SetValues, Opened, ArraysOK
<1>2. /\ reader_pc' = "read" /\ UNCHANGED <<file, matrix, entries, counter, csr_row_ptr, csr_column>>
      /\ DOMAIN csr_data' = Slots
  BY <1>1 DEF SetValues
<1>3. /\ Complete(file)' /\ Symmetric(file)' = Symmetric(file) /\ Width(file)' = Width(file)
      /\ Rest' = Rest /\ Rows' = Rows /\ Slots' = Slots
      /\ \A k : Said(file, k)' = Said(file, k)
      /\ \A r : Total(r)' = Total(r)
  BY <1>1, <1>2, FileStays DEF Symmetric, Width, Rows, Total, Slots
<1>4. ArraysOK'
  <2>1. Starts(csr_row_ptr, matrix.m)'
    BY <1>1, <1>2, <1>3 DEF Starts, ArraysOK
  <2> QED BY <1>1, <1>2, <1>3, <2>1 DEF ArraysOK
<1>5. HeaderOK' /\ EntriesOK'
  BY <1>1, <1>2, <1>3 DEF HeaderOK, EntriesOK, Opened
<1> QED BY <1>2, <1>3, <1>4, <1>5 DEF RInv, ReadingOK, MirrorOK, ScanOK, FillOK

(* Nothing of the reader changes while it waits.                           *)
LEMMA ReaderWaits ==
  ASSUME RInv, UNCHANGED reader_vars
  PROVE  RInv'
<1>1. UNCHANGED <<file, reader_pc, matrix, numbers, i, entries, counter, old_val, csr_row_ptr, csr_column, csr_data>>
  BY DEF reader_vars, arrays
<1>2. /\ Complete(file)' = Complete(file) /\ Symmetric(file)' = Symmetric(file) /\ Width(file)' = Width(file)
      /\ Rest' = Rest /\ Rows' = Rows /\ Slots' = Slots
      /\ \A k : Said(file, k)' = Said(file, k)
      /\ \A p : EntryAt(p)' = EntryAt(p)
      /\ \A h, t : Places(h, t)' = Places(h, t)
      /\ \A h, t, r : Count(h, t, r)' = Count(h, t, r) /\ Have(h, t, r)' = Have(h, t, r)
      /\ \A r : Total(r)' = Total(r)
  BY <1>1, FileStays DEF Symmetric, Width, Rows, Total, Slots
<1>3. (\A p : SlotOf(p)' = SlotOf(p)) /\ Counted' = Counted /\ (Opened <=> Opened')
  BY <1>1, <1>2 DEF SlotOf, Counted, Opened
<1>4. \A c, n : Starts(c, n)' <=> Starts(c, n)
  BY <1>2 DEF Starts
<1>5. HeaderOK' /\ EntriesOK' /\ ReadingOK'
  BY <1>1, <1>2, <1>3 DEF RInv, HeaderOK, EntriesOK, ReadingOK
<1>6. MirrorOK'
  BY <1>1, <1>2 DEF RInv, MirrorOK
<1>7. ScanOK'
  BY <1>1, <1>2, <1>3, <1>4 DEF RInv, ScanOK, Starts
<1>8. ArraysOK'
  BY <1>1, <1>2, <1>4 DEF RInv, ArraysOK, Starts
<1>9. FillOK'
  BY <1>1, <1>2, <1>3 DEF RInv, FillOK
<1> QED BY <1>1, <1>2, <1>5, <1>6, <1>7, <1>8, <1>9 DEF RInv

-----------------------------------------------------------------------------
(* RInv is inductive.                                                      *)
LEMMA ReaderStepKeeps ==
  ASSUME RInv, [ReaderNext]_reader_vars
  PROVE  RInv'
  BY OpenStep, ReadEntryStep, EntriesReadStep, CountMirrorStep, ScanStep, AllocateStep, FillStep,
     SetValuesStep, ReaderWaits DEF ReaderNext

LEMMA ReaderStarts ==
  ASSUME ReaderStart, Complete(file)
  PROVE  RInv
  BY DEF ReaderStart, RInv, HeaderOK, EntriesOK, ReadingOK, MirrorOK, ScanOK, ArraysOK, FillOK, Opened

(* One step of the second walk writes slots that are free, and inside the  *)
(* arrays.                                                                 *)
LEMMA SlotsWrittenOnceStep ==
  ASSUME RInv, [ReaderNext]_reader_vars, reader_pc = "fill", reader_pc' = "fill"
  PROVE  /\ DOMAIN csr_column' = DOMAIN csr_column
         /\ \A slot \in DOMAIN csr_column :
              csr_column[slot] # Unset =>
                csr_column'[slot] = csr_column[slot] /\ csr_data'[slot] = csr_data[slot]
<1>1. CASE Fill
  <2>1. DOMAIN csr_column = Slots /\ DOMAIN csr_column' = Slots
    BY <1>1, AtFill, FillWrites
  <2>2. ASSUME NEW slot \in Slots, csr_column[slot] # Unset
        PROVE  csr_column'[slot] = csr_column[slot] /\ csr_data'[slot] = csr_data[slot]
    <3>1. \A p \in New : slot # SlotOf(p)
      BY <1>1, <2>2, NewSlotFree
    <3> QED BY <1>1, <3>1, FillWrites
  <2> QED BY <2>1, <2>2
<1>2. CASE UNCHANGED reader_vars
  BY <1>2 DEF reader_vars, arrays
<1>3. ReaderNext => Fill
  BY DEF ReaderNext, OpenMatrix, ReadEntry, EntriesRead, CountMirror, Scan, Allocate, SetValues
<1> QED BY <1>1, <1>2, <1>3

-----------------------------------------------------------------------------
(* When all entries are put, a slot has what is at its place.              *)
LEMMA AtEnd ==
  ASSUME RInv, reader_pc = "fill", i > matrix.nnz
  PROVE  /\ HeaderOK /\ Opened /\ FillOK /\ i - 1 = matrix.nnz
         /\ matrix.m \in Nat /\ matrix.nnz \in Nat /\ matrix.nnz \in 0 .. matrix.nnz
         /\ csr_row_ptr \in [0 .. matrix.m -> Nat] /\ Starts(csr_row_ptr, matrix.m)
         /\ \A r \in Rows : r \in 0 .. matrix.m /\ r \in 0 .. matrix.m - 1
         /\ \A r \in 0 .. matrix.m : counter[r] = Total(r) /\ Total(r) \in Nat
<1>1. HeaderOK /\ Opened /\ FillOK /\ ArraysOK
  BY DEF RInv, Opened
<1>2. matrix.m \in Nat /\ matrix.nnz \in Nat /\ i \in 1 .. matrix.nnz + 1
  BY <1>1 DEF HeaderOK, FillOK
<1>3. i - 1 = matrix.nnz
  BY <1>2
<1>4. csr_row_ptr \in [0 .. matrix.m -> Nat] /\ Starts(csr_row_ptr, matrix.m)
  BY <1>1 DEF ArraysOK
<1>5. \A r \in 0 .. matrix.m : counter[r] = Total(r) /\ Total(r) \in Nat
  BY <1>1, <1>2, <1>3, PlacesAreFinite DEF FillOK, Total
<1> QED BY <1>1, <1>2, <1>3, <1>4, <1>5 DEF Rows

LEMMA StoredAtPlace ==
  ASSUME RInv, reader_pc = "fill", i > matrix.nnz, NEW p \in Places(matrix.nnz, matrix.nnz)
  PROVE  /\ SlotOf(p) \in Slots /\ RowOf(SlotOf(p)) = EntryAt(p).row
         /\ EntryAt(p).row \in Rows /\ p[1] \in 1 .. matrix.nnz
         /\ Stored(SlotOf(p)) = EntryAt(p)
<1> DEFINE r == EntryAt(p).row
           k == Count(p[1] - 1, p[1] - 1, r)
           slot == SlotOf(p)
<1>1. /\ HeaderOK /\ Opened /\ FillOK /\ i - 1 = matrix.nnz /\ reader_pc = "fill"
      /\ matrix.m \in Nat /\ matrix.nnz \in Nat /\ matrix.nnz \in 0 .. matrix.nnz
      /\ csr_row_ptr \in [0 .. matrix.m -> Nat] /\ Starts(csr_row_ptr, matrix.m)
      /\ \A s \in Rows : s \in 0 .. matrix.m /\ s \in 0 .. matrix.m - 1
  BY AtEnd
<1>2. /\ r \in Rows /\ k \in Nat /\ k < Count(matrix.nnz, matrix.nnz, r) /\ p[1] \in 1 .. matrix.nnz
      /\ Count(matrix.nnz, matrix.nnz, r) = Total(r) /\ Total(r) \in Nat
  BY <1>1, PlaceInRow DEF Total
<1>3. slot = csr_row_ptr[r] + k
  BY DEF SlotOf
<1>4. csr_column[slot] = EntryAt(p).column /\ csr_data[slot] = EntryAt(p).value
  BY <1>1 DEF FillOK
<1>5. EntryAt(p) \in EntryRecord
  <2>1. Said(file, p[1]) \in EntryRecord
    BY <1>1, <1>2, SaidIs
  <2> QED BY <2>1 DEF EntryAt, EntryRecord
<1> HIDE DEF r, k, slot
<1>6. r \in 0 .. matrix.m - 1 /\ k \in 0 .. Total(r) - 1 /\ csr_row_ptr[r] \in Nat
  BY <1>1, <1>2
<1>7. slot \in Slots /\ csr_row_ptr[r] <= slot /\ slot < csr_row_ptr[r + 1] /\ slot \in Nat
  <2>1. csr_row_ptr[r] + k \in 0 .. csr_row_ptr[matrix.m] - 1 /\ csr_row_ptr[r] + k < csr_row_ptr[r + 1]
    BY <1>1, <1>2, <1>6, RowInArrays
  <2> QED BY <1>3, <1>6, <2>1 DEF Slots
<1>8. RowOf(slot) = r
  <2> DEFINE s == RowOf(slot)
  <2>1. s \in 0 .. matrix.m - 1 /\ csr_row_ptr[s] <= slot /\ slot < csr_row_ptr[s + 1]
    BY <1>6, <1>7 DEF RowOf
  <2> HIDE DEF s
  <2>2. s = r
    BY <1>1, <1>6, <1>7, <2>1, OneRow
  <2> QED BY <2>2 DEF s
<1>9. Stored(slot) = EntryAt(p)
  <2>1. Stored(slot) = [row |-> r, column |-> EntryAt(p).column, value |-> EntryAt(p).value]
    BY <1>4, <1>8 DEF Stored
  <2> QED BY <1>5, <2>1 DEF EntryRecord, r
<1> QED BY <1>2, <1>7, <1>8, <1>9 DEF r, slot

(* No two places share a slot.                                             *)
LEMMA PlacesDiffer ==
  ASSUME RInv, reader_pc = "fill", i > matrix.nnz,
         NEW p \in Places(matrix.nnz, matrix.nnz), NEW q \in Places(matrix.nnz, matrix.nnz),
         SlotOf(p) = SlotOf(q)
  PROVE  p = q
<1> DEFINE r == EntryAt(p).row
<1>1. /\ HeaderOK /\ Opened /\ matrix.nnz \in Nat /\ matrix.nnz \in 0 .. matrix.nnz
      /\ csr_row_ptr \in [0 .. matrix.m -> Nat]
      /\ \A s \in Rows : s \in 0 .. matrix.m
  BY AtEnd
<1>2. r \in Rows /\ EntryAt(q).row = r /\ p[1] \in 1 .. matrix.nnz /\ q[1] \in 1 .. matrix.nnz
  BY StoredAtPlace
<1>3. Count(p[1] - 1, p[1] - 1, r) = Count(q[1] - 1, q[1] - 1, r)
  <2> DEFINE a == Count(p[1] - 1, p[1] - 1, r)
             b == Count(q[1] - 1, q[1] - 1, r)
  <2>1. SlotOf(p) = csr_row_ptr[r] + a /\ a \in Nat
    BY <1>1, PlaceInRow DEF SlotOf
  <2>2. SlotOf(q) = csr_row_ptr[r] + b /\ b \in Nat
    BY <1>1, <1>2, PlaceInRow DEF SlotOf
  <2>3. csr_row_ptr[r] \in Nat
    BY <1>1, <1>2
  <2> HIDE DEF r, a, b
  <2> DEFINE start == csr_row_ptr[r]
  <2>4. start + a = start + b /\ start \in Nat /\ a \in Nat /\ b \in Nat
    BY <2>1, <2>2, <2>3
  <2> HIDE DEF start
  <2>5. a = b
    BY ONLY <2>4
  <2> QED BY <2>5 DEF a, b
<1>4. PICK k \in 1 .. matrix.nnz : p = <<k, "entry">> \/ (HasImage(k) /\ p = <<k, "image">>)
  BY <1>1, PlacesAre
<1>5. PICK j \in 1 .. matrix.nnz : q = <<j, "entry">> \/ (HasImage(j) /\ q = <<j, "image">>)
  BY <1>1, PlacesAre
<1>6. ASSUME NEW a \in Places(matrix.nnz, matrix.nnz), NEW b \in 1 .. matrix.nnz,
             EntryAt(a).row = r, a[1] \in 1 .. matrix.nnz, a[1] < b
      PROVE  Count(a[1] - 1, a[1] - 1, r) < Count(b - 1, b - 1, r)
  <2>1. b - 1 \in 0 .. matrix.nnz /\ a[1] <= b - 1
    BY <1>1, <1>6
  <2>2. a \in Places(b - 1, b - 1)
    <3>1. b - 1 \in Nat
      BY <1>1
    <3>2. PICK l \in 1 .. matrix.nnz : a = <<l, "entry">> \/ (HasImage(l) /\ a = <<l, "image">>)
      BY <1>1, PlacesAre
    <3>3. l \in 1 .. b - 1
      BY <1>1, <2>1, <3>2
    <3> QED BY <3>1, <3>2, <3>3, PlacesAre
  <2> QED BY <1>1, <1>6, <2>1, <2>2, PlaceInRow
<1>7. k = j
  <2>1. p[1] = k /\ q[1] = j
    BY <1>4, <1>5
  <2>2. ~ (k < j)
    <3> SUFFICES ASSUME k < j PROVE FALSE
      OBVIOUS
    <3>1. Count(k - 1, k - 1, r) < Count(j - 1, j - 1, r)
      BY <1>2, <1>6, <2>1
    <3>2. Count(k - 1, k - 1, r) \in Nat /\ Count(j - 1, j - 1, r) \in Nat
      BY <1>1, PlacesAreFinite
    <3> QED BY <1>3, <2>1, <3>1, <3>2
  <2>3. ~ (j < k)
    <3> SUFFICES ASSUME j < k PROVE FALSE
      OBVIOUS
    <3>1. Count(j - 1, j - 1, r) < Count(k - 1, k - 1, r)
      BY <1>2, <1>6, <2>1
    <3>2. Count(k - 1, k - 1, r) \in Nat /\ Count(j - 1, j - 1, r) \in Nat
      BY <1>1, PlacesAreFinite
    <3> QED BY <1>3, <2>1, <3>1, <3>2
  <2> QED BY <2>2, <2>3
<1>8. CASE HasImage(k) /\ p # q
  <2>1. Said(file, k).row = Said(file, k).column
    BY <1>2, <1>4, <1>5, <1>7, <1>8, AtPlace
  <2> QED BY <1>8, <2>1 DEF HasImage
<1> QED BY <1>4, <1>5, <1>7, <1>8

(* Every slot is that of a place.                                          *)
LEMMA SlotHasPlace ==
  ASSUME RInv, reader_pc = "fill", i > matrix.nnz, NEW slot \in Slots
  PROVE  \E p \in Places(matrix.nnz, matrix.nnz) : SlotOf(p) = slot
<1>1. /\ FillOK /\ i - 1 = matrix.nnz /\ reader_pc = "fill" /\ matrix.m \in Nat
      /\ csr_row_ptr \in [0 .. matrix.m -> Nat] /\ Starts(csr_row_ptr, matrix.m)
      /\ \A r \in 0 .. matrix.m : counter[r] = Total(r) /\ Total(r) \in Nat
  BY AtEnd
<1>2. PICK r \in 0 .. matrix.m - 1 : csr_row_ptr[r] <= slot /\ slot < csr_row_ptr[r + 1]
  BY <1>1 DEF Starts, Slots
<1>3. /\ csr_row_ptr[r + 1] = csr_row_ptr[r] + Total(r) /\ counter[r] = Total(r) /\ Total(r) \in Nat
      /\ csr_row_ptr[r] \in Nat /\ r \in Rows
  <2>1. r \in 0 .. matrix.m /\ r \in Rows
    BY <1>1 DEF Rows
  <2> QED BY <1>1, <2>1 DEF Starts
<1> DEFINE c == slot - csr_row_ptr[r]
<1>4. c \in 0 .. counter[r] - 1 /\ csr_row_ptr[r] + c = slot
  BY <1>2, <1>3 DEF Slots
<1> HIDE DEF c
<1>5. PICK p \in Have(matrix.nnz, matrix.nnz, r) : SlotOf(p) = csr_row_ptr[r] + c
  BY <1>1, <1>3, <1>4 DEF FillOK
<1> QED BY <1>4, <1>5 DEF Have

(* The arrays hold the matrix of the file.                                 *)
LEMMA RInvPlaces == RInv => EntriesPlaced
<1> SUFFICES ASSUME RInv, reader_pc = "fill", i > matrix.nnz, NEW e
             PROVE  Cardinality({slot \in Slots : Stored(slot) = e})
                      = Cardinality({p \in Places(matrix.nnz, matrix.nnz) : EntryAt(p) = e})
  BY DEF EntriesPlaced
<1> DEFINE places == Places(matrix.nnz, matrix.nnz)
           S == {p \in places : EntryAt(p) = e}
           T == {slot \in Slots : Stored(slot) = e}
           f == [p \in S |-> SlotOf(p)]
<1>1. f \in [S -> T]
  BY StoredAtPlace
<1>2. \A p, q \in S : f[p] = f[q] => p = q
  BY PlacesDiffer
<1>3. \A slot \in T : \E p \in S : f[p] = slot
  <2> TAKE slot \in T
  <2>1. PICK p \in places : SlotOf(p) = slot
    BY SlotHasPlace
  <2>2. EntryAt(p) = e
    BY <2>1, StoredAtPlace
  <2> QED BY <2>1, <2>2
<1>4. f \in Bijection(S, T)
  BY <1>1, <1>2, <1>3 DEF Bijection, Injection, IsInjective, Surjection
<1>5. IsFiniteSet(S)
  <2>1. IsFiniteSet(places)
    BY AtEnd, PlacesAreFinite
  <2> QED BY <2>1, FS_Subset
<1> QED BY <1>4, <1>5, FS_Bijection DEF ExistsBijection

-----------------------------------------------------------------------------
(* The applications.                                                       *)

(* The locations of y, and the elements up to n that are added at one.     *)
Locations == 0 .. (IF app = "spmv" THEN matrix.m ELSE graph.nnodes) - 1
AddedAt(n, location) == {e \in 0 .. n - 1 : Target(e) = location}
SumsUpTo(n) == [location \in Locations |-> Terms(AddedAt(n, location))]

(* What the program does after the input is read.                          *)
Running == app_pc \in {"reference", "kernel", "tail", "check", "Correct", "False"}

(* The matrix is read before anything is done with it.                     *)
SpmvOK ==
  app = "spmv" =>
    /\ app_pc = "matrix" \/ (app_pc = "refused" /\ reader_pc = "refused")
         \/ (reader_pc = "read" /\ (app_pc = "expand" \/ Running))
    /\ app_pc = "matrix" => row_i = 0
    /\ (app_pc = "expand" \/ Running) =>
         /\ row_i \in 0 .. matrix.m /\ (Running => row_i = matrix.m)
         /\ DOMAIN row_ptr_all = Slots
         /\ \A r \in 0 .. row_i - 1 :
              \A slot \in csr_row_ptr[r] .. csr_row_ptr[r + 1] - 1 : row_ptr_all[slot] = r

(* The edges that begin at a node, of the first t.                         *)
EdgesFrom(t, n) == {k \in 0 .. t - 1 : graph.edges[k + 1][1] = n}

PagerankOK ==
  app = "pagerank" =>
    /\ graph \in Graphs
    /\ app_pc \in {"header", "edges", "undefined"} \/ Running
    /\ app_pc = "header" => edges_read = 0
    /\ (app_pc = "edges" \/ Running) =>
         /\ edges_read \in 0 .. graph.nedges /\ edges_read <= Len(graph.edges)
         /\ DOMAIN n1 = 0 .. graph.nedges - 1 /\ DOMAIN n2 = 0 .. graph.nedges - 1
         /\ DOMAIN nneibor = 0 .. graph.nnodes - 1
         /\ \A t \in 0 .. edges_read - 1 : n1[t] = graph.edges[t + 1][1] /\ n2[t] = graph.edges[t + 1][2]
         /\ \A n \in 0 .. graph.nnodes - 1 : nneibor[n] = Cardinality(EdgesFrom(edges_read, n))
    /\ Running => edges_read = graph.nedges /\ edges_read = Len(graph.edges)

(* What has been added to y_bak and to y so far.                           *)
SumsOK ==
  /\ app_pc = "expand" => y = SumsUpTo(0) /\ y_bak = SumsUpTo(0)
  /\ Running =>
       /\ y_bak = SumsUpTo(IF app_pc = "reference" THEN 0 ELSE Num)
       /\ y = SumsUpTo(IF app_pc \in {"reference", "kernel"} THEN 0
                       ELSE IF app_pc = "tail" THEN TailBegin ELSE Num)
  /\ app_pc # "False"

AInv == app \in {"spmv", "pagerank"} /\ RInv /\ SpmvOK /\ PagerankOK /\ SumsOK

-----------------------------------------------------------------------------
(* Adding the terms of nothing is adding nothing.                          *)
LEMMA TermsOfNothing == Terms({}) = EmptyBag
<1>1. {Term(e) : e \in {}} = {}
  OBVIOUS
<1>2. Terms({}) = [t \in {} |-> Cardinality({e \in {} : Term(e) = t})]
  BY <1>1 DEF Terms
<1>3. EmptyBag = [t \in {} |-> 1]
  BY DEF EmptyBag, SetToBag
<1> QED BY <1>2, <1>3

(* The terms of two sets of elements together are those of their union.    *)
LEMMA TermsTogether ==
  ASSUME NEW S, NEW T, IsFiniteSet(S), IsFiniteSet(T), S \cap T = {}
  PROVE  Terms(S) (+) Terms(T) = Terms(S \cup T)
<1> DEFINE With(Q, t) == {e \in Q : Term(e) = t}
           Dom(Q) == {Term(e) : e \in Q}
<1>1. ASSUME NEW t
      PROVE  /\ Cardinality(With(S \cup T, t)) = Cardinality(With(S, t)) + Cardinality(With(T, t))
             /\ (t \notin Dom(S) => Cardinality(With(S, t)) = 0)
             /\ (t \notin Dom(T) => Cardinality(With(T, t)) = 0)
  <2>1. IsFiniteSet(With(S, t)) /\ IsFiniteSet(With(T, t))
    BY FS_Subset
  <2>2. With(S, t) \cup With(T, t) = With(S \cup T, t) /\ With(S, t) \cap With(T, t) = {}
    OBVIOUS
  <2>3. Cardinality(With(S, t)) \in Nat /\ Cardinality(With(T, t)) \in Nat
    BY <2>1, FS_CardinalityType
  <2>4. (t \notin Dom(S) => With(S, t) = {}) /\ (t \notin Dom(T) => With(T, t) = {})
    OBVIOUS
  <2>5. Cardinality(With(S \cup T, t)) = Cardinality(With(S, t)) + Cardinality(With(T, t)) - Cardinality({})
    BY <2>1, <2>2, FS_Union
  <2> HIDE DEF With, Dom
  <2>6. Cardinality({}) = 0
    BY FS_EmptySet
  <2>7. Cardinality(With(S \cup T, t)) = Cardinality(With(S, t)) + Cardinality(With(T, t))
    BY <2>3, <2>5, <2>6
  <2> QED BY <2>4, <2>6, <2>7
<1>2. ASSUME NEW Q
      PROVE  Terms(Q) = [t \in Dom(Q) |-> Cardinality(With(Q, t))]
  BY DEF Terms
<1>3. Dom(S \cup T) = Dom(S) \cup Dom(T)
  OBVIOUS
<1>4. ASSUME NEW t
      PROVE  /\ Cardinality(With(S, t)) \in Nat /\ Cardinality(With(T, t)) \in Nat
  BY FS_Subset, FS_CardinalityType
<1> HIDE DEF With, Dom
<1>5. Terms(S) (+) Terms(T) =
        [t \in Dom(S) \cup Dom(T) |->
           (IF t \in Dom(S) THEN Terms(S)[t] ELSE 0) + (IF t \in Dom(T) THEN Terms(T)[t] ELSE 0)]
  BY <1>2 DEF (+)
<1>6. ASSUME NEW t \in Dom(S) \cup Dom(T)
      PROVE  (IF t \in Dom(S) THEN Terms(S)[t] ELSE 0) + (IF t \in Dom(T) THEN Terms(T)[t] ELSE 0)
               = Cardinality(With(S \cup T, t))
  <2>1. (IF t \in Dom(S) THEN Terms(S)[t] ELSE 0) = Cardinality(With(S, t))
    BY <1>1, <1>2
  <2>2. (IF t \in Dom(T) THEN Terms(T)[t] ELSE 0) = Cardinality(With(T, t))
    BY <1>1, <1>2
  <2> QED BY <1>1, <2>1, <2>2
<1> QED BY <1>2, <1>3, <1>5, <1>6

(* Nothing is added yet; then, elements up to a number are added to those  *)
(* up to a smaller one.                                                    *)
LEMMA SumsBegin ==
  SumsUpTo(0) = [location \in Locations |-> EmptyBag]
<1>1. \A location : AddedAt(0, location) = {}
  BY DEF AddedAt
<1> QED BY <1>1, TermsOfNothing DEF SumsUpTo

LEMMA SumsGrow ==
  ASSUME NEW k \in Nat, NEW n \in Nat, k <= n
  PROVE  Added(SumsUpTo(k), k .. n - 1) = SumsUpTo(n)
<1> DEFINE More(location) == {e \in k .. n - 1 : Target(e) = location}
<1>1. ASSUME NEW location
      PROVE  Terms(AddedAt(k, location)) (+) Terms(More(location)) = Terms(AddedAt(n, location))
  <2>1. IsFiniteSet(0 .. k - 1) /\ IsFiniteSet(k .. n - 1)
    BY FS_Interval
  <2>2. IsFiniteSet(AddedAt(k, location)) /\ IsFiniteSet(More(location))
    BY <2>1, FS_Subset DEF AddedAt
  <2>3. 0 .. n - 1 = (0 .. k - 1) \cup (k .. n - 1) /\ (0 .. k - 1) \cap (k .. n - 1) = {}
    OBVIOUS
  <2>4. /\ AddedAt(k, location) \cap More(location) = {}
        /\ AddedAt(k, location) \cup More(location) = AddedAt(n, location)
    BY <2>3 DEF AddedAt
  <2> HIDE DEF More
  <2> QED BY <2>2, <2>4, TermsTogether
<1>2. Added(SumsUpTo(k), k .. n - 1) =
        [location \in Locations |-> SumsUpTo(k)[location] (+) Terms(More(location))]
  BY DEF Added, SumsUpTo
<1> HIDE DEF More
<1> QED BY <1>1, <1>2 DEF SumsUpTo

-----------------------------------------------------------------------------
(* The arrays of a matrix that is read.                                    *)
LEMMA MatrixRead ==
  ASSUME RInv, reader_pc = "read"
  PROVE  /\ matrix.m \in Nat /\ csr_row_ptr \in [0 .. matrix.m -> Nat] /\ Starts(csr_row_ptr, matrix.m)
         /\ DataNum \in Nat /\ Slots = 0 .. DataNum - 1
<1>1. HeaderOK /\ ArraysOK /\ Opened
  BY DEF RInv, Opened
<1>2. matrix.m \in Nat /\ csr_row_ptr \in [0 .. matrix.m -> Nat] /\ Starts(csr_row_ptr, matrix.m)
  BY <1>1 DEF HeaderOK, ArraysOK
<1>3. matrix.m \in 0 .. matrix.m
  BY <1>2
<1> QED BY <1>2, <1>3 DEF DataNum, Slots

(* There is a number of elements, and a part of them are whole columns.    *)
LEMMA NumIs ==
  ASSUME AInv, Running
  PROVE  Num \in Nat /\ TailBegin \in 0 .. Num /\ ColumnNum * VectorNums = TailBegin
<1>1. Num \in Nat
  <2>1. CASE app = "spmv"
    <3>1. reader_pc = "read" /\ RInv
      BY <2>1 DEF AInv, SpmvOK, Running
    <3> QED BY <2>1, <3>1, MatrixRead DEF Num
  <2>2. CASE app = "pagerank"
    <3>1. graph \in Graphs
      BY <2>2 DEF AInv, PagerankOK
    <3> QED BY <2>2, <3>1, GraphsAssumption DEF Num
  <2> QED BY <2>1, <2>2 DEF AInv
<1>2. ASSUME NEW n \in Nat, NEW v \in Nat \ {0}
      PROVE  (n \div v) * v \in 0 .. n
  <2> DEFINE q == n \div v
  <2>1. q \in Nat /\ v * q <= n
    OBVIOUS
  <2> HIDE DEF q
  <2>2. q * v = v * q /\ q * v \in Nat
    BY <2>1
  <2> QED BY <2>1, <2>2 DEF q
<1> QED BY <1>1, <1>2, VectorNumsAssumption DEF TailBegin, ColumnNum

(* In y, the slots of a row are those that row_ptr_all says.               *)
LEMMA SlotsOfRow ==
  ASSUME AInv, app = "spmv", Running, NEW row \in Locations
  PROVE  AddedAt(Num, row) = csr_row_ptr[row] .. csr_row_ptr[row + 1] - 1
<1>1. /\ RInv /\ reader_pc = "read" /\ row_i = matrix.m
      /\ \A r \in 0 .. row_i - 1 :
           \A slot \in csr_row_ptr[r] .. csr_row_ptr[r + 1] - 1 : row_ptr_all[slot] = r
  BY DEF AInv, SpmvOK, Running
<1>2. /\ matrix.m \in Nat /\ csr_row_ptr \in [0 .. matrix.m -> Nat] /\ Starts(csr_row_ptr, matrix.m)
      /\ DataNum = csr_row_ptr[matrix.m]
  BY <1>1, MatrixRead DEF DataNum
<1>3. row \in 0 .. matrix.m - 1 /\ row \in 0 .. matrix.m /\ row + 1 \in 0 .. matrix.m
      /\ matrix.m \in 0 .. matrix.m
  BY <1>2 DEF Locations
<1>4. Num = csr_row_ptr[matrix.m] /\ \A slot : Target(slot) = row_ptr_all[slot]
  BY <1>2 DEF Num, Target
<1>5. csr_row_ptr[row + 1] <= csr_row_ptr[matrix.m] /\ csr_row_ptr[row] \in Nat /\ csr_row_ptr[matrix.m] \in Nat
      /\ csr_row_ptr[row + 1] \in Nat
  <2>1. \A r \in 0 .. matrix.m : csr_row_ptr[r] \in Nat
    BY <1>2
  <2>2. \A r, s \in 0 .. matrix.m : r <= s => csr_row_ptr[r] <= csr_row_ptr[s]
    BY <1>2 DEF Starts
  <2>3. row + 1 <= matrix.m
    BY <1>2, <1>3
  <2> QED BY <1>3, <2>1, <2>2, <2>3
<1>6. ASSUME NEW slot \in 0 .. Num - 1, Target(slot) = row
      PROVE  slot \in csr_row_ptr[row] .. csr_row_ptr[row + 1] - 1
  <2>1. PICK r \in 0 .. matrix.m - 1 : csr_row_ptr[r] <= slot /\ slot < csr_row_ptr[r + 1]
    BY <1>2, <1>4 DEF Starts
  <2>2. csr_row_ptr[r] \in Nat /\ csr_row_ptr[r + 1] \in Nat
    BY <1>2
  <2>3. slot \in csr_row_ptr[r] .. csr_row_ptr[r + 1] - 1
    BY <2>1, <2>2
  <2>4. r = row
    BY <1>1, <1>4, <1>6, <2>3
  <2> QED BY <2>3, <2>4
<1>7. ASSUME NEW slot \in csr_row_ptr[row] .. csr_row_ptr[row + 1] - 1
      PROVE  slot \in 0 .. Num - 1 /\ Target(slot) = row
  <2>1. slot \in 0 .. Num - 1
    BY <1>4, <1>5
  <2> QED BY <1>1, <1>3, <1>4, <2>1
<1> QED BY <1>6, <1>7 DEF AddedAt

(* What is added, and where, depends on the input alone.                   *)
LEMMA InputStays ==
  ASSUME UNCHANGED <<reader_vars, graph_vars, expand_vars, app>>
  PROVE  /\ RInv => RInv'
         /\ Num' = Num /\ TailBegin' = TailBegin /\ Locations' = Locations /\ Slots' = Slots
         /\ \A n : SumsUpTo(n)' = SumsUpTo(n)
         /\ \A t, n : EdgesFrom(t, n)' = EdgesFrom(t, n)
         /\ UNCHANGED <<matrix, reader_pc, csr_row_ptr, row_i, row_ptr_all, app>>
         /\ UNCHANGED <<graph, edges_read, n1, n2, nneibor>>
<1>1. /\ UNCHANGED <<matrix, reader_pc, csr_row_ptr, csr_column, csr_data, row_i, row_ptr_all, app>>
      /\ UNCHANGED <<graph, edges_read, n1, n2, nneibor>>
  BY DEF reader_vars, arrays, graph_vars, expand_vars
<1>2. RInv => RInv'
  BY ReaderWaits
<1>3. Num' = Num /\ TailBegin' = TailBegin /\ Locations' = Locations /\ Slots' = Slots
  BY <1>1 DEF Num, DataNum, TailBegin, Locations, Slots
<1>4. \A e : Target(e)' = Target(e) /\ Term(e)' = Term(e)
  BY <1>1 DEF Target, Term
<1>5. \A S : Terms(S)' = Terms(S)
  BY <1>4 DEF Terms
<1>6. \A n, location : AddedAt(n, location)' = AddedAt(n, location)
  BY <1>4 DEF AddedAt
<1>7. \A n : SumsUpTo(n)' = SumsUpTo(n)
  BY <1>3, <1>5, <1>6 DEF SumsUpTo
<1>8. \A t, n : EdgesFrom(t, n)' = EdgesFrom(t, n)
  BY <1>1 DEF EdgesFrom
<1> QED BY <1>1, <1>2, <1>3, <1>7, <1>8

(* While the input stays, SpmvOK and PagerankOK depend on the phase alone. *)
LEMMA PhaseMoves ==
  ASSUME AInv, UNCHANGED <<reader_vars, graph_vars, expand_vars, app>>,
         Running, Running'
  PROVE  RInv' /\ SpmvOK' /\ PagerankOK'
  BY InputStays DEF AInv, SpmvOK, PagerankOK, Running

-----------------------------------------------------------------------------
(* The matrix is read, or refused.                                         *)
LEMMA ReadMatrixStep ==
  ASSUME AInv, ReadMatrix
  PROVE  AInv'
<1>1. app_pc = "matrix" /\ app = "spmv" /\ app' = app /\ RInv
  BY DEF AInv, PagerankOK, Running, ReadMatrix, app_vars
<1>2. PagerankOK'
  BY <1>1 DEF PagerankOK
<1>6. row_i = 0
  BY <1>1 DEF AInv, SpmvOK
<1>3. CASE ReaderNext /\ UNCHANGED <<graph_vars, expand_vars, app_vars>>
  <2>1. RInv' /\ app_pc' = "matrix" /\ row_i' = 0
    BY <1>1, <1>3, <1>6, ReaderStepKeeps DEF app_vars, expand_vars
  <2> QED BY <1>1, <1>2, <2>1 DEF AInv, SpmvOK, SumsOK, Running
<1>4. CASE reader_pc = "refused" /\ app_pc' = "refused" /\ UNCHANGED <<reader_vars, app>>
  <2>1. RInv' /\ reader_pc' = "refused"
    BY <1>1, <1>4, ReaderWaits DEF reader_vars
  <2> QED BY <1>1, <1>2, <1>4, <2>1 DEF AInv, SpmvOK, SumsOK, Running
<1>5. CASE /\ reader_pc = "read"
           /\ y' = Zeros(matrix.m) /\ y_bak' = Zeros(matrix.m)
           /\ row_ptr_all' = [slot \in 0 .. DataNum - 1 |-> Unset]
           /\ app_pc' = "expand"
           /\ UNCHANGED <<reader_vars, graph_vars, row_i, app>>
  <2>1. RInv' /\ UNCHANGED <<reader_pc, matrix, csr_row_ptr>>
    BY <1>1, <1>5, ReaderWaits DEF reader_vars, arrays
  <2>2. /\ matrix.m \in Nat /\ csr_row_ptr \in [0 .. matrix.m -> Nat] /\ Starts(csr_row_ptr, matrix.m)
        /\ DataNum \in Nat /\ Slots = 0 .. DataNum - 1 /\ Slots' = Slots
    BY <1>1, <1>5, <2>1, MatrixRead DEF Slots
  <2>3. DOMAIN row_ptr_all' = Slots' /\ row_i' = 0 /\ row_i' \in 0 .. matrix'.m /\ app_pc' = "expand"
    BY <1>5, <1>6, <2>1, <2>2
  <2>4. SpmvOK'
    BY <1>1, <1>5, <2>1, <2>2, <2>3 DEF SpmvOK, Running
  <2>5. SumsUpTo(0)' = Zeros(matrix.m)
    <3>1. Locations' = 0 .. matrix.m - 1
      BY <1>1, <2>1 DEF Locations
    <3>2. (SumsUpTo(0) = [location \in Locations |-> EmptyBag])'
      BY SumsBegin, PTL
    <3> QED BY <3>1, <3>2 DEF Zeros
  <2>6. SumsOK'
    BY <1>5, <2>5 DEF SumsOK, Running
  <2> QED BY <1>1, <1>2, <2>1, <2>4, <2>6 DEF AInv
<1> QED BY <1>3, <1>4, <1>5, <1>1 DEF ReadMatrix

(* The slots of one row more know their row.                               *)
LEMMA ExpandRowStep ==
  ASSUME AInv, ExpandRow
  PROVE  AInv'
<1>1. /\ app_pc = "expand" /\ app_pc' = "expand" /\ app = "spmv" /\ app' = app /\ RInv /\ reader_pc = "read"
      /\ row_i \in 0 .. matrix.m /\ row_i < matrix.m /\ row_i' = row_i + 1 /\ DOMAIN row_ptr_all = Slots
      /\ \A r \in 0 .. row_i - 1 :
           \A slot \in csr_row_ptr[r] .. csr_row_ptr[r + 1] - 1 : row_ptr_all[slot] = r
      /\ y = SumsUpTo(0) /\ y_bak = SumsUpTo(0)
  BY DEF AInv, SpmvOK, PagerankOK, SumsOK, Running, ExpandRow, app_vars
<1>2. /\ UNCHANGED <<reader_pc, matrix, csr_row_ptr, y, y_bak>> /\ RInv'
      /\ row_ptr_all' = [slot \in Slots |->
                           IF slot \in csr_row_ptr[row_i] .. csr_row_ptr[row_i + 1] - 1 THEN row_i
                           ELSE row_ptr_all[slot]]
  BY <1>1, ReaderWaits DEF ExpandRow, reader_vars, arrays, app_vars
<1>3. /\ matrix.m \in Nat /\ csr_row_ptr \in [0 .. matrix.m -> Nat] /\ Starts(csr_row_ptr, matrix.m)
      /\ DataNum \in Nat /\ Slots = 0 .. DataNum - 1 /\ Slots' = Slots /\ DataNum = csr_row_ptr[matrix.m]
  BY <1>1, <1>2, MatrixRead DEF Slots, DataNum
<1>4. /\ \A r \in 0 .. matrix.m : csr_row_ptr[r] \in Nat
      /\ \A r, s \in 0 .. matrix.m : r <= s => csr_row_ptr[r] <= csr_row_ptr[s]
  BY <1>3 DEF Starts
<1>5. ASSUME NEW r \in 0 .. row_i, NEW slot \in csr_row_ptr[r] .. csr_row_ptr[r + 1] - 1
      PROVE  row_ptr_all'[slot] = r
  <2>1. /\ r \in 0 .. matrix.m /\ r + 1 \in 0 .. matrix.m /\ matrix.m \in 0 .. matrix.m /\ r + 1 <= matrix.m
        /\ row_i \in 0 .. matrix.m /\ row_i + 1 \in 0 .. matrix.m
    BY <1>1, <1>3
  <2>2. csr_row_ptr[r] \in Nat /\ csr_row_ptr[r + 1] \in Nat /\ csr_row_ptr[r + 1] <= csr_row_ptr[matrix.m]
    BY <1>4, <2>1
  <2>3. slot \in Slots
    BY <1>3, <1>4, <2>1, <2>2
  <2>4. CASE r = row_i
    BY <1>2, <2>3, <2>4
  <2>5. CASE r # row_i
    <3>1. r \in 0 .. row_i - 1 /\ r + 1 <= row_i
      BY <1>1, <2>5
    <3>2. csr_row_ptr[r + 1] <= csr_row_ptr[row_i] /\ csr_row_ptr[row_i] \in Nat
      BY <1>4, <2>1, <3>1
    <3>3. slot \notin csr_row_ptr[row_i] .. csr_row_ptr[row_i + 1] - 1
      BY <2>2, <3>2
    <3> QED BY <1>1, <1>2, <2>3, <3>1, <3>3
  <2> QED BY <2>4, <2>5
<1>6. SpmvOK'
  <2>1. row_i' \in 0 .. matrix.m /\ row_i' - 1 = row_i
    BY <1>1, <1>3
  <2>2. DOMAIN row_ptr_all' = Slots'
    BY <1>2, <1>3
  <2>3. \A r \in 0 .. row_i' - 1 :
          \A slot \in csr_row_ptr[r] .. csr_row_ptr[r + 1] - 1 : row_ptr_all'[slot] = r
    BY <1>5, <2>1
  <2> QED BY <1>1, <1>2, <2>1, <2>2, <2>3 DEF SpmvOK, Running
<1>7. SumsUpTo(0)' = SumsUpTo(0)
  <2>1. Locations' = Locations
    BY <1>1, <1>2 DEF Locations
  <2>2. (SumsUpTo(0) = [location \in Locations |-> EmptyBag])'
    BY SumsBegin, PTL
  <2>3. SumsUpTo(0) = [location \in Locations |-> EmptyBag]
    BY SumsBegin
  <2> QED BY <2>1, <2>2, <2>3
<1>8. SumsOK'
  BY <1>1, <1>2, <1>7 DEF SumsOK, Running
<1>9. PagerankOK'
  BY <1>1 DEF PagerankOK
<1> QED BY <1>1, <1>2, <1>6, <1>8, <1>9 DEF AInv

LEMMA ExpandedStep ==
  ASSUME AInv, Expanded
  PROVE  AInv'
<1>1. /\ app_pc = "expand" /\ app_pc' = "reference" /\ row_i = matrix.m
      /\ UNCHANGED <<reader_vars, graph_vars, expand_vars, app, y, y_bak>> /\ app = "spmv"
  BY DEF Expanded, AInv, PagerankOK, Running
<1>2. RInv' /\ SpmvOK'
  BY <1>1, InputStays DEF AInv, SpmvOK, Running
<1>3. PagerankOK' /\ SumsOK'
  BY <1>1, InputStays DEF AInv, PagerankOK, SumsOK, Running
<1> QED BY <1>1, <1>2, <1>3 DEF AInv

(* The edges of a graph connect its nodes.                                 *)
LEMMA GraphIs ==
  ASSUME NEW g \in Graphs
  PROVE  /\ g.nnodes \in Nat /\ g.nedges \in Nat /\ Len(g.edges) \in Nat
         /\ \A t \in 0 .. Len(g.edges) - 1 :
              g.edges[t + 1][1] \in 0 .. g.nnodes - 1 /\ g.edges[t + 1][2] \in 0 .. g.nnodes - 1
<1> DEFINE Nodes == 0 .. g.nnodes - 1
<1>1. g.edges \in Seq(Nodes \X Nodes) /\ g.nnodes \in Nat /\ g.nedges \in Nat
  BY GraphsAssumption
<1>2. ASSUME NEW S, NEW s \in Seq(S)
      PROVE  Len(s) \in Nat /\ \A t \in 0 .. Len(s) - 1 : s[t + 1] \in S
  OBVIOUS
<1>3. \A e \in Nodes \X Nodes : e[1] \in Nodes /\ e[2] \in Nodes
  OBVIOUS
<1> HIDE DEF Nodes
<1>4. Len(g.edges) \in Nat /\ \A t \in 0 .. Len(g.edges) - 1 : g.edges[t + 1] \in Nodes \X Nodes
  BY <1>1, <1>2
<1> QED BY <1>1, <1>3, <1>4 DEF Nodes

(* pagerank_read begins with arrays of the sizes that the header says.     *)
LEMMA ReadHeaderStep ==
  ASSUME AInv, ReadHeader
  PROVE  AInv'
<1>1. /\ app_pc = "header" /\ app_pc' = "edges" /\ app = "pagerank" /\ app' = app
      /\ graph \in Graphs /\ graph' = graph /\ edges_read = 0 /\ edges_read' = 0
      /\ n1' = [t \in 0 .. graph.nedges - 1 |-> Unset] /\ n2' = [t \in 0 .. graph.nedges - 1 |-> Unset]
      /\ nneibor' = [n \in 0 .. graph.nnodes - 1 |-> 0]
      /\ RInv'
  BY ReaderWaits DEF AInv, SpmvOK, PagerankOK, Running, ReadHeader
<1>2. graph.nedges \in Nat /\ Len(graph.edges) \in Nat
  BY <1>1, GraphIs
<1>3. \A n : EdgesFrom(0, n)' = {}
  BY DEF EdgesFrom
<1>4. \A n \in 0 .. graph.nnodes - 1 : nneibor'[n] = Cardinality(EdgesFrom(0, n)')
  BY <1>1, <1>3, FS_EmptySet
<1>5. PagerankOK'
  BY <1>1, <1>2, <1>4 DEF PagerankOK, Running
<1> QED BY <1>1, <1>5 DEF AInv, SpmvOK, SumsOK, Running

(* An edge is counted at the node it begins at.                            *)
LEMMA ReadEdgeStep ==
  ASSUME AInv, ReadEdge
  PROVE  AInv'
<1> DEFINE t == edges_read
           e == graph.edges[t + 1]
<1>1. /\ app_pc = "edges" /\ app = "pagerank" /\ app' = app /\ graph \in Graphs /\ graph' = graph
      /\ t < Len(graph.edges) /\ t \in 0 .. graph.nedges
      /\ DOMAIN n1 = 0 .. graph.nedges - 1 /\ DOMAIN n2 = 0 .. graph.nedges - 1
      /\ DOMAIN nneibor = 0 .. graph.nnodes - 1
      /\ \A s \in 0 .. t - 1 : n1[s] = graph.edges[s + 1][1] /\ n2[s] = graph.edges[s + 1][2]
      /\ \A n \in 0 .. graph.nnodes - 1 : nneibor[n] = Cardinality(EdgesFrom(t, n))
      /\ RInv'
  BY ReaderWaits DEF AInv, SpmvOK, PagerankOK, Running, ReadEdge, app_vars, graph_vars
<1>2. CASE app_pc' = "undefined"
  BY <1>1, <1>2 DEF AInv, SpmvOK, PagerankOK, SumsOK, Running
<1>3. CASE app_pc' # "undefined"
  <2>1. /\ t < graph.nedges /\ app_pc' = "edges" /\ edges_read' = t + 1
        /\ n1' = [n1 EXCEPT ![t] = e[1]] /\ n2' = [n2 EXCEPT ![t] = e[2]]
        /\ nneibor' = [nneibor EXCEPT ![e[1]] = @ + 1]
    BY <1>1, <1>3 DEF ReadEdge, NeighbourOf, app_vars
  <2>2. /\ graph.nedges \in Nat /\ graph.nnodes \in Nat /\ Len(graph.edges) \in Nat /\ t \in Nat
    BY <1>1, GraphIs
  <2>3. \A s, n : EdgesFrom(s, n)' = EdgesFrom(s, n)
    BY <1>1 DEF EdgesFrom
  <2>4. t \in 0 .. graph.nedges - 1 /\ t + 1 \in 0 .. graph.nedges /\ t + 1 <= Len(graph.edges) /\ t + 1 - 1 = t
    BY <1>1, <2>1, <2>2
  <2>5. ASSUME NEW n \in 0 .. graph.nnodes - 1
        PROVE  nneibor'[n] = Cardinality(EdgesFrom(t + 1, n))
    <3>1. IsFiniteSet(EdgesFrom(t, n)) /\ t \notin EdgesFrom(t, n)
      <4>1. IsFiniteSet(0 .. t - 1)
        BY <2>2, FS_Interval
      <4> QED BY <2>2, <4>1, FS_Subset DEF EdgesFrom
    <3>2. CASE e[1] = n
      <4>1. EdgesFrom(t + 1, n) = EdgesFrom(t, n) \cup {t}
        BY <2>2, <3>2 DEF EdgesFrom
      <4>2. Cardinality(EdgesFrom(t + 1, n)) = Cardinality(EdgesFrom(t, n)) + 1
        BY <3>1, <4>1, FS_AddElement
      <4> QED BY <1>1, <2>1, <3>2, <4>2
    <3>3. CASE e[1] # n
      <4>1. EdgesFrom(t + 1, n) = EdgesFrom(t, n)
        BY <2>2, <3>3 DEF EdgesFrom
      <4> QED BY <1>1, <2>1, <3>3, <4>1
    <3> QED BY <3>2, <3>3
  <2>6. ASSUME NEW s \in 0 .. t
        PROVE  n1'[s] = graph.edges[s + 1][1] /\ n2'[s] = graph.edges[s + 1][2]
    <3>1. CASE s = t
      BY <1>1, <2>1, <2>4, <3>1
    <3>2. CASE s # t
      <4>1. s \in 0 .. t - 1
        BY <2>2, <3>2
      <4> QED BY <1>1, <2>1, <3>2, <4>1
    <3> QED BY <3>1, <3>2
  <2>7. /\ DOMAIN n1' = 0 .. graph.nedges - 1 /\ DOMAIN n2' = 0 .. graph.nedges - 1
        /\ DOMAIN nneibor' = 0 .. graph.nnodes - 1
    BY <1>1, <2>1
  <2> HIDE DEF t, e
  <2>8. PagerankOK'
    BY <1>1, <2>1, <2>3, <2>4, <2>5, <2>6, <2>7 DEF PagerankOK, Running
  <2> QED BY <1>1, <2>1, <2>8 DEF AInv, SpmvOK, SumsOK, Running
<1> QED BY <1>2, <1>3

(* The program goes on when the file has as many edges as its header says. *)
LEMMA EdgesReadStep ==
  ASSUME AInv, EdgesRead
  PROVE  AInv'
<1>1. /\ app_pc = "edges" /\ app = "pagerank" /\ edges_read = Len(graph.edges)
      /\ y' = Zeros(graph.nnodes) /\ y_bak' = Zeros(graph.nnodes)
      /\ UNCHANGED <<reader_vars, graph_vars, expand_vars, app>>
      /\ app_pc' = "undefined" \/ (app_pc' = "reference" /\ ~ (edges_read < graph.nedges))
  BY DEF AInv, SpmvOK, Running, EdgesRead
<1>2. /\ graph \in Graphs /\ edges_read \in 0 .. graph.nedges
  BY <1>1 DEF AInv, PagerankOK
<1>3. graph.nedges \in Nat
  BY <1>2, GraphsAssumption
<1>4. app_pc' = "reference" => edges_read = graph.nedges
  BY <1>1, <1>2, <1>3
<1>5. RInv' /\ SpmvOK'
  BY <1>1, InputStays DEF AInv, SpmvOK, Running
<1>6. PagerankOK'
  BY <1>1, <1>4, InputStays DEF AInv, PagerankOK, Running
<1>7. SumsUpTo(0)' = Zeros(graph.nnodes)
  <2>1. SumsUpTo(0)' = SumsUpTo(0) /\ Locations = 0 .. graph.nnodes - 1
    BY <1>1, InputStays DEF Locations
  <2> QED BY <2>1, SumsBegin DEF Zeros
<1>8. SumsOK'
  BY <1>1, <1>7 DEF SumsOK, Running
<1> QED BY <1>1, <1>5, <1>6, <1>8, InputStays DEF AInv

-----------------------------------------------------------------------------
(* The plain loop adds every element.                                      *)
LEMMA ReferenceStep ==
  ASSUME AInv, Reference
  PROVE  AInv'
<1>1. /\ app_pc = "reference" /\ app_pc' = "kernel" /\ Running /\ Running' /\ y' = y
      /\ UNCHANGED <<reader_vars, graph_vars, expand_vars, app>>
      /\ y = SumsUpTo(0) /\ y_bak = SumsUpTo(0)
  BY DEF Reference, Running, AInv, SumsOK
<1>2. Num \in Nat
  BY <1>1, NumIs
<1>3. y_bak' = SumsUpTo(Num)
  <2>1. CASE app = "spmv"
    <3> DEFINE RowTerms(row) == Terms(csr_row_ptr[row] .. csr_row_ptr[row + 1] - 1)
    <3>1. y_bak' = [row \in Locations |-> y_bak[row] (+) y_bak[row] (+) RowTerms(row)]
      BY <1>1, <2>1 DEF Reference, SumsUpTo
    <3>2. ASSUME NEW row \in Locations
          PROVE  y_bak[row] (+) y_bak[row] (+) RowTerms(row) = Terms(AddedAt(Num, row))
      <4>1. y_bak[row] = Terms({})
        BY <1>1, SumsBegin, TermsOfNothing
      <4>2. /\ AddedAt(Num, row) = csr_row_ptr[row] .. csr_row_ptr[row + 1] - 1
            /\ IsFiniteSet(AddedAt(Num, row))
        <5>1. AddedAt(Num, row) = csr_row_ptr[row] .. csr_row_ptr[row + 1] - 1
          BY <1>1, <2>1, SlotsOfRow
        <5>2. IsFiniteSet(0 .. Num - 1)
          BY <1>2, FS_Interval
        <5>3. IsFiniteSet(AddedAt(Num, row))
          BY <5>2, FS_Subset DEF AddedAt
        <5> QED BY <5>1, <5>3
      <4>3. IsFiniteSet({})
        BY FS_EmptySet
      <4>4. Terms({}) (+) Terms({}) = Terms({} \cup {})
        BY <4>3, TermsTogether
      <4>5. Terms({}) (+) Terms(AddedAt(Num, row)) = Terms({} \cup AddedAt(Num, row))
        BY <4>2, <4>3, TermsTogether
      <4>6. {} \cup {} = {} /\ {} \cup AddedAt(Num, row) = AddedAt(Num, row)
        OBVIOUS
      <4> QED BY <4>1, <4>2, <4>4, <4>5, <4>6
    <3> HIDE DEF RowTerms
    <3> QED BY <3>1, <3>2 DEF SumsUpTo
  <2>2. CASE app # "spmv"
    BY <1>1, <1>2, <2>2, SumsGrow DEF Reference
  <2> QED BY <2>1, <2>2
<1>4. RInv' /\ SpmvOK' /\ PagerankOK' /\ app' = app
  BY <1>1, PhaseMoves
<1>5. SumsOK'
  BY <1>1, <1>3, InputStays DEF SumsOK, Running
<1> QED BY <1>4, <1>5 DEF AInv

(* The compiled columns add the elements of the whole vectors.             *)
LEMMA RunKernelStep ==
  ASSUME AInv, RunKernel
  PROVE  AInv'
<1>1. /\ app_pc = "kernel" /\ app_pc' = "tail" /\ Running /\ Running' /\ y_bak' = y_bak
      /\ UNCHANGED <<reader_vars, graph_vars, expand_vars, app>>
      /\ y = SumsUpTo(0) /\ y_bak = SumsUpTo(Num)
  BY DEF RunKernel, Running, AInv, SumsOK
<1>2. y' = SumsUpTo(TailBegin)
  <2>1. TailBegin \in Nat /\ ColumnNum * VectorNums = TailBegin
    BY <1>1, NumIs
  <2> QED BY <1>1, <2>1, SumsGrow DEF RunKernel
<1>3. RInv' /\ SpmvOK' /\ PagerankOK' /\ app' = app
  BY <1>1, PhaseMoves
<1>4. SumsOK'
  BY <1>1, <1>2, InputStays DEF SumsOK, Running
<1> QED BY <1>3, <1>4 DEF AInv

(* The scalar loop adds the others.                                        *)
LEMMA RunTailStep ==
  ASSUME AInv, RunTail
  PROVE  AInv'
<1>1. /\ app_pc = "tail" /\ app_pc' = "check" /\ Running /\ Running' /\ y_bak' = y_bak
      /\ UNCHANGED <<reader_vars, graph_vars, expand_vars, app>>
      /\ y = SumsUpTo(TailBegin) /\ y_bak = SumsUpTo(Num)
  BY DEF RunTail, Running, AInv, SumsOK
<1>2. y' = SumsUpTo(Num)
  <2>1. TailBegin \in Nat /\ Num \in Nat /\ TailBegin <= Num
    BY <1>1, NumIs
  <2> QED BY <1>1, <2>1, SumsGrow DEF RunTail
<1>3. RInv' /\ SpmvOK' /\ PagerankOK' /\ app' = app
  BY <1>1, PhaseMoves
<1>4. SumsOK'
  BY <1>1, <1>2, InputStays DEF SumsOK, Running
<1> QED BY <1>3, <1>4 DEF AInv

(* check_equal finds them equal.                                           *)
LEMMA CheckEqualStep ==
  ASSUME AInv, CheckEqual
  PROVE  AInv'
<1>1. /\ app_pc = "check" /\ Running /\ y' = y /\ y_bak' = y_bak
      /\ UNCHANGED <<reader_vars, graph_vars, expand_vars, app>>
      /\ y = SumsUpTo(Num) /\ y_bak = SumsUpTo(Num)
  BY DEF CheckEqual, Running, AInv, SumsOK
<1>2. app_pc' = "Correct" /\ Running'
  BY <1>1 DEF CheckEqual, Running
<1>3. RInv' /\ SpmvOK' /\ PagerankOK' /\ app' = app
  BY <1>1, <1>2, PhaseMoves
<1>4. SumsOK'
  BY <1>1, <1>2, InputStays DEF SumsOK, Running
<1> QED BY <1>3, <1>4 DEF AInv

-----------------------------------------------------------------------------
(* AInv is inductive.                                                      *)
LEMMA AInvStarts == Init => AInv
<1> SUFFICES ASSUME Init PROVE AInv
  OBVIOUS
<1>1. CASE app = "spmv" /\ app_pc = "matrix" /\ file \in Files
  BY <1>1, FilesAssumption, ReaderStarts DEF Init, AInv, SpmvOK, PagerankOK, SumsOK, Running
<1>2. CASE app = "pagerank" /\ app_pc = "header" /\ file = NoFile /\ graph \in Graphs
  <2>1. ~ Accepted(NoFile)
    BY EmptySeq DEF Accepted, BannerAccepted, NoFile
  <2>2. Complete(file)
    BY <1>2, <2>1 DEF Complete
  <2> QED BY <1>2, <2>2, ReaderStarts DEF Init, AInv, SpmvOK, PagerankOK, SumsOK, Running
<1> QED BY <1>1, <1>2 DEF Init

LEMMA AInvStays ==
  ASSUME AInv, UNCHANGED all_vars
  PROVE  AInv'
<1>1. UNCHANGED <<reader_vars, graph_vars, expand_vars, app>> /\ UNCHANGED <<app_pc, y, y_bak>>
  BY DEF all_vars, app_vars
<1>2. (Running <=> Running')
  BY <1>1 DEF Running
<1>3. RInv' /\ SpmvOK' /\ PagerankOK'
  BY <1>1, <1>2, InputStays DEF AInv, SpmvOK, PagerankOK
<1>4. SumsOK'
  BY <1>1, <1>2, InputStays DEF AInv, SumsOK
<1> QED BY <1>1, <1>3, <1>4 DEF AInv

LEMMA AInvInductive == AInv /\ [Next]_all_vars => AInv'
  BY ReadMatrixStep, ExpandRowStep, ExpandedStep, ReadHeaderStep, ReadEdgeStep, EdgesReadStep,
     ReferenceStep, RunKernelStep, RunTailStep, CheckEqualStep, AInvStays DEF Next

-----------------------------------------------------------------------------
(* Whatever the files, the matrix and the arrays of the reader agree, the  *)
(* rows of the slots and the edges are those of the file, and the sums     *)
(* have the elements added so far, each once (the mains of spmv.cpp and of *)
(* pagerank.cpp).                                                          *)
THEOREM ApplicationsInvariant == Spec => []AInv
<1> QED BY AInvStarts, AInvInductive, PTL DEF Spec

(* The three arrays hold the matrix of every complete file, each entry and *)
(* each image as often as it is written there (matrix_read_csr).           *)
THEOREM ReaderPlacesEntries == Spec => []EntriesPlaced
<1>1. AInv => EntriesPlaced
  BY RInvPlaces DEF AInv
<1> QED BY <1>1, ApplicationsInvariant, PTL

(* The second walk never writes a slot twice, and none outside the arrays  *)
(* (matrix_read_csr).                                                      *)
THEOREM ReaderWritesOnce == Spec => SlotsWrittenOnce
<1> DEFINE WrittenOnce ==
             (reader_pc = "fill" /\ reader_pc' = "fill") =>
               /\ DOMAIN csr_column' = DOMAIN csr_column
               /\ \A slot \in DOMAIN csr_column :
                    csr_column[slot] # Unset =>
                      csr_column'[slot] = csr_column[slot] /\ csr_data'[slot] = csr_data[slot]
<1>1. AInv /\ [Next]_all_vars => [WrittenOnce]_reader_vars
  <2> SUFFICES ASSUME AInv, [Next]_all_vars PROVE [WrittenOnce]_reader_vars
    OBVIOUS
  <2>1. [ReaderNext]_reader_vars
    BY DEF Next, ReadMatrix, ExpandRow, Expanded, ReadHeader, ReadEdge, EdgesRead, Reference, RunKernel,
           RunTail, CheckEqual, all_vars
  <2>2. RInv
    BY DEF AInv
  <2> QED BY <2>1, <2>2, SlotsWrittenOnceStep
<1> QED BY <1>1, ApplicationsInvariant, PTL DEF Spec, SlotsWrittenOnce

(* The comparison with the plain loop is never False, whatever the file,   *)
(* the number of elements and the number of lanes (the mains of spmv.cpp   *)
(* and of pagerank.cpp).                                                   *)
THEOREM KernelAndTailAgree == Spec => []SumsAgree
<1>1. AInv => SumsAgree
  BY DEF AInv, SumsOK, SumsAgree
<1> QED BY <1>1, ApplicationsInvariant, PTL

-----------------------------------------------------------------------------
(* Elements that lie at places, numbered at each, as pairs of a place and  *)
(* a number.                                                               *)
AtPlaces(E, L, at) == UNION {{l} \X (1 .. Cardinality({e \in E : at[e] = l})) : l \in L}

(* There are as many such pairs as there are elements.                     *)
LEMMA NumberedAtPlaces ==
  ASSUME NEW E, NEW L, NEW at \in [E -> L], IsFiniteSet(E)
  PROVE  Cardinality(AtPlaces(E, L, at)) = Cardinality(E)
<1> DEFINE EdgesAt(l) == {e \in E : at[e] = l}
           Numbered == UNION {{l} \X (1 .. Cardinality(EdgesAt(l))) : l \in L}
           Number(l) == CHOOSE b : b \in Bijection(EdgesAt(l), 1 .. Cardinality(EdgesAt(l)))
           f == [e \in E |-> <<at[e], Number(at[e])[e]>>]
<1>1. ASSUME NEW l
      PROVE  Number(l) \in Bijection(EdgesAt(l), 1 .. Cardinality(EdgesAt(l)))
  <2>1. IsFiniteSet(EdgesAt(l))
    BY FS_Subset
  <2> HIDE DEF EdgesAt
  <2>2. ExistsBijection(EdgesAt(l), 1 .. Cardinality(EdgesAt(l)))
    BY <2>1, FS_CardinalityType, Fun_ExistsBijSymmetric
  <2> QED BY <2>2 DEF ExistsBijection
<1>2. \A p : p \in Numbered <=> \E l \in L : \E k \in 1 .. Cardinality(EdgesAt(l)) : p = <<l, k>>
  <2>1. \A l, K, p : p \in {l} \X K <=> \E k \in K : p = <<l, k>>
    OBVIOUS
  <2> HIDE DEF EdgesAt
  <2>2. \A p : p \in Numbered <=> \E l \in L : p \in {l} \X (1 .. Cardinality(EdgesAt(l)))
    OBVIOUS
  <2> HIDE DEF Numbered
  <2> QED BY <2>1, <2>2
<1>3. \A l : \A e \in EdgesAt(l) : e \in E /\ at[e] = l
  OBVIOUS
<1>4. \A e \in E : at[e] \in L /\ e \in EdgesAt(at[e])
  OBVIOUS
<1> HIDE DEF EdgesAt, Number, Numbered
<1>5. ASSUME NEW l
      PROVE  /\ \A e \in EdgesAt(l) : Number(l)[e] \in 1 .. Cardinality(EdgesAt(l))
             /\ \A d, e \in EdgesAt(l) : Number(l)[d] = Number(l)[e] => d = e
             /\ \A k \in 1 .. Cardinality(EdgesAt(l)) : \E e \in EdgesAt(l) : Number(l)[e] = k
  BY <1>1 DEF Bijection, Injection, IsInjective, Surjection
<1>6. f \in [E -> Numbered]
  BY <1>2, <1>4, <1>5
<1>7. \A d, e \in E : f[d] = f[e] => d = e
  <2> SUFFICES ASSUME NEW d \in E, NEW e \in E, f[d] = f[e] PROVE d = e
    OBVIOUS
  <2>1. at[d] = at[e] /\ Number(at[d])[d] = Number(at[e])[e]
    OBVIOUS
  <2> QED BY <1>4, <1>5, <2>1
<1>8. \A p \in Numbered : \E e \in E : f[e] = p
  <2> TAKE p \in Numbered
  <2>1. PICK l \in L : \E k \in 1 .. Cardinality(EdgesAt(l)) : p = <<l, k>>
    BY <1>2
  <2>2. PICK k \in 1 .. Cardinality(EdgesAt(l)) : p = <<l, k>>
    BY <2>1
  <2>3. PICK e \in EdgesAt(l) : Number(l)[e] = k
    BY <1>5
  <2> QED BY <1>3, <2>2, <2>3
<1>9. f \in Bijection(E, Numbered)
  BY <1>6, <1>7, <1>8 DEF Bijection, Injection, IsInjective, Surjection
<1>10. Cardinality(Numbered) = Cardinality(E)
  BY <1>9, FS_Bijection DEF ExistsBijection
<1> QED BY <1>10 DEF Numbered, EdgesAt, AtPlaces

(* At the end, the parts of its rank that a node has given away are those  *)
(* of the edges that begin at it.                                          *)
LEMMA GivenAlongEdges ==
  ASSUME AInv, app = "pagerank", app_pc = "Correct", NEW n \in DOMAIN nneibor
  PROVE  Cardinality(GivenAway(n)) = nneibor[n]
<1> DEFINE part == <<n, nneibor[n]>>
           E == EdgesFrom(Num, n)
           at == [e \in E |-> n2[e]]
<1>1. /\ graph \in Graphs /\ edges_read = Num /\ Num = Len(graph.edges) /\ Num = graph.nedges
      /\ DOMAIN nneibor = 0 .. graph.nnodes - 1
      /\ \A t \in 0 .. Num - 1 : n1[t] = graph.edges[t + 1][1] /\ n2[t] = graph.edges[t + 1][2]
      /\ nneibor[n] = Cardinality(E)
      /\ y = SumsUpTo(Num)
  BY DEF AInv, PagerankOK, SumsOK, Running, Num
<1>2. /\ Num \in Nat /\ Locations = 0 .. graph.nnodes - 1
      /\ \A t \in 0 .. Num - 1 : n2[t] \in Locations
  BY <1>1, GraphIs DEF Locations
<1>3. E \subseteq 0 .. Num - 1 /\ \A e \in 0 .. Num - 1 : Term(e) = part <=> e \in E
  BY <1>1 DEF EdgesFrom, Term
<1>4. IsFiniteSet(E) /\ at \in [E -> Locations]
  <2>1. IsFiniteSet(0 .. Num - 1)
    BY <1>2, FS_Interval
  <2> QED BY <1>2, <1>3, <2>1, FS_Subset
<1>5. ASSUME NEW l
      PROVE  {e \in AddedAt(Num, l) : Term(e) = part} = {e \in E : at[e] = l}
  BY <1>3 DEF AddedAt, Target
<1> HIDE DEF part, E, at
<1>6. ASSUME NEW l \in Locations
      PROVE  /\ part \in DOMAIN y[l] <=> {e \in E : at[e] = l} # {}
             /\ part \in DOMAIN y[l] => y[l][part] = Cardinality({e \in E : at[e] = l})
  <2>1. y[l] = [t \in {Term(e) : e \in AddedAt(Num, l)} |-> Cardinality({e \in AddedAt(Num, l) : Term(e) = t})]
    BY <1>1 DEF SumsUpTo, Terms
  <2> QED BY <1>5, <2>1
<1>7. GivenAway(n) = AtPlaces(E, Locations, at)
  <2> DEFINE HowMany(l) == Cardinality({e \in E : at[e] = l})
             Adding == {l \in DOMAIN y : part \in DOMAIN y[l]}
             Numbered == UNION {{l} \X (1 .. HowMany(l)) : l \in Locations}
  <2>1. DOMAIN y = Locations
    BY <1>1 DEF SumsUpTo
  <2>2. \A p : p \in GivenAway(n) <=> \E l \in Adding : \E k \in 1 .. y[l][part] : p = <<l, k>>
    BY DEF GivenAway, part
  <2>3. \A p : p \in Numbered <=> \E l \in Locations : \E k \in 1 .. HowMany(l) : p = <<l, k>>
    <3>1. \A l, K, p : p \in {l} \X K <=> \E k \in K : p = <<l, k>>
      OBVIOUS
    <3> HIDE DEF HowMany
    <3>2. \A p : p \in Numbered <=> \E l \in Locations : p \in {l} \X (1 .. HowMany(l))
      OBVIOUS
    <3> HIDE DEF Numbered
    <3> QED BY <3>1, <3>2
  <2>4. ASSUME NEW l \in Locations, l \notin Adding
        PROVE  1 .. HowMany(l) = {}
    <3>1. {e \in E : at[e] = l} = {}
      BY <1>6, <2>1, <2>4
    <3>2. HowMany(l) = 0
      BY <3>1, FS_EmptySet
    <3> HIDE DEF HowMany
    <3> QED BY <3>2
  <2>5. \A l \in Adding : l \in Locations /\ y[l][part] = HowMany(l)
    BY <1>6, <2>1
  <2> HIDE DEF HowMany, Adding, Numbered
  <2>6. \A p : p \in GivenAway(n) => p \in Numbered
    BY <2>2, <2>3, <2>5
  <2>7. \A p : p \in Numbered => p \in GivenAway(n)
    BY <2>2, <2>3, <2>4, <2>5
  <2>8. GivenAway(n) = Numbered
    <3> HIDE DEF GivenAway
    <3> QED BY <2>6, <2>7
  <2> QED BY <2>8 DEF Numbered, HowMany, AtPlaces
<1>8. Cardinality(AtPlaces(E, Locations, at)) = Cardinality(E)
  BY <1>4, NumberedAtPlaces
<1> QED BY <1>1, <1>7, <1>8

(* Every node gives its rank away in as many parts as it is divided into,  *)
(* whatever the graph and the number of lanes (pagerank_read and           *)
(* pagerank_dynvec).                                                       *)
THEOREM NodesGiveRankAway == Spec => []RankGivenAway
<1>1. AInv => RankGivenAway
  BY GivenAlongEdges DEF RankGivenAway
<1> QED BY <1>1, ApplicationsInvariant, PTL

=============================================================================
