------------------------------ MODULE CsrMatrix ------------------------------
(***************************************************************************)
(* matrix_read_csr of csr_matrix.cpp with the functions of mmio.c it uses: *)
(* a Matrix Market file becomes the three arrays of a sparse matrix.  Rows *)
(* are counted while the entries are read, the counts are added up to the  *)
(* starts of the rows, and a second walk puts every entry, and of a        *)
(* symmetric matrix its mirror image, in the next free slot of its row.    *)
(*                                                                         *)
(* A file is its words of the banner and its lines of numbers; comments    *)
(* end before them.  The reader checks neither that the file has all its   *)
(* entries nor that they lie in the matrix: the files read here are so     *)
(* (Complete).                                                             *)
(***************************************************************************)
EXTENDS Integers, SequencesExt, FiniteSets

VARIABLES
  file,             (* [banner, lines] (input)                             *)
  reader_pc,        (* The loop that runs, "read", or "refused" for NULL.  *)
  matrix,           (* What the header says: m, n, nnz, isSymmetric.       *)
  numbers,          (* The numbers not read yet.                           *)
  i,                (* The variable of the loop.                           *)
  entries,          (* csrRowIdxA_tmp, csrColIdxA_tmp and csrValA_tmp.     *)
  counter,          (* csrRowPtrA_counter                                  *)
  old_val,          (* The count that the scan has overwritten.            *)
  csr_row_ptr,      (* csrRowPtrA                                          *)
  csr_column,       (* csrColIdxA                                          *)
  csr_data          (* csrValA                                             *)

arrays      == <<csr_row_ptr, csr_column, csr_data>>
reader_vars == <<file, reader_pc, matrix, numbers, i, entries, counter, old_val, arrays>>

-----------------------------------------------------------------------------
(* mm_read_banner: the words it knows, at their places, and any behind.    *)
BannerAccepted(words) ==
  /\ Len(words) >= 5
  /\ words[1] = "%%MatrixMarket" /\ words[2] = "matrix"
  /\ words[3] \in {"coordinate", "array"}
  /\ words[4] \in {"real", "complex", "pattern", "integer"}
  /\ words[5] \in {"general", "symmetric", "hermitian", "skew-symmetric"}

(* mm_read_mtx_crd_size: the first line, or if that has fewer than three   *)
(* numbers, the next three of the file.                                    *)
After(lines, n) == FlattenSeq(SubSeq(lines, n + 1, Len(lines)))
SizeLine(lines) ==
  IF lines # <<>> /\ Len(lines[1]) >= 3
    THEN [size |-> lines[1], rest |-> After(lines, 1)]
    ELSE [size |-> After(lines, 1), rest |-> SubSeq(After(lines, 1), 4, Len(After(lines, 1)))]

(* The words name the format, which is not looked at, the data and the     *)
(* storage: skew-symmetric goes for general and hermitian for symmetric.   *)
Accepted(f)  == BannerAccepted(f.banner) /\ f.banner[4] # "complex" /\ Len(SizeLine(f.lines).size) >= 3
Symmetric(f) == f.banner[5] \in {"symmetric", "hermitian"}

(* The numbers of an entry; a pattern has no values.                       *)
Width(f) == IF f.banner[4] = "pattern" THEN 2 ELSE 3

NoMatrix == [m |-> 0, n |-> 0, nnz |-> 0, isSymmetric |-> FALSE]
Empty == [slot \in {} |-> 0]

ReaderStart ==
  /\ reader_pc = "open"
  /\ matrix = NoMatrix /\ numbers = <<>> /\ i = 0 /\ entries = <<>>
  /\ counter = Empty /\ old_val = 0
  /\ csr_row_ptr = Empty /\ csr_column = Empty /\ csr_data = Empty

(* The header.                                                             *)
OpenMatrix ==
  LET header == SizeLine(file.lines)
      m      == header.size[1]
  IN
  /\ reader_pc = "open"
  /\ \/ /\ Accepted(file)
        /\ matrix' = [m |-> m, n |-> header.size[2], nnz |-> header.size[3], isSymmetric |-> Symmetric(file)]
        /\ numbers' = header.rest
        /\ counter' = [row \in 0 .. m |-> 0]
        /\ reader_pc' = "entries"
        /\ UNCHANGED <<file, i, entries, old_val, arrays>>
     \/ /\ ~ Accepted(file)
        /\ reader_pc' = "refused"
        /\ UNCHANGED <<file, matrix, numbers, i, entries, counter, old_val, arrays>>

(* The entry at the front of numbers.                                      *)
FirstEntry ==
  [row |-> numbers[1] - 1, column |-> numbers[2] - 1,
   value |-> IF Width(file) = 3 THEN numbers[3] ELSE 1]

(* One entry, counted at its row.                                          *)
ReadEntry ==
  /\ reader_pc = "entries" /\ Len(entries) < matrix.nnz
  /\ entries' = Append(entries, FirstEntry)
  /\ counter' = [counter EXCEPT ![FirstEntry.row] = @ + 1]
  /\ numbers' = SubSeq(numbers, Width(file) + 1, Len(numbers))
  /\ UNCHANGED <<file, reader_pc, matrix, i, old_val, arrays>>

(* All entries are read.  The scan begins with row 0.                      *)
BeginScan ==
  /\ reader_pc' = "scan"
  /\ old_val' = counter'[0] /\ i' = 1
  /\ UNCHANGED <<file, matrix, numbers, entries, arrays>>

EntriesRead ==
  /\ reader_pc = "entries" /\ Len(entries) = matrix.nnz
  /\ \/ matrix.isSymmetric /\ reader_pc' = "mirror" /\ i' = 1
          /\ UNCHANGED <<file, matrix, numbers, entries, counter, old_val, arrays>>
     \/ ~ matrix.isSymmetric /\ counter' = counter /\ BeginScan

(* Mutant: an entry of the diagonal is counted as if it had an image.      *)
MirrorsAll(e) == TRUE

OffDiagonal(e) == e.row # e.column

(* The mirror image of an entry is counted at its column.                  *)
CountMirror ==
  /\ reader_pc = "mirror"
  /\ \/ /\ i <= matrix.nnz
        /\ counter' = IF OffDiagonal(entries[i]) THEN [counter EXCEPT ![entries[i].column] = @ + 1]
                      ELSE counter
        /\ i' = i + 1
        /\ UNCHANGED <<file, reader_pc, matrix, numbers, entries, old_val, arrays>>
     \/ i > matrix.nnz /\ counter' = counter /\ BeginScan

(* One row of the exclusive scan; counter[0] is set to 0 before it.        *)
Counted == [counter EXCEPT ![0] = 0]

Scan ==
  /\ reader_pc = "scan" /\ i <= matrix.m
  /\ counter' = [Counted EXCEPT ![i] = old_val + Counted[i - 1]]
  /\ old_val' = counter[i]
  /\ i' = i + 1
  /\ UNCHANGED <<file, reader_pc, matrix, numbers, entries, arrays>>

(* The starts of the rows are copied, the counters begin again, and the    *)
(* arrays are allocated.                                                   *)
Unset == -1
Allocate ==
  LET slots == 0 .. counter[matrix.m] - 1
  IN
  /\ reader_pc = "scan" /\ i > matrix.m
  /\ csr_row_ptr' = counter
  /\ counter' = [row \in 0 .. matrix.m |-> 0]
  /\ csr_column' = [slot \in slots |-> Unset] /\ csr_data' = [slot \in slots |-> Unset]
  /\ reader_pc' = "fill" /\ i' = 1
  /\ UNCHANGED <<file, matrix, numbers, entries, old_val>>

(* The next free slot of a row.                                            *)
Offset(row) == csr_row_ptr[row] + counter[row]

(* Mutant: the image goes to its slot without being counted.               *)
FilledOnce(e) == [counter EXCEPT ![e.row] = @ + 1]

(* counter after an entry, and its image, have been put in their slots.    *)
Filled(e) ==
  IF matrix.isSymmetric /\ OffDiagonal(e)
    THEN [counter EXCEPT ![e.row] = @ + 1, ![e.column] = @ + 1]
    ELSE [counter EXCEPT ![e.row] = @ + 1]

Fill ==
  LET e      == entries[i]
      mirror == matrix.isSymmetric /\ OffDiagonal(e)
      Put(array, here, there) ==
        [slot \in DOMAIN array \cup {Offset(e.row)} \cup (IF mirror THEN {Offset(e.column)} ELSE {}) |->
           IF mirror /\ slot = Offset(e.column) THEN there
           ELSE IF slot = Offset(e.row) THEN here ELSE array[slot]]
  IN
  /\ reader_pc = "fill" /\ i <= matrix.nnz
  /\ csr_column' = Put(csr_column, e.column, e.row)
  /\ csr_data'   = Put(csr_data, e.value, e.value)
  /\ counter' = Filled(e)
  /\ i' = i + 1
  /\ UNCHANGED <<file, reader_pc, matrix, numbers, entries, old_val, csr_row_ptr>>

(* The values are replaced by random ones: of a symmetric matrix, an entry *)
(* and its image get different ones.                                       *)
Random(slot) == <<"random", slot>>
SetValues ==
  /\ reader_pc = "fill" /\ i > matrix.nnz
  /\ csr_data' = [slot \in DOMAIN csr_data |-> Random(slot)]
  /\ reader_pc' = "read"
  /\ UNCHANGED <<file, matrix, numbers, i, entries, counter, old_val, csr_row_ptr, csr_column>>

ReaderNext ==
  \/ OpenMatrix \/ ReadEntry \/ EntriesRead \/ CountMirror \/ Scan \/ Allocate \/ Fill \/ SetValues

-----------------------------------------------------------------------------
(* What the file says: its k-th entry.  Every entry has a place, and so    *)
(* has the image of each one off the diagonal of a symmetric matrix.       *)
Said(f, k) ==
  LET number(j) == SizeLine(f.lines).rest[Width(f) * (k - 1) + j]
  IN [row |-> number(1) - 1, column |-> number(2) - 1, value |-> IF Width(f) = 3 THEN number(3) ELSE 1]

HasImage(k) == Symmetric(file) /\ Said(file, k).row # Said(file, k).column
Places(h, t) == ((1 .. h) \X {"entry"}) \cup ({k \in 1 .. t : HasImage(k)} \X {"image"})

EntryAt(p) ==
  LET e == Said(file, p[1])
  IN IF p[2] = "entry" THEN e ELSE [row |-> e.column, column |-> e.row, value |-> e.value]

(* The header has the counts, and the file the entries, in the matrix.     *)
Complete(f) ==
  LET header == SizeLine(f.lines) IN
  Accepted(f) =>
    /\ header.size[1] \in Nat /\ header.size[2] \in Nat /\ header.size[3] \in Nat
    /\ header.rest \in Seq(Int)
    /\ Len(header.rest) >= Width(f) * header.size[3]
    /\ \A k \in 1 .. header.size[3] :
         /\ Said(f, k).row \in 0 .. header.size[1] - 1
         /\ Said(f, k).column \in 0 .. header.size[IF Symmetric(f) THEN 1 ELSE 2] - 1

(* What the arrays say: a slot belongs to the row whose slots it is among. *)
Slots == 0 .. csr_row_ptr[matrix.m] - 1
RowOf(slot) == CHOOSE row \in 0 .. matrix.m - 1 :
                 csr_row_ptr[row] <= slot /\ slot < csr_row_ptr[row + 1]
Stored(slot) == [row |-> RowOf(slot), column |-> csr_column[slot], value |-> csr_data[slot]]

(* The three arrays hold the matrix of the file, each entry as often as it *)
(* is written there, and each image of a symmetric one: the two walks      *)
(* counted alike (matrix_read_csr).                                        *)
EntriesPlaced ==
  (reader_pc = "fill" /\ i > matrix.nnz) =>
    LET places == Places(matrix.nnz, matrix.nnz)
    IN \A e \in {EntryAt(p) : p \in places} \cup {Stored(slot) : slot \in Slots} :
         Cardinality({slot \in Slots : Stored(slot) = e}) = Cardinality({p \in places : EntryAt(p) = e})

(* A slot is written once and inside the arrays, so that what a row gets   *)
(* never depends on the order of the file.                                 *)
SlotsWrittenOnce ==
  [][(reader_pc = "fill" /\ reader_pc' = "fill") =>
       /\ DOMAIN csr_column' = DOMAIN csr_column
       /\ \A slot \in DOMAIN csr_column :
            csr_column[slot] # Unset =>
              csr_column'[slot] = csr_column[slot] /\ csr_data'[slot] = csr_data[slot]]_reader_vars
=============================================================================
