----------------------------- MODULE Applications ----------------------------
(***************************************************************************)
(* The two programs, from their file to the comparison with the plain      *)
(* loop: spmv.cpp on a matrix, pagerank.cpp on a graph.  Both compile one  *)
(* lambda of the form                                                      *)
(*     y[r[e]] += a term of e and of the index c[e]                        *)
(* for all whole vectors of elements and leave the rest to a scalar loop.  *)
(* The compiled function adds the term of every element it is given, as    *)
(* DynVec shows; its order does not matter here.                           *)
(*                                                                         *)
(* Addition is symbolic: a location of y holds the bag of the terms added. *)
(***************************************************************************)
EXTENDS CsrMatrix, Bags

CONSTANTS
  Files,            (* Files of spmv.                                      *)
  Graphs,           (* Files of pagerank: [nnodes, nedges, edges].         *)
  VectorNums        (* vector_nums                                         *)

ASSUME FilesAssumption == \A f \in Files : Complete(f)
ASSUME GraphsAssumption ==
  \A g \in Graphs :
    /\ g.nnodes \in Nat /\ g.nedges \in Nat
    /\ g.edges \in Seq((0 .. g.nnodes - 1) \X (0 .. g.nnodes - 1))
ASSUME VectorNumsAssumption == VectorNums \in Nat \ {0}

VARIABLES
  app,              (* The program.                                        *)
  app_pc,           (* What it does; what it prints.                       *)
  graph,            (* The file of pagerank (input).                       *)
  edges_read,       (* t of pagerank_read.                                 *)
  n1, n2, nneibor,  (* Its arrays.                                         *)
  row_i,            (* The row whose slots are expanded.                   *)
  row_ptr_all,      (* The row of every slot of the matrix.                *)
  y,                (* y_array, sum                                        *)
  y_bak             (* y_array_bak, sum_bak                                *)

graph_vars  == <<graph, edges_read, n1, n2, nneibor>>
expand_vars == <<row_i, row_ptr_all>>
app_vars    == <<app, app_pc, y, y_bak>>
all_vars    == <<reader_vars, graph_vars, expand_vars, app_vars>>

NoFile  == [banner |-> <<>>, lines |-> <<>>]
NoGraph == [nnodes |-> 0, nedges |-> 0, edges |-> <<>>]
Zeros(num) == [location \in 0 .. num - 1 |-> EmptyBag]

Init ==
  /\ \/ app = "spmv" /\ app_pc = "matrix" /\ file \in Files /\ graph = NoGraph
     \/ app = "pagerank" /\ app_pc = "header" /\ file = NoFile /\ graph \in Graphs
  /\ ReaderStart
  /\ edges_read = 0 /\ n1 = Empty /\ n2 = Empty /\ nneibor = Empty
  /\ row_i = 0 /\ row_ptr_all = Empty
  /\ y = Empty /\ y_bak = Empty

-----------------------------------------------------------------------------
(* spmv: the matrix, then the row of every slot.                           *)
DataNum == csr_row_ptr[matrix.m]

ReadMatrix ==
  /\ app_pc = "matrix"
  /\ \/ ReaderNext /\ UNCHANGED <<graph_vars, expand_vars, app_vars>>
     \/ /\ reader_pc = "read"
        /\ y' = Zeros(matrix.m) /\ y_bak' = Zeros(matrix.m)
        /\ row_ptr_all' = [slot \in 0 .. DataNum - 1 |-> Unset]
        /\ app_pc' = "expand"
        /\ UNCHANGED <<reader_vars, graph_vars, row_i, app>>
     \/ /\ reader_pc = "refused"
        /\ app_pc' = "refused"
        /\ UNCHANGED <<reader_vars, graph_vars, expand_vars, app, y, y_bak>>

ExpandRow ==
  /\ app_pc = "expand" /\ row_i < matrix.m
  /\ row_ptr_all' = [slot \in DOMAIN row_ptr_all |->
                       IF slot \in csr_row_ptr[row_i] .. csr_row_ptr[row_i + 1] - 1 THEN row_i
                       ELSE row_ptr_all[slot]]
  /\ row_i' = row_i + 1
  /\ UNCHANGED <<reader_vars, graph_vars, app_vars>>

Expanded ==
  /\ app_pc = "expand" /\ row_i = matrix.m
  /\ app_pc' = "reference"
  /\ UNCHANGED <<reader_vars, graph_vars, expand_vars, app, y, y_bak>>

-----------------------------------------------------------------------------
(* pagerank_read.  The arrays have room for nedges edges, the loop reads   *)
(* all that the file has.                                                  *)
ReadHeader ==
  /\ app_pc = "header"
  /\ n1' = [t \in 0 .. graph.nedges - 1 |-> Unset]
  /\ n2' = [t \in 0 .. graph.nedges - 1 |-> Unset]
  /\ nneibor' = [n \in 0 .. graph.nnodes - 1 |-> 0]
  /\ app_pc' = "edges"
  /\ UNCHANGED <<reader_vars, graph, edges_read, expand_vars, app, y, y_bak>>

(* Mutant: the edges that arrive at a node are counted.                    *)
CountedNode(e) == e[2]

(* The node an edge is counted at.                                         *)
NeighbourOf(e) == e[1]

ReadEdge ==
  LET e == graph.edges[edges_read + 1]
      n == NeighbourOf(e)
  IN
  /\ app_pc = "edges" /\ edges_read < Len(graph.edges)
  /\ \/ /\ edges_read < graph.nedges
        /\ n1' = [n1 EXCEPT ![edges_read] = e[1]]
        /\ n2' = [n2 EXCEPT ![edges_read] = e[2]]
        /\ nneibor' = [nneibor EXCEPT ![n] = @ + 1]
        /\ edges_read' = edges_read + 1
        /\ UNCHANGED <<reader_vars, graph, expand_vars, app_vars>>
     \/ /\ edges_read = graph.nedges
        /\ app_pc' = "undefined"
        /\ UNCHANGED <<reader_vars, graph_vars, expand_vars, app, y, y_bak>>

EdgesRead ==
  /\ app_pc = "edges" /\ edges_read = Len(graph.edges)
  /\ y' = Zeros(graph.nnodes) /\ y_bak' = Zeros(graph.nnodes)
  /\ app_pc' = IF edges_read < graph.nedges THEN "undefined" ELSE "reference"
  /\ UNCHANGED <<reader_vars, graph_vars, expand_vars, app>>

-----------------------------------------------------------------------------
(* The elements of the index arrays, where each is added, and what.        *)
Num       == IF app = "spmv" THEN DataNum ELSE graph.nedges
Target(e) == IF app = "spmv" THEN row_ptr_all[e] ELSE n2[e]
Term(e)   == IF app = "spmv" THEN <<csr_data[e], csr_column[e]>> ELSE <<n1[e], nneibor[n1[e]]>>

Terms(S) == [t \in {Term(e) : e \in S} |-> Cardinality({e \in S : Term(e) = t})]
Added(z, S) == [location \in DOMAIN z |-> z[location] (+) Terms({e \in S : Target(e) = location})]

(* The plain loop.  spmv_local goes row by row and starts a sum with what  *)
(* it is then added to, which is zero here.                                *)
Reference ==
  /\ app_pc = "reference"
  /\ y_bak' =
       IF app = "spmv"
         THEN [row \in DOMAIN y_bak |-> y_bak[row] (+) y_bak[row]
                                          (+) Terms(csr_row_ptr[row] .. csr_row_ptr[row + 1] - 1)]
         ELSE Added(y_bak, 0 .. Num - 1)
  /\ app_pc' = "kernel"
  /\ UNCHANGED <<reader_vars, graph_vars, expand_vars, app, y>>

(* The columns the lambda is compiled for.                                 *)
ColumnNum == Num \div VectorNums

RunKernel ==
  /\ app_pc = "kernel"
  /\ y' = Added(y, 0 .. ColumnNum * VectorNums - 1)
  /\ app_pc' = "tail"
  /\ UNCHANGED <<reader_vars, graph_vars, expand_vars, app, y_bak>>

(* Mutant: the scalar loop begins at the number of columns.                *)
TailFromColumns == Num \div VectorNums

(* Where the scalar loop begins.                                           *)
TailBegin == (Num \div VectorNums) * VectorNums

(* The scalar loop of spmv_dynvec and pagerank_dynvec.                     *)
RunTail ==
  /\ app_pc = "tail"
  /\ y' = Added(y, TailBegin .. Num - 1)
  /\ app_pc' = "check"
  /\ UNCHANGED <<reader_vars, graph_vars, expand_vars, app, y_bak>>

(* check_equal                                                             *)
CheckEqual ==
  /\ app_pc = "check"
  /\ app_pc' = IF y = y_bak THEN "Correct" ELSE "False"
  /\ UNCHANGED <<reader_vars, graph_vars, expand_vars, app, y, y_bak>>

Next ==
  \/ ReadMatrix \/ ExpandRow \/ Expanded \/ ReadHeader \/ ReadEdge \/ EdgesRead
  \/ Reference \/ RunKernel \/ RunTail \/ CheckEqual

Spec == Init /\ [][Next]_all_vars /\ WF_all_vars(Next)

-----------------------------------------------------------------------------
(* The compiled columns and the scalar loop add what the plain loop adds,  *)
(* over row_ptr_all as over row_ptr, whatever the number of elements (main *)
(* of spmv.cpp and of pagerank.cpp).                                       *)
SumsAgree == app_pc # "False"

(* The parts of its rank that a node has given away: where each went, and  *)
(* which of the equal ones there it is.                                    *)
GivenAway(n) ==
  LET part == <<n, nneibor[n]>>
  IN UNION {{location} \X (1 .. y[location][part]) : location \in {l \in DOMAIN y : part \in DOMAIN y[l]}}

(* A node gives its rank away in as many parts as it is divided into: the  *)
(* divisors were counted over the edges that are run (pagerank_read,       *)
(* pagerank_dynvec).                                                       *)
RankGivenAway ==
  (app = "pagerank" /\ app_pc = "Correct") =>
    \A n \in DOMAIN nneibor : Cardinality(GivenAway(n)) = nneibor[n]
=============================================================================
