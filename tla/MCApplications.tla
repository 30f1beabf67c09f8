---------------------------- MODULE MCApplications ---------------------------
(* Files for Applications: all matrices of up to three rows with up to     *)
(* three entries, all graphs of three nodes with up to three edges, and    *)
(* files that are refused or whose header says something else.             *)
EXTENDS Applications

Banner(format, data, storage) == <<"%%MatrixMarket", "matrix", format, data, storage>>

MatrixFile(banner, lines) == [banner |-> banner, lines |-> lines]

(* Entries at the positions ps, with values 5, 6, ...                      *)
Line(data, p, k) == IF data = "pattern" THEN p ELSE Append(p, 4 + k)
Lines(data, ps)  == [k \in DOMAIN ps |-> Line(data, ps[k], k)]
Size(m, ps)      == <<m, m, Len(ps)>>

General   == UNION {[1 .. k -> (1 .. 2) \X (1 .. 2)] : k \in 0 .. 3}
(* The lower half, each position at most once.                             *)
Lower(m)  == {p \in (1 .. m) \X (1 .. m) : p[2] <= p[1]}
Halves(m) == {ps \in UNION {[1 .. k -> Lower(m)] : k \in 0 .. 3} :
                   \A j, k \in DOMAIN ps : ps[j] = ps[k] => j = k}

Cases == {<<"real", "general", 2, ps>> : ps \in General}
           \cup {<<"real", "symmetric", 3, ps>> : ps \in Halves(3)}
           \cup {<<"pattern", "symmetric", 2, ps>> : ps \in Halves(2)}
           \cup {<<"integer", "hermitian", 2, ps>> : ps \in Halves(2)}
           \cup {<<"integer", "skew-symmetric", 2, ps>> : ps \in Halves(2)}

MCFiles ==
  {MatrixFile(Banner("coordinate", c[1], c[2]), <<Size(c[3], c[4])>> \o Lines(c[1], c[4])) : c \in Cases}
    \cup {MatrixFile(b, <<<<1, 1, 0>>>>) :
            b \in {<<>>, Append(Banner("coordinate", "real", "general"), "words"),
                   <<"%%MatrixMarket", "vector", "coordinate", "real", "general">>,
                   Banner("dense", "real", "general"), Banner("coordinate", "complex", "general"),
                   Banner("coordinate", "real", "diagonal"), Banner("coordinate", "double", "general")}}
    \cup {MatrixFile(Banner("coordinate", "real", "general"), lines) :
            lines \in {<<>>, <<<<>>>>, <<<<1, 1>>, <<1, 1>>>>, <<<<>>, <<2, 2, 1>>, <<2, 1, 5>>>>,
                       <<<<2, 2, 1, 9>>, <<2, 1, 5>>>>}}
    (* An array of two rows and columns, read as entries.                  *)
    \cup {MatrixFile(Banner("array", "integer", "general"),
                     <<<<3, 2>>, <<1>>, <<1>>, <<1>>, <<1>>, <<1>>, <<7>>>>)}

Edges(k) == [1 .. k -> (0 .. 2) \X (0 .. 2)]
Graph(nedges, edges) == [nnodes |-> 3, nedges |-> nedges, edges |-> edges]
MCGraphs == {Graph(k, edges) : k \in 0 .. 3, edges \in Edges(2)}
              \cup {Graph(3, edges) : edges \in Edges(3)}
=============================================================================
