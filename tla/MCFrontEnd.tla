----------------------------- MODULE MCFrontEnd -----------------------------
(* Texts for FrontEnd: the lambdas of the applications, their combinations *)
(* and texts that are cut short or not supported.                          *)
EXTENDS FrontEnd

MCNames == {"y", "r", "x", "c", "d", "e", "i"}

Output(of) == <<"output", ":", of, "*", "y">>
Arrays(of) == <<"input", ":", "int", "*", "r", ",", "int", "*", "c", ",", of, "*", "x", ",", of, "*", "d">>
Lambda == <<"lambda", "i", ":">>
At(a, b) == <<a, "[", b, "[", "i", "]", "]">>
Of(a)    == <<a, "[", "i", "]">>
Add(data) == At("y", "r") \o <<"+=">> \o data

Text(of, data) == Output(of) \o Arrays(of) \o Lambda \o Add(data)

(* pagerank.cpp: two arrays read at one index, the inputs first.           *)
PageRank == Arrays("float") \o Output("float") \o Lambda
              \o Add(At("x", "c") \o <<"/">> \o At("d", "c"))

(* Three terms, one of them another column of the same matrix.             *)
Text3 == Output("double") \o Arrays("double") \o <<",", "double", "*", "e">> \o Lambda
           \o Add(Of("e") \o <<"+">> \o At("x", "c") \o <<"*">> \o Of("d"))

Times(a, b) == a \o <<"*">> \o b
SpMV     == Times(Of("d"), At("x", "c"))
Plain_   == {Of("d"), At("x", "c"), SpMV, At("x", "c") \o <<"/">> \o Of("d"),
             Times(At("x", "c"), At("x", "c"))}
Odd      == {At("x", "r"), Times(At("x", "r"), Of("d")), Of("c"), Times(Of("c"), At("x", "c")),
             Times(At("x", "c"), Of("c")), <<"d">>, At("y", "c"), Of("y"), Times(Of("d"), Of("d")),
             Of("d") \o <<"+">> \o SpMV}

Cut(text, n) == SubSeq(text, 1, n)
SpMVText == Text("double", SpMV)

Broken ==
  {Cut(SpMVText, n) : n \in 0 .. Len(SpMVText)}
    \cup {Output("double") \o Arrays("double") \o Lambda \o rest :
            rest \in {At("y", "r") \o <<"=">> \o Of("d"), At("y", "r") \o <<"*=">> \o Of("d"),
                      Of("y") \o <<"+=">> \o Of("d"), <<"y", "+=">> \o Of("d"), Add(At("d", "e")),
                      Add(<<"d", "[", "x", "]">>), Add(Of("i")), Add(At("i", "c")),
                      <<"x", "[", "i", "]", "+=">> \o Of("d"),
                      Add(At("x", "c") \o <<"*", "x", "[", "c", "[", "i", "+", "i", "]", "]">>)}}
    \cup {Output("double") \o <<"input", ":", "double", "d", ",", "int", "*", "r">> \o Lambda \o Add(data) :
            data \in {<<"d">>, Of("d"), At("d", "r")}}
    \cup {<<"output", ":", "double", "y">> \o Arrays("double") \o Lambda \o rest :
            rest \in {Add(Of("d")), Of("y") \o <<"+=">> \o Of("d")}}
    \cup {Arrays("double") \o Lambda \o <<"+=">> \o Of("d"), Lambda \o Add(Of("d")),
          <<"input", ":", "float", "*", "d">> \o Output("double") \o <<"lambda", "i", ",", "e", ":">>
             \o Of("y") \o <<"+=">> \o Of("d"),
          <<"output", "double">>, <<"input", "double">>, <<"lambda", ",">>}

MCPrograms ==
  [text : {Text3} \cup {Text("double", data) : data \in Plain_ \cup Odd}, isa : {"AVX512", "AVX2"}]
    \cup [text : {PageRank, Text("float", SpMV)}, isa : {"AVX512"}]
    \cup [text : {Text("int", Of("d"))}, isa : {"AVX512"}]
    \cup [text : Broken, isa : {"AVX512"}]

(* Two loops, with c and r in the same order within each.                  *)
MCLoopPairs(text, ls) ==
  LET alike == {l \in ls : \A n \in DOMAIN l.gather : l.gather[n].order = l.scatter.order}
  IN IF text \in {Text("double", Of("d")), Text("float", SpMV)} THEN alike \X alike ELSE {}
=============================================================================
