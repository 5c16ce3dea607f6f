---------------------------- MODULE MCBatchReader ----------------------------
(* Small files for model checking BatchReader: words of two bytes, a chunk  *)
(* that ends inside headers and payloads, every place to cut the file.      *)
EXTENDS BatchReader

Char(n) == [t |-> "char", n |-> n]

Elements ==
  { Char(n) : n \in {-2, -1, 0, 1, 4, 5} }
    \cup { [t |-> "longref", n |-> 1], [t |-> "longref", n |-> 2],
           [t |-> "ref", n |-> 1], [t |-> "nil", n |-> 1], [t |-> "other", n |-> 1] }

Strings(elems) == [k |-> "strings", elems |-> elems]
Bytewise(n)    == [k |-> "field", n |-> n]

SomeContents ==
  { <<Strings(<<d, e>>), Bytewise(n)>> : d, e \in Elements, n \in {0, 3} }
    \cup { <<Bytewise(1), Strings(<<e>>), Strings(<<>>), Bytewise(7)>> : e \in Elements }
    \cup { <<Strings(<<Char(1), e>>), Strings(<<d>>)>> : d, e \in Elements }
=============================================================================
