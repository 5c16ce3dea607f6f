------------------------- MODULE MCCollectionExport -------------------------
(* Names that collide, also with a number that was given to another.        *)
EXTENDS CollectionExport

\* Words, which are no numbers that _unique_name appends.
a == 100
b == 101
c == 102

SomeStems == << <<a, 2>>, <<a>>, <<a>>, <<b>> >>

SomeExisting == { <<a>>, <<c>> }
=============================================================================
