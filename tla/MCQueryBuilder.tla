--------------------------- MODULE MCQueryBuilder ---------------------------
(* One table to begin with and one to change to, lists of one and two items.  *)
EXTENDS QueryBuilder

Lists == {<<<<"a">>>>, <<<<"a">>, <<"b">>>>}
Number == [string |-> FALSE, chars |-> <<"7">>]
Quoted(chars) == [string |-> TRUE, chars |-> chars]
DataRows == {<<Quoted(<<"'", "x">>)>>, <<Number, Quoted(<<"x", "'", "'", "x", "'">>)>>}
==============================================================================
