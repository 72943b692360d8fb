------------------------- MODULE QueryBuilder_Proofs -------------------------
(***************************************************************************)
(* A chain is alone in the text it executes, for all tables, columns and   *)
(* data.  ChainsAreSeparate is about the answer of the last call; what     *)
(* makes it true is Alone, about the statement still pending: unless an    *)
(* exception has left one, the text is what the running chain has asked    *)
(* for, and there is none between two chains.  RowsKnown is needed because *)
(* field() tells the first row from the others by a search of the text.    *)
(*                                                                         *)
(* LiteralsReadBack is about the recursion of innerQuotes.  Ends(arg, pos) *)
(* is what the search from pos on comes to, in one step: arg up to the     *)
(* first quote, and behind it the rest with its quotes doubled.  Ends      *)
(* obeys the recursion (a step of the search leaves it as it is), and no   *)
(* other function does, for the search comes nearer to the end of the      *)
(* text with each step: so innerQuotes doubles each quote once.            *)
(***************************************************************************)
EXTENDS QueryBuilder, Selections_Proofs

Alone ==
    ~abandoned => /\ statement.text = asked
                  /\ call = "none" => ~Pending

RowsKnown ==
    /\ call = "none" => asked = <<>>
    /\ call = "insert" => asked = <<Word("insertInto"), Word(table)>>
    /\ call \in {"field", "insertColumns"} => HasValues(asked)

IInv == TypeOK /\ Alone /\ RowsKnown /\ ChainsAreSeparate

------------------------------------------------------------------------------
(* Lists.                                                                  *)

\* A comma after each item that differs from the last is a comma between items.
LEMMA ComparedSeparates ==
  ASSUME NEW l \in ColumnLists
  PROVE  ComparedWithLast(l) = Separated(l)
<1>1. /\ l \in Seq(Seq(Chars))
      /\ \A i \in 1 .. Len(l) - 1 : l[i] # l[Len(l)]
  BY QueryBuilderAssumption
<1>2. \A i \in DOMAIN l : (l[i] # l[Len(l)]) = (i # Len(l))
  BY <1>1
<1>3. QED BY <1>2 DEF ComparedWithLast, Separated

\* So is a comma after each item once the last one is erased.
LEMMA ErasedSeparates ==
  ASSUME NEW S, NEW list \in Seq(S), list # <<>>
  PROVE  LastErased(list) = Separated(list)
<1> DEFINE all == [i \in DOMAIN list |-> [item |-> list[i], comma |-> TRUE]]
           n == Len(list)
<1>1. n \in Nat \ {0} /\ DOMAIN list = 1 .. n /\ n \in DOMAIN list
  OBVIOUS
<1>2. LastErased(list) = [all EXCEPT ![n] = [item |-> list[n], comma |-> FALSE]]
  BY <1>1 DEF LastErased
<1>3. \A i \in DOMAIN list : [all EXCEPT ![n] = [item |-> list[n], comma |-> FALSE]][i]
                             = [item |-> list[i], comma |-> i # n]
  BY <1>1
<1>4. QED BY <1>1, <1>2, <1>3 DEF Separated

LEMMA SeparatedType ==
  ASSUME NEW S, S \subseteq Items, NEW list \in Seq(S)
  PROVE  Separated(list) \in Seq([item : Items, comma : BOOLEAN])
<1>1. Len(list) \in Nat /\ DOMAIN list = 1 .. Len(list)
  OBVIOUS
<1>2. \A i \in 1 .. Len(list) :
         [item |-> list[i], comma |-> i # Len(list)] \in [item : Items, comma : BOOLEAN]
  BY <1>1
<1>3. QED BY <1>1, <1>2 DEF Separated

LEMMA ColumnsType ==
  ASSUME NEW l \in ColumnLists
  PROVE  l \in Seq(Range(l)) /\ l # <<>> /\ Range(l) \subseteq Items
<1>1. l \in Seq(Seq(Chars)) /\ l # <<>>
  BY QueryBuilderAssumption
<1>2. l \in Seq(Range(l))
  BY <1>1 DEF Range
<1>3. QED BY <1>1, <1>2 DEF Items

LEMMA LiteralsType ==
  ASSUME NEW r \in Rows
  PROVE  /\ Literals(r) \in Seq(Range(Literals(r))) /\ Literals(r) # <<>>
         /\ Range(Literals(r)) \subseteq Items
<1>1. r \in Seq([string : BOOLEAN, chars : Seq(Chars)]) /\ r # <<>>
  BY QueryBuilderAssumption
<1>2. DOMAIN Literals(r) = 1 .. Len(r) /\ Len(r) \in Nat /\ Len(r) # 0
  BY <1>1 DEF Literals
<1>3. Literals(r) \in Seq(Range(Literals(r)))
  BY <1>2 DEF Range, Literals
<1>4. Literals(r) # <<>>
  BY <1>2
<1>5. QED BY <1>3, <1>4 DEF Items

LEMMA AssignmentsType ==
  ASSUME NEW l \in ColumnLists, NEW r \in Rows, <<l, r>> \in SameLength
  PROVE  /\ Assignments(l, r) \in Seq(Range(Assignments(l, r))) /\ Assignments(l, r) # <<>>
         /\ Range(Assignments(l, r)) \subseteq Items
<1>1. l \in Seq(Seq(Chars)) /\ l # <<>>
  BY QueryBuilderAssumption
<1>2. DOMAIN Assignments(l, r) = 1 .. Len(l) /\ Len(l) \in Nat /\ Len(l) # 0
  BY <1>1 DEF Assignments
<1>3. Assignments(l, r) \in Seq(Range(Assignments(l, r)))
  <2>1. \A i \in 1 .. Len(l) : Assignments(l, r)[i] \in Range(Assignments(l, r))
    BY <1>2 DEF Range
  <2>2. Assignments(l, r) = [i \in 1 .. Len(l) |-> Assignments(l, r)[i]]
    BY <1>2 DEF Assignments
  <2>3. QED BY ONLY <1>2, <2>1, <2>2, SMT
<1>4. Assignments(l, r) # <<>>
  BY <1>2
<1>5. Range(Assignments(l, r)) \subseteq Items
  BY DEF Items
<1>6. QED BY <1>3, <1>4, <1>5

------------------------------------------------------------------------------
(* Lexemes.                                                                *)

LEMMA WordType ==
  ASSUME NEW w \in Keywords \cup Joins \cup Tables
  PROVE  Word(w) \in Lexeme
BY DEF Word, Lexeme

LEMMA ListType ==
  ASSUME NEW S, S \subseteq Items, NEW list \in Seq(S)
  PROVE  List(Separated(list)) \in Lexeme
<1>1. Separated(list) \in Seq([item : Items, comma : BOOLEAN])
  BY SeparatedType
<1>2. "items" \in Keywords
  BY DEF Keywords
<1>3. QED BY <1>1, <1>2 DEF List, Lexeme

LEMMA EmptyType == <<>> \in Seq(Lexeme)
OBVIOUS

\* A clause that writes what it means keeps the chain alone.
LEMMA ClauseKeeps ==
  ASSUME IInv, NEW name \in Calls \ {"none", "insert"}, NEW after, "none" \notin after,
         NEW written \in Seq(Lexeme), NEW meant \in Seq(Lexeme),
         Clause(name, after, written, meant),
         ~abandoned => written = meant,
         name \in {"field", "insertColumns"} =>
             call \in {"field", "insertColumns"} \/ HasValues(meant)
  PROVE  IInv'
<1> USE DEF IInv, TypeOK, Clause
<1>1. Pending /\ statement \in [type : Types, text : Seq(Lexeme)]
  <2>1. call # "none"
    OBVIOUS
  <2>2. QED BY <2>1 DEF Pending
<1>2. /\ statement' \in [type : Types, text : Seq(Lexeme)]
      /\ statement'.text = statement.text \o written
  <2>1. statement.text \o written \in Seq(Lexeme)
    BY <1>1
  <2>2. statement' = [statement EXCEPT !.text = statement.text \o written]
    OBVIOUS
  <2>3. QED BY <1>1, <2>1, <2>2
<1>3. Pending'
  BY <1>2 DEF Pending, NoStatement, Types
<1>4. TypeOK'
  BY <1>2, <1>3
<1>5. Alone'
  BY <1>2 DEF Alone
<1>6. RowsKnown'
  <2>1. SUFFICES ASSUME name \in {"field", "insertColumns"}
                 PROVE  HasValues(asked \o meant)
    BY DEF RowsKnown, HasValues
  <2>2. CASE HasValues(asked)
    <3>1. PICK i \in DOMAIN asked : asked[i].word = "values"
      BY <2>2 DEF HasValues
    <3>2. i \in DOMAIN (asked \o meant) /\ (asked \o meant)[i] = asked[i]
      BY <3>1
    <3>3. QED BY <3>1, <3>2 DEF HasValues
  <2>3. CASE HasValues(meant)
    <3>1. PICK i \in DOMAIN meant : meant[i].word = "values"
      BY <2>3 DEF HasValues
    <3>2. Len(asked) + i \in DOMAIN (asked \o meant) /\ (asked \o meant)[Len(asked) + i] = meant[i]
      BY <3>1
    <3>3. QED BY <3>1, <3>2 DEF HasValues
  <2>4. QED BY <2>1, <2>2, <2>3 DEF RowsKnown
<1>7. ChainsAreSeparate'
  BY DEF ChainsAreSeparate
<1>8. QED BY <1>4, <1>5, <1>6, <1>7

\* The same for clauses that are only words.
LEMMA WordsKeep ==
  ASSUME IInv, NEW name \in Calls \ {"none", "insert", "field", "insertColumns"},
         NEW after, "none" \notin after, NEW written \in Seq(Lexeme),
         Same(name, after, written)
  PROVE  IInv'
BY ClauseKeeps DEF Same

------------------------------------------------------------------------------
(* The clauses.                                                            *)

\* The keywords are lexemes, each by itself.
LEMMA KeywordsType ==
  /\ Word("items") \in Lexeme /\ Word("select") \in Lexeme /\ Word("insertInto") \in Lexeme
  /\ Word("update") \in Lexeme /\ Word("deleteFrom") \in Lexeme /\ Word("distinct") \in Lexeme
  /\ Word("from") \in Lexeme /\ Word("on") \in Lexeme /\ Word("where") \in Lexeme
  /\ Word("and") \in Lexeme /\ Word("or") \in Lexeme /\ Word("in") \in Lexeme
  /\ Word("query") \in Lexeme /\ Word("between") \in Lexeme /\ Word("like") \in Lexeme
  /\ Word("any") \in Lexeme /\ Word("all") \in Lexeme /\ Word("groupBy") \in Lexeme
  /\ Word("having") \in Lexeme /\ Word("orderBy") \in Lexeme /\ Word("desc") \in Lexeme
  /\ Word("limit") \in Lexeme /\ Word("offset") \in Lexeme /\ Word("values") \in Lexeme
  /\ Word("set") \in Lexeme /\ Word("returning") \in Lexeme /\ Word("open") \in Lexeme
  /\ Word("close") \in Lexeme /\ Word("comma") \in Lexeme
BY WordType DEF Keywords

LEMMA SelectKeeps ==
  ASSUME IInv, SelectClauses
  PROVE  IInv'
<1> USE DEF Calls, Types, Conditions, Tested, Source
<1>1. CASE Distinct
  <2>1. <<Word("distinct")>> \in Seq(Lexeme)
    BY KeywordsType
  <2>2. QED BY <1>1, <2>1, WordsKeep DEF Distinct
<1>2. ASSUME NEW l \in ColumnLists, SelectColumns(l)
      PROVE  IInv'
  <2>1. <<List(Separated(l))>> \o <<Word("from"), Word(table)>> \in Seq(Lexeme)
    BY ColumnsType, ListType, KeywordsType, WordType DEF IInv, TypeOK
  <2>2. QED BY <1>2, <2>1, ComparedSeparates, ClauseKeeps DEF SelectColumns
<1>3. ASSUME NEW j \in Joins, NEW t \in Tables, Join(j, t)
      PROVE  IInv'
  <2>1. <<Word(j), Word(t), Word("on")>> \in Seq(Lexeme)
    BY KeywordsType, WordType
  <2>2. QED BY <1>3, <2>1, WordsKeep DEF Join
<1>4. CASE AnyQuery
  <2>1. <<Word("any"), Word("open"), Word("query"), Word("close")>> \in Seq(Lexeme)
    BY KeywordsType
  <2>2. QED BY <1>4, <2>1, WordsKeep DEF AnyQuery
<1>5. CASE AllQuery
  <2>1. <<Word("all"), Word("open"), Word("query"), Word("close")>> \in Seq(Lexeme)
    BY KeywordsType
  <2>2. QED BY <1>5, <2>1, WordsKeep DEF AllQuery
<1>6. CASE Having
  <2>1. <<Word("having")>> \in Seq(Lexeme)
    BY KeywordsType
  <2>2. QED BY <1>6, <2>1, WordsKeep DEF Having
<1>7. CASE Limit
  <2>1. <<Word("limit"), Word("offset")>> \in Seq(Lexeme)
    BY KeywordsType
  <2>2. QED BY <1>7, <2>1, WordsKeep DEF Limit
<1>8. ASSUME NEW l \in ColumnLists, GroupBy(l)
      PROVE  IInv'
  <2>1. <<Word("groupBy"), List(Separated(l))>> \in Seq(Lexeme)
    BY ColumnsType, ListType, KeywordsType
  <2>2. QED BY <1>8, <2>1, ComparedSeparates, ClauseKeeps DEF GroupBy
<1>9. ASSUME NEW l \in ColumnLists, NEW d \in BOOLEAN, OrderBy(l, d)
      PROVE  IInv'
  <2> DEFINE order == IF d THEN <<Word("desc")>> ELSE <<>>
  <2>1. <<Word("orderBy"), List(Separated(l))>> \in Seq(Lexeme) /\ order \in Seq(Lexeme)
    BY ColumnsType, ListType, KeywordsType
  <2>2. Clause("orderBy", Source \cup Conditions \cup {"groupBy", "having"},
               <<Word("orderBy"), List(Separated(l))>> \o order,
               <<Word("orderBy"), List(Separated(l))>> \o order)
    BY <1>9, ComparedSeparates DEF OrderBy
  <2> HIDE DEF order
  <2>3. <<Word("orderBy"), List(Separated(l))>> \o order \in Seq(Lexeme)
    BY <2>1
  <2>4. QED BY <2>2, <2>3, ClauseKeeps
<1>10. QED BY <1>1, <1>2, <1>3, <1>4, <1>5, <1>6, <1>7, <1>8, <1>9 DEF SelectClauses

LEMMA WhereKeeps ==
  ASSUME IInv, WhereClauses
  PROVE  IInv'
<1> USE DEF Calls, Types, Conditions, Tested, Source
<1>1. CASE Where
  <2>1. <<Word("where")>> \in Seq(Lexeme)
    BY KeywordsType
  <2>2. QED BY <1>1, <2>1, WordsKeep DEF Where
<1>2. CASE And
  <2>1. <<Word("and")>> \in Seq(Lexeme)
    BY KeywordsType
  <2>2. QED BY <1>2, <2>1, WordsKeep DEF And
<1>3. CASE Or
  <2>1. <<Word("or")>> \in Seq(Lexeme)
    BY KeywordsType
  <2>2. QED BY <1>3, <2>1, WordsKeep DEF Or
<1>4. CASE InQuery
  <2>1. <<Word("in"), Word("open"), Word("query"), Word("close")>> \in Seq(Lexeme)
    BY KeywordsType
  <2>2. QED BY <1>4, <2>1, WordsKeep DEF InQuery
<1>5. CASE Between
  <2>1. <<Word("between"), Word("and")>> \in Seq(Lexeme)
    BY KeywordsType
  <2>2. QED BY <1>5, <2>1, WordsKeep DEF Between
<1>6. CASE Like
  <2>1. <<Word("like")>> \in Seq(Lexeme)
    BY KeywordsType
  <2>2. QED BY <1>6, <2>1, WordsKeep DEF Like
<1>7. ASSUME NEW l \in ColumnLists, InList(l)
      PROVE  IInv'
  <2>1. <<Word("in"), Word("open"), List(Separated(l)), Word("close")>> \in Seq(Lexeme)
    BY ColumnsType, ListType, KeywordsType
  <2>2. QED BY <1>7, <2>1, ComparedSeparates, ClauseKeeps DEF InList
<1>8. QED BY <1>1, <1>2, <1>3, <1>4, <1>5, <1>6, <1>7 DEF WhereClauses

\* The first row is told by the text; the clause before it tells the same.
LEMMA FirstRow ==
  ASSUME IInv, ~abandoned, call \in {"insert", "field", "insertColumns"}
  PROVE  HasValues(statement.text) <=> call # "insert"
<1>1. statement.text = asked
  BY DEF IInv, Alone
<1>2. CASE call = "insert"
  <2>1. asked = <<Word("insertInto"), Word(table)>> /\ table # "values"
    BY <1>2, QueryBuilderAssumption DEF IInv, RowsKnown, TypeOK
  <2>2. asked[1].word = "insertInto" /\ asked[2].word = table /\ DOMAIN asked = {1, 2}
    BY <2>1 DEF Word
  <2>3. QED BY <1>1, <1>2, <2>1, <2>2 DEF HasValues
<1>3. CASE call # "insert"
  BY <1>1, <1>3 DEF IInv, RowsKnown
<1>4. QED BY <1>2, <1>3

LEMMA InsertKeeps ==
  ASSUME IInv, InsertClauses
  PROVE  IInv'
<1> USE DEF Calls, Types, Conditions, Tested, Source
<1>1. ASSUME NEW r \in Rows, FieldRow(r)
      PROVE  IInv'
  <2> DEFINE row == List(Separated(Literals(r)))
             first == <<Word("values"), Word("open")>> \o <<row, Word("close")>>
             other == <<Word("comma"), Word("open")>> \o <<row, Word("close")>>
             written == IF HasValues(statement.text) THEN other ELSE first
             meant == IF call = "insert" THEN first ELSE other
  <2>1. row \in Lexeme /\ List(LastErased(Literals(r))) = row
    BY LiteralsType, ListType, ErasedSeparates
  <2>2. first \in Seq(Lexeme) /\ other \in Seq(Lexeme)
    <3> HIDE DEF row
    <3>1. QED BY <2>1, KeywordsType
  <2>3. HasValues(first)
    <3> HIDE DEF row
    <3>1. ASSUME NEW a \in Lexeme, NEW b \in Lexeme, NEW rest \in Seq(Lexeme)
          PROVE  1 \in DOMAIN (<<a, b>> \o rest) /\ (<<a, b>> \o rest)[1] = a
      OBVIOUS
    <3>2. 1 \in DOMAIN first /\ first[1] = Word("values")
      BY <2>1, <3>1, KeywordsType
    <3>3. QED BY <3>2 DEF HasValues, Word
  <2>4. call \in {"insert", "field", "insertColumns"}
    BY <1>1 DEF FieldRow, Clause
  <2>5. Clause("field", {"insert", "field", "insertColumns"}, written, meant)
    BY <1>1, <2>1 DEF FieldRow
  <2>6. ~abandoned => written = meant
    BY <2>4, FirstRow
  <2>7. written \in Seq(Lexeme) /\ meant \in Seq(Lexeme)
    BY <2>2
  <2>8. call \in {"field", "insertColumns"} \/ HasValues(meant)
    BY <2>3, <2>4
  <2> HIDE DEF written, meant
  <2>9. QED BY <2>5, <2>6, <2>7, <2>8, ClauseKeeps
<1>2. ASSUME NEW l \in ColumnLists, NEW r \in Rows, InsertColumns(l, r)
      PROVE  IInv'
  <2> DEFINE names == List(Separated(l))
             row == List(Separated(Literals(r)))
             written == <<Word("open"), names, Word("close"), Word("values"), Word("open"),
                          row, Word("close")>>
  <2>1. names \in Lexeme /\ List(LastErased(l)) = names
    BY ColumnsType, ListType, ErasedSeparates
  <2>2. row \in Lexeme /\ List(LastErased(Literals(r))) = row
    BY LiteralsType, ListType, ErasedSeparates
  <2>3. Same("insertColumns", {"insert"}, written)
    BY <1>2, <2>1, <2>2 DEF InsertColumns, Same
  <2> HIDE DEF names, row
  <2>4. written \in Seq(Lexeme)
    BY <2>1, <2>2, KeywordsType
  <2>5. 4 \in DOMAIN written /\ written[4].word = "values"
    BY DEF Word
  <2> HIDE DEF written
  <2>6. HasValues(written)
    BY <2>5 DEF HasValues
  <2>7. QED BY <2>3, <2>4, <2>6, ClauseKeeps DEF Same
<1>3. ASSUME NEW l \in ColumnLists, Returning(l)
      PROVE  IInv'
  <2>1. <<Word("returning"), List(Separated(l))>> \in Seq(Lexeme)
    BY ColumnsType, ListType, KeywordsType
  <2>2. QED BY <1>3, <2>1, ComparedSeparates, ClauseKeeps DEF Returning
<1>4. QED BY <1>1, <1>2, <1>3 DEF InsertClauses

LEMMA UpdateKeeps ==
  ASSUME IInv, UpdateClauses
  PROVE  IInv'
<1> USE DEF Calls, Types, Conditions, Tested, Source
<1>1. PICK l \in ColumnLists, r \in Rows : Fields(l, r)
  BY DEF UpdateClauses
<1> DEFINE set == List(Separated(Assignments(l, r)))
<1>2. <<l, r>> \in SameLength
  BY <1>1 DEF Fields
<1>3. set \in Lexeme /\ List(LastErased(Assignments(l, r))) = set
  BY <1>2, AssignmentsType, ListType, ErasedSeparates
<1>4. Same("fields", {"update"}, <<Word("set"), set>>)
  BY <1>1, <1>3 DEF Fields, Same
<1> HIDE DEF set
<1>5. <<Word("set"), set>> \in Seq(Lexeme)
  BY <1>3, KeywordsType
<1>6. QED BY <1>4, <1>5, WordsKeep

------------------------------------------------------------------------------
(* Beginnings and ends.                                                    *)

LEMMA BeginKeeps ==
  ASSUME IInv, NEW type \in Types, NEW words \in Seq(Lexeme), Begin(type, words),
         type = "insert" => words = <<Word("insertInto"), Word(table)>>
  PROVE  IInv'
<1> USE DEF IInv, TypeOK, Begin
<1>1. CASE Pending /\ statement.type # type
  <2>1. /\ UNCHANGED <<table, statement, call, asked, abandoned>>
        /\ last' = [op |-> "refused", text |-> <<>>, asked |-> <<>>, own |-> ~abandoned]
        /\ abandoned
    BY <1>1 DEF Alone
  <2>2. TypeOK'
    BY <2>1 DEF Pending
  <2>3. Alone' /\ RowsKnown'
    BY <2>1 DEF Alone, RowsKnown, HasValues
  <2>4. ChainsAreSeparate'
    BY <2>1 DEF ChainsAreSeparate
  <2>5. QED BY <2>2, <2>3, <2>4
<1>2. CASE ~(Pending /\ statement.type # type)
  <2>1. /\ statement' = IF Pending THEN statement ELSE [type |-> type, text |-> words]
        /\ call' = type /\ asked' = words /\ last' = NothingYet
        /\ table' = table /\ abandoned' = abandoned
    BY <1>2
  <2>2. Pending' /\ statement' \in [type : Types, text : Seq(Lexeme)]
    BY <2>1 DEF Pending, NoStatement, Types
  <2>3. NothingYet \in [op : Answers \cup {"none", "refused"}, text : Seq(Lexeme),
                        asked : Seq(Lexeme), own : BOOLEAN]
    BY DEF NothingYet
  <2>4. TypeOK'
    BY <2>1, <2>2, <2>3 DEF Calls
  <2>5. Alone'
    BY <2>1 DEF Alone, Types
  <2>6. RowsKnown'
    BY <2>1 DEF RowsKnown, Types
  <2>7. ChainsAreSeparate'
    BY <2>1 DEF ChainsAreSeparate, NothingYet
  <2>8. QED BY <2>4, <2>5, <2>6, <2>7
<1>3. QED BY <1>1, <1>2

LEMMA EndKeeps ==
  ASSUME IInv, statement' = NoStatement, call' = "none", table' \in Tables, asked' = <<>>,
         abandoned' = FALSE, \/ last' = last
                             \/ last' = NothingYet
                             \/ \E a \in Answers :
                                   last' = [op |-> a, text |-> statement.text, asked |-> asked,
                                            own |-> ~abandoned]
  PROVE  IInv'
<1> USE DEF IInv, TypeOK
<1>1. /\ NoStatement.text = <<>>
      /\ NothingYet \in [op : Answers \cup {"none", "refused"}, text : Seq(Lexeme),
                         asked : Seq(Lexeme), own : BOOLEAN]
  BY DEF NoStatement, NothingYet
<1>2. statement.text \in Seq(Lexeme)
  <2>1. CASE statement = NoStatement
    BY ONLY <1>1, <2>1, EmptyType
  <2>2. CASE statement \in [type : Types, text : Seq(Lexeme)]
    BY <2>2
  <2>3. QED BY <2>1, <2>2
<1>3. ASSUME NEW a \in Answers,
             last' = [op |-> a, text |-> statement.text, asked |-> asked, own |-> ~abandoned]
      PROVE  /\ last' \in [op : Answers \cup {"none", "refused"}, text : Seq(Lexeme),
                          asked : Seq(Lexeme), own : BOOLEAN]
             /\ ChainsAreSeparate'
  <2>1. a # "refused"
    BY DEF Answers
  <2>2. last'.op = a /\ last'.text = statement.text /\ last'.asked = asked /\ last'.own = ~abandoned
    BY <1>3
  <2>3. ChainsAreSeparate'
    BY <2>1, <2>2 DEF ChainsAreSeparate, Alone
  <2>4. QED BY <1>2, <1>3, <2>3
<1>4. CASE last' \in {last, NothingYet}
  <2>1. ChainsAreSeparate'
    BY <1>4 DEF ChainsAreSeparate, NothingYet
  <2>2. last' \in [op : Answers \cup {"none", "refused"}, text : Seq(Lexeme),
                  asked : Seq(Lexeme), own : BOOLEAN]
    BY <1>1, <1>4
  <2>3. TypeOK'
    <3>1. call' \in Calls
      BY DEF Calls
    <3>2. QED BY <2>2, <3>1, EmptyType
  <2>4. Alone' /\ RowsKnown'
    BY <1>1 DEF Alone, RowsKnown, Pending
  <2>5. QED BY <2>1, <2>3, <2>4
<1>5. CASE last' \notin {last, NothingYet}
  <2>1. ChainsAreSeparate'
    BY <1>3, <1>5
  <2>2. last' \in [op : Answers \cup {"none", "refused"}, text : Seq(Lexeme),
                  asked : Seq(Lexeme), own : BOOLEAN]
    BY <1>3, <1>5
  <2>3. TypeOK'
    <3>1. call' \in Calls
      BY DEF Calls
    <3>2. QED BY <2>2, <3>1, EmptyType
  <2>4. Alone' /\ RowsKnown'
    BY <1>1 DEF Alone, RowsKnown, Pending
  <2>5. QED BY <2>1, <2>3, <2>4
<1>6. QED BY <1>4, <1>5

LEMMA BuilderInvariant == Spec => []IInv
<1>1. Init => IInv
  <2> SUFFICES ASSUME Init PROVE IInv
    OBVIOUS
  <2>1. NothingYet \in [op : Answers \cup {"none", "refused"}, text : Seq(Lexeme),
                       asked : Seq(Lexeme), own : BOOLEAN]
    BY DEF NothingYet
  <2>2. TypeOK
    <3>1. call \in Calls
      BY DEF Init, Calls
    <3>2. QED BY <2>1, <3>1, EmptyType DEF Init, TypeOK
  <2>3. Alone /\ RowsKnown /\ ChainsAreSeparate
    BY DEF Init, Alone, RowsKnown, ChainsAreSeparate, NothingYet, NoStatement, Pending
  <2>4. QED BY <2>2, <2>3 DEF IInv
<1>2. IInv /\ [Next]_vars => IInv'
  <2> SUFFICES ASSUME IInv, [Next]_vars PROVE IInv'
    OBVIOUS
  <2>1. CASE Select
    <3>1. <<Word("select")>> \in Seq(Lexeme)
      BY KeywordsType, WordType DEF IInv, TypeOK
    <3>2. QED BY <2>1, <3>1, BeginKeeps DEF Select, Types
  <2>2. CASE Insert
    <3>1. <<Word("insertInto"), Word(table)>> \in Seq(Lexeme)
      BY KeywordsType, WordType DEF IInv, TypeOK
    <3>2. QED BY <2>2, <3>1, BeginKeeps DEF Insert, Types
  <2>3. CASE Update
    <3>1. <<Word("update"), Word(table)>> \in Seq(Lexeme)
      BY KeywordsType, WordType DEF IInv, TypeOK
    <3>2. QED BY <2>3, <3>1, BeginKeeps DEF Update, Types
  <2>4. CASE Delete
    <3>1. <<Word("deleteFrom"), Word(table)>> \in Seq(Lexeme)
      BY KeywordsType, WordType DEF IInv, TypeOK
    <3>2. QED BY <2>4, <3>1, BeginKeeps DEF Delete, Types
  <2>5. ASSUME NEW t \in Tables, ChangeTable(t)
        PROVE  IInv'
    BY <2>5, EndKeeps DEF ChangeTable, IInv, RowsKnown
  <2>6. CASE SelectClauses
    BY <2>6, SelectKeeps
  <2>7. CASE WhereClauses
    BY <2>7, WhereKeeps
  <2>8. CASE InsertClauses
    BY <2>8, InsertKeeps
  <2>9. CASE UpdateClauses
    BY <2>9, UpdateKeeps
  <2>10. ASSUME NEW a \in Answers, Execute(a)
         PROVE  IInv'
    BY <2>10, EndKeeps DEF Execute, IInv, TypeOK
  <2>11. CASE Rollback
    BY <2>11, EndKeeps DEF Rollback, IInv, TypeOK
  <2>12. CASE Abandon
    BY <2>12 DEF Abandon, IInv, TypeOK, Alone, RowsKnown, ChainsAreSeparate, Calls
  <2>13. CASE UNCHANGED vars
    BY <2>13 DEF vars, IInv, TypeOK, Alone, RowsKnown, ChainsAreSeparate, Pending, HasValues
  <2>14. QED BY <2>1, <2>2, <2>3, <2>4, <2>5, <2>6, <2>7, <2>8, <2>9, <2>10, <2>11, <2>12, <2>13
             DEF Next
<1>3. QED BY <1>1, <1>2, PTL DEF Spec

------------------------------------------------------------------------------
\* The builder's state has its types, and a caller in the middle of a chain has
\* a statement to write to (QueryBuilder::Select .. Delete never give nullptr).
THEOREM BuilderTyped == Spec => []TypeOK
<1>1. IInv => TypeOK
  BY DEF IInv
<1>2. QED BY BuilderInvariant, <1>1, PTL

\* Whatever the tables, columns and data are, and however the statements before
\* have ended: a chain that does not come right after an exception is not
\* refused, and execute() hands over what that chain has asked for.
THEOREM ChainsSeparate == Spec => []ChainsAreSeparate
<1>1. IInv => ChainsAreSeparate
  BY DEF IInv
<1>2. QED BY BuilderInvariant, <1>1, PTL
------------------------------------------------------------------------------
(* Concatenation.                                                          *)

\* s is a list of n sequences of V, which is closed under concatenation.
ListOf(V, s, n) == /\ <<>> \in V /\ \A u, v \in V : u \o v \in V
                   /\ n \in Nat /\ Len(s) = n /\ \A i \in 1..n : s[i] \in V /\ <<>> \o s[i] = s[i]
\* f is the table of their concatenation.
Flattens(f, s, n) == f[0] = <<>> /\ \A i \in 1..n : f[i] = f[i - 1] \o s[i]

LEMMA FlattenTable ==
  ASSUME NEW V, NEW s, NEW n, ListOf(V, s, n), n = 0 => s = <<>>
  PROVE  \E g \in [0..n -> V] : Flattens(g, s, n) /\ FlattenSeq(s) = g[n]
<1>1. n \in Nat /\ Len(s) = n /\ <<>> \in V /\ \A i \in 1..n : s[i] \in V /\ <<>> \o s[i] = s[i]
  BY DEF ListOf
<1> DEFINE step == [i \in Nat |-> [v \in V |-> IF i \in 1..n THEN v \o s[i] ELSE v]]
<1>2. step \in [Nat -> [V -> V]]
  BY DEF ListOf
<1>3. \A v \in V, i \in 1..n : step[i][v] = v \o s[i]
  BY SMTT(30), <1>1
<1> HIDE DEF step
<1>4. PICK g \in [0..n -> V] : Recursive(g, <<>>, step, n)
  BY <1>1, <1>2, Recursion
<1>5. g[0] = <<>>
  BY <1>1, <1>4 DEF Recursive
<1>6. ASSUME NEW i \in 1..n PROVE g[i] = g[i - 1] \o s[i]
  <2>1. i \in 0..n /\ i # 0 /\ i - 1 \in 0..n
    BY <1>1
  <2>2. g[i] = step[i][g[i - 1]] /\ g[i - 1] \in V
    BY <1>4, <2>1 DEF Recursive
  <2> QED
    BY <1>3, <2>2
<1>7. Flattens(g, s, n)
  BY <1>5, <1>6 DEF Flattens
<1> DEFINE Table(f) == f = [i \in 1..n |-> IF i = 1 THEN s[i] ELSE f[i - 1] \o s[i]]
           flatten == CHOOSE f : Table(f)
<1>8. CASE n = 0
  <2>1. FlattenSeq(s) = <<>>
    BY <1>1, <1>8 DEF FlattenSeq
  <2> QED
    BY <1>5, <1>7, <1>8, <2>1
<1>9. CASE n # 0
  <2>1. FlattenSeq(s) = flatten[n]
    BY <1>1, <1>9 DEF FlattenSeq
  <2> DEFINE h == [i \in 1..n |-> g[i]]
  <2>2. Table(h)
    <3>1. ASSUME NEW i \in 1..n PROVE h[i] = IF i = 1 THEN s[i] ELSE h[i - 1] \o s[i]
      <4>1. CASE i = 1
        <5>1. g[i] = g[i - 1] \o s[i]
          BY <1>6
        <5>3. i - 1 = 0
          BY <4>1
        <5>2. <<>> \o s[i] = s[i] /\ h[i] = g[i]
          BY <1>1
        <5> QED
          BY <1>5, <4>1, <5>1, <5>2, <5>3
      <4>2. CASE i # 1
        <5>1. i - 1 \in 1..n
          BY <1>1, <4>2
        <5> QED
          BY <1>6, <4>2, <5>1
      <4> QED
        BY <4>1, <4>2
    <3> QED
      BY <3>1
  <2> HIDE DEF h
  <2>3. Table(flatten)
    <3> HIDE DEF Table
    <3> QED
      BY <2>2
  <2> HIDE DEF flatten
  <2> DEFINE G == {k \in Nat : k + 1 <= n => flatten[k + 1] = g[k + 1]}
  <2>4. 0 \in G
    <3>1. 1 \in 1..n /\ 1 - 1 = 0 /\ 0 + 1 = 1
      BY <1>1, <1>9
    <3>2. flatten[1] = s[1]
      BY <2>3, <3>1
    <3>3. g[1] = s[1]
      <4>1. g[1] = g[1 - 1] \o s[1]
        BY <1>6, <3>1
      <4>2. <<>> \o s[1] = s[1]
        BY <1>1, <3>1
      <4> QED
        BY <1>5, <3>1, <4>1, <4>2
    <3> QED
      BY <3>1, <3>2, <3>3
  <2>5. ASSUME NEW k \in Nat, k \in G PROVE k + 1 \in G
    <3> SUFFICES ASSUME (k + 1) + 1 <= n PROVE flatten[(k + 1) + 1] = g[(k + 1) + 1]
      OBVIOUS
    <3>1. flatten[k + 1] = g[k + 1]
      BY <1>1, <2>5
    <3>2. PICK i : i = (k + 1) + 1 /\ i \in 1..n /\ i # 1 /\ i - 1 = k + 1
      BY <1>1
    <3>3. flatten[i] = flatten[i - 1] \o s[i]
      BY <2>3, <3>2
    <3>4. g[i] = g[i - 1] \o s[i]
      BY <1>6, <3>2
    <3> QED
      BY <3>1, <3>2, <3>3, <3>4
  <2>6. Nat \subseteq G
    <3> HIDE DEF G
    <3> QED
      BY <2>4, <2>5, Induction
  <2>7. PICK k \in Nat : k + 1 = n
    <3>1. n - 1 \in Nat /\ (n - 1) + 1 = n
      BY <1>1, <1>9
    <3> QED
      BY <3>1
  <2>8. flatten[n] = g[n]
    BY <2>6, <2>7
  <2> QED
    BY <1>7, <2>1, <2>8
<1> QED
  BY <1>8, <1>9

LEMMA FlattenMore ==
  ASSUME NEW V, NEW s, NEW t, NEW n, ListOf(V, s, n), n = 0 => s = <<>>, ListOf(V, t, n + 1),
         \A i \in 1..n : t[i] = s[i]
  PROVE  FlattenSeq(s) \in V /\ FlattenSeq(t) = FlattenSeq(s) \o t[n + 1]
<1>1. n \in Nat /\ n + 1 # 0
  BY DEF ListOf
<1>2. PICK f \in [0..n -> V] : Flattens(f, s, n) /\ FlattenSeq(s) = f[n]
  BY FlattenTable
<1>3. PICK g \in [0..(n + 1) -> V] : Flattens(g, t, n + 1) /\ FlattenSeq(t) = g[n + 1]
  <2>1. PICK m : m = n + 1
    OBVIOUS
  <2>2. ListOf(V, t, m) /\ m # 0
    BY <1>1, <2>1
  <2>3. \E g \in [0..m -> V] : Flattens(g, t, m) /\ FlattenSeq(t) = g[m]
    BY <2>2, FlattenTable
  <2> QED
    BY <2>1, <2>3
<1>4. f[0] = <<>> /\ \A i \in 1..n : f[i] = f[i - 1] \o s[i]
  BY <1>2 DEF Flattens
<1>5. g[0] = <<>> /\ \A i \in 1..(n + 1) : g[i] = g[i - 1] \o t[i]
  BY <1>3 DEF Flattens
<1> DEFINE G == {k \in Nat : k <= n => f[k] = g[k]}
<1>6. 0 \in G
  BY <1>4, <1>5
<1>7. ASSUME NEW k \in Nat, k \in G PROVE k + 1 \in G
  <2> SUFFICES ASSUME k + 1 <= n PROVE f[k + 1] = g[k + 1]
    OBVIOUS
  <2>1. PICK i : i = k + 1 /\ i \in 1..n /\ i \in 1..(n + 1) /\ i - 1 = k
    BY <1>1
  <2>2. f[k] = g[k]
    BY <1>1, <1>7
  <2> QED
    BY <1>4, <1>5, <2>1, <2>2
<1>8. Nat \subseteq G
  <2> HIDE DEF G
  <2> QED
    BY <1>6, <1>7, Induction
<1>9. f[n] = g[n]
  <2>1. n \in G
    BY <1>1, <1>8
  <2> QED
    BY <1>1, <2>1
<1>10. g[n + 1] = g[n] \o t[n + 1]
  <2>1. n + 1 \in 1..(n + 1) /\ (n + 1) - 1 = n
    BY <1>1
  <2> QED
    BY <1>5, <2>1
<1>11. f[n] \in V
  BY <1>1
<1> QED
  BY <1>2, <1>3, <1>9, <1>10, <1>11

------------------------------------------------------------------------------
(* Doubled.                                                                *)

Twice(c) == IF c = "'" THEN <<"'", "'">> ELSE <<c>>
Pieces(s) == [i \in DOMAIN s |-> Twice(s[i])]
\* There is no quote in s.
Plain(s) == \A i \in DOMAIN s : s[i] # "'"

LEMMA PiecesType ==
  ASSUME NEW s \in Seq(Chars)
  PROVE  /\ ListOf(Seq(Chars), Pieces(s), Len(s))
         /\ Len(s) = 0 => Pieces(s) = <<>>
         /\ Doubled(s) = FlattenSeq(Pieces(s))
<1>1. Len(s) \in Nat /\ DOMAIN s = 1..Len(s) /\ \A i \in 1..Len(s) : s[i] \in Chars
  OBVIOUS
<1>2. \A c \in Chars : Twice(c) \in Seq(Chars)
  BY QueryBuilderAssumption DEF Twice
<1>3. Pieces(s) = [i \in 1..Len(s) |-> Twice(s[i])]
  BY <1>1 DEF Pieces
<1>4. Len(Pieces(s)) = Len(s)
  BY <1>1, <1>3
<1>5. Len(s) = 0 => Pieces(s) = <<>>
  BY <1>1, <1>3
<1>6. \A i \in 1..Len(s) : Pieces(s)[i] \in Seq(Chars) /\ <<>> \o Pieces(s)[i] = Pieces(s)[i]
  <2>1. ASSUME NEW i \in 1..Len(s) PROVE Pieces(s)[i] \in Seq(Chars)
    BY <1>1, <1>2, <1>3
  <2> QED
    BY <2>1, ConcatEmptySeq
<1>7. <<>> \in Seq(Chars) /\ \A u, v \in Seq(Chars) : u \o v \in Seq(Chars)
  OBVIOUS
<1>8. Doubled(s) = FlattenSeq(Pieces(s))
  BY DEF Doubled, Pieces, Twice
<1> QED
  BY <1>1, <1>4, <1>5, <1>6, <1>7, <1>8 DEF ListOf

LEMMA DoubledEmpty == Doubled(<<>>) = <<>>
<1>1. <<>> \in Seq(Chars) /\ Len(<<>>) = 0
  OBVIOUS
<1>2. PICK s \in Seq(Chars) : s = <<>> /\ Len(s) = 0
  BY <1>1
<1>3. Pieces(s) = <<>> /\ Doubled(s) = FlattenSeq(Pieces(s))
  BY <1>2, PiecesType
<1> QED
  BY <1>1, <1>2, <1>3 DEF FlattenSeq

LEMMA DoubledAppend ==
  ASSUME NEW s \in Seq(Chars), NEW c \in Chars
  PROVE  Doubled(s) \in Seq(Chars) /\ Doubled(Append(s, c)) = Doubled(s) \o Twice(c)
<1>1. PICK t \in Seq(Chars) : /\ t = Append(s, c) /\ Len(t) = Len(s) + 1 /\ Len(s) \in Nat
                               /\ t[Len(s) + 1] = c /\ \A i \in 1..Len(s) : t[i] = s[i]
  <2>1. /\ Append(s, c) \in Seq(Chars) /\ Len(Append(s, c)) = Len(s) + 1 /\ Len(s) \in Nat
        /\ Append(s, c)[Len(s) + 1] = c /\ \A i \in 1..Len(s) : Append(s, c)[i] = s[i]
    OBVIOUS
  <2> QED
    BY ONLY <2>1
<1>2. DOMAIN s = 1..Len(s) /\ DOMAIN t = 1..(Len(s) + 1)
  BY <1>1
<1>3. PICK p, q : p = Pieces(s) /\ q = Pieces(t)
  OBVIOUS
<1>4. PICK n : n = Len(s) /\ n + 1 = Len(t)
  BY <1>1
<1>5. (\A i \in 1..n : q[i] = p[i]) /\ q[n + 1] = Twice(c)
  BY <1>1, <1>2, <1>3, <1>4 DEF Pieces
<1>6. ListOf(Seq(Chars), p, n) /\ (n = 0 => p = <<>>) /\ Doubled(s) = FlattenSeq(p)
  BY <1>3, <1>4, PiecesType
<1>7. ListOf(Seq(Chars), q, n + 1) /\ Doubled(t) = FlattenSeq(q)
  BY <1>3, <1>4, PiecesType
<1>8. FlattenSeq(p) \in Seq(Chars) /\ FlattenSeq(q) = FlattenSeq(p) \o q[n + 1]
  <2>1. PICK V : V = Seq(Chars)
    OBVIOUS
  <2>2. ListOf(V, p, n) /\ (n = 0 => p = <<>>) /\ ListOf(V, q, n + 1) /\ \A i \in 1..n : q[i] = p[i]
    BY ONLY <1>5, <1>6, <1>7, <2>1
  <2>3. FlattenSeq(p) \in V /\ FlattenSeq(q) = FlattenSeq(p) \o q[n + 1]
    BY ONLY <2>2, FlattenMore
  <2> QED
    BY <2>1, <2>3
<1> QED
  BY <1>1, <1>5, <1>6, <1>7, <1>8

LEMMA DoubledConcat ==
  ASSUME NEW x \in Seq(Chars), NEW y \in Seq(Chars)
  PROVE  Doubled(x \o y) = Doubled(x) \o Doubled(y)
<1> DEFINE G == {s \in Seq(Chars) : Doubled(x \o s) = Doubled(x) \o Doubled(s)}
<1>1. <<>> \in G
  <2>1. Doubled(x) \in Seq(Chars) /\ x \o <<>> = x /\ <<>> \in Seq(Chars)
    BY QueryBuilderAssumption, DoubledAppend
  <2>2. Doubled(x) \o <<>> = Doubled(x)
    BY <2>1
  <2> QED
    BY <2>1, <2>2, DoubledEmpty
<1>2. ASSUME NEW s \in Seq(Chars), NEW c \in Chars, s \in G PROVE Append(s, c) \in G
  <2>1. x \o Append(s, c) = Append(x \o s, c) /\ x \o s \in Seq(Chars) /\ Append(s, c) \in Seq(Chars)
    OBVIOUS
  <2>2. Doubled(Append(x \o s, c)) = Doubled(x \o s) \o Twice(c)
    BY <2>1, DoubledAppend
  <2>3. Doubled(Append(s, c)) = Doubled(s) \o Twice(c)
    BY DoubledAppend
  <2>4. Doubled(x) \in Seq(Chars) /\ Doubled(s) \in Seq(Chars)
    BY DoubledAppend
  <2>5. Twice(c) \in Seq(Chars)
    BY QueryBuilderAssumption DEF Twice
  <2>6. (Doubled(x) \o Doubled(s)) \o Twice(c) = Doubled(x) \o (Doubled(s) \o Twice(c))
    <3>1. PICK u \in Seq(Chars), v \in Seq(Chars), w \in Seq(Chars) :
             u = Doubled(x) /\ v = Doubled(s) /\ w = Twice(c)
      BY <2>4, <2>5
    <3>2. (u \o v) \o w = u \o (v \o w)
      BY SMTT(30), ConcatAssociative
    <3> QED
      BY <3>1, <3>2
  <2> QED
    BY <1>2, <2>1, <2>2, <2>3, <2>6
<1>3. Seq(Chars) \subseteq G
  <2> HIDE DEF G
  <2> QED
    BY <1>1, <1>2, SequenceInduction
<1> QED
  BY <1>3

LEMMA DoubledType == ASSUME NEW s \in Seq(Chars) PROVE Doubled(s) \in Seq(Chars)
BY QueryBuilderAssumption, DoubledAppend

\* What has no quote is left as it is.
LEMMA DoubledPlain ==
  ASSUME NEW s \in Seq(Chars), Plain(s) PROVE Doubled(s) = s
<1> DEFINE G == {t \in Seq(Chars) : Plain(t) => Doubled(t) = t}
<1>1. <<>> \in G
  BY DoubledEmpty
<1>2. ASSUME NEW t \in Seq(Chars), NEW c \in Chars, t \in G PROVE Append(t, c) \in G
  <2> SUFFICES ASSUME Plain(Append(t, c)) PROVE Doubled(Append(t, c)) = Append(t, c)
    OBVIOUS
  <2>1. /\ Len(t) \in Nat /\ Append(t, c)[Len(t) + 1] = c /\ DOMAIN Append(t, c) = 1..(Len(t) + 1)
        /\ DOMAIN t = 1..Len(t) /\ \A i \in 1..Len(t) : Append(t, c)[i] = t[i]
    OBVIOUS
  <2>2. Plain(t) /\ c # "'"
    BY <2>1 DEF Plain
  <2>3. Doubled(Append(t, c)) = t \o <<c>>
    BY <1>2, <2>2, DoubledAppend DEF Twice
  <2> QED
    BY <2>3
<1>3. Seq(Chars) \subseteq G
  <2> HIDE DEF G
  <2> QED
    BY <1>1, <1>2, SequenceInduction
<1> QED
  BY <1>3

\* The first quote is doubled, and then what is behind it.
LEMMA DoubledQuote ==
  ASSUME NEW s \in Seq(Chars), NEW t \in Seq(Chars), Plain(s)
  PROVE  Doubled((s \o <<"'">>) \o t) = (s \o <<"'", "'">>) \o Doubled(t)
<1>1. "'" \in Chars
  BY QueryBuilderAssumption
<1>2. <<"'">> \in Seq(Chars) /\ s \o <<"'">> = Append(s, "'") /\ s \o <<"'">> \in Seq(Chars)
  BY <1>1
<1>3. Doubled(s \o <<"'">>) = s \o <<"'", "'">>
  BY <1>1, <1>2, DoubledAppend, DoubledPlain DEF Twice
<1> QED
  BY <1>2, <1>3, DoubledConcat

------------------------------------------------------------------------------
(* innerQuotes.                                                            *)

\* The first quote from pos on, if there is one.
LEMMA QuoteFound ==
  ASSUME NEW arg \in Seq(Chars), NEW pos \in Nat, pos > 0
  PROVE  LET q == QuoteFrom(arg, pos)
         IN  \/ q = 0 /\ \A i \in pos..Len(arg) : arg[i] # "'"
             \/ q \in pos..Len(arg) /\ arg[q] = "'" /\ \A i \in pos..(q - 1) : arg[i] # "'"
<1> DEFINE found == {i \in pos..Len(arg) : arg[i] = "'"}
<1>1. Len(arg) \in Nat /\ found \subseteq Nat
  OBVIOUS
<1>2. QuoteFrom(arg, pos) = IF found = {} THEN 0 ELSE CHOOSE i \in found : \A j \in found : i <= j
  BY DEF QuoteFrom
<1>3. CASE found = {}
  BY <1>2, <1>3
<1>4. CASE found # {}
  <2> DEFINE q == CHOOSE i \in found : \A j \in found : i <= j
  <2>1. q \in found /\ \A j \in found : q <= j
    <3> HIDE DEF found
    <3>1. \E i \in found : \A j \in found : i <= j
      BY <1>1, <1>4, Least
    <3> QED
      BY <3>1
  <2>2. QuoteFrom(arg, pos) = q
    BY <1>2, <1>4
  <2> HIDE DEF q
  <2>3. q \in pos..Len(arg) /\ arg[q] = "'" /\ q \in Nat
    BY <1>1, <2>1
  <2>4. ASSUME NEW i \in pos..(q - 1), arg[i] = "'" PROVE FALSE
    <3>1. i \in found
      BY <1>1, <2>3, <2>4
    <3> QED
      BY <2>1, <2>3, <3>1
  <2> QED
    BY <2>2, <2>3, <2>4
<1> QED
  BY <1>3, <1>4

\* What the search from pos on makes of arg.
Ends(arg, pos) ==
    LET q == QuoteFrom(arg, pos)
    IN  IF q = 0 THEN arg
        ELSE (SubSeq(arg, 1, q - 1) \o <<"'", "'">>) \o Doubled(SubSeq(arg, q + 1, Len(arg)))

\* Brackets of a concatenation can be moved.
LEMMA Bracketed ==
  ASSUME NEW u \in Seq(Chars), NEW v \in Seq(Chars), NEW w \in Seq(Chars)
  PROVE  (u \o v) \o w = u \o (v \o w)
BY SMTT(30), ConcatAssociative

\* The search begins behind a.
LEMMA EndsSplit ==
  ASSUME NEW a \in Seq(Chars), NEW b \in Seq(Chars)
  PROVE  Ends(a \o b, Len(a) + 1) = a \o Doubled(b)
<1>1. PICK arg, n : arg = a \o b /\ n = Len(a) /\ arg \in Seq(Chars) /\ n \in Nat
  <2>1. a \o b \in Seq(Chars) /\ Len(a) \in Nat
    OBVIOUS
  <2> QED
    BY ONLY <2>1
<1>2. /\ Len(b) \in Nat /\ Len(arg) = n + Len(b) /\ (\A i \in 1..Len(b) : arg[n + i] = b[i])
      /\ DOMAIN b = 1..Len(b)
  BY <1>1
<1>3. PICK q : q = QuoteFrom(arg, n + 1)
  OBVIOUS
<1>4. \/ q = 0 /\ \A i \in (n + 1)..Len(arg) : arg[i] # "'"
      \/ q \in (n + 1)..Len(arg) /\ arg[q] = "'" /\ \A i \in (n + 1)..(q - 1) : arg[i] # "'"
  <2>1. PICK pos \in Nat : pos = n + 1 /\ pos > 0
    <3>1. n + 1 \in Nat /\ n + 1 > 0
      BY <1>1
    <3> QED
      BY ONLY <3>1
  <2>2. LET r == QuoteFrom(arg, pos)
        IN  \/ r = 0 /\ \A i \in pos..Len(arg) : arg[i] # "'"
            \/ r \in pos..Len(arg) /\ arg[r] = "'" /\ \A i \in pos..(r - 1) : arg[i] # "'"
    BY <1>1, <2>1, QuoteFound
  <2> QED
    BY <1>3, <2>1, <2>2
<1>5. CASE q = 0
  <2>1. Plain(b)
    <3>1. ASSUME NEW i \in 1..Len(b) PROVE b[i] # "'"
      <4>1. n + i \in (n + 1)..Len(arg) /\ arg[n + i] = b[i]
        BY <1>1, <1>2
      <4> QED
        BY <1>1, <1>4, <1>5, <4>1
    <3> QED
      BY <1>2, <3>1 DEF Plain
  <2>2. Doubled(b) = b
    BY <2>1, DoubledPlain
  <2>3. Ends(arg, n + 1) = arg
    BY <1>3, <1>5 DEF Ends
  <2> QED
    BY <1>1, <2>2, <2>3
<1>6. CASE q # 0
  <2>1. q \in (n + 1)..Len(arg) /\ arg[q] = "'" /\ \A i \in (n + 1)..(q - 1) : arg[i] # "'"
    BY <1>4, <1>6
  <2>2. PICK k \in 1..Len(b) : k = q - n /\ q = n + k /\ b[k] = "'"
    <3>1. q - n \in 1..Len(b) /\ q = n + (q - n)
      BY <1>1, <1>2, <2>1
    <3> QED
      BY <1>2, <2>1, <3>1
  <2>3. PICK s, t : s = SubSeq(b, 1, k - 1) /\ t = SubSeq(b, k + 1, Len(b))
    OBVIOUS
  <2>4. /\ s \in Seq(Chars) /\ t \in Seq(Chars) /\ Len(s) = k - 1
        /\ (\A i \in 1..(k - 1) : s[i] = b[i]) /\ b = (s \o <<"'">>) \o t
    <3>1. /\ SubSeq(b, 1, k - 1) \in Seq(Chars) /\ SubSeq(b, k + 1, Len(b)) \in Seq(Chars)
          /\ Len(SubSeq(b, 1, k - 1)) = k - 1 /\ (\A i \in 1..(k - 1) : SubSeq(b, 1, k - 1)[i] = b[i])
          /\ b = (SubSeq(b, 1, k - 1) \o <<b[k]>>) \o SubSeq(b, k + 1, Len(b))
      BY Around
    <3> QED
      BY ONLY <2>2, <2>3, <3>1
  <2>5. Plain(s)
    <3>1. ASSUME NEW i \in 1..(k - 1) PROVE s[i] # "'"
      <4>1. n + i \in (n + 1)..(q - 1) /\ i \in 1..Len(b)
        BY <1>1, <1>2, <2>2
      <4> QED
        BY <1>2, <2>1, <2>4, <4>1
    <3>2. DOMAIN s = 1..(k - 1)
      BY <2>4
    <3> QED
      BY <3>1, <3>2 DEF Plain
  <2>6. Doubled(b) = (s \o <<"'", "'">>) \o Doubled(t)
    BY <2>4, <2>5, DoubledQuote
  <2>7. SubSeq(arg, 1, q - 1) = a \o s /\ SubSeq(arg, q + 1, Len(arg)) = t
    <3>1. /\ SubSeq(a \o b, 1, Len(a) + k - 1) = a \o SubSeq(b, 1, k - 1)
          /\ SubSeq(a \o b, Len(a) + k + 1, Len(a \o b)) = SubSeq(b, k + 1, Len(b))
      BY BehindFirst
    <3>2. Len(a) + k - 1 = q - 1 /\ Len(a) + k + 1 = q + 1
      BY <1>1, <1>2, <2>2
    <3> QED
      BY <1>1, <2>3, <3>1, <3>2
  <2>8. Ends(arg, n + 1) = ((a \o s) \o <<"'", "'">>) \o Doubled(t)
    BY <1>3, <1>6, <2>7 DEF Ends
  <2>9. PICK quotes, d : quotes = <<"'", "'">> /\ d = Doubled(t)
    OBVIOUS
  <2>10. quotes \in Seq(Chars) /\ d \in Seq(Chars)
    BY <2>4, <2>9, DoubledType, QueryBuilderAssumption
  <2>11. ((a \o s) \o quotes) \o d = a \o ((s \o quotes) \o d)
    <3>1. (a \o s) \o quotes = a \o (s \o quotes) /\ s \o quotes \in Seq(Chars)
      <4>1. s \o quotes \in Seq(Chars) /\ a \in Seq(Chars)
        BY <2>4, <2>10
      <4>2. (a \o s) \o quotes = a \o (s \o quotes)
        BY SMTT(30), <2>4, <2>10, Bracketed
      <4> QED
        BY <4>1, <4>2
    <3>2. (a \o (s \o quotes)) \o d = a \o ((s \o quotes) \o d)
      BY <2>10, <3>1, Bracketed
    <3> QED
      BY <3>1, <3>2
  <2> QED
    BY <1>1, <2>6, <2>8, <2>9, <2>11
<1> QED
  BY <1>4, <1>5, <1>6

\* A quote that is found is one, and not before pos.
LEMMA QuoteIn ==
  ASSUME NEW arg \in Seq(Chars), NEW pos \in Nat, QuoteFrom(arg, pos) # 0
  PROVE  /\ QuoteFrom(arg, pos) \in 1..Len(arg) /\ QuoteFrom(arg, pos) >= pos
         /\ arg[QuoteFrom(arg, pos)] = "'"
<1> DEFINE found == {i \in pos..Len(arg) : arg[i] = "'"}
<1>1. QuoteFrom(arg, pos) = IF found = {} THEN 0 ELSE CHOOSE i \in found : \A j \in found : i <= j
  BY DEF QuoteFrom
<1>2. Len(arg) \in Nat /\ found \subseteq Nat
  OBVIOUS
<1>3. QuoteFrom(arg, pos) \in found
  <2> HIDE DEF found
  <2>1. \E i \in found : \A j \in found : i <= j
    BY <1>1, <1>2, Least
  <2> QED
    BY <1>1, <2>1
<1> QED
  BY <1>2, <1>3

\* A step of the search comes to the same.
LEMMA EndsStep ==
  ASSUME NEW arg \in Seq(Chars), NEW pos \in Nat, QuoteFrom(arg, pos) # 0
  PROVE  LET q == QuoteFrom(arg, pos)
             longer == InsertAt(arg, q, "'")
         IN  /\ q \in pos..Len(arg) /\ q \in Nat
             /\ longer \in Seq(Chars) /\ Len(longer) = Len(arg) + 1
             /\ Ends(longer, q + 2) = Ends(arg, pos)
<1>1. PICK q \in 1..Len(arg) : q = QuoteFrom(arg, pos) /\ q >= pos /\ arg[q] = "'"
  BY QuoteIn
<1>2. Len(arg) \in Nat /\ q \in Nat /\ q # 0
  OBVIOUS
<1>3. PICK longer, a, t :
         /\ longer = InsertAt(arg, q, "'") /\ a = SubSeq(arg, 1, q - 1) \o <<arg[q], arg[q]>>
         /\ t = SubSeq(arg, q + 1, Len(arg))
  OBVIOUS
<1>4. t \in Seq(Chars)
  <2>1. SubSeq(arg, q + 1, Len(arg)) \in Seq(Chars)
    BY Around
  <2> QED
    BY ONLY <1>3, <2>1
<1>5. /\ longer = a \o t /\ longer \in Seq(Chars) /\ Len(longer) = Len(arg) + 1
      /\ a \in Seq(Chars) /\ Len(a) = q + 1
  <2>1. longer = (SubSeq(arg, 1, q - 1) \o <<arg[q]>>) \o SubSeq(arg, q, Len(arg))
    BY <1>1, <1>3 DEF InsertAt
  <2>2. LET more == (SubSeq(arg, 1, q - 1) \o <<arg[q]>>) \o SubSeq(arg, q, Len(arg))
            b == SubSeq(arg, 1, q - 1) \o <<arg[q], arg[q]>>
        IN  /\ more = b \o SubSeq(arg, q + 1, Len(arg))
            /\ more \in Seq(Chars) /\ Len(more) = Len(arg) + 1 /\ b \in Seq(Chars) /\ Len(b) = q + 1
    BY Twofold
  <2> QED
    BY ONLY <1>3, <2>1, <2>2
<1>6. Ends(longer, q + 2) = a \o Doubled(t)
  <2>1. Len(a) + 1 = q + 2
    BY <1>2, <1>5
  <2>2. PICK b \in Seq(Chars), d \in Seq(Chars) : b = a /\ d = t
    BY ONLY <1>4, <1>5
  <2>3. Ends(b \o d, Len(b) + 1) = b \o Doubled(d)
    BY EndsSplit
  <2> QED
    BY ONLY <1>5, <2>1, <2>2, <2>3
<1>7. Ends(arg, pos) = a \o Doubled(t)
  BY <1>1, <1>2, <1>3 DEF Ends
<1>8. q \in pos..Len(arg)
  BY <1>1, <1>2
<1> QED
  BY ONLY <1>1, <1>2, <1>3, <1>5, <1>6, <1>7, <1>8

\* What f[at] is where f is the search.
Step(f, at) ==
    IF QuoteFrom(at[1], at[2]) = 0 THEN at[1]
    ELSE f[<<InsertAt(at[1], QuoteFrom(at[1], at[2]), "'"), QuoteFrom(at[1], at[2]) + 2>>]

\* Ends obeys the recursion of innerQuotes, so there is a function that does.
LEMMA InnerQuotesStep ==
  ASSUME NEW at \in Seq(Chars) \X Nat
  PROVE  InnerQuotesFrom[at] = Step(InnerQuotesFrom, at)
<1> DEFINE Obeys(f) == f = [x \in Seq(Chars) \X Nat |-> Step(f, x)]
           ends == [x \in Seq(Chars) \X Nat |-> Ends(x[1], x[2])]
<1>1. Obeys(ends)
  <2>1. ASSUME NEW x \in Seq(Chars) \X Nat PROVE Ends(x[1], x[2]) = Step(ends, x)
    <3>1. PICK arg \in Seq(Chars), pos \in Nat : x[1] = arg /\ x[2] = pos
      OBVIOUS
    <3>2. CASE QuoteFrom(arg, pos) = 0
      <4> HIDE DEF ends
      <4> QED
        BY <3>1, <3>2 DEF Ends, Step
    <3>3. CASE QuoteFrom(arg, pos) # 0
      <4>1. PICK q : q = QuoteFrom(arg, pos)
        OBVIOUS
      <4>2. PICK longer : longer = InsertAt(arg, q, "'")
        OBVIOUS
      <4>3. q \in Nat /\ longer \in Seq(Chars) /\ Ends(longer, q + 2) = Ends(arg, pos)
        BY <3>3, <4>1, <4>2, EndsStep
      <4>4. PICK y \in Seq(Chars) \X Nat : y = <<longer, q + 2>> /\ y[1] = longer /\ y[2] = q + 2
        <5>1. q + 2 \in Nat
          BY <4>3
        <5>2. PICK r \in Nat : r = q + 2
          BY ONLY <5>1
        <5>3. <<longer, r>> \in Seq(Chars) \X Nat /\ <<longer, r>>[1] = longer /\ <<longer, r>>[2] = r
          BY <4>3
        <5> QED
          BY ONLY <5>2, <5>3
      <4>5. ends[y] = Ends(longer, q + 2)
        BY <4>4
      <4>6. Step(ends, x) = ends[y]
        <5> HIDE DEF ends
        <5> QED
          BY <3>1, <3>3, <4>1, <4>2, <4>4 DEF Step
      <4> QED
        BY <3>1, <4>3, <4>5, <4>6
    <3> QED
      BY <3>2, <3>3
  <2>2. ends = [x \in Seq(Chars) \X Nat |-> Ends(x[1], x[2])]
    OBVIOUS
  <2> HIDE DEF ends
  <2> QED
    BY <2>1, <2>2
<1>2. InnerQuotesFrom = CHOOSE f : Obeys(f)
  BY DEF InnerQuotesFrom, Step
<1>3. Obeys(InnerQuotesFrom)
  <2> HIDE DEF Obeys, ends
  <2> QED
    BY <1>1, <1>2
<1> QED
  BY <1>3

\* And there is but one.
LEMMA InnerQuotesEnds ==
  ASSUME NEW chars \in Seq(Chars), NEW from \in Nat
  PROVE  InnerQuotesFrom[<<chars, from>>] = Ends(chars, from)
<1> DEFINE For(n) == \A arg \in Seq(Chars), pos \in Nat :
                        Len(arg) + 1 <= pos + n => InnerQuotesFrom[<<arg, pos>>] = Ends(arg, pos)
           G == {n \in Nat : For(n)}
<1>1. ASSUME NEW n \in Nat, NEW arg \in Seq(Chars), NEW pos \in Nat, Len(arg) + 1 <= pos + n,
             QuoteFrom(arg, pos) # 0 => n > 0 /\ For(n - 1)
      PROVE  InnerQuotesFrom[<<arg, pos>>] = Ends(arg, pos)
  <2>1. <<arg, pos>> \in Seq(Chars) \X Nat /\ <<arg, pos>>[1] = arg /\ <<arg, pos>>[2] = pos
    OBVIOUS
  <2>2. PICK at \in Seq(Chars) \X Nat : at = <<arg, pos>> /\ at[1] = arg /\ at[2] = pos
    BY ONLY <2>1
  <2>3. InnerQuotesFrom[at] = Step(InnerQuotesFrom, at)
    BY InnerQuotesStep
  <2>4. CASE QuoteFrom(arg, pos) = 0
    BY <2>2, <2>3, <2>4 DEF Ends, Step
  <2>5. CASE QuoteFrom(arg, pos) # 0
    <3>1. PICK q : q = QuoteFrom(arg, pos)
      OBVIOUS
    <3>2. PICK longer : longer = InsertAt(arg, q, "'")
      OBVIOUS
    <3>3. /\ q \in pos..Len(arg) /\ q \in Nat /\ longer \in Seq(Chars) /\ Len(longer) = Len(arg) + 1
          /\ Ends(longer, q + 2) = Ends(arg, pos)
      BY <2>5, <3>1, <3>2, EndsStep
    <3>4. InnerQuotesFrom[at] = InnerQuotesFrom[<<longer, q + 2>>]
      BY <2>2, <2>3, <2>5, <3>1, <3>2 DEF Step
    <3>5. PICK r \in Nat : r = q + 2
      <4>1. q + 2 \in Nat
        BY <3>3
      <4> QED
        BY ONLY <4>1
    <3>6. Len(longer) + 1 <= r + (n - 1)
      <4>1. Len(arg) \in Nat
        OBVIOUS
      <4> QED
        BY <1>1, <3>3, <3>5, <4>1
    <3>7. InnerQuotesFrom[<<longer, r>>] = Ends(longer, r)
      BY <1>1, <2>5, <3>3, <3>6
    <3> QED
      BY <2>2, <3>3, <3>4, <3>5, <3>7
  <2> QED
    BY <2>4, <2>5
<1>2. 0 \in G
  <2>1. ASSUME NEW arg \in Seq(Chars), NEW pos \in Nat, Len(arg) + 1 <= pos + 0
        PROVE  QuoteFrom(arg, pos) = 0
    <3>1. Len(arg) \in Nat /\ Len(arg) < pos
      BY <2>1
    <3> QED
      BY <3>1, QuoteIn
  <2>2. For(0)
    BY <1>1, <2>1
  <2> HIDE DEF For
  <2> QED
    BY <2>2
<1>3. ASSUME NEW n \in Nat, n \in G PROVE n + 1 \in G
  <2>1. PICK m \in Nat : m = n + 1 /\ m - 1 = n /\ m > 0
    <3>1. n + 1 \in Nat /\ (n + 1) - 1 = n /\ n + 1 > 0
      OBVIOUS
    <3> QED
      BY ONLY <3>1
  <2>2. For(n)
    <3> HIDE DEF For
    <3> QED
      BY <1>3
  <2>3. For(m)
    <3>1. ASSUME NEW arg \in Seq(Chars), NEW pos \in Nat, Len(arg) + 1 <= pos + m
          PROVE  InnerQuotesFrom[<<arg, pos>>] = Ends(arg, pos)
      <4> HIDE DEF For
      <4> QED
        BY <1>1, <2>1, <2>2, <3>1
    <3> QED
      BY <3>1
  <2> HIDE DEF For
  <2> QED
    BY <2>1, <2>3
<1>4. Nat \subseteq G
  <2> HIDE DEF G
  <2> QED
    BY <1>2, <1>3, Induction
<1>5. PICK n \in Nat : n = Len(chars) + 1 /\ Len(chars) + 1 <= from + n
  <2>1. Len(chars) + 1 \in Nat /\ Len(chars) + 1 <= from + (Len(chars) + 1)
    OBVIOUS
  <2> QED
    BY ONLY <2>1
<1>6. For(n)
  <2> HIDE DEF For
  <2> QED
    BY <1>4
<1> QED
  BY <1>5, <1>6

\* innerQuotes doubles each quote.
LEMMA InnerQuotesDouble ==
  ASSUME NEW chars \in Seq(Chars)
  PROVE  InnerQuotes(chars) = Doubled(chars)
<1>1. PICK a \in Seq(Chars) : a = <<>> /\ Len(a) + 1 = 1 /\ a \o chars = chars
  <2>1. <<>> \in Seq(Chars) /\ Len(<<>>) + 1 = 1 /\ <<>> \o chars = chars
    OBVIOUS
  <2> QED
    BY ONLY <2>1
<1>2. Ends(chars, 1) = a \o Doubled(chars)
  BY <1>1, EndsSplit
<1>3. <<>> \o Doubled(chars) = Doubled(chars)
  BY DoubledType, ConcatEmptySeq
<1> QED
  BY <1>1, <1>2, <1>3, InnerQuotesEnds DEF InnerQuotes
------------------------------------------------------------------------------
(* The row that field() writes.                                            *)

\* The list before the last word is that of a row.
RowWritten ==
    call = "field" =>
        \E r \in Rows : statement.text[Len(statement.text) - 1] = List(Separated(Literals(r)))

LEMMA LastButOne ==
  ASSUME NEW x \in Seq(Lexeme), NEW a \in Lexeme, NEW b \in Lexeme, NEW c \in Lexeme, NEW d \in Lexeme
  PROVE  LET s == x \o (<<a, b>> \o <<c, d>>) IN s[Len(s) - 1] = c
<1>1. PICK y \in Seq(Lexeme) : y = <<a, b>> \o <<c, d>> /\ Len(y) = 4 /\ y[3] = c
  <2>1. PICK u \in Seq(Lexeme), v \in Seq(Lexeme) :
           u = <<a, b>> /\ v = <<c, d>> /\ Len(u) = 2 /\ Len(v) = 2 /\ v[1] = c
    <3>1. /\ <<a, b>> \in Seq(Lexeme) /\ <<c, d>> \in Seq(Lexeme)
          /\ Len(<<a, b>>) = 2 /\ Len(<<c, d>>) = 2 /\ <<c, d>>[1] = c
      OBVIOUS
    <3> QED
      BY ONLY <3>1
  <2>2. /\ u \o v \in Seq(Lexeme) /\ Len(u \o v) = Len(u) + Len(v)
        /\ \A i \in 1..(Len(u) + Len(v)) : (u \o v)[i] = IF i <= Len(u) THEN u[i] ELSE v[i - Len(u)]
    BY ConcatProperties
  <2>3. (u \o v)[3] = v[1] /\ Len(u \o v) = 4
    BY ONLY <2>1, <2>2
  <2> QED
    BY ONLY <2>1, <2>2, <2>3
<1>2. /\ Len(x \o y) = Len(x) + Len(y)
      /\ \A i \in 1..(Len(x) + Len(y)) : (x \o y)[i] = IF i <= Len(x) THEN x[i] ELSE y[i - Len(x)]
  BY ConcatProperties
<1>3. PICK n \in Nat : n = Len(x)
  OBVIOUS
<1>4. (x \o y)[n + 3] = y[3] /\ Len(x \o y) - 1 = n + 3
  <2>1. n + 3 \in 1..(n + 4) /\ ~(n + 3 <= n) /\ (n + 3) - n = 3 /\ (n + 4) - 1 = n + 3
    OBVIOUS
  <2> QED
    BY ONLY <1>1, <1>2, <1>3, <2>1
<1> QED
  BY ONLY <1>1, <1>4

LEMMA FieldWrites ==
  ASSUME IInv, NEW r \in Rows, FieldRow(r)
  PROVE  RowWritten'
<1>1. PICK x \in Seq(Lexeme) : x = statement.text
  <2>1. statement \in [type : Types, text : Seq(Lexeme)]
    BY DEF FieldRow, Clause, IInv, TypeOK, Pending
  <2> QED
    BY <2>1
<1>2. PICK row \in Lexeme : row = List(Separated(Literals(r))) /\ row = List(LastErased(Literals(r)))
  <2>1. List(Separated(Literals(r))) \in Lexeme /\ LastErased(Literals(r)) = Separated(Literals(r))
    BY LiteralsType, ListType, ErasedSeparates
  <2> QED
    BY ONLY <2>1
<1>3. PICK a \in Lexeme : a = IF HasValues(x) THEN Word("comma") ELSE Word("values")
  BY KeywordsType
<1>4. Word("open") \in Lexeme /\ Word("close") \in Lexeme
  BY KeywordsType
<1>5. PICK written : written = <<a, Word("open")>> \o <<row, Word("close")>>
  OBVIOUS
<1>6. (IF HasValues(statement.text) THEN <<Word("comma"), Word("open")>> ELSE <<Word("values"), Word("open")>>)
         \o <<List(LastErased(Literals(r))), Word("close")>> = written
  BY <1>1, <1>2, <1>3, <1>5
<1>7. statement' = [statement EXCEPT !.text = x \o written]
  BY <1>1, <1>6 DEF FieldRow, Clause
<1>8. statement'.text = x \o written
  <2>1. statement \in [type : Types, text : Seq(Lexeme)]
    BY DEF FieldRow, Clause, IInv, TypeOK, Pending
  <2> QED
    BY <1>7, <2>1
<1>9. (x \o written)[Len(x \o written) - 1] = row
  <2>1. PICK o \in Lexeme, c \in Lexeme : o = Word("open") /\ c = Word("close")
    BY <1>4
  <2>2. LET s == x \o (<<a, o>> \o <<row, c>>) IN s[Len(s) - 1] = row
    BY LastButOne
  <2> QED
    BY ONLY <1>5, <2>1, <2>2
<1>10. statement'.text[Len(statement'.text) - 1] = List(Separated(Literals(r)))
  BY <1>2, <1>8, <1>9
<1> QED
  BY <1>10 DEF RowWritten

\* Only field() leaves the caller there.
LEMMA FieldAlone ==
  ASSUME [Next]_vars, call' = "field"
  PROVE  (\E r \in Rows : FieldRow(r)) \/ UNCHANGED <<statement, call>>
<1> USE DEF Clause, Same
<1>1. ASSUME SelectClauses PROVE FALSE
  BY <1>1 DEF SelectClauses, Distinct, SelectColumns, Join, AnyQuery, AllQuery, Having, Limit,
              GroupBy, OrderBy
<1>2. ASSUME WhereClauses PROVE FALSE
  BY <1>2 DEF WhereClauses, Where, And, Or, InQuery, Between, Like, InList
<1>3. ASSUME InsertClauses PROVE \E r \in Rows : FieldRow(r)
  <2>1. ~\E l \in ColumnLists, r \in Rows : InsertColumns(l, r)
    BY DEF InsertColumns
  <2>2. ~\E l \in ColumnLists : Returning(l)
    BY DEF Returning
  <2> QED
    BY <1>3, <2>1, <2>2 DEF InsertClauses
<1>4. ASSUME UpdateClauses PROVE FALSE
  BY <1>4 DEF UpdateClauses, Fields
<1>5. ASSUME Select \/ Insert \/ Update \/ Delete PROVE FALSE
  <2>1. ASSUME NEW type \in {"select", "insert", "update", "delete"}, NEW words, Begin(type, words)
        PROVE  FALSE
    BY <2>1 DEF Begin
  <2> QED
    BY <1>5, <2>1 DEF Select, Insert, Update, Delete
<1>6. ASSUME NEW t \in Tables, ChangeTable(t) PROVE FALSE
  BY <1>6 DEF ChangeTable
<1>7. ASSUME NEW a \in Answers, Execute(a) PROVE FALSE
  BY <1>7 DEF Execute
<1>8. ASSUME Rollback \/ Abandon PROVE FALSE
  BY <1>8 DEF Rollback, Abandon
<1>9. ASSUME UNCHANGED vars PROVE UNCHANGED <<statement, call>>
  BY <1>9 DEF vars
<1> QED
  BY <1>1, <1>2, <1>3, <1>4, <1>5, <1>6, <1>7, <1>8, <1>9 DEF Next

\* A literal reads back as its value.
LEMMA LiteralReads ==
  ASSUME NEW value, value \in [string : BOOLEAN, chars : Seq(Chars)]
  PROVE  ReadsAs(Literal(value), value)
<1>1. InnerQuotes(value.chars) = Doubled(value.chars)
  BY InnerQuotesDouble
<1> QED
  BY <1>1 DEF ReadsAs, Literal, WrapStringByQuotes

LEMMA RowReads ==
  ASSUME NEW r \in Rows, NEW row, row = Separated(Literals(r))
  PROVE  Len(r) = Len(row) /\ \A i \in DOMAIN row : ReadsAs(row[i].item, r[i])
<1>1. DOMAIN r = 1..Len(r) /\ Len(r) \in Nat /\ \A i \in 1..Len(r) : r[i] \in [string : BOOLEAN, chars : Seq(Chars)]
  <2>1. PICK V : V = [string : BOOLEAN, chars : Seq(Chars)]
    OBVIOUS
  <2>2. r \in Seq(V)
    BY <2>1, QueryBuilderAssumption
  <2>3. DOMAIN r = 1..Len(r) /\ Len(r) \in Nat /\ \A i \in 1..Len(r) : r[i] \in V
    BY ONLY <2>2
  <2> QED
    BY ONLY <2>1, <2>3
<1>2. DOMAIN Literals(r) = 1..Len(r) /\ \A i \in 1..Len(r) : Literals(r)[i] = Literal(r[i])
  BY <1>1 DEF Literals
<1>3. DOMAIN row = 1..Len(r) /\ \A i \in 1..Len(r) : row[i].item = Literals(r)[i]
  BY <1>2 DEF Separated
<1>4. Len(row) = Len(r)
  <2>1. row = [i \in 1..Len(r) |-> [item |-> Literals(r)[i], comma |-> i # Len(Literals(r))]]
    BY <1>2 DEF Separated
  <2> QED
    BY <1>1, <2>1
<1>5. ASSUME NEW i \in 1..Len(r) PROVE ReadsAs(row[i].item, r[i])
  <2>1. ReadsAs(Literal(r[i]), r[i])
    BY <1>1, LiteralReads
  <2> QED
    BY <1>2, <1>3, <2>1
<1> QED
  BY <1>3, <1>4, <1>5

\* Whatever the data of the callers are, field() writes each string of a row
\* between quotes with its own quotes doubled, and leaves numbers as they are:
\* the search of innerQuotes ends, and finds each quote once.
THEOREM LiteralsAreReadBack == Spec => []LiteralsReadBack
<1>1. Init => RowWritten
  BY DEF Init, RowWritten
<1>2. IInv /\ RowWritten /\ [Next]_vars => RowWritten'
  <2> SUFFICES ASSUME IInv, RowWritten, [Next]_vars PROVE RowWritten'
    OBVIOUS
  <2>1. CASE call' # "field"
    BY <2>1 DEF RowWritten
  <2>2. CASE call' = "field"
    <3>1. CASE \E r \in Rows : FieldRow(r)
      BY <3>1, FieldWrites
    <3>2. CASE UNCHANGED <<statement, call>>
      BY <3>2 DEF RowWritten
    <3> QED
      BY <2>2, <3>1, <3>2, FieldAlone
  <2> QED
    BY <2>1, <2>2
<1>3. RowWritten => LiteralsReadBack
  <2> SUFFICES ASSUME RowWritten, call = "field" PROVE LiteralsReadBack
    BY DEF LiteralsReadBack
  <2>1. PICK r \in Rows : statement.text[Len(statement.text) - 1] = List(Separated(Literals(r)))
    BY DEF RowWritten
  <2>2. PICK row : row = statement.text[Len(statement.text) - 1].list
    OBVIOUS
  <2>3. row = Separated(Literals(r))
    BY <2>1, <2>2 DEF List
  <2>4. Len(r) = Len(row) /\ \A i \in DOMAIN row : ReadsAs(row[i].item, r[i])
    BY <2>3, RowReads
  <2> QED
    BY <2>2, <2>4 DEF LiteralsReadBack
<1> QED
  BY <1>1, <1>2, <1>3, BuilderInvariant, PTL DEF Spec
==============================================================================
