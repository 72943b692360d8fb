---------------------------- MODULE QueryBuilder ----------------------------
(***************************************************************************)
(* DataAccess: the QueryBuilder of one table object (PostgreTable) and the *)
(* four statements it hands out.  A method of a repository builds a        *)
(* statement clause by clause and executes it:                             *)
(*    pTable->changeTable(t); pTable->Select()->columns(..)->Where(..)...  *)
(* The builder keeps the unfinished text from one call to the next: a      *)
(* chain that an exception leaves before execute() stays there, and the    *)
(* next Select() of another method goes on writing behind it.              *)
(*                                                                         *)
(* A text is a sequence of lexemes: a word, or a list of items with the    *)
(* comma each is followed by.  Spaces, and what a condition says, are left *)
(* out.  An item is a sequence of characters.                              *)
(***************************************************************************)
EXTENDS Naturals, SequencesExt

CONSTANTS Chars,        \* what columns and data are written with
          Tables,       \* names of tables
          ColumnLists,  \* lists of columns asked for: sequences of items
          Rows,         \* rows of data: sequences of [string, chars]
          Joins,        \* kinds of join: "inner", "left", ...
          MaxLexemes    \* bound: no clause is added to a text longer than this

ASSUME QueryBuilderAssumption ==
    /\ "'" \in Chars
    \* SQLInsert takes a name with "values" in it for the word; the schema has none.
    /\ Tables \subseteq STRING \ {"values"}
    /\ \A l \in ColumnLists : l \in Seq(Seq(Chars)) \ {<<>>}
    \* An item equal to the last one would lose its comma; no caller repeats one.
    /\ \A l \in ColumnLists : \A i \in 1 .. Len(l) - 1 : l[i] # l[Len(l)]
    /\ \A r \in Rows : r \in Seq([string : BOOLEAN, chars : Seq(Chars)]) \ {<<>>}
    /\ Joins \subseteq {"inner", "left", "right", "full"}
    /\ MaxLexemes \in Nat

VARIABLES table,       \* _tableName
          statement,   \* _statement: nullptr or what SQLBase keeps
          call,        \* where the caller is: the clause it has called last, or "none"
          asked,       \* history: what the chain running has asked for, as SQL
          abandoned,   \* history: an exception has left a chain, nothing was cleared since
          last         \* what the last call of Select .. Delete, execute has come to

vars == <<table, statement, call, asked, abandoned, last>>

NoStatement == [type |-> "null", text |-> <<>>]
NothingYet == [op |-> "none", text |-> <<>>, asked |-> <<>>, own |-> TRUE]
Pending == statement # NoStatement

Init ==
    /\ table \in Tables
    /\ statement = NoStatement /\ call = "none" /\ asked = <<>>
    /\ abandoned = FALSE /\ last = NothingYet

------------------------------------------------------------------------------
(* How clauses write what they are given.                                  *)

Word(w) == [word |-> w, list |-> <<>>]
List(items) == [word |-> "items", list |-> items]

\* columns, orderBy, groupBy, returning, In: a comma follows an item that is
\* not equal to the last one.
ComparedWithLast(list) ==
    [i \in DOMAIN list |-> [item |-> list[i], comma |-> list[i] # list[Len(list)]]]

\* field, columns, fields: a comma follows each item, and privateCorrectFormating
\* erases the last.
LastErased(list) ==
    [[i \in DOMAIN list |-> [item |-> list[i], comma |-> TRUE]]
        EXCEPT ![Len(list)] = [item |-> list[Len(list)], comma |-> FALSE]]

\* innerQuotes: a quote is put before each quote that is found, and the search
\* goes on behind the two.
QuoteFrom(arg, pos) ==
    LET found == {i \in pos .. Len(arg) : arg[i] = "'"}
    IN  IF found = {} THEN 0 ELSE CHOOSE i \in found : \A j \in found : i <= j
InnerQuotesFrom[at \in Seq(Chars) \X Nat] ==
    LET arg == at[1]
        pos == QuoteFrom(arg, at[2])
    IN  IF pos = 0 THEN arg ELSE InnerQuotesFrom[<<InsertAt(arg, pos, "'"), pos + 2>>]
InnerQuotes(arg) == InnerQuotesFrom[<<arg, 1>>]

WrapStringByQuotes(arg) == <<"'">> \o arg \o <<"'">>

\* CheckForSQLSingleQuotesProblem: a number is written as it is.
Literal_WrapFirst(value) ==
    IF value.string THEN InnerQuotes(WrapStringByQuotes(value.chars)) ELSE value.chars
Literal(value) ==
    IF value.string THEN WrapStringByQuotes(InnerQuotes(value.chars)) ELSE value.chars
Literals(row) == [i \in DOMAIN row |-> Literal(row[i])]

\* The code searches the whole text for these letters.  When the first row is
\* written, the text before it has the names of the table and of the columns, of
\* which none in the schema has them inside; so the word is what it finds.
HasValues(text) == \E i \in DOMAIN text : text[i].word = "values"

------------------------------------------------------------------------------
(* What is asked for, as SQL writes it: items with commas between them.    *)

Separated(list) ==
    [i \in DOMAIN list |-> [item |-> list[i], comma |-> i # Len(list)]]

------------------------------------------------------------------------------
(* Select, Insert, Update, Delete.                                         *)

Begin(type, words) ==
    /\ call = "none"
    /\ IF Pending /\ statement.type # type
       THEN /\ last' = [op |-> "refused", text |-> <<>>, asked |-> <<>>, own |-> ~abandoned]
            /\ UNCHANGED <<statement, call, asked>>
       ELSE /\ statement' = IF Pending THEN statement ELSE [type |-> type, text |-> words]
            /\ call' = type
            /\ asked' = words
            /\ last' = NothingYet
    /\ UNCHANGED <<table, abandoned>>

Select == Begin("select", <<Word("select")>>)
Insert == Begin("insert", <<Word("insertInto"), Word(table)>>)
Update == Begin("update", <<Word("update"), Word(table)>>)
Delete == Begin("delete", <<Word("deleteFrom"), Word(table)>>)

\* changeTable, which a method of a repository begins with.
ChangeTable_KeepsStatement(t) ==
    /\ call = "none"
    /\ table' = t
    /\ abandoned' = FALSE
    /\ UNCHANGED <<statement, call, asked, last>>
ChangeTable(t) ==
    /\ call = "none"
    /\ statement' = NoStatement
    /\ table' = t
    /\ abandoned' = FALSE
    /\ UNCHANGED <<call, asked, last>>

------------------------------------------------------------------------------
(* Clauses.  They are called in the order their descriptions give.         *)

Clause(name, after, written, meant) ==
    /\ call \in after
    /\ Len(statement.text) <= MaxLexemes
    /\ statement' = [statement EXCEPT !.text = @ \o written]
    /\ asked' = asked \o meant
    /\ call' = name
    /\ UNCHANGED <<table, abandoned, last>>

Same(name, after, written) == Clause(name, after, written, written)

Tested == {"where", "and", "or"}
Conditions == Tested \cup {"in", "between", "like", "any", "all"}
Source == {"columns", "join"}

Distinct == Same("distinct", {"select"}, <<Word("distinct")>>)
SelectColumns(list) ==
    LET from == <<Word("from"), Word(table)>>
    IN  Clause("columns", {"select", "distinct"},
               <<List(ComparedWithLast(list))>> \o from, <<List(Separated(list))>> \o from)

Join(join, second) == Same("join", Source, <<Word(join), Word(second), Word("on")>>)

Where == Same("where", Source \cup {"fields", "delete"}, <<Word("where")>>)
And == Same("and", Conditions, <<Word("and")>>)
Or == Same("or", Conditions, <<Word("or")>>)
InQuery == Same("in", Tested, <<Word("in"), Word("open"), Word("query"), Word("close")>>)
InList(list) ==
    Clause("in", Tested, <<Word("in"), Word("open"), List(ComparedWithLast(list)), Word("close")>>,
           <<Word("in"), Word("open"), List(Separated(list)), Word("close")>>)
Between == Same("between", Tested, <<Word("between"), Word("and")>>)
Like == Same("like", Tested, <<Word("like")>>)

\* These are of SQLSelect alone.
OfSelect == statement.type = "select"
AnyQuery == OfSelect /\ Same("any", Tested, <<Word("any"), Word("open"), Word("query"), Word("close")>>)
AllQuery == OfSelect /\ Same("all", Tested, <<Word("all"), Word("open"), Word("query"), Word("close")>>)
GroupBy(list) ==
    /\ OfSelect
    /\ Clause("groupBy", Source \cup Conditions, <<Word("groupBy"), List(ComparedWithLast(list))>>,
              <<Word("groupBy"), List(Separated(list))>>)
Having == Same("having", {"groupBy"}, <<Word("having")>>)
OrderBy(list, desc) ==
    LET order == IF desc THEN <<Word("desc")>> ELSE <<>>
    IN  /\ OfSelect
        /\ Clause("orderBy", Source \cup Conditions \cup {"groupBy", "having"},
                  <<Word("orderBy"), List(ComparedWithLast(list))>> \o order,
                  <<Word("orderBy"), List(Separated(list))>> \o order)
Limit ==
    /\ OfSelect
    /\ Same("limit", Source \cup Conditions \cup {"groupBy", "having", "orderBy"},
            <<Word("limit"), Word("offset")>>)

\* SQLInsert.  A row is the first if the text holds no "values" before it.
FieldRow(row) ==
    Clause("field", {"insert", "field", "insertColumns"},
           (IF HasValues(statement.text) THEN <<Word("comma"), Word("open")>> ELSE <<Word("values"), Word("open")>>)
               \o <<List(LastErased(Literals(row))), Word("close")>>,
           (IF call = "insert" THEN <<Word("values"), Word("open")>> ELSE <<Word("comma"), Word("open")>>)
               \o <<List(Separated(Literals(row))), Word("close")>>)
SameLength == {p \in ColumnLists \X Rows : Len(p[1]) = Len(p[2])}
InsertColumns(list, row) ==
    /\ <<list, row>> \in SameLength
    /\ Clause("insertColumns", {"insert"},
              <<Word("open"), List(LastErased(list)), Word("close"), Word("values"), Word("open"),
                List(LastErased(Literals(row))), Word("close")>>,
              <<Word("open"), List(Separated(list)), Word("close"), Word("values"), Word("open"),
                List(Separated(Literals(row))), Word("close")>>)
Returning(list) ==
    Clause("returning", {"field", "insertColumns"}, <<Word("returning"), List(ComparedWithLast(list))>>,
           <<Word("returning"), List(Separated(list))>>)

\* SQLUpdate: an item is "column = literal".
Assignments(list, row) == [i \in DOMAIN list |-> list[i] \o <<"=">> \o Literals(row)[i]]
Fields(list, row) ==
    /\ <<list, row>> \in SameLength
    /\ Clause("fields", {"update"}, <<Word("set"), List(LastErased(Assignments(list, row)))>>,
              <<Word("set"), List(Separated(Assignments(list, row)))>>)

------------------------------------------------------------------------------
(* The end of a chain.                                                     *)

Complete == call \notin {"none", "select", "distinct", "insert", "update"}

\* execute: rows make it roll back and return; nothing and an error of the query
\* come to the rollback below, as does a closed connection, which gets no text.
Answers == {"rows", "nothing", "error", "disconnected"}
Execute(answer) ==
    /\ Complete
    /\ last' = IF answer = "disconnected" THEN NothingYet
               ELSE [op |-> answer, text |-> statement.text, asked |-> asked, own |-> ~abandoned]
    /\ statement' = NoStatement
    /\ call' = "none" /\ asked' = <<>> /\ abandoned' = FALSE
    /\ UNCHANGED table

\* A caller that wanted getStringQuery() only.
Rollback ==
    /\ Complete
    /\ statement' = NoStatement
    /\ call' = "none" /\ asked' = <<>> /\ abandoned' = FALSE
    /\ UNCHANGED <<table, last>>

\* What is computed for a clause throws, and the exception leaves the method.
Abandon ==
    /\ call # "none"
    /\ call' = "none" /\ asked' = <<>> /\ abandoned' = TRUE
    /\ UNCHANGED <<table, statement, last>>

SelectClauses ==
    \/ Distinct
    \/ \E l \in ColumnLists : SelectColumns(l)
    \/ \E j \in Joins, t \in Tables : Join(j, t)
    \/ AnyQuery \/ AllQuery \/ Having \/ Limit
    \/ \E l \in ColumnLists : GroupBy(l)
    \/ \E l \in ColumnLists, d \in BOOLEAN : OrderBy(l, d)
WhereClauses ==
    \/ Where \/ And \/ Or \/ InQuery \/ Between \/ Like
    \/ \E l \in ColumnLists : InList(l)
InsertClauses ==
    \/ \E r \in Rows : FieldRow(r)
    \/ \E l \in ColumnLists, r \in Rows : InsertColumns(l, r)
    \/ \E l \in ColumnLists : Returning(l)
UpdateClauses == \E l \in ColumnLists, r \in Rows : Fields(l, r)

Next ==
    \/ Select \/ Insert \/ Update \/ Delete
    \/ \E t \in Tables : ChangeTable(t)
    \/ SelectClauses \/ WhereClauses \/ InsertClauses \/ UpdateClauses
    \/ \E a \in Answers : Execute(a)
    \/ Rollback \/ Abandon

Spec == Init /\ [][Next]_vars

------------------------------------------------------------------------------
(* Properties                                                              *)

\* The pending statement, the place in the chain and the answers have their
\* types, items come from the data of the callers, and a caller in the middle of
\* a chain has a statement.
Items ==
    UNION ({Range(l) : l \in ColumnLists} \cup {Range(Literals(r)) : r \in Rows}
           \cup {Range(Assignments(p[1], p[2])) : p \in SameLength})
Keywords ==
    {"items", "select", "insertInto", "update", "deleteFrom", "distinct", "from", "on",
     "where", "and", "or", "in", "query", "between", "like", "any", "all", "groupBy", "having",
     "orderBy", "desc", "limit", "offset", "values", "set", "returning", "open", "close", "comma"}
Lexeme == [word : Keywords \cup Joins \cup Tables, list : Seq([item : Items, comma : BOOLEAN])]
Types == {"select", "insert", "update", "delete"}
Calls ==
    Types \cup Conditions \cup Source \cup
    {"none", "distinct", "groupBy", "having", "orderBy", "limit", "field", "insertColumns",
     "returning", "fields"}
TypeOK ==
    /\ table \in Tables
    /\ statement \in [type : Types, text : Seq(Lexeme)] \cup {NoStatement}
    /\ call \in Calls /\ asked \in Seq(Lexeme) /\ abandoned \in BOOLEAN
    /\ last \in [op : Answers \cup {"none", "refused"}, text : Seq(Lexeme),
                asked : Seq(Lexeme), own : BOOLEAN]
    /\ call # "none" => Pending

\* What execute() hands to the adapter is what the chain running has asked for,
\* with the commas of SQL, whatever the statements before it have come to; and
\* "Previous query wasn't executed or rollbacked!" is thrown only at a caller
\* that comes after a chain left by an exception and has not changed the table.
ChainsAreSeparate == last.own => last.op # "refused" /\ last.text = last.asked

\* The row that field() has written reads back as the data of a caller: each
\* string stands between quotes, and inside them each of its quotes, and nothing
\* else, is doubled (innerQuotes inserts one and goes on behind the two).
Doubled(chars) == FlattenSeq([i \in DOMAIN chars |->
                                 IF chars[i] = "'" THEN <<"'", "'">> ELSE <<chars[i]>>])
ReadsAs(item, value) ==
    item = IF value.string THEN <<"'">> \o Doubled(value.chars) \o <<"'">> ELSE value.chars
LiteralsReadBack ==
    call = "field" =>
        LET row == statement.text[Len(statement.text) - 1].list
        IN  \E r \in Rows : /\ Len(r) = Len(row)
                            /\ \A i \in DOMAIN row : ReadsAs(row[i].item, r[i])
==============================================================================
