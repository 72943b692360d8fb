CONSTANTS
  Chars = {"a", "b", "x", "7", "'"}
  Tables = {"users", "msgs"}
  ColumnLists <- Lists
  Rows <- DataRows
  Joins = {"inner", "left"}
  MaxLexemes = 9
SPECIFICATION Spec
INVARIANTS ChainsAreSeparate LiteralsReadBack
