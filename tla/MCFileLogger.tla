---------------------------- MODULE MCFileLogger ----------------------------
(* Two runs of the program; a run logs more lines than files are kept, and    *)
(* one more than a name has room for.  A day is two seconds.                  *)
EXTENDS FileLogger
==============================================================================
