----------------------------- MODULE Selections -----------------------------
(***************************************************************************)
(* The elements of a sequence that are in a set: what std::remove leaves of *)
(* a vector, and how the properties of the modules tell the messages of one *)
(* kind from the others in a queue.  It is SelectSeq for a test that is     *)
(* given as a set, written so that its lemmas can be proved.                *)
(***************************************************************************)
EXTENDS Naturals, Sequences

\* The elements of s that are in S, in their order.
Only(s, S) ==
    LET only[i \in 0..Len(s)] == IF i = 0 THEN <<>>
                                 ELSE IF s[i] \in S THEN Append(only[i - 1], s[i]) ELSE only[i - 1]
    IN  only[Len(s)]
=============================================================================
