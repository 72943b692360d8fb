--------------------------- MODULE MessageChannel ---------------------------
(***************************************************************************)
(* What a Connection promises to its two owners: an ordered, loss-free and  *)
(* duplicate-free channel of messages that may break once, for good.  The   *)
(* n-th message submitted is the number n.                                  *)
(***************************************************************************)
EXTENDS Naturals, Sequences

VARIABLES pipe,    \* submitted and not delivered, oldest first
          got,     \* delivered, in the order of delivery
          broken   \* the channel has failed

vars == <<pipe, got, broken>>

Init == pipe = <<>> /\ got = <<>> /\ broken = FALSE

Submit == /\ pipe' = Append(pipe, Len(pipe) + Len(got) + 1)
          /\ UNCHANGED <<got, broken>>

\* A broken channel may still deliver what it had, and need not.
Deliver == /\ pipe # <<>>
           /\ got' = Append(got, Head(pipe))
           /\ pipe' = Tail(pipe)
           /\ UNCHANGED broken

Break == /\ ~broken
         /\ broken' = TRUE
         /\ UNCHANGED <<pipe, got>>

Next == Submit \/ Deliver \/ Break

Spec == Init /\ [][Next]_vars

FairSpec == Spec /\ WF_vars(~broken /\ Deliver)
==============================================================================
