--------------------------- MODULE MCRepositories ---------------------------
(* A few people, channels and messages.                                       *)
EXTENDS Repositories

Person(e, l, fits) == [email |-> e, login |-> l, emailFits |-> fits]
\* Two different users.
TwoPeople == {Person("e1", "l1", TRUE), Person("e2", "l2", TRUE)}
OnePerson == {Person("e1", "l1", TRUE)}

OneName == {<<"named", 1>>}
OneLongName == {<<"named", 2>>}
TwoNames == OneName \cup OneLongName
==============================================================================
