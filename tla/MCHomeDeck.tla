----------------------------- MODULE MCHomeDeck -----------------------------
(***************************************************************************)
(* Instances of HomeDeck for TLC.                                          *)
(***************************************************************************)
EXTENDS HomeDeck

CONSTANTS ann, bob, eve

\* What a query returns depends on the ages asked for: nobody, or some of the
\* users, the one signed in included, always in the order of their ages.
SomeFeeds == {<<>>, <<bob, eve>>, <<ann, bob>>}

\* The same for two accounts.
TwoFeeds == {<<>>, <<ann>>, <<bob>>, <<ann, bob>>}
=============================================================================
