----------------------------- MODULE MCMailScan -----------------------------
EXTENDS MailScan, TLC

CONSTANTS A, B, s1, s2, c1, c2, c3

(* One mailbox, all of whose messages are relevant.                         *)
OneBox == {A}
FewMessages == [b \in Boxes |-> 2]
RelevantInOneBox == {<<A, 1>>, <<A, 2>>}

(* Two mailboxes; a relevant message comes to one of them.                  *)
TwoBoxes == {A, B}
OneMessage == [b \in Boxes |-> IF b = A THEN 1 ELSE 0]
RelevantInTwoBoxes == {<<A, 1>>}

ScannersAreAlike == Permutations({s1, s2})

(* Links are alike: what counts is how many there are, and which requests   *)
(* came by the same one.                                                    *)
LinksAreAlike ==
  <<gmail, urls, Cardinality(states), rows, jobs, offered, blind, upsets, raced,
    [c \in Callbacks |-> [callback[c] EXCEPT !.url = 0]],
    {p \in Callbacks \X Callbacks : callback[p[1]].url = callback[p[2]].url}>>

RequestsAreAlike == Permutations({c1, c2, c3})
=============================================================================
