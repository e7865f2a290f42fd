----------------------------- MODULE MCVocabulary -----------------------------
(***************************************************************************)
(* Vocabulary for TLC: two phrases, a text with one and a text with both,  *)
(* two versions of the platform's file.                                    *)
(***************************************************************************)
EXTENDS Vocabulary

CONSTANTS p1, p2

TwoPhrases == {p1, p2}
TextsWithPhrase == {{p1}, {p1, p2}}

\* p1 is a word against a text in one version and milder in the other; both are also
\* markers of whom a text is aimed at.
Shipped  == [HARMFUL |-> {p1}, OFFENSIVE |-> {}, INSTITUTION |-> {p1}, PERSON |-> {p2}]
Replaced == [HARMFUL |-> {p2}, OFFENSIVE |-> {p1}, INSTITUTION |-> {p1}, PERSON |-> {}]
TwoFiles == {Shipped, Replaced}
=============================================================================
