---------------------------- MODULE MCSessions -------------------------------
(* Instances of Sessions for TLC.                                          *)
EXTENDS Sessions, TLC

(* Two people; the second may want the first one's name or mail.           *)
AnnsForm == [name |-> "ann", mail |-> "ann@", word |-> "w1"]
SameName == [name |-> "ann", mail |-> "bob@", word |-> "w2"]
SameMail == [name |-> "bob", mail |-> "ann@", word |-> "w2"]

MCForms == {AnnsForm, SameName, SameMail}

Symmetry == Permutations(Requests) \union Permutations(Browsers)
=============================================================================
