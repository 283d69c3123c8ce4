---------------------------- MODULE MCEditApply -----------------------------
(* An instance of EditApply for TLC. *)
EXTENDS EditApply

(* The two bytes of one character, and others.                             *)
SomeWidth == "lead" :> 2 @@ "cont" :> 0 @@ [byte \in {"a", "b", "x"} |-> 1]

ShortTexts == {<<"a", "lead", "cont">>, <<"a", "b">>}

(* Nothing, and one byte.                                                  *)
SomeNews == {<<>>, <<"x">>}

TwoEdits == [text \in Texts |-> 2]
=============================================================================
