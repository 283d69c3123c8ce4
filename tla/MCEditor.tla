------------------------------ MODULE MCEditor ------------------------------
(* Instances of Editor for TLC. *)
EXTENDS Editor

(* Characters of one, two and four bytes, and the bytes that end a line.   *)
SomeWidth ==
  "lead" :> 2 @@ "wide" :> 4 @@ "cont" :> 0 @@ [byte \in {"a", "b", "x", "nl", "cr"} |-> 1]

LongText == <<"wide", "cont", "cont", "cont", "cr", "nl", "a">>

SomeTexts == {<<"a", "lead", "cont">>, LongText}

(* Nothing, and one byte.                                                  *)
SomeNews == {<<>>, <<"x">>}

(* Every list of three edits of a short text, of two of the long one.      *)
SomeMaxEdits == [text \in Texts |-> IF text = LongText THEN 2 ELSE 3]

(* What the client types, and the file no client has touched.              *)
TypedTexts == {<<"a">>, <<"b">>}

DiskText == <<"b">>

OneText == {<<"a">>}

OneEdit == [text \in Texts |-> 1]
=============================================================================
