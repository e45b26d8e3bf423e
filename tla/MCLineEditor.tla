---------------------------- MODULE MCLineEditor -----------------------------
(* A small instance of LineEditor for TLC. *)
EXTENDS LineEditor

Letters == {"a", " "}
Keywords == {<<"a", "a">>}
=============================================================================
