--------------------------- MODULE MCCommandLine ----------------------------
(* Small instances of CommandLine for TLC. *)
EXTENDS CommandLine

(* A number that fits its ranges and one that fits none, and a name. *)
MCNumerals == [w \in {"7", "0"} |-> IF w = "7" THEN 7 ELSE 0]
MCArgs == {"casino"}
MCLengths == {1, 3}
AllStarts == {"login", "user", "priv", "config"}
PrivOnly == {"priv"}
LoginOnly == {"login"}
=============================================================================
