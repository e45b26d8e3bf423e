--------------------------- MODULE MCConfigAtomic ----------------------------
(* Small instances of ConfigAtomic for TLC. *)
EXTENDS ConfigAtomic

WithReload == {TRUE}
EitherSafety == BOOLEAN
=============================================================================
