----------------------------- MODULE Dispatching ------------------------------
(***************************************************************************)
(* lib.rs dispatch_config() and dispatch_exec(): "do" and "no" in front of *)
(* other words choose the tree a line is parsed with, and the parser.      *)
(***************************************************************************)
EXTENDS ExecTree, ConfTree

ExecModes    == {"user", "priv"}
ConfigModes  == {"config"} \cup SubModes
CommandModes == ExecModes \cup ConfigModes

class(m) == IF m \in SubModes THEN "sub" ELSE m
Tree(m)  == IF m \in ConfigModes THEN config_tree_for_mode(m) ELSE exec_tree

Prefixed(m, ws, w) == m \in ConfigModes /\ Len(ws) > 1 /\ ws[1] = w

(* What is run with "do" is run in the privileged mode. *)
Borrowed(m, ws) == IF Prefixed(m, ws, "do") THEN "priv" ELSE m

Dispatch(m, ws) ==
    LET in   == Borrowed(m, ws)
        rest == IF in # m THEN Tail(ws) ELSE ws
    IN  IF Prefixed(m, ws, "no") THEN parse_for_no(Tail(ws), Tree(m), class(m))
        ELSE parse(rest, Tree(in), class(in))
=============================================================================
