-------------------------- MODULE MCTextFsmRecords ---------------------------
(***************************************************************************)
(* Small instances of TextFsmRecords for TLC: every template of a family   *)
(* that uses each option and each action, and every short input.           *)
(***************************************************************************)
EXTENDS TextFsmRecords

MCValues   == {"name", "vrf", "hops", "peers", "age", "notes"}
MCFilldown == {"vrf", "peers"}
MCRequired == {"name"}
MCList     == {"hops", "peers", "notes"}
MCFillup   == {"age", "notes"}
MCKey      == {"name"}
MCKind == {"a", "b", "empty"}
MCText == {"x", "y"}
MCEnd  == [kind |-> "empty", text |-> "none"]

On(kind, captures, record, line) ==
    [match |-> {kind}, captures |-> captures, record |-> record, line |-> line, next |-> Stay]
To(kind, captures, record, next) ==
    [match |-> {kind}, captures |-> captures, record |-> record, line |-> "Next", next |-> next]

(* A block begins with a line of kind a, which may first end the one       *)
(* before; a line of kind b is the rest of it.                             *)
Blocks ==
    { Compiled([Start |->
        << On("a", early, first, "Continue"), On("a", {"name", "hops"}, "NoRecord", "Next"),
           On("b", late, second, "Next") >>])
        : early \in {{}, {"peers"}}, first \in {"Record", "Clear", "Clearall"},
          late \in {{"vrf"}, {"age"}, {"hops", "peers"}, {"age", "name"}},
          second \in {"NoRecord", "Record"} }
(* Templates with more states, some of them ends, and one nobody defined. *)
States ==
    { Compiled([Start |-> << To("a", {"name"}, "NoRecord", "Body") >>,
                Body  |-> << To("b", {"age"}, "Record", next), On("a", {"hops"}, "NoRecord", "Next") >>])
        : next \in {"Start", "End", "EOF", "Done", Error, "Nowhere"} }
    \cup { Compiled([Start |-> << On("a", {"name"}, "NoRecord", "Next"),
                                  On("b", {"name", "notes"}, "Record", "Next") >>,
                     EOF   |-> << >>]) }
MCTemplates == Blocks \cup States

MCLine   == [kind : {"a", "b"}, text : MCText \cup {"none"}]
(* Up to three lines, or four, all lines of kind a with the same text. *)
MCInputs ==
    UNION { [1 .. n -> MCLine] : n \in 0 .. 3 }
    \cup [1 .. 4 -> { l \in MCLine : l.kind = "b" \/ l.text = "x" }]
MCPresets == { <<>>, [v \in {"vrf", "name"} |-> <<"x">>] }
=============================================================================
