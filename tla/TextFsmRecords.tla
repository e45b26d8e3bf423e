---------------------------- MODULE TextFsmRecords ----------------------------
(***************************************************************************)
(* TextFSMPlus parsing the output of a command into records: parse_file()  *)
(* and, one rule at a time, parse_line().                                  *)
(*                                                                         *)
(* A line has a kind, by which the rules tell it from others, and a text,  *)
(* which is what the groups of a rule capture from it (Absent for a group  *)
(* that took no part).  A rule is anchored and matches a line once.  A     *)
(* value is the sequence of its texts: of exactly one for a Value::Single. *)
(***************************************************************************)
EXTENDS Naturals, Sequences, FiniteSets

CONSTANTS
    Values,                                   \* the values of the template,
    Filldown, Required, List, Fillup, Key,    \* and those with each option
    Kind,       \* classes of lines, and
    Text,       \* what is captured from them
    Absent,     \* nothing is
    EndOfInput, \* the empty line that the EOF state is given
    Templates,  \* templates: by state, the sequence of its rules
    Inputs,     \* what is parsed
    Presets     \* the values that are set before

VARIABLES
    template, todo,     \* the states of the template, the lines not yet parsed
    doing,              \* "lines", "eof", "ended" or "panic"
    curr_state, rule,   \* the state, and its rule that is tried next
    curr_record, record_key, filldown_record, records,
    log                 \* history: what each rule that matched captured and did

vars == <<template, todo, doing, curr_state, rule,
          curr_record, record_key, filldown_record, records, log>>

Stay == "stay"
Error == "Error"
RecordAction == {"NoRecord", "Record", "Clear", "Clearall"}
Texts == Text \cup {"", "None"}
Line  == [kind : Kind, text : Text \cup {Absent}]
Rule  == [match : SUBSET Kind, captures : SUBSET Values, record : RecordAction,
          line : {"Next", "Continue"}, next : STRING]

Empty(v) == IF v \in List THEN <<>> ELSE <<"">>
Partial  == UNION { [S -> Seq(Texts)] : S \in SUBSET Values }

ASSUME TemplateAssumption ==
    /\ {Filldown, Required, List, Fillup, Key} \subseteq SUBSET Values
    /\ EndOfInput \in Line
    /\ \A t \in Templates : /\ {"Start", "EOF"} \subseteq DOMAIN t
                             /\ \A s \in DOMAIN t : t[s] \in Seq(Rule)
    /\ Inputs \subseteq Seq(Line)
(* A preset list would be a Value::Single, and capturing it a panic. *)
ASSUME PresetAssumption ==
    \A p \in Presets : \E S \in SUBSET (Values \ List) : p \in [S -> [{1} -> Texts]]

(* TextFSMPlusParser::from_str(): a template that has no EOF state records *)
(* what is left at the end.                                                *)
EofRule(kinds) == [match |-> kinds, captures |-> {}, record |-> "Record",
                   line |-> "Next", next |-> "End"]
Compiled(states) ==
    [s \in DOMAIN states \cup {"EOF"} |->
        IF s \in DOMAIN states THEN states[s] ELSE <<EofRule({EndOfInput.kind})>>]

Init ==
    /\ template \in Templates /\ todo \in Inputs
    /\ doing = "lines" /\ curr_state = "Start" /\ rule = 1
    /\ curr_record \in Presets /\ record_key = <<>>
    /\ filldown_record = <<>> /\ records = <<>>
    /\ log = <<[captured |-> curr_record, action |-> "NoRecord", pushed |-> FALSE]>>

-----------------------------------------------------------------------------
(* Capturing. *)

Captured(v, text) ==
    IF text # Absent THEN <<text>> ELSE IF v \in List THEN <<"None">> ELSE <<"">>
Captures(r, line) == [v \in r.captures |-> Captured(v, line.text)]
OnlyOf(names, new) == [v \in DOMAIN new \cap names |-> new[v]]

(* append_value(), for every captured value: a list grows, another value is *)
(* replaced.                                                               *)
Appended(record, new) ==
    [v \in DOMAIN record \cup DOMAIN new |->
        IF v \notin DOMAIN new THEN record[v]
        ELSE IF v \in DOMAIN record \cap List THEN record[v] \o new[v]
        ELSE new[v]]
(* A mutant: the captured filldown values take the place of the ones before. *)
FilldownReplaced(new) ==
    [v \in DOMAIN filldown_record \cup (DOMAIN new \cap Filldown) |->
        IF v \in DOMAIN new THEN new[v] ELSE filldown_record[v]]
FilldownAppended(new) == Appended(filldown_record, OnlyOf(Filldown, new))

(* A Fillup value goes into the records that lack it, up to the first one  *)
(* that has it, from the last one back.                                    *)
Lacks(record, v) == record.fields[v] = <<"">>
(* A mutant: the record that has the value is filled as well. *)
FilledOver(new) ==
    [i \in DOMAIN records |->
        [records[i] EXCEPT !.fields =
            [v \in Values |->
                IF /\ v \in Fillup \cap DOMAIN new
                   /\ \A j \in i + 1 .. Len(records) : Lacks(records[j], v)
                THEN new[v] ELSE records[i].fields[v]]]]
FilledUp(new) ==
    [i \in DOMAIN records |->
        [records[i] EXCEPT !.fields =
            [v \in Values |->
                IF /\ v \in Fillup \cap DOMAIN new
                   /\ \A j \in i .. Len(records) : Lacks(records[j], v)
                THEN new[v] ELSE records[i].fields[v]]]]

-----------------------------------------------------------------------------
(* Recording. *)

(* A mutant: a required value may be empty. *)
MayBeEmpty(record) == Required \subseteq DOMAIN record
Complete(record) == \A v \in Required : v \in DOMAIN record /\ record[v] # Empty(v)
Row(record) == [v \in Values |-> IF v \in DOMAIN record THEN record[v] ELSE Empty(v)]

(* What the record action of a matched rule leaves of the records, after   *)
(* its captures: recs, curr and fill.                                      *)
Records(action, recs, curr, key) ==
    IF action = "Record" /\ DOMAIN curr # {} /\ Complete(curr)
    THEN Append(recs, [fields |-> Row(curr), key |-> key]) ELSE recs
(* A mutant: a record that is not pushed is kept. *)
KeptRecord(action, curr, fill) ==
    CASE action = "Record"   -> IF DOMAIN curr # {} /\ Complete(curr) THEN fill ELSE curr
      [] action = "Clear"    -> OnlyOf(Filldown, curr)
      [] action = "Clearall" -> <<>>
      [] action = "NoRecord" -> curr
CurrRecord(action, curr, fill) ==
    CASE action = "Record"   -> fill
      [] action = "Clear"    -> OnlyOf(Filldown, curr)
      [] action = "Clearall" -> <<>>
      [] action = "NoRecord" -> curr

-----------------------------------------------------------------------------
(* The lines. *)

Stopped == curr_state \in {"EOF", "End", "Done"}
Trying  == doing = "eof" \/ (doing = "lines" /\ todo # <<>> /\ ~ Stopped)
Current == IF doing = "eof" THEN EndOfInput ELSE Head(todo)
Rules   == template[curr_state]

(* The line is done with; in the EOF state, whatever comes next is ignored. *)
NextLine(next) ==
    /\ rule' = 1
    /\ IF doing = "eof"
       THEN doing' = "ended" /\ curr_state' = "End" /\ UNCHANGED todo
       ELSE /\ todo' = Tail(todo)
            /\ curr_state' = IF next = Stay THEN curr_state ELSE next
            /\ doing' = IF next \in DOMAIN template \cup {Stay, "End", "Done"}
                        THEN doing ELSE "panic"

Misses ==
    /\ Trying /\ rule \in DOMAIN Rules /\ Current.kind \notin Rules[rule].match
    /\ rule' = rule + 1
    /\ UNCHANGED <<template, todo, doing, curr_state, curr_record, record_key,
                   filldown_record, records, log>>

NoMoreRules ==
    /\ Trying /\ rule \notin DOMAIN Rules
    /\ NextLine(Stay)
    /\ UNCHANGED <<template, curr_record, record_key, filldown_record, records, log>>

FillsUpList(new) == records # <<>> /\ DOMAIN new \cap Fillup \cap List # {}

Matches ==
    /\ Trying /\ rule \in DOMAIN Rules /\ Current.kind \in Rules[rule].match
    /\ LET r    == Rules[rule]
           new  == Captures(r, Current)
           curr == Appended(curr_record, new)
           fill == FilldownAppended(new)
           key  == OnlyOf(Key, new)
           recs == Records(r.record, FilledUp(new), curr, key)
       IN  /\ ~ FillsUpList(new)
           /\ records' = recs
           /\ curr_record' = CurrRecord(r.record, curr, fill)
           /\ filldown_record' = IF r.record = "Clearall" THEN <<>> ELSE fill
           /\ record_key' =
                IF r.record = "Clearall" THEN <<>>
                ELSE IF r.record = "Record" THEN <<>> ELSE key
           /\ log' = Append(log, [captured |-> new, action |-> r.record,
                                  pushed |-> Len(recs) > Len(records)])
           /\ IF r.line = "Next" THEN NextLine(r.next)
              ELSE rule' = rule + 1 /\ UNCHANGED <<todo, doing, curr_state>>
    /\ UNCHANGED template

Panics ==
    /\ Trying /\ rule \in DOMAIN Rules /\ Current.kind \in Rules[rule].match
    /\ FillsUpList(Captures(Rules[rule], Current))
    /\ doing' = "panic"
    /\ UNCHANGED <<template, todo, curr_state, rule, curr_record, record_key,
                   filldown_record, records, log>>

(* The end of the input, or a state that ends it: only "End" leaves the    *)
(* EOF state out.                                                          *)
EndsLines ==
    /\ doing = "lines" /\ rule = 1 /\ (todo = <<>> \/ Stopped)
    /\ IF curr_state = "End" THEN doing' = "ended" /\ UNCHANGED curr_state
       ELSE doing' = "eof" /\ curr_state' = "EOF"
    /\ UNCHANGED <<template, todo, rule, curr_record, record_key, filldown_record,
                   records, log>>

Next == Misses \/ NoMoreRules \/ Matches \/ Panics \/ EndsLines
Spec == Init /\ [][Next]_vars

-----------------------------------------------------------------------------
TypeOK ==
    /\ template \in Templates /\ todo \in Seq(Line)
    /\ doing \in {"lines", "eof", "ended", "panic"}
    /\ doing = "lines" => curr_state \in DOMAIN template \cup {"End", "Done"}
    /\ doing = "eof"   => curr_state = "EOF"
    /\ rule \in Nat \ {0}
    /\ curr_record \in Partial /\ filldown_record \in Partial
    /\ records \in Seq([fields : [Values -> Seq(Texts)], key : Partial])

(* What a record gets when it starts over, and what it was given since,    *)
(* belong together: parse_line() appends every captured filldown value to  *)
(* two records, and copies one over the other at Record, so a value that   *)
(* was filled down is the same in both ("This is correct" in the code).    *)
FilldownMirrors ==
    \A v \in DOMAIN filldown_record :
        v \in DOMAIN curr_record /\ curr_record[v] = filldown_record[v]

(* No record lacks a required value, or a field of the template, whatever  *)
(* is filled into it later.                                                *)
RecordsComplete ==
    \A i \in DOMAIN records :
        \A v \in Required : records[i].fields[v] # Empty(v)

(* What was recorded stays: a later line can only fill up fields that are  *)
(* empty.                                                                  *)
RecordsStay ==
    [][/\ Len(records) <= Len(records')
       /\ \A i \in DOMAIN records : \A v \in Values :
             records'[i].fields[v] = records[i].fields[v]
             \/ (v \in Fillup /\ Lacks(records[i], v))]_vars

(* The records are what the rules that matched captured, in the words of   *)
(* the table of record actions (Record: "Save current values as a record   *)
(* row; clear non-Filldown values"): a field is the last text captured     *)
(* since the values were cleared, of a list all texts, of a Fillup value   *)
(* that has none the first one captured later.  A preset is a text         *)
(* captured first, but not filled down.                                    *)
Clears(v, n) == log[n].action = "Clearall"
                \/ (v \notin Filldown /\ log[n].action \in {"Record", "Clear"})
Since(v, n) ==
    { m \in 1 .. n :
        /\ v \in DOMAIN log[m].captured
        /\ \A k \in m .. n - 1 : ~ (Clears(v, k) \/ (m = 1 /\ log[k].action = "Record")) }
Latest(ns) == CHOOSE m \in ns : \A k \in ns : k <= m
First(ns)  == CHOOSE m \in ns : \A k \in ns : m <= k
Collected(v, n) ==
    LET ns == Since(v, n)
        all[m \in 0 .. n] ==
            IF m = 0 THEN <<>>
            ELSE IF m \in ns THEN all[m - 1] \o log[m].captured[v] ELSE all[m - 1]
    IN  IF v \in List THEN all[n]
        ELSE IF ns # {} THEN log[Latest(ns)].captured[v] ELSE <<"">>
Later(v, n) ==
    { m \in n + 1 .. Len(log) : v \in DOMAIN log[m].captured /\ log[m].captured[v] # <<"">> }
Told(v, n) ==
    IF v \in Fillup /\ Collected(v, n) = <<"">> /\ Later(v, n) # {}
    THEN log[First(Later(v, n))].captured[v] ELSE Collected(v, n)
Pushed(n) == 1 + Cardinality({ m \in 1 .. n - 1 : log[m].pushed })
RecordsTellTheText ==
    \A n \in DOMAIN log : log[n].action = "Record" =>
        /\ log[n].pushed <=>
             /\ \E v \in Values : Since(v, n) # {}
             /\ \A v \in Required : Collected(v, n) # Empty(v)
        /\ log[n].pushed =>
             \A v \in Values : records[Pushed(n)].fields[v] = Told(v, n)
=============================================================================
