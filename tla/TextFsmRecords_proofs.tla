------------------------- MODULE TextFsmRecords_proofs ------------------------
(***************************************************************************)
(* What holds of the records for every template and every input.           *)
(***************************************************************************)
EXTENDS TextFsmRecords, StreamLemmas, SequenceTheorems, FiniteSetTheorems, TLAPS

(* A value that is filled down has the option, and a list that has it is   *)
(* only in the current record if it was captured: presets are no lists.    *)
FilldownNames ==
    /\ DOMAIN filldown_record \subseteq Filldown
    /\ DOMAIN curr_record \cap Filldown \cap List \subseteq DOMAIN filldown_record
IInv == TypeOK /\ FilldownMirrors /\ FilldownNames /\ RecordsComplete

-----------------------------------------------------------------------------
(* A function whose domain is some of the values is a partial record. *)
LEMMA PartialIntro ==
    ASSUME NEW f, DOMAIN f \in SUBSET Values, f = [v \in DOMAIN f |-> f[v]],
           \A v \in DOMAIN f : f[v] \in Seq(Texts)
    PROVE  f \in Partial
<1>1. f \in [DOMAIN f -> Seq(Texts)]
  OBVIOUS
<1> QED
  BY <1>1 DEF Partial

(* What a partial record is. *)
LEMMA PartialElim ==
    ASSUME NEW f \in Partial
    PROVE  /\ DOMAIN f \subseteq Values
           /\ f = [v \in DOMAIN f |-> f[v]]
           /\ \A v \in DOMAIN f : f[v] \in Seq(Texts)
<1>1. PICK S \in SUBSET Values : f \in [S -> Seq(Texts)]
  BY DEF Partial
<1> QED
  BY <1>1

(* No value at all is a partial record. *)
LEMMA EmptyPartial == <<>> \in Partial
<1>1. <<>> = [v \in {} |-> v] /\ DOMAIN <<>> = {}
  OBVIOUS
<1> QED
  BY <1>1, PartialIntro

(* A rule captures some of the values. *)
LEMMA CapturesType ==
    ASSUME NEW r \in Rule, NEW line \in Line
    PROVE  Captures(r, line) \in Partial
<1>1. r.captures \subseteq Values /\ line.text \in Text \cup {Absent}
  BY DEF Rule, Line
<1>2. ASSUME NEW v \in r.captures
      PROVE  Captured(v, line.text) \in Seq(Texts)
  <2>1. \A t \in Texts : <<t>> \in Seq(Texts)
    OBVIOUS
  <2>2. "" \in Texts /\ "None" \in Texts /\ (line.text # Absent => line.text \in Texts)
    BY <1>1 DEF Texts
  <2> QED
    BY <2>1, <2>2 DEF Captured
<1> DEFINE f == Captures(r, line)
<1>3. DOMAIN f = r.captures /\ f = [v \in DOMAIN f |-> f[v]]
  BY DEF Captures
<1>4. \A v \in DOMAIN f : f[v] \in Seq(Texts)
  BY <1>2, <1>3 DEF Captures
<1> QED
  BY <1>1, <1>3, <1>4, PartialIntro

(* The part of a partial record with the given names. *)
LEMMA OnlyOfType ==
    ASSUME NEW names, NEW new \in Partial
    PROVE  OnlyOf(names, new) \in Partial
<1> DEFINE f == OnlyOf(names, new)
<1>1. DOMAIN f = DOMAIN new \cap names /\ f = [v \in DOMAIN f |-> f[v]]
  BY DEF OnlyOf
<1>2. \A v \in DOMAIN f : f[v] \in Seq(Texts)
  BY <1>1, PartialElim DEF OnlyOf
<1>3. DOMAIN f \subseteq Values
  BY <1>1, PartialElim
<1> QED
  BY <1>1, <1>2, <1>3, PartialIntro

(* Captures are added to a partial record. *)
LEMMA AppendedType ==
    ASSUME NEW record \in Partial, NEW new \in Partial
    PROVE  /\ Appended(record, new) \in Partial
           /\ DOMAIN Appended(record, new) = DOMAIN record \cup DOMAIN new
<1> DEFINE f == Appended(record, new)
<1>1. DOMAIN f = DOMAIN record \cup DOMAIN new /\ f = [v \in DOMAIN f |-> f[v]]
  BY DEF Appended
<1>2. /\ \A v \in DOMAIN record : record[v] \in Seq(Texts)
      /\ \A v \in DOMAIN new : new[v] \in Seq(Texts)
      /\ DOMAIN record \subseteq Values /\ DOMAIN new \subseteq Values
  BY PartialElim
<1>3. ASSUME NEW v \in DOMAIN f PROVE f[v] \in Seq(Texts)
  <2>1. CASE v \notin DOMAIN new
    BY <1>1, <1>2, <2>1 DEF Appended
  <2>2. CASE v \in DOMAIN new /\ v \in DOMAIN record \cap List
    <3>1. f[v] = record[v] \o new[v]
      BY <1>1, <2>2 DEF Appended
    <3>2. record[v] \in Seq(Texts) /\ new[v] \in Seq(Texts)
      BY <1>2, <2>2
    <3> QED
      BY <3>1, <3>2
  <2>3. CASE v \in DOMAIN new /\ v \notin DOMAIN record \cap List
    BY <1>1, <1>2, <2>3 DEF Appended
  <2> QED
    BY <2>1, <2>2, <2>3
<1> HIDE DEF f
<1>4. f \in Partial
  BY <1>1, <1>2, <1>3, PartialIntro
<1> QED
  BY <1>1, <1>4 DEF f

-----------------------------------------------------------------------------
(* Captures keep the two records the same where values are filled down. *)
Mirrors(curr, fill) ==
    /\ DOMAIN fill \subseteq Filldown
    /\ DOMAIN curr \cap Filldown \cap List \subseteq DOMAIN fill
    /\ \A v \in DOMAIN fill : v \in DOMAIN curr /\ curr[v] = fill[v]

LEMMA MirrorsAppended ==
    ASSUME NEW curr, NEW fill, NEW new, Mirrors(curr, fill)
    PROVE  Mirrors(Appended(curr, new), Appended(fill, OnlyOf(Filldown, new)))
<1> DEFINE some == OnlyOf(Filldown, new)
           c == Appended(curr, new)
           f == Appended(fill, some)
<1>1. /\ DOMAIN some = DOMAIN new \cap Filldown
      /\ \A v \in DOMAIN some : some[v] = new[v]
  BY DEF OnlyOf
<1>2. DOMAIN c = DOMAIN curr \cup DOMAIN new /\ DOMAIN f = DOMAIN fill \cup DOMAIN some
  BY DEF Appended
<1>3. ASSUME NEW v \in DOMAIN f PROVE v \in DOMAIN c /\ c[v] = f[v]
  <2>1. v \in DOMAIN c
    BY <1>1, <1>2, <1>3 DEF Mirrors
  <2>2. CASE v \notin DOMAIN new
    BY <1>1, <1>2, <2>1, <2>2 DEF Mirrors, Appended
  <2>3. CASE v \in DOMAIN new
    <3>1. v \in DOMAIN some /\ some[v] = new[v]
      BY <1>1, <1>2, <2>3 DEF Mirrors
    <3>2. v \in DOMAIN curr \cap List <=> v \in DOMAIN fill \cap List
      BY <1>1, <3>1 DEF Mirrors
    <3>3. v \in DOMAIN fill => curr[v] = fill[v]
      BY DEF Mirrors
    <3>4. c[v] = (IF v \in DOMAIN curr \cap List THEN curr[v] \o new[v] ELSE new[v])
      BY <2>1, <2>3, <1>2 DEF Appended
    <3>5. f[v] = (IF v \in DOMAIN fill \cap List THEN fill[v] \o some[v] ELSE some[v])
      BY <3>1, <1>2 DEF Appended
    <3> QED
      BY <2>1, <3>1, <3>2, <3>3, <3>4, <3>5
  <2> QED
    BY <2>2, <2>3
<1>4. DOMAIN f \subseteq Filldown /\ DOMAIN c \cap Filldown \cap List \subseteq DOMAIN f
  BY <1>1, <1>2 DEF Mirrors
<1> QED
  BY <1>3, <1>4 DEF Mirrors

(* A record action keeps them the same as well. *)
LEMMA MirrorsReset ==
    ASSUME NEW curr, NEW fill, NEW action \in RecordAction, Mirrors(curr, fill)
    PROVE  Mirrors(CurrRecord(action, curr, fill),
                   IF action = "Clearall" THEN <<>> ELSE fill)
<1>1. CASE action = "Record"
  BY <1>1 DEF Mirrors, CurrRecord
<1>2. CASE action = "Clear"
  <2>1. /\ DOMAIN OnlyOf(Filldown, curr) = DOMAIN curr \cap Filldown
        /\ \A v \in DOMAIN curr \cap Filldown : OnlyOf(Filldown, curr)[v] = curr[v]
    BY DEF OnlyOf
  <2> QED
    BY <1>2, <2>1 DEF Mirrors, CurrRecord
<1>3. CASE action = "Clearall"
  <2>1. DOMAIN <<>> = {}
    OBVIOUS
  <2> QED
    BY <1>3, <2>1 DEF Mirrors, CurrRecord
<1>4. CASE action = "NoRecord"
  BY <1>4 DEF Mirrors, CurrRecord
<1> QED
  BY <1>1, <1>2, <1>3, <1>4 DEF RecordAction

(* What the record action leaves are partial records. *)
LEMMA CurrRecordType ==
    ASSUME NEW curr \in Partial, NEW fill \in Partial, NEW action \in RecordAction
    PROVE  CurrRecord(action, curr, fill) \in Partial
<1>1. OnlyOf(Filldown, curr) \in Partial
  BY OnlyOfType
<1> QED
  BY <1>1, EmptyPartial DEF CurrRecord, RecordAction

-----------------------------------------------------------------------------
FullRecord == [fields : [Values -> Seq(Texts)], key : Partial]

(* Filling up changes only empty fields of values with the option. *)
LEMMA FilledUpFacts ==
    ASSUME NEW new \in Partial, records \in Seq(FullRecord)
    PROVE  /\ FilledUp(new) \in Seq(FullRecord)
           /\ Len(FilledUp(new)) = Len(records)
           /\ \A i \in DOMAIN records : \A v \in Values :
                 \/ FilledUp(new)[i].fields[v] = records[i].fields[v]
                 \/ v \in Fillup \cap DOMAIN new /\ Lacks(records[i], v)
<1> DEFINE Value(i, v) == IF /\ v \in Fillup \cap DOMAIN new
                             /\ \A j \in i .. Len(records) : Lacks(records[j], v)
                          THEN new[v] ELSE records[i].fields[v]
           fields(i) == [v \in Values |-> Value(i, v)]
           g == FilledUp(new)
<1>1. DOMAIN g = DOMAIN records /\ \A i \in DOMAIN records : g[i] = [records[i] EXCEPT !.fields = fields(i)]
  BY DEF FilledUp
<1>2. ASSUME NEW i \in DOMAIN records
      PROVE  /\ g[i] \in FullRecord
             /\ \A v \in Values : g[i].fields[v] = Value(i, v)
  <2>1. records[i] \in FullRecord
    BY <1>2
  <2>2. \A v \in Values : Value(i, v) \in Seq(Texts)
    <3>1. \A v \in DOMAIN new : new[v] \in Seq(Texts)
      BY PartialElim
    <3>2. \A v \in Values : records[i].fields[v] \in Seq(Texts)
      BY <2>1 DEF FullRecord
    <3> QED
      BY <3>1, <3>2
  <2>3. fields(i) \in [Values -> Seq(Texts)]
    BY <2>2
  <2> HIDE DEF Value
  <2>4. g[i] = [records[i] EXCEPT !.fields = fields(i)]
    BY <1>1
  <2> QED
    BY <2>1, <2>3, <2>4 DEF FullRecord
<1>3. DOMAIN records = 1 .. Len(records) /\ Len(records) \in Nat
  OBVIOUS
<1>4. g = [i \in 1 .. Len(records) |-> g[i]]
  BY <1>3 DEF FilledUp
<1> HIDE DEF g, Value
<1>5. g \in [1 .. Len(records) -> FullRecord]
  BY <1>2, <1>3, <1>4
<1>6. g \in Seq(FullRecord) /\ Len(g) = Len(records)
  BY <1>3, <1>5, LenProperties, SeqDef
<1>7. \A i \in DOMAIN records : \A v \in Values :
         \/ g[i].fields[v] = records[i].fields[v]
         \/ v \in Fillup \cap DOMAIN new /\ Lacks(records[i], v)
  <2> TAKE i \in DOMAIN records
  <2> TAKE v \in Values
  <2>1. g[i].fields[v] = Value(i, v) /\ i \in i .. Len(records)
    BY <1>2, <1>3
  <2> QED
    BY <2>1 DEF Value
<1> QED
  BY <1>6, <1>7 DEF g

(* The row of a partial record has all values. *)
LEMMA RowFacts ==
    ASSUME NEW curr \in Partial
    PROVE  /\ Row(curr) \in [Values -> Seq(Texts)]
           /\ Complete(curr) => \A v \in Required : Row(curr)[v] # Empty(v)
<1>1. <<>> \in Seq(Texts)
  OBVIOUS
<1>2. <<"">> \in Seq(Texts)
  BY DEF Texts
<1>3. \A v \in DOMAIN curr : curr[v] \in Seq(Texts)
  BY PartialElim
<1>4. Row(curr) \in [Values -> Seq(Texts)]
  BY <1>1, <1>2, <1>3 DEF Row, Empty
<1>5. Complete(curr) => \A v \in Required : Row(curr)[v] # Empty(v)
  BY TemplateAssumption DEF Complete, Row
<1> QED
  BY <1>4, <1>5

-----------------------------------------------------------------------------
(* While a rule is tried, it and the line it is tried on are what they are *)
(* declared to be.                                                         *)
LEMMA TriedTypes ==
    ASSUME TypeOK, Trying
    PROVE  /\ Current \in Line
           /\ curr_state \in DOMAIN template
           /\ Rules \in Seq(Rule)
           /\ \A i \in DOMAIN Rules : Rules[i] \in Rule
<1>1. template \in Templates
  BY DEF TypeOK
<1>2. {"Start", "EOF"} \subseteq DOMAIN template /\ \A s \in DOMAIN template : template[s] \in Seq(Rule)
  BY <1>1, TemplateAssumption
<1>3. curr_state \in DOMAIN template
  BY <1>2 DEF TypeOK, Trying, Stopped
<1>4. todo # <<>> => Head(todo) \in Line
  BY DEF TypeOK
<1>5. Current \in Line
  BY <1>4, TemplateAssumption DEF Current, Trying
<1>6. Rules \in Seq(Rule)
  BY <1>2, <1>3 DEF Rules
<1>7. ASSUME NEW i \in DOMAIN Rules PROVE Rules[i] \in Rule
  BY <1>6, <1>7
<1> QED
  BY <1>3, <1>5, <1>6, <1>7

(* The control part of the type invariant. *)
ControlOK ==
    /\ todo \in Seq(Line)
    /\ doing \in {"lines", "eof", "ended", "panic"}
    /\ doing = "lines" => curr_state \in DOMAIN template \cup {"End", "Done"}
    /\ doing = "eof"   => curr_state = "EOF"
    /\ rule \in Nat \ {0}

(* However a line is done with, the state stays one the template has. *)
LEMMA NextLineControl ==
    ASSUME TypeOK, Trying, NEW next, NextLine(next), template' = template
    PROVE  ControlOK'
<1>1. CASE doing = "eof"
  BY <1>1 DEF NextLine, ControlOK, TypeOK
<1>2. CASE doing # "eof"
  <2>1. doing = "lines" /\ todo # <<>> /\ curr_state \in DOMAIN template
    BY <1>2, TriedTypes DEF Trying
  <2>2. Tail(todo) \in Seq(Line)
    BY <2>1 DEF TypeOK
  <2>3. /\ rule' = 1 /\ todo' = Tail(todo)
        /\ curr_state' = IF next = Stay THEN curr_state ELSE next
        /\ doing' = IF next \in DOMAIN template \cup {Stay, "End", "Done"} THEN doing ELSE "panic"
    BY <1>2 DEF NextLine
  <2>4. doing' = "lines" => curr_state' \in DOMAIN template \cup {"End", "Done"}
    BY <2>1, <2>3
  <2>5. doing' \in {"lines", "panic"}
    BY <2>1, <2>3
  <2> QED
    BY <2>2, <2>3, <2>4, <2>5 DEF ControlOK
<1> QED
  BY <1>1, <1>2

(* The initial state has no records, and presets that are no lists. *)
LEMMA InitInvariant == Init => IInv
<1> SUFFICES ASSUME Init PROVE IInv
  OBVIOUS
<1>1. ASSUME NEW p \in Presets PROVE p \in Partial /\ DOMAIN p \cap List = {}
  <2>1. PICK S \in SUBSET (Values \ List) : p \in [S -> [{1} -> Texts]]
    BY PresetAssumption
  <2>2. DOMAIN p = S /\ p = [v \in S |-> p[v]]
    BY <2>1
  <2>3. \A v \in S : p[v] \in Seq(Texts)
    <3>1. TAKE v \in S
    <3>2. p[v] \in [1 .. 1 -> Texts]
      BY <2>1
    <3> QED
      BY <3>2, SeqDef
  <2> QED
    BY <2>1, <2>2, <2>3, PartialIntro
<1>2. template \in Templates /\ todo \in Seq(Line)
  BY TemplateAssumption DEF Init
<1>3. "Start" \in DOMAIN template
  BY <1>2, TemplateAssumption
<1>4. curr_record \in Partial /\ DOMAIN curr_record \cap List = {}
  BY <1>1 DEF Init
<1>5. records \in Seq([fields : [Values -> Seq(Texts)], key : Partial]) /\ DOMAIN records = {}
  BY DEF Init
<1>6. filldown_record \in Partial /\ DOMAIN filldown_record = {}
  BY EmptyPartial DEF Init
<1>7. TypeOK
  BY <1>2, <1>3, <1>4, <1>5, <1>6 DEF Init, TypeOK
<1> QED
  BY <1>4, <1>5, <1>6, <1>7 DEF IInv, FilldownMirrors, FilldownNames, RecordsComplete

(* A rule that matches. *)
LEMMA MatchesInvariant == IInv /\ Matches => IInv'
<1> SUFFICES ASSUME IInv, Matches PROVE IInv'
  OBVIOUS
<1> DEFINE r    == Rules[rule]
           new  == Captures(r, Current)
           curr == Appended(curr_record, new)
           fill == FilldownAppended(new)
           key  == OnlyOf(Key, new)
           filled == FilledUp(new)
           recs == Records(r.record, filled, curr, key)
<1>1. TypeOK /\ Trying /\ rule \in DOMAIN Rules
  BY DEF IInv, Matches
<1>2. r \in Rule /\ Current \in Line
  BY <1>1, TriedTypes
<1>3. r.record \in RecordAction
  BY <1>2 DEF Rule
<1>4. /\ ~ FillsUpList(new)
      /\ records' = recs
      /\ curr_record' = CurrRecord(r.record, curr, fill)
      /\ filldown_record' = IF r.record = "Clearall" THEN <<>> ELSE fill
      /\ IF r.line = "Next" THEN NextLine(r.next)
         ELSE rule' = rule + 1 /\ UNCHANGED <<todo, doing, curr_state>>
      /\ template' = template
  BY DEF Matches
<1> HIDE DEF r
<1>5. new \in Partial
  BY <1>2, CapturesType
<1> HIDE DEF new
<1>6. curr_record \in Partial /\ filldown_record \in Partial /\ records \in Seq(FullRecord)
  BY <1>1 DEF TypeOK, FullRecord
<1>7. curr \in Partial
  BY <1>5, <1>6, AppendedType
<1>8. fill \in Partial
  <2>1. OnlyOf(Filldown, new) \in Partial
    BY <1>5, OnlyOfType
  <2> QED
    BY <1>6, <2>1, AppendedType DEF FilldownAppended
<1>9. key \in Partial
  BY <1>5, OnlyOfType
<1>10. Mirrors(curr, fill)
  <2>1. Mirrors(curr_record, filldown_record)
    BY DEF IInv, FilldownMirrors, FilldownNames, Mirrors
  <2> QED
    BY <2>1, MirrorsAppended DEF FilldownAppended
<1>11. /\ filled \in Seq(FullRecord) /\ Len(filled) = Len(records)
       /\ \A i \in DOMAIN records : \A v \in Values :
             \/ filled[i].fields[v] = records[i].fields[v]
             \/ v \in Fillup \cap DOMAIN new /\ Lacks(records[i], v)
  BY <1>5, <1>6, FilledUpFacts
<1> HIDE DEF curr, fill, key, filled
<1>12. curr_record' \in Partial /\ filldown_record' \in Partial
  BY <1>3, <1>4, <1>7, <1>8, CurrRecordType, EmptyPartial
<1>13. Mirrors(curr_record', filldown_record')
  BY <1>3, <1>4, <1>10, MirrorsReset
<1>14. FilldownMirrors' /\ FilldownNames'
  BY <1>13 DEF Mirrors, FilldownMirrors, FilldownNames
<1>15. DOMAIN records = 1 .. Len(records) /\ DOMAIN filled = DOMAIN records
  BY <1>6, <1>11, LenProperties
<1>16. \A i \in DOMAIN filled : \A v \in Required : filled[i].fields[v] # Empty(v)
  <2> TAKE i \in DOMAIN filled
  <2> TAKE v \in Required
  <2>1. i \in DOMAIN records /\ v \in Values /\ records[i].fields[v] # Empty(v)
    BY <1>15, TemplateAssumption DEF IInv, RecordsComplete
  <2>2. CASE v \in Fillup \cap DOMAIN new /\ Lacks(records[i], v)
    <3>1. records # <<>>
      BY <2>1, <1>6
    <3>2. v \notin List
      BY <1>4, <2>2, <3>1 DEF FillsUpList
    <3> QED
      BY <2>1, <2>2, <3>2 DEF Empty, Lacks
  <2> QED
    BY <1>11, <2>1, <2>2
<1>17. records' \in Seq(FullRecord) /\ RecordsComplete'
  <2>1. CASE recs = filled
    BY <1>4, <1>11, <1>16, <2>1 DEF RecordsComplete
  <2>2. CASE recs # filled
    <3> DEFINE row == [fields |-> Row(curr), key |-> key]
    <3>1. recs = Append(filled, row) /\ Complete(curr)
      BY <2>2 DEF Records
    <3>2. row \in FullRecord
      BY <1>7, <1>9, RowFacts DEF FullRecord
    <3>3. \A v \in Required : row.fields[v] # Empty(v)
      BY <1>7, <3>1, RowFacts
    <3> HIDE DEF row
    <3>4. /\ Append(filled, row) \in Seq(FullRecord)
          /\ DOMAIN Append(filled, row) = DOMAIN filled \cup {Len(filled) + 1}
          /\ \A i \in DOMAIN filled : Append(filled, row)[i] = filled[i]
          /\ Append(filled, row)[Len(filled) + 1] = row
      BY <1>11, <3>2
    <3> QED
      BY <1>4, <1>16, <3>1, <3>3, <3>4 DEF RecordsComplete
  <2> QED
    BY <2>1, <2>2
<1>18. ControlOK'
  <2>1. CASE r.line = "Next"
    BY <1>1, <1>4, <2>1, NextLineControl
  <2>2. CASE r.line # "Next"
    BY <1>1, <1>4, <2>2 DEF TypeOK, ControlOK
  <2> QED
    BY <2>1, <2>2
<1>19. TypeOK'
  BY <1>1, <1>4, <1>12, <1>17, <1>18 DEF TypeOK, ControlOK, FullRecord
<1> QED
  BY <1>14, <1>17, <1>19 DEF IInv

(* Every step keeps the invariant. *)
LEMMA StepInvariant == IInv /\ [Next]_vars => IInv'
<1> SUFFICES ASSUME IInv, [Next]_vars PROVE IInv'
  OBVIOUS
<1>1. TypeOK
  BY DEF IInv
<1>2. ASSUME UNCHANGED <<template, curr_record, filldown_record, records>>, ControlOK'
      PROVE  IInv'
  BY <1>2 DEF IInv, TypeOK, ControlOK, FilldownMirrors, FilldownNames, RecordsComplete
<1>3. ControlOK
  BY <1>1 DEF TypeOK, ControlOK
<1>4. CASE Misses
  BY <1>2, <1>3, <1>4 DEF Misses, ControlOK
<1>5. CASE NoMoreRules
  <2>1. ControlOK'
    BY <1>1, <1>5, NextLineControl DEF NoMoreRules
  <2> QED
    BY <1>2, <1>5, <2>1 DEF NoMoreRules
<1>6. CASE Matches
  BY <1>6, MatchesInvariant
<1>7. CASE Panics
  BY <1>2, <1>3, <1>7 DEF Panics, ControlOK
<1>8. CASE EndsLines
  BY <1>2, <1>3, <1>8 DEF EndsLines, ControlOK
<1>9. CASE UNCHANGED vars
  BY <1>2, <1>3, <1>9 DEF vars, ControlOK
<1> QED
  BY <1>4, <1>5, <1>6, <1>7, <1>8, <1>9 DEF Next

(* The invariant holds in every state. *)
LEMMA Invariant == Spec => []IInv
<1> QED
  BY InitInvariant, StepInvariant, PTL DEF Spec

-----------------------------------------------------------------------------
(* The texts that are gathered of a list: the recursive function of        *)
(* Collected, and what it is at one entry.                                 *)
GatheredAt(all, lg, v, ns, m) ==
    IF m = 0 THEN <<>>
    ELSE IF m \in ns THEN all[m - 1] \o lg[m].captured[v] ELSE all[m - 1]
Gathers(all, lg, v, ns, n) == all = [m \in 0 .. n |-> GatheredAt(all, lg, v, ns, m)]

(* Such a function is known by its values. *)
LEMMA GathersPointwise ==
    ASSUME NEW all, NEW lg, NEW v, NEW ns, NEW n \in Nat
    PROVE  Gathers(all, lg, v, ns, n) <=>
             /\ all = [m \in 0 .. n |-> all[m]]
             /\ \A m \in 0 .. n : all[m] = GatheredAt(all, lg, v, ns, m)
<1> DEFINE F == [m \in 0 .. n |-> GatheredAt(all, lg, v, ns, m)]
<1>1. Gathers(all, lg, v, ns, n) <=> all = F
  BY DEF Gathers
<1>2. DOMAIN F = 0 .. n /\ F = [m \in 0 .. n |-> F[m]] /\ \A m \in 0 .. n : F[m] = GatheredAt(all, lg, v, ns, m)
  OBVIOUS
<1>3. ASSUME all = [m \in 0 .. n |-> all[m]], \A m \in 0 .. n : all[m] = GatheredAt(all, lg, v, ns, m)
      PROVE  all = F
  BY <1>3
<1> HIDE DEF F
<1> QED
  BY <1>1, <1>2, <1>3

(* There is one: by induction on the number of entries. *)
LEMMA GatherExists ==
    ASSUME NEW lg, NEW v, NEW ns, NEW n \in Nat
    PROVE  \E all : Gathers(all, lg, v, ns, n)
<1> DEFINE T == { k \in Nat : \E all : Gathers(all, lg, v, ns, k) }
<1>1. 0 \in T
  <2> DEFINE all == [m \in 0 .. 0 |-> <<>>]
  <2>1. Gathers(all, lg, v, ns, 0)
    BY DEF Gathers, GatheredAt
  <2> QED
    BY <2>1
<1>2. ASSUME NEW k \in Nat, k \in T PROVE k + 1 \in T
  <2>1. PICK all : Gathers(all, lg, v, ns, k)
    BY <1>2
  <2>2. \A m \in 0 .. k : all[m] = GatheredAt(all, lg, v, ns, m)
    BY <2>1, GathersPointwise
  <2> DEFINE more == [m \in 0 .. k + 1 |-> IF m <= k THEN all[m] ELSE GatheredAt(all, lg, v, ns, m)]
  <2>3. ASSUME NEW m \in 0 .. k + 1 PROVE more[m] = GatheredAt(more, lg, v, ns, m)
    <3>1. more[m] = GatheredAt(all, lg, v, ns, m)
      BY <2>2
    <3>2. m # 0 => more[m - 1] = all[m - 1]
      OBVIOUS
    <3> HIDE DEF more
    <3> QED
      BY <3>1, <3>2 DEF GatheredAt
  <2>4. more = [m \in 0 .. k + 1 |-> more[m]]
    OBVIOUS
  <2> HIDE DEF more
  <2>5. Gathers(more, lg, v, ns, k + 1)
    <3>1. k + 1 \in Nat
      OBVIOUS
    <3> QED
      BY <3>1, <2>3, <2>4, GathersPointwise
  <2> QED
    BY <2>5
<1> HIDE DEF T
<1>3. n \in T
  BY <1>1, <1>2, InductionLemma
<1> QED
  BY <1>3 DEF T

(* So what Collected chooses is one. *)
LEMMA CollectedUnfolds ==
    ASSUME NEW v, NEW n \in Nat
    PROVE  \E all : /\ Gathers(all, log, v, Since(v, n), n)
                    /\ Collected(v, n) = IF v \in List THEN all[n]
                       ELSE IF Since(v, n) # {} THEN log[Latest(Since(v, n))].captured[v] ELSE <<"">>
<1> DEFINE ns == Since(v, n)
           all[m \in 0 .. n] ==
            IF m = 0 THEN <<>>
            ELSE IF m \in ns THEN all[m - 1] \o log[m].captured[v] ELSE all[m - 1]
<1>1. Gathers(all, log, v, ns, n)
  <2> HIDE DEF ns
  <2>1. \E f : Gathers(f, log, v, ns, n)
    BY GatherExists
  <2> QED
    BY <2>1, Zenon DEF Gathers, GatheredAt
<1>2. Collected(v, n) = IF v \in List THEN all[n]
                       ELSE IF ns # {} THEN log[Latest(ns)].captured[v] ELSE <<"">>
  BY Zenon DEF Collected
<1> HIDE DEF all
<1> QED
  BY <1>1, <1>2
(* Two gatherings agree as far as what they gather does. *)
LEMMA GathersAgree ==
    ASSUME NEW f, NEW g, NEW lg, NEW lh, NEW v, NEW ns, NEW ms, NEW n \in Nat, NEW m \in Nat,
           Gathers(f, lg, v, ns, n), Gathers(g, lh, v, ms, m),
           NEW k \in 0 .. n, k <= m,
           \A i \in 1 .. k : /\ i \in ns <=> i \in ms
                             /\ i \in ns => lg[i].captured[v] = lh[i].captured[v]
    PROVE  f[k] = g[k]
<1> DEFINE T == { j \in Nat : j <= k => f[j] = g[j] }
<1>1. /\ \A j \in 0 .. n : f[j] = GatheredAt(f, lg, v, ns, j)
      /\ \A j \in 0 .. m : g[j] = GatheredAt(g, lh, v, ms, j)
  BY GathersPointwise
<1>2. 0 \in T
  <2>1. 0 \in 0 .. n /\ 0 \in 0 .. m
    OBVIOUS
  <2>2. f[0] = <<>> /\ g[0] = <<>>
    BY <1>1, <2>1 DEF GatheredAt
  <2> QED
    BY <2>2
<1>3. ASSUME NEW j \in Nat, j \in T PROVE j + 1 \in T
  <2> SUFFICES ASSUME j + 1 <= k PROVE f[j + 1] = g[j + 1]
    OBVIOUS
  <2>1. f[j] = g[j]
    BY <1>3
  <2>2. j + 1 \in 0 .. n /\ j + 1 \in 0 .. m /\ j + 1 \in 1 .. k /\ j + 1 # 0 /\ (j + 1) - 1 = j
    OBVIOUS
  <2>3. /\ f[j + 1] = GatheredAt(f, lg, v, ns, j + 1)
        /\ g[j + 1] = GatheredAt(g, lh, v, ms, j + 1)
    BY <1>1, <2>2
  <2>4. /\ f[j + 1] = IF j + 1 \in ns THEN f[j] \o lg[j + 1].captured[v] ELSE f[j]
        /\ g[j + 1] = IF j + 1 \in ms THEN g[j] \o lh[j + 1].captured[v] ELSE g[j]
    BY <2>2, <2>3 DEF GatheredAt
  <2>5. /\ j + 1 \in ns <=> j + 1 \in ms
        /\ j + 1 \in ns => lg[j + 1].captured[v] = lh[j + 1].captured[v]
    BY <2>2
  <2> QED
    BY <2>1, <2>4, <2>5, Zenon
<1> HIDE DEF T
<1>4. k \in T
  BY <1>2, <1>3, InductionLemma
<1> QED
  BY <1>4 DEF T

(* The texts of v that the entries ns of a log captured, up to n. *)
Gathered(lg, v, ns, n) == (CHOOSE all : Gathers(all, lg, v, ns, n))[n]

(* Whichever it is, it gathers the same. *)
LEMMA GatheredIs ==
    ASSUME NEW f, NEW lg, NEW v, NEW ns, NEW n \in Nat, Gathers(f, lg, v, ns, n)
    PROVE  Gathered(lg, v, ns, n) = f[n]
<1> DEFINE g == CHOOSE all : Gathers(all, lg, v, ns, n)
<1>1. Gathers(g, lg, v, ns, n)
  BY Zenon
<1> HIDE DEF g
<1>2. n \in 0 .. n
  OBVIOUS
<1>3. g[n] = f[n]
  BY <1>1, <1>2, GathersAgree
<1> QED
  BY <1>3 DEF Gathered, g

(* What is gathered depends on the entries gathered up to there. *)
LEMMA GatheredAgrees ==
    ASSUME NEW lg, NEW lh, NEW v, NEW ns, NEW ms, NEW n \in Nat,
           \A i \in 1 .. n : /\ i \in ns <=> i \in ms
                             /\ i \in ns => lg[i].captured[v] = lh[i].captured[v]
    PROVE  Gathered(lg, v, ns, n) = Gathered(lh, v, ms, n)
<1>1. PICK f : Gathers(f, lg, v, ns, n)
  BY GatherExists
<1>2. PICK g : Gathers(g, lh, v, ms, n)
  BY GatherExists
<1>3. n \in 0 .. n /\ n <= n
  OBVIOUS
<1>4. f[n] = g[n]
  BY <1>1, <1>2, <1>3, GathersAgree
<1> QED
  BY <1>1, <1>2, <1>4, GatheredIs

(* One entry more. *)
LEMMA GatheredNext ==
    ASSUME NEW lg, NEW v, NEW ns, NEW n \in Nat
    PROVE  /\ Gathered(lg, v, ns, 0) = <<>>
           /\ Gathered(lg, v, ns, n + 1) =
                IF n + 1 \in ns THEN Gathered(lg, v, ns, n) \o lg[n + 1].captured[v]
                ELSE Gathered(lg, v, ns, n)
<1>1. PICK f : Gathers(f, lg, v, ns, n + 1)
  <2>1. n + 1 \in Nat
    OBVIOUS
  <2> QED
    BY <2>1, GatherExists
<1>2. PICK g : Gathers(g, lg, v, ns, n)
  BY GatherExists
<1>3. PICK h : Gathers(h, lg, v, ns, 0)
  BY GatherExists
<1>4. f[n] = g[n]
  <2>1. n + 1 \in Nat /\ n \in 0 .. n + 1 /\ n <= n
    OBVIOUS
  <2> QED
    BY <1>1, <1>2, <2>1, GathersAgree
<1>5. f[n + 1] = IF n + 1 \in ns THEN f[n] \o lg[n + 1].captured[v] ELSE f[n]
  <2>1. n + 1 \in 0 .. n + 1 /\ n + 1 \in Nat /\ n + 1 # 0 /\ (n + 1) - 1 = n
    OBVIOUS
  <2>2. f[n + 1] = GatheredAt(f, lg, v, ns, n + 1)
    BY <1>1, <2>1, GathersPointwise
  <2> QED
    BY <2>1, <2>2 DEF GatheredAt
<1>6. h[0] = <<>>
  <2>1. h[0] = GatheredAt(h, lg, v, ns, 0)
    BY <1>3, GathersPointwise
  <2> QED
    BY <2>1 DEF GatheredAt
<1>7. /\ Gathered(lg, v, ns, 0) = h[0]
      /\ Gathered(lg, v, ns, n) = g[n]
      /\ Gathered(lg, v, ns, n + 1) = f[n + 1]
  <2>1. n + 1 \in Nat
    OBVIOUS
  <2> QED
    BY <1>1, <1>2, <1>3, <2>1, GatheredIs
<1> QED
  BY <1>4, <1>5, <1>6, <1>7

(* Texts that are gathered are a sequence of texts. *)
LEMMA GatheredType ==
    ASSUME NEW lg, NEW v, NEW ns, NEW n \in Nat,
           \A i \in 1 .. n : i \in ns => lg[i].captured[v] \in Seq(Texts)
    PROVE  /\ Gathered(lg, v, ns, n) \in Seq(Texts)
           /\ (\A i \in 1 .. n : i \notin ns) => Gathered(lg, v, ns, n) = <<>>
<1> DEFINE T == { j \in Nat : j <= n =>
                    /\ Gathered(lg, v, ns, j) \in Seq(Texts)
                    /\ (\A i \in 1 .. n : i \notin ns) => Gathered(lg, v, ns, j) = <<>> }
<1>1. 0 \in T
  <2>1. Gathered(lg, v, ns, 0) = <<>>
    BY GatheredNext
  <2>2. <<>> \in Seq(Texts)
    OBVIOUS
  <2> QED
    BY <2>1, <2>2
<1>2. ASSUME NEW j \in Nat, j \in T PROVE j + 1 \in T
  <2> SUFFICES ASSUME j + 1 <= n
               PROVE  /\ Gathered(lg, v, ns, j + 1) \in Seq(Texts)
                      /\ (\A i \in 1 .. n : i \notin ns) => Gathered(lg, v, ns, j + 1) = <<>>
    OBVIOUS
  <2>1. /\ Gathered(lg, v, ns, j) \in Seq(Texts)
        /\ (\A i \in 1 .. n : i \notin ns) => Gathered(lg, v, ns, j) = <<>>
    BY <1>2
  <2>2. Gathered(lg, v, ns, j + 1) =
            IF j + 1 \in ns THEN Gathered(lg, v, ns, j) \o lg[j + 1].captured[v]
            ELSE Gathered(lg, v, ns, j)
    BY GatheredNext
  <2>3. j + 1 \in 1 .. n
    OBVIOUS
  <2>4. CASE j + 1 \in ns
    <3>1. lg[j + 1].captured[v] \in Seq(Texts)
      BY <2>3, <2>4
    <3>2. \A s, t \in Seq(Texts) : s \o t \in Seq(Texts)
      OBVIOUS
    <3> QED
      BY <2>1, <2>2, <2>3, <2>4, <3>1, <3>2, Zenon
  <2>5. CASE j + 1 \notin ns
    BY <2>1, <2>2, <2>5, Zenon
  <2> QED
    BY <2>4, <2>5
<1> HIDE DEF T
<1>3. n \in T
  BY <1>1, <1>2, InductionLemma
<1> QED
  BY <1>3 DEF T
-----------------------------------------------------------------------------
(* What the property says of the log, said of any log. *)
Entry == [captured : Partial, action : RecordAction, pushed : BOOLEAN]
ClearsIn(lg, v, n) == lg[n].action = "Clearall"
                      \/ (v \notin Filldown /\ lg[n].action \in {"Record", "Clear"})
Survives(lg, v, m, k) == ~ (ClearsIn(lg, v, k) \/ (m = 1 /\ lg[k].action = "Record"))
SinceIn(lg, v, n) ==
    { m \in 1 .. n : v \in DOMAIN lg[m].captured /\ \A k \in m .. n - 1 : Survives(lg, v, m, k) }
Nothing == <<"">>
Value(lg, v, ns, n) ==
    IF v \in List THEN Gathered(lg, v, ns, n)
    ELSE IF ns # {} THEN lg[Latest(ns)].captured[v] ELSE Nothing
(* The entries that a record holds the captures of, and the copy of it. *)
Live(lg, v) == { m \in SinceIn(lg, v, Len(lg)) : Survives(lg, v, m, Len(lg)) }
Held(lg, v) == { m \in 2 .. Len(lg) : /\ v \in DOMAIN lg[m].captured
                                      /\ \A k \in m .. Len(lg) : lg[k].action # "Clearall" }

(* What the property says of the log is this of any log. *)
LEMMA CollectedIs ==
    \A v : \A n \in Nat : Collected(v, n) = Value(log, v, Since(v, n), n)
<1> TAKE v
<1> TAKE n \in Nat
<1>1. PICK all : /\ Gathers(all, log, v, Since(v, n), n)
                 /\ Collected(v, n) = IF v \in List THEN all[n]
                    ELSE IF Since(v, n) # {} THEN log[Latest(Since(v, n))].captured[v] ELSE <<"">>
  BY CollectedUnfolds
<1>2. Gathered(log, v, Since(v, n), n) = all[n]
  BY <1>1, GatheredIs
<1> QED
  BY <1>1, <1>2 DEF Value, Nothing

(* The same for the entries whose captures were not cleared. *)
LEMMA SinceIs == \A v, n : Since(v, n) = SinceIn(log, v, n)
BY DEF Since, SinceIn, Clears, ClearsIn, Survives

(* The greatest of finitely many entries. *)
LEMMA LatestFacts ==
    ASSUME NEW n \in Nat, NEW ns, ns \subseteq 1 .. n, ns # {}
    PROVE  Latest(ns) \in ns /\ \A k \in ns : k <= Latest(ns)
<1> DEFINE T == { n - k : k \in ns }
<1>1. T \subseteq Nat /\ T # {}
  OBVIOUS
<1>2. PICK t \in T : \A u \in T : t <= u
  BY <1>1, LeastLemma
<1>3. PICK m \in ns : t = n - m
  BY <1>2
<1>4. \A k \in ns : k <= m
  <2> TAKE k \in ns
  <2>1. t <= n - k
    BY <1>2
  <2> QED
    BY <1>3, <2>1
<1>5. \E m_1 \in ns : \A k \in ns : k <= m_1
  BY <1>4
<1> QED
  BY <1>5, Zenon DEF Latest
(* The least of them. *)
LEMMA FirstFacts ==
    ASSUME NEW n \in Nat, NEW ns, ns \subseteq 1 .. n, ns # {}
    PROVE  First(ns) \in ns /\ \A k \in ns : First(ns) <= k
<1>1. ns \subseteq Nat
  OBVIOUS
<1>2. \E m \in ns : \A k \in ns : m <= k
  BY <1>1, LeastLemma
<1> QED
  BY <1>2, Zenon DEF First
-----------------------------------------------------------------------------
(* A history: it begins with the presets, and only Record pushes. *)
History(lg) ==
    /\ lg \in Seq(Entry) /\ Len(lg) \in Nat \ {0}
    /\ lg[1].action = "NoRecord"
    /\ \A n \in 1 .. Len(lg) : lg[n].pushed => lg[n].action = "Record"

(* What the entries of a history are. *)
LEMMA EntryTypes ==
    ASSUME NEW lg, History(lg), NEW n \in 1 .. Len(lg)
    PROVE  /\ lg[n] \in Entry
           /\ lg[n].captured \in Partial /\ lg[n].action \in RecordAction /\ lg[n].pushed \in BOOLEAN
           /\ \A v \in DOMAIN lg[n].captured : lg[n].captured[v] \in Seq(Texts)
<1>1. lg[n] \in Entry
  BY DEF History
<1>2. lg[n].captured \in Partial /\ lg[n].action \in RecordAction /\ lg[n].pushed \in BOOLEAN
  BY <1>1 DEF Entry
<1> QED
  BY <1>1, <1>2, PartialElim

(* What was collected once stays: later entries do not matter. *)
LEMMA SinceAgrees ==
    ASSUME NEW lg, NEW lh, NEW v, NEW n \in Nat, \A i \in 1 .. n : lh[i] = lg[i]
    PROVE  SinceIn(lh, v, n) = SinceIn(lg, v, n) /\ SinceIn(lg, v, n) \subseteq 1 .. n
<1>1. ASSUME NEW m \in 1 .. n
      PROVE  m \in SinceIn(lh, v, n) <=> m \in SinceIn(lg, v, n)
  <2>1. \A k \in m .. n - 1 : lh[k] = lg[k]
    OBVIOUS
  <2>2. \A k \in m .. n - 1 : Survives(lh, v, m, k) <=> Survives(lg, v, m, k)
    BY <2>1 DEF Survives, ClearsIn
  <2> QED
    BY <2>2 DEF SinceIn
<1> QED
  BY <1>1 DEF SinceIn

(* Nor do they matter for the value that entries give. *)
LEMMA ValueAgrees ==
    ASSUME NEW lg, NEW lh, NEW v, NEW n \in Nat, NEW ns \in SUBSET (1 .. n),
           \A i \in 1 .. n : lh[i] = lg[i]
    PROVE  Value(lh, v, ns, n) = Value(lg, v, ns, n)
<1>1. Gathered(lh, v, ns, n) = Gathered(lg, v, ns, n)
  BY GatheredAgrees
<1>2. ns # {} => lh[Latest(ns)] = lg[Latest(ns)]
  BY LatestFacts
<1> QED
  BY <1>1, <1>2 DEF Value

(* A record that holds of v what the entries ns captured. *)
Tells(rec, lg, v, ns, n) ==
    /\ v \in DOMAIN rec <=> ns # {}
    /\ v \in DOMAIN rec => rec[v] = Value(lg, v, ns, n)

(* Such a record, when what the next entry captured is appended to it. *)
LEMMA AppendedTells ==
    ASSUME NEW lg, NEW v, NEW n \in Nat, NEW ns, ns \subseteq 1 .. n, NEW rec, NEW new,
           Tells(rec, lg, v, ns, n),
           v \in DOMAIN new => /\ lg[n + 1].captured[v] = new[v]
                               /\ new[v] \in Seq(Texts),
           \A i \in ns : lg[i].captured[v] \in Seq(Texts)
    PROVE  Tells(Appended(rec, new), lg, v,
                 IF v \in DOMAIN new THEN ns \cup {n + 1} ELSE ns, n + 1)
<1> DEFINE app == Appended(rec, new)
           ms == ns \cup {n + 1}
<1>1. /\ DOMAIN app = DOMAIN rec \cup DOMAIN new
      /\ v \in DOMAIN app => app[v] = IF v \notin DOMAIN new THEN rec[v]
                                      ELSE IF v \in DOMAIN rec \cap List THEN rec[v] \o new[v]
                                      ELSE new[v]
  BY DEF Appended
<1> HIDE DEF app
<1>2. n + 1 \notin ns /\ ns \subseteq 1 .. n + 1 /\ n + 1 \in Nat
  OBVIOUS
<1>3. CASE v \notin DOMAIN new
  <2>1. Gathered(lg, v, ns, n + 1) = Gathered(lg, v, ns, n)
    BY <1>2, GatheredNext
  <2>2. Value(lg, v, ns, n + 1) = Value(lg, v, ns, n)
    BY <2>1 DEF Value
  <2> QED
    BY <1>1, <1>3, <2>2 DEF Tells, app
<1>4. CASE v \in DOMAIN new
  <2>1. Gathered(lg, v, ms, n + 1) = Gathered(lg, v, ms, n) \o new[v]
    <3>1. n + 1 \in ms
      OBVIOUS
    <3> HIDE DEF ms
    <3>2. Gathered(lg, v, ms, n + 1) = Gathered(lg, v, ms, n) \o lg[n + 1].captured[v]
      <4>1. n \in Nat
        OBVIOUS
      <4>2. Gathered(lg, v, ms, n + 1) = IF n + 1 \in ms THEN Gathered(lg, v, ms, n) \o lg[n + 1].captured[v]
                                         ELSE Gathered(lg, v, ms, n)
        BY ONLY <4>1, GatheredNext
      <4> QED
        BY ONLY <3>1, <4>2
    <3> QED
      BY <1>4, <3>2
  <2>2. Gathered(lg, v, ms, n) = Gathered(lg, v, ns, n)
    <3>1. \A i \in 1 .. n : i \in ms <=> i \in ns
      OBVIOUS
    <3> HIDE DEF ms
    <3> QED
      BY <3>1, GatheredAgrees
  <2>3. ns = {} => Gathered(lg, v, ns, n) = <<>>
    BY GatheredType
  <2>4. Latest(ms) = n + 1
    <3>1. ms \subseteq 1 .. n + 1 /\ ms # {} /\ n + 1 \in ms
      BY <1>2
    <3>2. Latest(ms) \in ms /\ \A k \in ms : k <= Latest(ms)
      BY ONLY <1>2, <3>1, LatestFacts
    <3>3. n + 1 <= Latest(ms) /\ Latest(ms) \in 1 .. n + 1
      BY <3>1, <3>2, Zenon
    <3> HIDE DEF ms
    <3> QED
      BY <3>3
  <2>5. new[v] \in Seq(Texts)
    BY <1>4
  <2>6. app[v] = Value(lg, v, ms, n + 1)
    <3>1. CASE v \notin List
      BY <1>1, <1>4, <2>4, <3>1 DEF Value
    <3>2. CASE v \in List /\ v \in DOMAIN rec
      BY <1>1, <1>4, <2>1, <2>2, <3>2 DEF Value, Tells
    <3>3. CASE v \in List /\ v \notin DOMAIN rec
      <4>1. ns = {}
        BY <3>3 DEF Tells
      <4>2. Gathered(lg, v, ms, n + 1) = <<>> \o new[v]
        BY <2>1, <2>2, <2>3, <4>1
      <4>3. <<>> \o new[v] = new[v]
        BY <2>5
      <4> QED
        BY <1>1, <1>4, <3>3, <4>2, <4>3 DEF Value
    <3> QED
      BY <3>1, <3>2, <3>3
  <2> QED
    BY <1>1, <1>4, <2>6 DEF Tells, app
<1> QED
  BY <1>3, <1>4
(* The entries that the record holds when one more has been appended, and  *)
(* those that its copy does, before the action of the new one.             *)
HeldBefore(lg, v) == { m \in 2 .. Len(lg) : /\ v \in DOMAIN lg[m].captured
                                            /\ \A k \in m .. Len(lg) - 1 : lg[k].action # "Clearall" }

(* A set of positions of which the last one may be one. *)
LEMMA OneMore ==
    ASSUME NEW n \in Nat, NEW S, NEW T, S \subseteq 1 .. n + 1, T \subseteq 1 .. n,
           \A m \in 1 .. n : m \in S <=> m \in T
    PROVE  S = IF n + 1 \in S THEN T \cup {n + 1} ELSE T
<1>1. \A m \in 1 .. n + 1 : m \in 1 .. n \/ m = n + 1
  OBVIOUS
<1>2. n + 1 \notin 1 .. n
  OBVIOUS
<1>3. \A m \in S : m \in T \/ m = n + 1
  BY <1>1
<1>4. T \subseteq S
  OBVIOUS
<1>5. CASE n + 1 \in S
  BY <1>3, <1>4, <1>5
<1>6. CASE n + 1 \notin S
  <2>1. \A m \in S : m \in T
    BY <1>3, <1>6
  <2> QED
    BY <1>4, <1>6, <2>1
<1> QED
  BY <1>5, <1>6

(* When an entry is added, it is one of those if it captured the value. *)
LEMMA LiveNext ==
    ASSUME NEW lg, NEW lh, NEW v, History(lg), Len(lh) = Len(lg) + 1,
           \A i \in 1 .. Len(lg) : lh[i] = lg[i]
    PROVE  /\ SinceIn(lh, v, Len(lh)) =
                IF v \in DOMAIN lh[Len(lh)].captured THEN Live(lg, v) \cup {Len(lh)} ELSE Live(lg, v)
           /\ HeldBefore(lh, v) =
                IF v \in DOMAIN lh[Len(lh)].captured THEN Held(lg, v) \cup {Len(lh)} ELSE Held(lg, v)
           /\ Live(lg, v) \subseteq 1 .. Len(lg) /\ Held(lg, v) \subseteq 1 .. Len(lg)
<1> DEFINE n == Len(lg)
<1>1. n \in Nat /\ n >= 1 /\ Len(lh) = n + 1
  BY DEF History
<1> HIDE DEF n
<1>2. ASSUME NEW m \in 1 .. n
      PROVE  m \in SinceIn(lh, v, n + 1) <=> m \in Live(lg, v)
  <2>1. \A k \in m .. n : lh[k] = lg[k]
    BY <1>1 DEF n
  <2>2. \A k \in m .. n : Survives(lh, v, m, k) <=> Survives(lg, v, m, k)
    BY <2>1 DEF Survives, ClearsIn
  <2>3. m \in SinceIn(lh, v, n + 1) <=> v \in DOMAIN lh[m].captured /\ \A k \in m .. n : Survives(lh, v, m, k)
    BY <1>1 DEF SinceIn
  <2>4. m \in Live(lg, v) <=> v \in DOMAIN lg[m].captured /\ (\A k \in m .. n - 1 : Survives(lg, v, m, k))
                              /\ Survives(lg, v, m, n)
    BY <1>1 DEF SinceIn, Live, n
  <2>5. \A k \in m .. n : k \in m .. n - 1 \/ k = n
    BY <1>1
  <2>6. n \in m .. n /\ \A k \in m .. n - 1 : k \in m .. n
    BY <1>1
  <2>7. lh[m] = lg[m]
    BY <1>1 DEF n
  <2> QED
    BY <2>2, <2>3, <2>4, <2>5, <2>6, <2>7
<1>3. n + 1 \in SinceIn(lh, v, n + 1) <=> v \in DOMAIN lh[n + 1].captured
  BY <1>1 DEF SinceIn
<1>4. SinceIn(lh, v, n + 1) \subseteq 1 .. n + 1 /\ Live(lg, v) \subseteq 1 .. n
  BY DEF SinceIn, Live, n
<1>5. SinceIn(lh, v, n + 1) =
         IF v \in DOMAIN lh[n + 1].captured THEN Live(lg, v) \cup {n + 1} ELSE Live(lg, v)
  <2> DEFINE S == SinceIn(lh, v, n + 1)
             L == Live(lg, v)
  <2>1. S = IF n + 1 \in S THEN L \cup {n + 1} ELSE L
    <3>1. n \in Nat /\ S \subseteq 1 .. n + 1 /\ L \subseteq 1 .. n
      BY <1>1, <1>4
    <3>2. \A m \in 1 .. n : m \in S <=> m \in L
      BY <1>2
    <3> HIDE DEF S, L
    <3> QED
      BY ONLY <3>1, <3>2, OneMore
  <2> QED
    BY <1>3, <2>1, Zenon
<1>6. ASSUME NEW m \in 1 .. n
      PROVE  m \in HeldBefore(lh, v) <=> m \in Held(lg, v)
  <2>1. \A k \in m .. n : lh[k] = lg[k]
    BY <1>1 DEF n
  <2>2. m \in HeldBefore(lh, v) <=> m \in 2 .. n + 1 /\ v \in DOMAIN lh[m].captured
                                    /\ \A k \in m .. n : lh[k].action # "Clearall"
    BY <1>1 DEF HeldBefore
  <2>3. m \in Held(lg, v) <=> m \in 2 .. n /\ v \in DOMAIN lg[m].captured
                              /\ \A k \in m .. n : lg[k].action # "Clearall"
    BY <1>1 DEF Held, n
  <2>4. lh[m] = lg[m]
    BY <1>1 DEF n
  <2> QED
    BY <1>1, <2>1, <2>2, <2>3, <2>4
<1>7. n + 1 \in HeldBefore(lh, v) <=> v \in DOMAIN lh[n + 1].captured
  BY <1>1 DEF HeldBefore
<1>8. HeldBefore(lh, v) \subseteq 1 .. n + 1 /\ Held(lg, v) \subseteq 1 .. n
  BY <1>1 DEF HeldBefore, Held, n
<1>9. HeldBefore(lh, v) =
         IF v \in DOMAIN lh[n + 1].captured THEN Held(lg, v) \cup {n + 1} ELSE Held(lg, v)
  BY <1>1, <1>6, <1>7, <1>8, OneMore
<1> QED
  BY <1>1, <1>4, <1>5, <1>8, <1>9 DEF n

(* What the action of the last entry leaves in the record and in the copy. *)
LEMMA ResetTells ==
    ASSUME NEW lg, History(lg), Len(lg) > 1, NEW v, NEW curr, NEW fill,
           Tells(curr, lg, v, SinceIn(lg, v, Len(lg)), Len(lg)),
           Tells(fill, lg, v, IF v \in Filldown THEN HeldBefore(lg, v) ELSE {}, Len(lg))
    PROVE  LET action == lg[Len(lg)].action
           IN  /\ Tells(CurrRecord(action, curr, fill), lg, v, Live(lg, v), Len(lg))
               /\ Tells(IF action = "Clearall" THEN <<>> ELSE fill, lg, v,
                        IF v \in Filldown THEN Held(lg, v) ELSE {}, Len(lg))
<1> DEFINE n == Len(lg)
           action == lg[n].action
<1>1. n \in Nat /\ n > 1 /\ action \in RecordAction
  BY EntryTypes DEF History
<1> HIDE DEF n
<1>2. /\ Live(lg, v) = { m \in SinceIn(lg, v, n) : Survives(lg, v, m, n) }
      /\ SinceIn(lg, v, n) \subseteq 1 .. n
  BY DEF Live, SinceIn, n
<1>3. Held(lg, v) = { m \in HeldBefore(lg, v) : action # "Clearall" }
  <2>1. ASSUME NEW m \in 2 .. n
        PROVE  (\A k \in m .. n : lg[k].action # "Clearall")
                 <=> (\A k \in m .. n - 1 : lg[k].action # "Clearall") /\ action # "Clearall"
    <3>1. n \in m .. n /\ (\A k \in m .. n - 1 : k \in m .. n) /\ (\A k \in m .. n : k = n \/ k \in m .. n - 1)
      BY <1>1
    <3> QED
      BY <3>1
  <2> QED
    BY <2>1 DEF Held, HeldBefore, n
<1>4. Tells(<<>>, lg, v, {}, n)
  BY DEF Tells
<1>5. /\ Tells(curr, lg, v, SinceIn(lg, v, n), n)
      /\ Tells(fill, lg, v, IF v \in Filldown THEN HeldBefore(lg, v) ELSE {}, n)
  BY DEF n
<1>6. CASE action = "NoRecord"
  <2>1. Live(lg, v) = SinceIn(lg, v, n)
    BY <1>2, <1>6 DEF Survives, ClearsIn
  <2>2. Held(lg, v) = HeldBefore(lg, v)
    BY <1>3, <1>6
  <2> QED
    BY <1>5, <1>6, <2>1, <2>2 DEF CurrRecord, n
<1>7. CASE action = "Clearall"
  <2>1. Live(lg, v) = {} /\ Held(lg, v) = {}
    BY <1>2, <1>3, <1>7 DEF Survives, ClearsIn
  <2> QED
    BY <1>4, <1>7, <2>1 DEF CurrRecord, n
<1>8. CASE action = "Clear"
  <2> DEFINE some == OnlyOf(Filldown, curr)
  <2>1. DOMAIN some = DOMAIN curr \cap Filldown /\ \A u \in DOMAIN some : some[u] = curr[u]
    BY DEF OnlyOf
  <2>2. Live(lg, v) = IF v \in Filldown THEN SinceIn(lg, v, n) ELSE {}
    BY <1>2, <1>8 DEF Survives, ClearsIn
  <2>3. Held(lg, v) = HeldBefore(lg, v)
    BY <1>3, <1>8
  <2>4. Tells(some, lg, v, Live(lg, v), n)
    BY <1>5, <2>1, <2>2 DEF Tells
  <2>5. CurrRecord(action, curr, fill) = some
    BY <1>8 DEF CurrRecord
  <2> QED
    BY <1>5, <1>8, <2>3, <2>4, <2>5 DEF n
<1>9. CASE action = "Record"
  <2>1. Live(lg, v) = IF v \in Filldown THEN SinceIn(lg, v, n) \ {1} ELSE {}
    BY <1>2, <1>9 DEF Survives, ClearsIn
  <2>2. Held(lg, v) = HeldBefore(lg, v)
    BY <1>3, <1>9
  <2>3. v \in Filldown => SinceIn(lg, v, n) \ {1} = HeldBefore(lg, v)
    <3>1. ASSUME v \in Filldown, NEW m \in 2 .. n
          PROVE  \A k \in m .. n - 1 : Survives(lg, v, m, k) <=> lg[k].action # "Clearall"
      BY <3>1 DEF Survives, ClearsIn
    <3>2. \A m \in 2 .. n : m \in 1 .. n /\ m # 1
      OBVIOUS
    <3>3. \A m \in 1 .. n : m # 1 => m \in 2 .. n
      BY <1>1
    <3> QED
      BY <3>1, <3>2, <3>3 DEF SinceIn, HeldBefore, n
  <2>4. CurrRecord(action, curr, fill) = fill
    BY <1>9 DEF CurrRecord
  <2> QED
    BY <1>5, <1>9, <2>1, <2>2, <2>3, <2>4 DEF n
<1> QED
  BY <1>1, <1>6, <1>7, <1>8, <1>9 DEF RecordAction, n
-----------------------------------------------------------------------------
(* The rows. *)
CollectedIn(lg, v, n) == Value(lg, v, SinceIn(lg, v, n), n)
LaterIn(lg, v, n) ==
    { m \in n + 1 .. Len(lg) : v \in DOMAIN lg[m].captured /\ lg[m].captured[v] # Nothing }
ToldIn(lg, v, n) ==
    IF v \in Fillup /\ CollectedIn(lg, v, n) = Nothing /\ LaterIn(lg, v, n) # {}
    THEN lg[First(LaterIn(lg, v, n))].captured[v] ELSE CollectedIn(lg, v, n)
PushedIn(lg, n) == { m \in 1 .. n : lg[m].pushed }
RowOf(lg, n) == 1 + Cardinality(PushedIn(lg, n - 1))

(* Rows are numbered in the order of the entries that pushed them. *)
LEMMA RowOrder ==
    ASSUME NEW lg, NEW n \in Nat, NEW k \in Nat, 1 <= n, n <= k, lg[n].pushed
    PROVE  /\ IsFiniteSet(PushedIn(lg, k)) /\ Cardinality(PushedIn(lg, k)) \in Nat
           /\ RowOf(lg, n) \in Nat \ {0}
           /\ RowOf(lg, n) <= Cardinality(PushedIn(lg, k))
<1>1. ASSUME NEW m \in Nat PROVE IsFiniteSet(PushedIn(lg, m)) /\ Cardinality(PushedIn(lg, m)) \in Nat
  <2>1. IsFiniteSet(1 .. m)
    BY FS_Interval
  <2> QED
    BY <2>1, FS_Subset, FS_CardinalityType DEF PushedIn
<1> DEFINE A == PushedIn(lg, n - 1)
           B == PushedIn(lg, k)
<1>2. n - 1 \in Nat
  OBVIOUS
<1>3. n \notin A /\ A \cup {n} \subseteq B
  BY DEF PushedIn
<1>4. IsFiniteSet(A) /\ Cardinality(A) \in Nat /\ IsFiniteSet(B) /\ Cardinality(B) \in Nat
  BY <1>1, <1>2
<1> HIDE DEF A, B
<1>5. Cardinality(A \cup {n}) = Cardinality(A) + 1
  BY <1>3, <1>4, FS_AddElement
<1>6. Cardinality(A \cup {n}) <= Cardinality(B)
  BY <1>3, <1>4, FS_Subset
<1> QED
  BY <1>4, <1>5, <1>6 DEF A, B, RowOf

(* One entry more may be one row more. *)
LEMMA PushedNext ==
    ASSUME NEW lg, NEW lh, NEW n \in Nat, \A i \in 1 .. n : lh[i] = lg[i],
           lh[n + 1].pushed \in BOOLEAN
    PROVE  /\ Cardinality(PushedIn(lg, n)) \in Nat
           /\ Cardinality(PushedIn(lh, n + 1)) =
                IF lh[n + 1].pushed THEN Cardinality(PushedIn(lg, n)) + 1
                ELSE Cardinality(PushedIn(lg, n))
           /\ \A k \in 1 .. n + 1 : RowOf(lh, k) = RowOf(lg, k)
           /\ RowOf(lh, n + 1) = Cardinality(PushedIn(lg, n)) + 1
<1> DEFINE A == PushedIn(lg, n)
<1>1. IsFiniteSet(A) /\ Cardinality(A) \in Nat
  <2>1. IsFiniteSet(1 .. n)
    BY FS_Interval
  <2> QED
    BY <2>1, FS_Subset, FS_CardinalityType DEF PushedIn
<1>2. n + 1 \notin A
  BY DEF PushedIn
<1>3. PushedIn(lh, n + 1) = IF lh[n + 1].pushed THEN A \cup {n + 1} ELSE A
  <2>1. \A m \in 1 .. n + 1 : m \in 1 .. n \/ m = n + 1
    OBVIOUS
  <2>2. \A m \in 1 .. n : m \in 1 .. n + 1 /\ (lh[m].pushed <=> lg[m].pushed)
    OBVIOUS
  <2>3. n + 1 \in 1 .. n + 1
    OBVIOUS
  <2> QED
    BY <2>1, <2>2, <2>3 DEF PushedIn
<1>4. ASSUME NEW k \in 1 .. n + 1 PROVE PushedIn(lh, k - 1) = PushedIn(lg, k - 1)
  <2>1. \A m \in 1 .. k - 1 : lh[m] = lg[m]
    OBVIOUS
  <2> QED
    BY <2>1 DEF PushedIn
<1>5. RowOf(lh, n + 1) = RowOf(lg, n + 1) /\ n + 1 - 1 = n
  BY <1>4 DEF RowOf
<1> HIDE DEF A
<1>6. Cardinality(A \cup {n + 1}) = Cardinality(A) + 1
  BY <1>1, <1>2, FS_AddElement
<1>7. RowOf(lg, n + 1) = Cardinality(A) + 1
  BY <1>1, <1>5 DEF RowOf, A
<1> QED
  BY <1>1, <1>3, <1>4, <1>5, <1>6, <1>7 DEF A, RowOf

(* A row that lacks a value, of which nothing came later, is followed by   *)
(* rows that lack it as well.                                              *)
LEMMA LacksOnward ==
    ASSUME NEW lg, History(lg), NEW v, v \notin List,
           NEW n \in Nat, NEW k \in Nat, 1 <= n, n <= k, k <= Len(lg), lg[n].action = "Record",
           CollectedIn(lg, v, n) = Nothing, LaterIn(lg, v, n) = {}
    PROVE  CollectedIn(lg, v, k) = Nothing /\ LaterIn(lg, v, k) = {}
<1>1. Len(lg) \in Nat
  BY DEF History
<1>2. LaterIn(lg, v, k) = {}
  <2>1. \A m \in k + 1 .. Len(lg) : m \in n + 1 .. Len(lg)
    BY <1>1
  <2> QED
    BY <2>1 DEF LaterIn
<1> DEFINE now == SinceIn(lg, v, k)
           then == SinceIn(lg, v, n)
<1>3. now \subseteq 1 .. k /\ then \subseteq 1 .. n
  BY DEF SinceIn
<1>4. CASE n = k
  BY <1>2, <1>4
<1>6. CASE now = {}
  <2>1. CollectedIn(lg, v, k) = Nothing
    BY <1>6 DEF CollectedIn, Value
  <2> QED
    BY <1>2, <2>1
<1>5. CASE now # {} /\ n < k
  <2>1. PICK m \in now : m = Latest(now) /\ \A j \in now : j <= m
    BY <1>3, <1>5, LatestFacts
  <2>2. m \in 1 .. k /\ v \in DOMAIN lg[m].captured /\ \A j \in m .. k - 1 : Survives(lg, v, m, j)
    BY <2>1 DEF SinceIn
  <2>3. CollectedIn(lg, v, k) = lg[m].captured[v]
    BY <1>5, <2>1 DEF CollectedIn, Value
  <2>4. CASE m > n
    <3>1. m \in n + 1 .. Len(lg)
      BY <1>1, <2>2, <2>4
    <3> QED
      BY <1>2, <2>2, <2>3, <3>1 DEF LaterIn
  <2>5. CASE m <= n
    <3>1. n \in m .. k - 1
      BY <1>5, <2>2, <2>5
    <3>2. v \in Filldown /\ m # 1
      BY <1>1, <2>2, <3>1 DEF Survives, ClearsIn
    <3>3. m \in then
      <4>1. \A j \in m .. n - 1 : j \in m .. k - 1
        BY <1>5, <2>2
      <4> QED
        BY <2>2, <2>5, <4>1 DEF SinceIn
    <3>4. PICK l \in then : l = Latest(then) /\ \A j \in then : j <= l
      BY <1>3, <3>3, LatestFacts
    <3>5. l \in 1 .. n /\ m <= l /\ v \in DOMAIN lg[l].captured
      BY <3>3, <3>4 DEF SinceIn
    <3>6. ASSUME NEW j \in l .. k - 1 PROVE Survives(lg, v, l, j)
      <4>1. j \in m .. k - 1
        BY <2>2, <3>5
      <4>2. l # 1
        BY <2>2, <3>2, <3>5
      <4> QED
        BY <2>2, <4>1, <4>2 DEF Survives
    <3>7. l \in now
      BY <1>5, <3>5, <3>6 DEF SinceIn
    <3>8. l = m
      BY <2>1, <2>2, <3>5, <3>7
    <3>9. CollectedIn(lg, v, n) = lg[l].captured[v]
      BY <3>3, <3>4 DEF CollectedIn, Value
    <3> QED
      BY <1>2, <2>3, <3>8, <3>9
  <2> QED
    BY <2>2, <2>4, <2>5
<1> QED
  BY <1>2, <1>4, <1>5, <1>6

-----------------------------------------------------------------------------
(* The rows of a log: one for every entry that pushed, which tells what    *)
(* that entry had collected.                                               *)
RowsTell(rows, lg) ==
    /\ Len(rows) = Cardinality(PushedIn(lg, Len(lg)))
    /\ \A i \in 1 .. Len(rows) : \E n \in 1 .. Len(lg) : lg[n].pushed /\ RowOf(lg, n) = i
    /\ \A n \in 1 .. Len(lg) : lg[n].pushed =>
          \A v \in Values : rows[RowOf(lg, n)].fields[v] = ToldIn(lg, v, n)
FilledField(rows, new, v, i) ==
    IF /\ v \in Fillup \cap DOMAIN new
       /\ \A j \in i .. Len(rows) : rows[j].fields[v] = Nothing
    THEN new[v] ELSE rows[i].fields[v]

(* What comes later is what came later, and the new entry. *)
LEMMA LaterNext ==
    ASSUME NEW lg, NEW lh, History(lg), Len(lh) = Len(lg) + 1,
           \A i \in 1 .. Len(lg) : lh[i] = lg[i], NEW v, NEW n \in 1 .. Len(lg)
    PROVE  /\ LaterIn(lg, v, n) \subseteq LaterIn(lh, v, n)
           /\ \A m \in LaterIn(lh, v, n) : m \in LaterIn(lg, v, n) \/ m = Len(lh)
           /\ Len(lh) \in LaterIn(lh, v, n) <=>
                 v \in DOMAIN lh[Len(lh)].captured /\ lh[Len(lh)].captured[v] # Nothing
           /\ LaterIn(lg, v, n) \subseteq n + 1 .. Len(lg)
           /\ LaterIn(lh, v, n) \subseteq 1 .. Len(lh)
<1>1. Len(lg) \in Nat
  BY DEF History
<1>2. \A m \in n + 1 .. Len(lg) : m \in n + 1 .. Len(lh) /\ m \in 1 .. Len(lg)
  BY <1>1
<1>3. \A m \in n + 1 .. Len(lh) : m \in n + 1 .. Len(lg) \/ m = Len(lh)
  BY <1>1
<1>4. Len(lh) \in n + 1 .. Len(lh) /\ \A m \in n + 1 .. Len(lh) : m \in 1 .. Len(lh)
  BY <1>1
<1> QED
  BY <1>2, <1>3, <1>4 DEF LaterIn

(* Of two rows, the later one was pushed by the later entry. *)
LEMMA RowsInOrder ==
    ASSUME NEW lg, History(lg), NEW n \in 1 .. Len(lg), NEW k \in 1 .. Len(lg),
           lg[k].pushed, RowOf(lg, n) <= RowOf(lg, k)
    PROVE  n <= k
<1>1. Len(lg) \in Nat
  BY DEF History
<1>2. SUFFICES ASSUME k < n PROVE FALSE
  BY <1>1
<1>3. n - 1 \in Nat /\ k \in Nat /\ 1 <= k /\ k <= n - 1
  BY <1>1, <1>2
<1>4. /\ Cardinality(PushedIn(lg, n - 1)) \in Nat /\ RowOf(lg, k) \in Nat
      /\ RowOf(lg, k) <= Cardinality(PushedIn(lg, n - 1))
  BY <1>3, RowOrder
<1>5. RowOf(lg, n) = 1 + Cardinality(PushedIn(lg, n - 1))
  BY DEF RowOf
<1> QED
  BY <1>4, <1>5

(* Filling up gives a row what is told of it when one entry more is. *)
LEMMA FillTells ==
    ASSUME NEW lg, NEW lh, NEW rows, History(lg), Len(lh) = Len(lg) + 1,
           \A i \in 1 .. Len(lg) : lh[i] = lg[i], RowsTell(rows, lg),
           NEW v \in Values, NEW n \in 1 .. Len(lg), lg[n].pushed,
           v \in Fillup \cap List => v \notin DOMAIN lh[Len(lh)].captured
    PROVE  FilledField(rows, lh[Len(lh)].captured, v, RowOf(lg, n)) = ToldIn(lh, v, n)
<1> DEFINE L == Len(lg)
           new == lh[Len(lh)].captured
           i == RowOf(lg, n)
<1>1. L \in Nat /\ n \in Nat /\ n <= L /\ Len(rows) = Cardinality(PushedIn(lg, L))
  BY DEF History, RowsTell
<1>2. i \in Nat \ {0} /\ i <= Len(rows) /\ Len(rows) \in Nat
  BY <1>1, RowOrder
<1>3. rows[i].fields[v] = ToldIn(lg, v, n)
  BY DEF RowsTell
<1>4. CollectedIn(lh, v, n) = CollectedIn(lg, v, n)
  <2>1. \A m \in 1 .. n : lh[m] = lg[m]
    BY <1>1
  <2>2. n \in Nat
    BY <1>1
  <2>3. SinceIn(lh, v, n) = SinceIn(lg, v, n) /\ SinceIn(lg, v, n) \subseteq 1 .. n
    BY ONLY <2>1, <2>2, SinceAgrees
  <2> QED
    BY ONLY <2>1, <2>2, <2>3, ValueAgrees DEF CollectedIn
<1>5. /\ LaterIn(lg, v, n) \subseteq LaterIn(lh, v, n)
      /\ \A m \in LaterIn(lh, v, n) : m \in LaterIn(lg, v, n) \/ m = Len(lh)
      /\ Len(lh) \in LaterIn(lh, v, n) <=> v \in DOMAIN new /\ new[v] # Nothing
      /\ LaterIn(lg, v, n) \subseteq n + 1 .. Len(lg)
      /\ LaterIn(lh, v, n) \subseteq 1 .. Len(lh)
  BY LaterNext
<1> HIDE DEF new, i, L
<1> DEFINE told == ToldIn(lh, v, n)
           field == FilledField(rows, new, v, i)
<1>6. i \in i .. Len(rows)
  BY <1>2
<1>7. CASE v \notin Fillup \/ CollectedIn(lg, v, n) # Nothing
  <2>1. told = CollectedIn(lg, v, n) /\ rows[i].fields[v] = CollectedIn(lg, v, n)
    BY <1>3, <1>4, <1>7 DEF ToldIn
  <2> QED
    BY <1>6, <1>7, <2>1 DEF FilledField, new, i
<1>8. CASE v \in Fillup /\ CollectedIn(lg, v, n) = Nothing /\ LaterIn(lg, v, n) # {}
  <2> DEFINE old == First(LaterIn(lg, v, n))
             now == First(LaterIn(lh, v, n))
  <2>1. old \in LaterIn(lg, v, n) /\ \A m \in LaterIn(lg, v, n) : old <= m
    <3>1. LaterIn(lg, v, n) \subseteq 1 .. L
      BY <1>1, <1>5 DEF L
    <3> QED
      BY ONLY <1>1, <1>8, <3>1, FirstFacts
  <2>2. now \in LaterIn(lh, v, n) /\ \A m \in LaterIn(lh, v, n) : now <= m
    <3>1. Len(lh) \in Nat /\ LaterIn(lh, v, n) # {}
      BY <1>1, <1>5, <1>8 DEF L
    <3> QED
      BY ONLY <1>5, <3>1, FirstFacts
  <2> HIDE DEF old, now
  <2>3. old \in 1 .. L /\ now <= old
    BY <1>1, <1>5, <2>1, <2>2 DEF L
  <2>4. now \in LaterIn(lg, v, n)
    BY <1>1, <1>5, <2>2, <2>3 DEF L
  <2>5. now = old
    <3>1. old <= now /\ now \in 1 .. L
      BY <1>1, <1>5, <2>1, <2>4 DEF L
    <3> QED
      BY <1>1, <2>3, <3>1
  <2>6. lh[now] = lg[now] /\ lg[now].captured[v] # Nothing
    <3>1. now \in 1 .. Len(lg)
      BY <2>3, <2>5 DEF L
    <3> QED
      BY <2>4, <3>1 DEF LaterIn
  <2>7. told = lh[now].captured[v] /\ rows[i].fields[v] = lg[old].captured[v]
    BY <1>3, <1>4, <1>5, <1>8 DEF ToldIn, old, now
  <2> QED
    BY <1>6, <2>5, <2>6, <2>7 DEF FilledField, new, i
<1>9. CASE v \in Fillup /\ CollectedIn(lg, v, n) = Nothing /\ LaterIn(lg, v, n) = {}
  <2>1. rows[i].fields[v] = Nothing
    BY <1>3, <1>9 DEF ToldIn
  <2>2. CASE v \notin DOMAIN new
    <3>1. LaterIn(lh, v, n) = {}
      BY <1>5, <1>9, <2>2
    <3>2. told = Nothing
      BY <1>4, <1>9, <3>1 DEF ToldIn
    <3> QED
      BY <2>1, <2>2, <3>2 DEF FilledField, new, i
  <2>3. CASE v \in DOMAIN new
    <3>1. v \notin List
      BY <1>9, <2>3 DEF new
    <3>2. ASSUME NEW j \in i .. Len(rows) PROVE rows[j].fields[v] = Nothing
      <4>1. j \in 1 .. Len(rows) /\ i <= j
        BY <1>2
      <4>2. PICK k \in 1 .. Len(lg) : lg[k].pushed /\ RowOf(lg, k) = j
        BY <4>1 DEF RowsTell
      <4>3. n <= k
        BY <4>1, <4>2, RowsInOrder DEF i
      <4>4. k \in Nat /\ 1 <= n /\ k <= Len(lg) /\ lg[n].action = "Record"
        BY <1>1 DEF L, History
      <4>5. CollectedIn(lg, v, k) = Nothing /\ LaterIn(lg, v, k) = {}
        BY ONLY History(lg), <1>1, <1>9, <3>1, <4>3, <4>4, LacksOnward
      <4>6. rows[j].fields[v] = ToldIn(lg, v, k)
        BY <4>2 DEF RowsTell
      <4> QED
        BY <4>5, <4>6 DEF ToldIn
    <3>3. field = new[v]
      BY <1>9, <2>3, <3>2 DEF FilledField
    <3>4. CASE new[v] = Nothing
      <4>1. LaterIn(lh, v, n) = {}
        BY <1>5, <1>9, <3>4
      <4> QED
        BY <1>4, <1>9, <3>3, <3>4, <4>1 DEF ToldIn, new, i
    <3>5. CASE new[v] # Nothing
      <4> DEFINE now == First(LaterIn(lh, v, n))
      <4>1. Len(lh) \in LaterIn(lh, v, n)
        BY <1>5, <2>3, <3>5
      <4>2. now \in LaterIn(lh, v, n)
        <5>1. Len(lh) \in Nat /\ LaterIn(lh, v, n) # {}
          BY <1>1, <4>1 DEF L
        <5> QED
          BY ONLY <1>5, <5>1, FirstFacts
      <4>3. now = Len(lh)
        BY <1>5, <1>9, <4>2
      <4>4. told = new[v]
        BY <1>4, <1>9, <4>1, <4>3 DEF ToldIn, new
      <4> QED
        BY <3>3, <4>4 DEF new, i
    <3> QED
      BY <3>4, <3>5
  <2> QED
    BY <2>2, <2>3
<1> QED
  BY <1>7, <1>8, <1>9

(* FilledUp(), field by field. *)
LEMMA FilledUpFields ==
    ASSUME NEW new, records \in Seq(FullRecord)
    PROVE  \A i \in 1 .. Len(records) : \A v \in Values :
              FilledUp(new)[i].fields[v] = FilledField(records, new, v, i)
<1> DEFINE Lacking(i, v) == \A j \in i .. Len(records) : Lacks(records[j], v)
           fields(i) == [v \in Values |-> IF v \in Fillup \cap DOMAIN new /\ Lacking(i, v)
                                         THEN new[v] ELSE records[i].fields[v]]
           g == FilledUp(new)
<1>1. DOMAIN records = 1 .. Len(records)
  BY LenProperties
<1>2. \A i \in DOMAIN records : g[i] = [records[i] EXCEPT !.fields = fields(i)]
  BY DEF FilledUp
<1>3. TAKE i \in 1 .. Len(records)
<1>4. TAKE v \in Values
<1>5. records[i] \in FullRecord
  BY <1>1
<1>6. fields(i)[v] = IF v \in Fillup \cap DOMAIN new /\ Lacking(i, v)
                     THEN new[v] ELSE records[i].fields[v]
  OBVIOUS
<1>7. Lacking(i, v) <=> \A j \in i .. Len(records) : records[j].fields[v] = Nothing
  BY DEF Lacks, Nothing
<1> HIDE DEF Lacking, fields, g
<1>8. g[i].fields = fields(i)
  <2>1. g[i] = [records[i] EXCEPT !.fields = fields(i)]
    BY <1>1, <1>2
  <2> QED
    BY <1>5, <2>1 DEF FullRecord
<1>9. g[i].fields[v] = FilledField(records, new, v, i)
  BY <1>6, <1>7, <1>8 DEF FilledField
<1> QED
  BY <1>9 DEF g

(* When an entry has captured, the current record is the row that it would *)
(* push, and has what that row needs if it is the one that pushes.         *)
Full(lg, n) == /\ \E v \in Values : SinceIn(lg, v, n) # {}
               /\ \A v \in Required : CollectedIn(lg, v, n) # Empty(v)

(* The row, and whether it is pushed. *)
LEMMA RowTells ==
    ASSUME NEW curr \in Partial, NEW lg, NEW n \in Nat,
           \A v \in Values : Tells(curr, lg, v, SinceIn(lg, v, n), n)
    PROVE  /\ \A v \in Values : Row(curr)[v] = CollectedIn(lg, v, n)
           /\ (DOMAIN curr # {} /\ Complete(curr)) <=> Full(lg, n)
<1>1. ASSUME NEW v \in Values
      PROVE  /\ v \in DOMAIN curr <=> SinceIn(lg, v, n) # {}
             /\ v \in DOMAIN curr => curr[v] = CollectedIn(lg, v, n)
             /\ v \notin DOMAIN curr => CollectedIn(lg, v, n) = Empty(v)
  <2>1. Tells(curr, lg, v, SinceIn(lg, v, n), n)
    OBVIOUS
  <2>2. Empty(v) = IF v \in List THEN <<>> ELSE Nothing
    BY DEF Empty, Nothing
  <2>3. Gathered(lg, v, {}, n) = <<>>
    <3>1. \A i \in 1 .. n : i \notin {}
      OBVIOUS
    <3> QED
      BY <3>1, GatheredType
  <2>4. SinceIn(lg, v, n) = {} => CollectedIn(lg, v, n) = Empty(v)
    BY <2>2, <2>3 DEF CollectedIn, Value
  <2> QED
    BY <2>1, <2>4 DEF Tells, CollectedIn
<1>2. DOMAIN curr \subseteq Values /\ Required \subseteq Values
  BY PartialElim, TemplateAssumption
<1>3. \A v \in Values : Row(curr)[v] = IF v \in DOMAIN curr THEN curr[v] ELSE Empty(v)
  BY DEF Row
<1>4. \A v \in Values : Row(curr)[v] = CollectedIn(lg, v, n)
  BY <1>1, <1>3
<1>5. DOMAIN curr # {} <=> \E v \in Values : SinceIn(lg, v, n) # {}
  BY <1>1, <1>2
<1>6. Complete(curr) <=> \A v \in Required : CollectedIn(lg, v, n) # Empty(v)
  BY <1>1, <1>2 DEF Complete
<1> QED
  BY <1>4, <1>5, <1>6 DEF Full

-----------------------------------------------------------------------------
(* The invariant: the records hold what the entries of the log captured    *)
(* that no later one cleared, and the rows what was told.                  *)
TextOK(lg, rows, curr, fill) ==
    /\ History(lg)
    /\ \A v \in Values :
          /\ Tells(curr, lg, v, Live(lg, v), Len(lg))
          /\ Tells(fill, lg, v, IF v \in Filldown THEN Held(lg, v) ELSE {}, Len(lg))
    /\ RowsTell(rows, lg)
    /\ \A n \in 1 .. Len(lg) : lg[n].action = "Record" => (lg[n].pushed <=> Full(lg, n))
TextInv == TextOK(log, records, curr_record, filldown_record)

(* The rows when an entry is added that pushes, or that does not. *)
LEMMA RowsNext ==
    ASSUME NEW lg, NEW lh, History(lg), Len(lh) = Len(lg) + 1,
           \A i \in 1 .. Len(lg) : lh[i] = lg[i], lh[Len(lh)].pushed \in BOOLEAN,
           RowsTell(records, lg), records \in Seq(FullRecord), NEW rows,
           lh[Len(lh)].captured \in Partial, ~ FillsUpList(lh[Len(lh)].captured),
           Len(rows) = IF lh[Len(lh)].pushed THEN Len(records) + 1 ELSE Len(records),
           \A i \in 1 .. Len(records) : rows[i] = FilledUp(lh[Len(lh)].captured)[i],
           lh[Len(lh)].pushed => \A v \in Values :
              rows[Len(records) + 1].fields[v] = CollectedIn(lh, v, Len(lh))
    PROVE  RowsTell(rows, lh)
<1> DEFINE L == Len(lg)
           new == lh[L + 1].captured
           R == Len(records)
<1>1. L \in Nat /\ Len(lh) = L + 1 /\ R \in Nat
  BY DEF History
<1>2. /\ Cardinality(PushedIn(lg, L)) \in Nat
      /\ Cardinality(PushedIn(lh, L + 1)) =
            IF lh[L + 1].pushed THEN Cardinality(PushedIn(lg, L)) + 1
            ELSE Cardinality(PushedIn(lg, L))
      /\ \A k \in 1 .. L + 1 : RowOf(lh, k) = RowOf(lg, k)
      /\ RowOf(lh, L + 1) = Cardinality(PushedIn(lg, L)) + 1
  <2>1. lh[L + 1].pushed \in BOOLEAN /\ \A i \in 1 .. L : lh[i] = lg[i]
    BY <1>1
  <2> HIDE DEF L
  <2> QED
    BY <1>1, <2>1, PushedNext, Zenon
<1>3. R = Cardinality(PushedIn(lg, L))
  BY DEF RowsTell
<1>4. \A n \in 1 .. L + 1 : n \in 1 .. L \/ n = L + 1
  BY <1>1
<1>5. \A n \in 1 .. L : n \in 1 .. L + 1 /\ lh[n] = lg[n]
  BY <1>1
<1>6. L + 1 \in 1 .. L + 1
  BY <1>1
<1>7. Len(rows) = Cardinality(PushedIn(lh, Len(lh)))
  BY <1>1, <1>2, <1>3
<1>8. ASSUME NEW i \in 1 .. Len(rows)
      PROVE  \E n \in 1 .. Len(lh) : lh[n].pushed /\ RowOf(lh, n) = i
  <2>1. CASE i \in 1 .. R
    <3>1. PICK n \in 1 .. L : lg[n].pushed /\ RowOf(lg, n) = i
      BY <2>1 DEF RowsTell
    <3>2. n \in 1 .. Len(lh) /\ lh[n].pushed /\ RowOf(lh, n) = i
      BY <1>1, <1>2, <1>5, <3>1
    <3> QED
      BY <3>2
  <2>2. CASE i \notin 1 .. R
    <3>1. lh[L + 1].pushed /\ i = R + 1
      BY <1>1, <2>2
    <3>2. RowOf(lh, L + 1) = i
      BY <1>2, <1>3, <3>1
    <3> QED
      BY <1>1, <1>6, <3>1, <3>2
  <2> QED
    BY <2>1, <2>2
<1>9. ASSUME NEW n \in 1 .. Len(lh), lh[n].pushed, NEW v \in Values
      PROVE  rows[RowOf(lh, n)].fields[v] = ToldIn(lh, v, n)
  <2>1. CASE n \in 1 .. L
    <3> DEFINE i == RowOf(lg, n)
    <3>1. lg[n].pushed /\ RowOf(lh, n) = i
      BY <1>2, <1>5, <1>9, <2>1
    <3>2. i \in 1 .. R
      <4>1. n \in Nat /\ 1 <= n /\ n <= L
        BY <1>1, <2>1
      <4>2. i \in Nat \ {0} /\ i <= Cardinality(PushedIn(lg, L))
        BY <1>1, <3>1, <4>1, RowOrder
      <4> QED
        BY <1>1, <1>3, <4>2
    <3>3. v \in Fillup \cap List => v \notin DOMAIN new
      <4>1. records # <<>>
        BY <1>1, <3>2
      <4> QED
        BY <1>1, <4>1 DEF FillsUpList
    <3>4. rows[i].fields[v] = FilledField(records, new, v, i)
      BY <1>1, <3>2, FilledUpFields
    <3>5. FilledField(records, new, v, i) = ToldIn(lh, v, n)
      <4>1. n \in 1 .. Len(lg) /\ lg[n].pushed /\ Len(lh) = Len(lg) + 1
        BY <2>1, <3>1
      <4>2. v \in Fillup \cap List => v \notin DOMAIN lh[Len(lh)].captured
        BY <1>1, <3>3
      <4>3. FilledField(records, lh[Len(lh)].captured, v, RowOf(lg, n)) = ToldIn(lh, v, n)
        BY ONLY History(lg), \A i_1 \in 1 .. Len(lg) : lh[i_1] = lg[i_1], RowsTell(records, lg), v \in Values,
                <4>1, <4>2, FillTells
      <4> QED
        BY <1>1, <4>3
    <3> QED
      BY <3>1, <3>4, <3>5
  <2>2. CASE n = L + 1
    <3>1. LaterIn(lh, v, n) = {}
      <4>1. n + 1 .. Len(lh) = {}
        BY <1>1, <2>2
      <4> QED
        BY <4>1 DEF LaterIn
    <3>2. ToldIn(lh, v, n) = CollectedIn(lh, v, n)
      BY <3>1 DEF ToldIn
    <3>3. rows[R + 1].fields[v] = CollectedIn(lh, v, n)
      BY <1>1, <1>9, <2>2
    <3> QED
      BY <1>2, <1>3, <2>2, <3>2, <3>3
  <2> QED
    BY <1>1, <1>4, <2>1, <2>2
<1> QED
  BY <1>7, <1>8, <1>9 DEF RowsTell

(* What the records hold when an entry is added: its captures, and then    *)
(* what its action leaves of them.                                         *)
LEMMA RecordTellsNext ==
    ASSUME NEW lg, NEW lh, History(lg), History(lh), Len(lh) = Len(lg) + 1,
           \A i \in 1 .. Len(lg) : lh[i] = lg[i], NEW v, NEW curr, NEW fill, NEW new,
           new = lh[Len(lh)].captured,
           Tells(curr, lg, v, Live(lg, v), Len(lg)),
           Tells(fill, lg, v, IF v \in Filldown THEN Held(lg, v) ELSE {}, Len(lg))
    PROVE  LET c == Appended(curr, new)
               f == Appended(fill, OnlyOf(Filldown, new))
               action == lh[Len(lh)].action
           IN  /\ Tells(c, lh, v, SinceIn(lh, v, Len(lh)), Len(lh))
               /\ Tells(CurrRecord(action, c, f), lh, v, Live(lh, v), Len(lh))
               /\ Tells(IF action = "Clearall" THEN <<>> ELSE f, lh, v,
                        IF v \in Filldown THEN Held(lh, v) ELSE {}, Len(lh))
<1> DEFINE L == Len(lg)
           some == OnlyOf(Filldown, new)
           c == Appended(curr, new)
           f == Appended(fill, some)
           live == Live(lg, v)
           held == IF v \in Filldown THEN Held(lg, v) ELSE {}
<1>1. L \in Nat /\ L >= 1 /\ Len(lh) = L + 1
  BY DEF History
<1>2. /\ SinceIn(lh, v, L + 1) = IF v \in DOMAIN new THEN live \cup {L + 1} ELSE live
      /\ HeldBefore(lh, v) = IF v \in DOMAIN new THEN Held(lg, v) \cup {L + 1} ELSE Held(lg, v)
      /\ live \subseteq 1 .. L /\ Held(lg, v) \subseteq 1 .. L
  <2> HIDE DEF live
  <2> QED
    BY LiveNext DEF live
<1>3. \A i \in live \cup Held(lg, v) : v \in DOMAIN lg[i].captured
  BY DEF Live, SinceIn, Held
<1>4. \A i \in live \cup Held(lg, v) : lh[i] = lg[i] /\ lh[i].captured[v] \in Seq(Texts)
  <2> TAKE i \in live \cup Held(lg, v)
  <2>1. i \in 1 .. L /\ v \in DOMAIN lg[i].captured
    BY <1>2, <1>3
  <2>2. \A u \in DOMAIN lg[i].captured : lg[i].captured[u] \in Seq(Texts)
    BY <2>1, EntryTypes
  <2> QED
    BY <2>1, <2>2
<1>5. new = lh[L + 1].captured /\ (v \in DOMAIN new => new[v] \in Seq(Texts))
  <2>1. L + 1 \in 1 .. Len(lh)
    BY <1>1
  <2>2. \A u \in DOMAIN lh[L + 1].captured : lh[L + 1].captured[u] \in Seq(Texts)
    BY <2>1, EntryTypes
  <2> QED
    BY <1>1, <2>2
<1>6. DOMAIN some = DOMAIN new \cap Filldown /\ \A u \in DOMAIN some : some[u] = new[u]
  BY DEF OnlyOf
<1>7. held \subseteq 1 .. L
  BY <1>2
<1> HIDE DEF some, live, held
<1>8. Tells(curr, lh, v, live, L) /\ Tells(fill, lh, v, held, L)
  <2>1. \A i \in 1 .. L : lh[i] = lg[i]
    OBVIOUS
  <2>2. L \in Nat /\ live \in SUBSET (1 .. L) /\ held \in SUBSET (1 .. L)
    BY <1>1, <1>2, <1>7
  <2> HIDE DEF L
  <2>3. Value(lh, v, live, L) = Value(lg, v, live, L) /\ Value(lh, v, held, L) = Value(lg, v, held, L)
    BY ONLY <2>1, <2>2, ValueAgrees
  <2> QED
    BY <2>2, <2>3 DEF Tells, live, held, L
<1>9. Tells(c, lh, v, SinceIn(lh, v, L + 1), L + 1)
  <2>1. Tells(c, lh, v, IF v \in DOMAIN new THEN live \cup {L + 1} ELSE live, L + 1)
    <3>1. \A i \in live : lh[i].captured[v] \in Seq(Texts)
      BY <1>4
    <3>2. v \in DOMAIN new => lh[L + 1].captured[v] = new[v] /\ new[v] \in Seq(Texts)
      BY <1>5
    <3> QED
      BY ONLY <1>1, <1>2, <1>8, <3>1, <3>2, AppendedTells
  <2> QED
    BY <1>2, <2>1
<1>10. Tells(f, lh, v, IF v \in Filldown THEN HeldBefore(lh, v) ELSE {}, L + 1)
  <2>1. Tells(f, lh, v, IF v \in DOMAIN some THEN held \cup {L + 1} ELSE held, L + 1)
    <3>1. \A i \in held : lh[i].captured[v] \in Seq(Texts)
      BY <1>4 DEF held
    <3>2. v \in DOMAIN some => lh[L + 1].captured[v] = some[v] /\ some[v] \in Seq(Texts)
      BY <1>5, <1>6
    <3> QED
      BY ONLY <1>1, <1>7, <1>8, <3>1, <3>2, AppendedTells
  <2>2. (IF v \in DOMAIN some THEN held \cup {L + 1} ELSE held) =
           IF v \in Filldown THEN HeldBefore(lh, v) ELSE {}
    BY <1>2, <1>6 DEF held
  <2> QED
    BY <2>1, <2>2
<1> HIDE DEF c, f
<1>11. /\ Tells(CurrRecord(lh[Len(lh)].action, c, f), lh, v, Live(lh, v), Len(lh))
       /\ Tells(IF lh[Len(lh)].action = "Clearall" THEN <<>> ELSE f, lh, v,
                IF v \in Filldown THEN Held(lh, v) ELSE {}, Len(lh))
  <2>1. /\ Tells(c, lh, v, SinceIn(lh, v, Len(lh)), Len(lh)) /\ Len(lh) > 1
        /\ Tells(f, lh, v, IF v \in Filldown THEN HeldBefore(lh, v) ELSE {}, Len(lh))
    BY <1>1, <1>9, <1>10
  <2> QED
    BY ONLY History(lh), <2>1, ResetTells
<1> QED
  BY <1>1, <1>9, <1>11 DEF c, f, some

(* What an entry that has pushed, or has not, told when it was added does  *)
(* not change.                                                             *)
LEMMA FullAgrees ==
    ASSUME NEW lg, NEW lh, NEW n \in Nat, \A i \in 1 .. n : lh[i] = lg[i]
    PROVE  Full(lh, n) <=> Full(lg, n)
<1>1. ASSUME NEW v
      PROVE  SinceIn(lh, v, n) = SinceIn(lg, v, n) /\ CollectedIn(lh, v, n) = CollectedIn(lg, v, n)
  <2>1. SinceIn(lh, v, n) = SinceIn(lg, v, n) /\ SinceIn(lg, v, n) \subseteq 1 .. n
    BY SinceAgrees
  <2>2. Value(lh, v, SinceIn(lg, v, n), n) = Value(lg, v, SinceIn(lg, v, n), n)
    BY <2>1, ValueAgrees
  <2> QED
    BY <2>1, <2>2 DEF CollectedIn
<1> QED
  BY <1>1 DEF Full

(* The presets. *)
LEMMA TextInit == Init => TextInv
<1> SUFFICES ASSUME Init PROVE TextInv
  OBVIOUS
<1> DEFINE e == log[1]
<1>1. /\ log = <<[captured |-> curr_record, action |-> "NoRecord", pushed |-> FALSE]>>
      /\ filldown_record = <<>> /\ records = <<>>
  BY DEF Init
<1>2. curr_record \in Partial /\ DOMAIN curr_record \cap List = {}
  <2>1. IInv /\ DOMAIN filldown_record = {}
    BY <1>1, InitInvariant
  <2>2. PICK S \in SUBSET (Values \ List) : curr_record \in [S -> [{1} -> Texts]]
    BY PresetAssumption DEF Init
  <2> QED
    BY <2>1, <2>2 DEF IInv, TypeOK
<1>3. e = [captured |-> curr_record, action |-> "NoRecord", pushed |-> FALSE] /\ Len(log) = 1
  BY <1>1
<1>4. e \in Entry
  BY <1>2, <1>3 DEF Entry, RecordAction
<1>5. log \in Seq(Entry)
  <2>1. log = <<e>>
    BY <1>1, <1>3
  <2>2. \A x \in Entry : <<x>> \in Seq(Entry)
    OBVIOUS
  <2> QED
    BY <1>4, <2>1, <2>2, Zenon
<1>6. /\ log[1].captured = curr_record /\ log[1].action = "NoRecord"
      /\ log[1].pushed = FALSE
  BY <1>3
<1> HIDE DEF e
<1>7. \A n \in 1 .. Len(log) : n = 1
  BY <1>3
<1>8. History(log)
  BY <1>3, <1>5, <1>6, <1>7 DEF History
<1>9. ASSUME NEW v \in Values
      PROVE  /\ Tells(curr_record, log, v, Live(log, v), Len(log))
             /\ Tells(filldown_record, log, v, IF v \in Filldown THEN Held(log, v) ELSE {}, Len(log))
  <2>1. Survives(log, v, 1, 1) /\ 1 \in 1 .. 1 /\ 1 .. 0 = {}
    BY <1>6 DEF Survives, ClearsIn
  <2>2. Live(log, v) = IF v \in DOMAIN curr_record THEN {1} ELSE {}
    <3>1. \A m \in 1 .. 1 : m = 1
      OBVIOUS
    <3>2. SinceIn(log, v, 1) = IF v \in DOMAIN curr_record THEN {1} ELSE {}
      BY <1>6, <2>1, <3>1 DEF SinceIn
    <3> QED
      BY <1>3, <2>1, <3>2 DEF Live
  <2>3. Latest({1}) = 1
    <3>1. {1} \subseteq 1 .. 1 /\ {1} # {}
      OBVIOUS
    <3> QED
      BY <3>1, LatestFacts
  <2>4. v \in DOMAIN curr_record => Value(log, v, {1}, 1) = curr_record[v]
    BY <1>2, <1>6, <2>3 DEF Value
  <2>5. Tells(curr_record, log, v, Live(log, v), Len(log))
    BY <1>3, <2>2, <2>4 DEF Tells
  <2>6. Held(log, v) = {}
    <3>1. 2 .. Len(log) = {}
      BY <1>3
    <3> QED
      BY <3>1 DEF Held
  <2>7. DOMAIN filldown_record = {}
    BY <1>1
  <2> QED
    BY <2>5, <2>6, <2>7 DEF Tells
<1>10. RowsTell(records, log)
  <2>1. PushedIn(log, Len(log)) = {}
    BY <1>6, <1>7 DEF PushedIn
  <2>2. Len(records) = Cardinality(PushedIn(log, Len(log))) /\ 1 .. Len(records) = {}
    <3>1. Cardinality(PushedIn(log, Len(log))) = 0
      BY <2>1, FS_EmptySet, Zenon
    <3>2. Len(records) = 0
      BY <1>1
    <3> QED
      BY <3>1, <3>2
  <2>3. \A n \in 1 .. Len(log) : ~ log[n].pushed
    BY <1>6, <1>7
  <2> QED
    BY <2>2, <2>3 DEF RowsTell
<1>11. \A n \in 1 .. Len(log) : log[n].action # "Record"
  BY <1>6, <1>7
<1> QED
  BY <1>8, <1>9, <1>10, <1>11 DEF TextInv, TextOK

(* A rule that matches adds an entry to the log, and does to the records   *)
(* what the log says.                                                      *)
LEMMA TextMatches == IInv /\ TextInv /\ Matches => TextInv'
<1> SUFFICES ASSUME IInv, TextInv, Matches PROVE TextInv'
  OBVIOUS
<1> DEFINE r    == Rules[rule]
           new  == Captures(r, Current)
           curr == Appended(curr_record, new)
           fill == FilldownAppended(new)
           key  == OnlyOf(Key, new)
           filled == FilledUp(new)
           recs == Records(r.record, filled, curr, key)
<1>1. TypeOK /\ Trying /\ rule \in DOMAIN Rules
  BY DEF IInv, Matches
<1>2. r \in Rule /\ Current \in Line
  BY <1>1, TriedTypes
<1>3. /\ ~ FillsUpList(new)
      /\ records' = recs
      /\ curr_record' = CurrRecord(r.record, curr, fill)
      /\ filldown_record' = IF r.record = "Clearall" THEN <<>> ELSE fill
      /\ log' = Append(log, [captured |-> new, action |-> r.record,
                             pushed |-> Len(recs) > Len(records)])
  BY DEF Matches
<1> DEFINE action == r.record
           pushed == Len(recs) > Len(records)
<1>4. action \in RecordAction
  BY <1>2 DEF Rule
<1> HIDE DEF r
<1>5. new \in Partial
  BY <1>2, CapturesType
<1> HIDE DEF new
<1>6. curr_record \in Partial /\ records \in Seq(FullRecord)
  BY <1>1 DEF TypeOK, FullRecord
<1>7. curr \in Partial
  BY <1>5, <1>6, AppendedType
<1>8. filled \in Seq(FullRecord) /\ Len(filled) = Len(records) /\ Len(records) \in Nat
  BY <1>5, <1>6, FilledUpFacts
<1>9. fill = Appended(filldown_record, OnlyOf(Filldown, new))
  BY DEF FilldownAppended
<1> HIDE DEF filled, curr, fill, key
<1>10. /\ recs = IF action = "Record" /\ DOMAIN curr # {} /\ Complete(curr)
                 THEN Append(filled, [fields |-> Row(curr), key |-> key]) ELSE filled
       /\ pushed \in BOOLEAN
       /\ pushed <=> action = "Record" /\ DOMAIN curr # {} /\ Complete(curr)
       /\ Len(recs) = IF pushed THEN Len(records) + 1 ELSE Len(records)
       /\ \A i \in 1 .. Len(records) : recs[i] = filled[i]
       /\ pushed => recs[Len(records) + 1].fields = Row(curr)
  <2>1. CASE action = "Record" /\ DOMAIN curr # {} /\ Complete(curr)
    <3> DEFINE row == [fields |-> Row(curr), key |-> key]
    <3>1. recs = Append(filled, row)
      BY <2>1 DEF Records
    <3>2. row.fields = Row(curr)
      OBVIOUS
    <3> HIDE DEF row
    <3>3. /\ Len(Append(filled, row)) = Len(filled) + 1
          /\ \A i \in 1 .. Len(filled) : Append(filled, row)[i] = filled[i]
          /\ Append(filled, row)[Len(filled) + 1] = row
      BY <1>8
    <3> QED
      BY <1>8, <2>1, <3>1, <3>2, <3>3 DEF row
  <2>2. CASE ~ (action = "Record" /\ DOMAIN curr # {} /\ Complete(curr))
    <3>1. recs = filled
      BY <2>2 DEF Records
    <3> QED
      BY <1>8, <2>2, <3>1
  <2> QED
    BY <2>1, <2>2
<1> HIDE DEF recs, action, pushed
<1> DEFINE e == [captured |-> new, action |-> action, pushed |-> pushed]
<1>11. e \in Entry
  BY <1>4, <1>5, <1>10 DEF Entry
<1>12. PICK lg : lg = log
  OBVIOUS
<1>13. PICK lh : lh = log'
  OBVIOUS
<1>14. lh = Append(lg, e)
  BY <1>3, <1>12, <1>13 DEF action, pushed
<1>15. History(lg) /\ RowsTell(records, lg)
  BY <1>12 DEF TextInv, TextOK
<1> HIDE DEF e
<1>16. /\ lh \in Seq(Entry) /\ Len(lh) = Len(lg) + 1 /\ Len(lg) \in Nat /\ Len(lg) >= 1
       /\ \A i \in 1 .. Len(lg) : lh[i] = lg[i]
       /\ lh[Len(lh)] = e
  <2>1. lg \in Seq(Entry) /\ Len(lg) \in Nat /\ Len(lg) >= 1
    BY <1>15 DEF History
  <2> QED
    BY <1>11, <1>14, <2>1
<1>17. lh[Len(lh)].captured = new /\ lh[Len(lh)].action = action /\ lh[Len(lh)].pushed = pushed
  BY <1>16 DEF e
<1>18. \A n \in 1 .. Len(lh) : n \in 1 .. Len(lg) \/ n = Len(lh)
  BY <1>16
<1>19. History(lh)
  <2>1. lh[1] = lg[1] /\ Len(lh) \in Nat \ {0}
    BY <1>16
  <2>2. \A n \in 1 .. Len(lh) : lh[n].pushed => lh[n].action = "Record"
    BY <1>10, <1>15, <1>16, <1>17, <1>18 DEF History
  <2> QED
    BY <1>15, <1>16, <2>1, <2>2 DEF History
<1>20. ASSUME NEW v \in Values
       PROVE  /\ Tells(curr, lh, v, SinceIn(lh, v, Len(lh)), Len(lh))
              /\ Tells(CurrRecord(action, curr, fill), lh, v, Live(lh, v), Len(lh))
              /\ Tells(IF action = "Clearall" THEN <<>> ELSE fill, lh, v,
                       IF v \in Filldown THEN Held(lh, v) ELSE {}, Len(lh))
  <2>1. PICK c, f : c = curr_record /\ f = filldown_record
    OBVIOUS
  <2>2. /\ Tells(c, lg, v, Live(lg, v), Len(lg))
        /\ Tells(f, lg, v, IF v \in Filldown THEN Held(lg, v) ELSE {}, Len(lg))
    BY <1>12, <2>1 DEF TextInv, TextOK
  <2>3. curr = Appended(c, new) /\ fill = Appended(f, OnlyOf(Filldown, new))
    BY <1>9, <2>1 DEF curr
  <2> QED
    BY <1>15, <1>16, <1>17, <1>19, <2>2, <2>3, RecordTellsNext
<1>21. /\ \A v \in Values : Row(curr)[v] = CollectedIn(lh, v, Len(lh))
       /\ (DOMAIN curr # {} /\ Complete(curr)) <=> Full(lh, Len(lh))
  <2>1. Len(lh) \in Nat
    BY <1>16
  <2> QED
    BY <1>7, <1>20, <2>1, RowTells
<1>22. RowsTell(recs, lh)
  <2>1. lh[Len(lh)].pushed \in BOOLEAN /\ lh[Len(lh)].captured \in Partial
    BY <1>5, <1>10, <1>17
  <2>2. ~ FillsUpList(lh[Len(lh)].captured)
    BY <1>3, <1>17
  <2>3. /\ Len(recs) = IF lh[Len(lh)].pushed THEN Len(records) + 1 ELSE Len(records)
        /\ \A i \in 1 .. Len(records) : recs[i] = FilledUp(lh[Len(lh)].captured)[i]
    BY <1>10, <1>17 DEF filled
  <2>4. lh[Len(lh)].pushed => \A v \in Values :
           recs[Len(records) + 1].fields[v] = CollectedIn(lh, v, Len(lh))
    BY <1>10, <1>17, <1>21
  <2> QED
    BY <1>6, <1>15, <1>16, <2>1, <2>2, <2>3, <2>4, RowsNext
<1>23. ASSUME NEW n \in 1 .. Len(lh), lh[n].action = "Record"
       PROVE  lh[n].pushed <=> Full(lh, n)
  <2>1. CASE n \in 1 .. Len(lg)
    <3>1. lg[n].action = "Record" => (lg[n].pushed <=> Full(lg, n))
      BY <1>12, <2>1 DEF TextInv, TextOK
    <3>2. n \in Nat /\ \A i \in 1 .. n : lh[i] = lg[i]
      BY <1>16, <2>1
    <3>3. Full(lh, n) <=> Full(lg, n)
      BY <3>2, FullAgrees
    <3>4. lh[n] = lg[n]
      BY <1>16, <2>1
    <3> QED
      BY <1>23, <3>1, <3>3, <3>4
  <2>2. CASE n = Len(lh)
    BY <1>10, <1>17, <1>21, <1>23, <2>2
  <2> QED
    BY <1>18, <2>1, <2>2
<1>24. /\ records' = recs
       /\ curr_record' = CurrRecord(action, curr, fill)
       /\ filldown_record' = IF action = "Clearall" THEN <<>> ELSE fill
  BY <1>3 DEF recs, action
<1>25. TextOK(lh, recs, CurrRecord(action, curr, fill), IF action = "Clearall" THEN <<>> ELSE fill)
  BY <1>19, <1>20, <1>22, <1>23 DEF TextOK
<1> QED
  BY <1>13, <1>24, <1>25 DEF TextInv

(* The records tell the text. *)
LEMMA TextTold == TextInv => RecordsTellTheText
<1> SUFFICES ASSUME TextInv PROVE RecordsTellTheText
  OBVIOUS
<1>1. PICK lg : lg = log
  OBVIOUS
<1>2. History(lg) /\ RowsTell(records, lg)
  BY <1>1 DEF TextInv, TextOK
<1>3. DOMAIN log = 1 .. Len(lg) /\ Len(lg) \in Nat
  BY <1>1, <1>2 DEF History
<1>4. SUFFICES ASSUME NEW n \in 1 .. Len(lg), lg[n].action = "Record"
               PROVE  /\ lg[n].pushed <=>
                           /\ \E v \in Values : Since(v, n) # {}
                           /\ \A v \in Required : Collected(v, n) # Empty(v)
                      /\ lg[n].pushed =>
                           \A v \in Values : records[Pushed(n)].fields[v] = Told(v, n)
  BY <1>1, <1>3 DEF RecordsTellTheText
<1>5. \A v : Since(v, n) = SinceIn(lg, v, n)
  BY <1>1, SinceIs
<1>6. \A v : Collected(v, n) = CollectedIn(lg, v, n)
  <2>1. n \in Nat
    BY <1>3
  <2> QED
    BY <1>1, <1>5, <2>1, CollectedIs DEF CollectedIn
<1>7. lg[n].pushed <=> Full(lg, n)
  BY <1>1, <1>4 DEF TextInv, TextOK
<1>8. Pushed(n) = RowOf(lg, n)
  BY <1>1 DEF Pushed, RowOf, PushedIn
<1>9. \A v : Told(v, n) = ToldIn(lg, v, n)
  <2> TAKE v
  <2>1. Later(v, n) = LaterIn(lg, v, n)
    BY <1>1 DEF Later, LaterIn, Nothing
  <2>2. Told(v, n) = IF v \in Fillup /\ Collected(v, n) = Nothing /\ Later(v, n) # {}
                     THEN log[First(Later(v, n))].captured[v] ELSE Collected(v, n)
    BY DEF Told, Nothing
  <2> QED
    BY <1>1, <1>6, <2>1, <2>2 DEF ToldIn
<1>10. lg[n].pushed => \A v \in Values : records[RowOf(lg, n)].fields[v] = ToldIn(lg, v, n)
  BY <1>2 DEF RowsTell
<1> QED
  BY <1>5, <1>6, <1>7, <1>8, <1>9, <1>10 DEF Full

-----------------------------------------------------------------------------
(* No record lacks a required value: parse_line() counts them before it    *)
(* pushes, and Fillup never touches a field that is not empty.             *)
THEOREM RecordsAreComplete == Spec => []RecordsComplete
<1>1. IInv => RecordsComplete
  BY DEF IInv
<1> QED
  BY <1>1, Invariant, PTL

(* The values that a record starts over with are the ones that were        *)
(* captured: parse_line() keeps them in two records.                       *)
THEOREM FilldownIsMirrored == Spec => []FilldownMirrors
<1>1. IInv => FilldownMirrors
  BY DEF IInv
<1> QED
  BY <1>1, Invariant, PTL

(* parse_line() changes a record it has pushed only where it is empty. *)
THEOREM RecordedStays == Spec => RecordsStay
<1> DEFINE Stays == /\ Len(records) <= Len(records')
                    /\ \A i \in DOMAIN records : \A v \in Values :
                          records'[i].fields[v] = records[i].fields[v]
                          \/ (v \in Fillup /\ Lacks(records[i], v))
<1>1. ASSUME IInv, Matches PROVE Stays
  <2> DEFINE r    == Rules[rule]
             new  == Captures(r, Current)
             curr == Appended(curr_record, new)
             key  == OnlyOf(Key, new)
             filled == FilledUp(new)
             recs == Records(r.record, filled, curr, key)
  <2>1. r \in Rule /\ Current \in Line /\ records' = recs
    BY <1>1, TriedTypes DEF IInv, Matches
  <2>2. new \in Partial
    BY <2>1, CapturesType
  <2>3. records \in Seq(FullRecord)
    BY <1>1 DEF IInv, TypeOK, FullRecord
  <2> HIDE DEF r, new
  <2>4. /\ filled \in Seq(FullRecord) /\ Len(filled) = Len(records)
        /\ \A i \in DOMAIN records : \A v \in Values :
              \/ filled[i].fields[v] = records[i].fields[v]
              \/ v \in Fillup \cap DOMAIN new /\ Lacks(records[i], v)
    BY <2>2, <2>3, FilledUpFacts
  <2> HIDE DEF curr, key, filled
  <2>5. recs = filled \/ \E row : recs = Append(filled, row)
    BY DEF Records
  <2>6. /\ Len(filled) \in Nat /\ DOMAIN filled = 1 .. Len(filled)
        /\ DOMAIN records = 1 .. Len(records)
    BY <2>3, <2>4, LenProperties
  <2>7. ASSUME NEW row PROVE /\ Len(Append(filled, row)) = Len(filled) + 1
                             /\ \A i \in DOMAIN filled : Append(filled, row)[i] = filled[i]
    BY <2>4, <2>6
  <2> QED
    BY <2>1, <2>4, <2>5, <2>6, <2>7
<1>2. ASSUME IInv, UNCHANGED records PROVE Stays
  <2>1. records \in Seq(FullRecord)
    BY <1>2 DEF IInv, TypeOK, FullRecord
  <2> QED
    BY <1>2, <2>1, LenProperties
<1>3. IInv /\ [Next]_vars => [Stays]_vars
  BY <1>1, <1>2 DEF Next, Misses, NoMoreRules, Panics, EndsLines
<1> HIDE DEF Stays
<1>4. Spec => [][Stays]_vars
  BY <1>3, Invariant, PTL DEF Spec
<1> QED
  BY <1>4 DEF RecordsStay, Stays

(* The records are what the rules that matched captured, as the table of   *)
(* the record actions says it: parse_line() appends, clears, fills down    *)
(* and fills up one rule at a time.                                        *)
THEOREM RecordsTellText == Spec => []RecordsTellTheText
<1>1. Init => IInv /\ TextInv
  BY InitInvariant, TextInit
<1>2. ASSUME IInv /\ TextInv, [Next]_vars PROVE (IInv /\ TextInv)'
  <2>1. IInv'
    BY <1>2, StepInvariant
  <2>2. CASE Matches
    BY <1>2, <2>1, <2>2, TextMatches
  <2>3. ASSUME UNCHANGED <<log, records, curr_record, filldown_record>> PROVE TextInv'
    BY <1>2, <2>3 DEF TextInv
  <2> QED
    BY <1>2, <2>1, <2>2, <2>3 DEF Next, Misses, NoMoreRules, Panics, EndsLines, vars
<1>3. IInv /\ TextInv => RecordsTellTheText
  BY TextTold
<1> QED
  BY <1>1, <1>2, <1>3, PTL DEF Spec
=============================================================================
