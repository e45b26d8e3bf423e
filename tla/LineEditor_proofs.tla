-------------------------- MODULE LineEditor_proofs --------------------------
(***************************************************************************)
(* Theorems about LineEditor, for every set of characters and all bounds:  *)
(* whatever keys are pressed, the editor's index expressions stay inside   *)
(* the line and the history, no line is remembered twice running, each key *)
(* does to the text on both sides of the cursor what LineBuffer says, and  *)
(* the client's terminal shows the line with the cursor in its place.      *)
(***************************************************************************)
EXTENDS LineEditor, StreamLemmas

(* Inserting a character lengthens the line by one. *)
LEMMA InsertLemma ==
    ASSUME NEW b \in Line, NEW p \in 0..Len(b), NEW c \in Char
    PROVE  InsertAt(b, p + 1, c) \in Line /\ Len(InsertAt(b, p + 1, c)) = Len(b) + 1
  <1> DEFINE l == SubSeq(b, 1, p)
             r == SubSeq(b, p + 1, Len(b))
             m == l \o <<c>>
  <1>1. l \in Seq(Char) /\ Len(l) = p
    BY PrefixLemma DEF Line
  <1>2. r \in Seq(Char) /\ Len(r) = Len(b) - p
    BY DropLemma DEF Line
  <1>3. <<c>> \in Seq(Char) /\ Len(<<c>>) = 1
    OBVIOUS
  <1>4. InsertAt(b, p + 1, c) = m \o r
    <2>1. (p + 1) - 1 = p
      OBVIOUS
    <2> QED BY <2>1, Zenon DEF InsertAt
  <1> HIDE DEF l, r
  <1>5. m \in Seq(Char) /\ Len(m) = p + 1
    BY <1>1, <1>3, ConcatLemma
  <1> HIDE DEF m
  <1>6. m \o r \in Seq(Char) /\ Len(m \o r) = Len(m) + Len(r)
    BY <1>2, <1>5, ConcatLemma
  <1>7. Len(b) \in Nat
    BY DEF Line
  <1>8. Len(m \o r) = Len(b) + 1
    BY <1>2, <1>5, <1>6, <1>7
  <1> QED BY <1>4, <1>6, <1>8 DEF Line

(* Two ends of a line, what lies between them cut out, are a line. *)
LEMMA CutLemma ==
    ASSUME NEW b \in Line, NEW p \in 0..Len(b), NEW q \in p..Len(b)
    PROVE  LET cut == SubSeq(b, 1, p) \o SubSeq(b, q + 1, Len(b))
           IN  cut \in Line /\ Len(cut) = Len(b) - (q - p)
  <1> DEFINE l == SubSeq(b, 1, p)
             r == SubSeq(b, q + 1, Len(b))
  <1>1. l \in Seq(Char) /\ Len(l) = p
    BY PrefixLemma DEF Line
  <1>2. q \in 0..Len(b)
    BY DEF Line
  <1>3. r \in Seq(Char) /\ Len(r) = Len(b) - q
    BY <1>2, DropLemma DEF Line
  <1> HIDE DEF l, r
  <1>4. l \o r \in Seq(Char) /\ Len(l \o r) = Len(l) + Len(r)
    BY <1>1, <1>3, ConcatLemma
  <1>5. l \o r \in Line /\ Len(l \o r) = Len(b) - (q - p)
    BY <1>1, <1>3, <1>4 DEF Line
  <1> QED BY <1>5 DEF l, r

(* Removing a character shortens the line by one. *)
LEMMA RemoveLemma ==
    ASSUME NEW b \in Line, NEW p \in 1..Len(b)
    PROVE  RemoveAt(b, p) \in Line /\ Len(RemoveAt(b, p)) = Len(b) - 1
  <1>1. p - 1 \in 0..Len(b) /\ p \in p - 1..Len(b)
    BY DEF Line
  <1> DEFINE cut == SubSeq(b, 1, p - 1) \o SubSeq(b, p + 1, Len(b))
  <1>2. cut \in Line /\ Len(cut) = Len(b) - (p - (p - 1))
    BY <1>1, CutLemma
  <1>3. RemoveAt(b, p) = cut
    BY DEF RemoveAt
  <1> HIDE DEF cut
  <1>4. Len(b) \in Nat
    BY DEF Line
  <1> QED BY <1>2, <1>3, <1>4

(* The history of distinct neighbours, one submitted line later. *)
LEMMA RememberedLemma ==
    ASSUME NEW line \in Line, history \in Seq(Line), NoRepeats,
           history' = Remembered(line)
    PROVE  history' \in Seq(Line) /\ NoRepeats'
  <1>1. CASE history' = history
    BY <1>1 DEF NoRepeats
  <1>2. CASE /\ history' = Append(history, line)
             /\ history = <<>> \/ history[Len(history)] # line
    <2>1. /\ history' \in Seq(Line) /\ Len(history') = Len(history) + 1
          /\ \A i \in 1..Len(history) : history'[i] = history[i]
          /\ history'[Len(history) + 1] = line
      BY <1>2, AppendLemma
    <2>2. ASSUME NEW i \in 2..Len(history') PROVE history'[i] # history'[i - 1]
      <3>1. CASE i <= Len(history)
        BY <2>1, <3>1 DEF NoRepeats
      <3>2. CASE i = Len(history) + 1
        <4>1. history # <<>>
          BY <3>2
        <4> QED BY <1>2, <2>1, <3>2, <4>1
      <3> QED BY <2>1, <3>1, <3>2
    <2> QED BY <2>1, <2>2 DEF NoRepeats
  <1> QED BY <1>1, <1>2 DEF Remembered, Last

-----------------------------------------------------------------------------
(* The inductive invariant.  The bound on the index needs the history's    *)
(* type, and a recalled line must be a line before the cursor can be its   *)
(* length; neither conjunct is inductive alone.                            *)
IInv == TypeOK /\ NoPanic /\ NoRepeats

(* The initial state. *)
LEMMA InitHolds == Init => IInv
  <1> SUFFICES ASSUME Init PROVE IInv
    OBVIOUS
  <1>1. buffer = <<>> /\ history = <<>> /\ cursor = 0 /\ index = 0 /\ esc = "Normal"
    BY DEF Init, NotRecalling
  <1>2. <<>> \in Seq(Char) /\ <<>> \in Seq(Line) /\ Len(<<>>) = 0
    OBVIOUS
  <1>3. buffer \in Line /\ history \in Seq(Line)
    BY <1>1, <1>2 DEF Line
  <1>4. \A i \in 2..Len(history) : FALSE
    BY <1>1
  <1> QED BY <1>1, <1>3, <1>4 DEF IInv, TypeOK, NoPanic, NoRepeats

(* A step that leaves the history alone keeps the invariant if what it     *)
(* makes of line, cursor and index is in place.                            *)
LEMMA EditKeeps ==
    ASSUME IInv, UNCHANGED history,
           buffer' \in Line, cursor' \in 0..Len(buffer'), index' \in 0..Len(history),
           esc' \in {"Normal", "GotEsc", "GotBracket"}
    PROVE  IInv'
  <1>1. TypeOK'
    BY DEF IInv, TypeOK
  <1>2. Len(buffer') \in Nat /\ Len(history) \in Nat
    BY DEF IInv, TypeOK, Line
  <1>3. NoPanic'
    BY <1>2 DEF NoPanic
  <1>4. NoRepeats'
    BY DEF IInv, NoRepeats
  <1> QED BY <1>1, <1>3, <1>4 DEF IInv

(* Every character is one that fits into a line.                           *)
LEMMA CharLemma ==
    ASSUME NEW c \in Char, NEW s \in Line
    PROVE  /\ <<c>> \in Line /\ Len(<<c>>) = 1
           /\ Append(s, c) \in Line /\ Append(s, c) = s \o <<c>>
           /\ Len(Append(s, c)) = Len(s) + 1
  <1>1. <<c>> \in Seq(Char) /\ Len(<<c>>) = 1
    OBVIOUS
  <1>2. Append(s, c) \in Seq(Char) /\ Len(Append(s, c)) = Len(s) + 1
    BY DEF Line
  <1>3. Append(s, c) = s \o <<c>>
    BY DEF Line
  <1> QED BY <1>1, <1>2, <1>3 DEF Line

(* A keyword and a blank are characters for a line.                        *)
LEMMA KeywordLemma ==
    ASSUME NEW keyword \in Keyword
    PROVE  /\ keyword \in Line /\ Append(keyword, " ") \in Line /\ <<" ">> \in Line
           /\ Append(keyword, " ") = keyword \o <<" ">>
           /\ Len(Append(keyword, " ")) = Len(keyword) + 1
  <1>1. keyword \in Seq(Char \ {" "}) /\ " " \in Char
    BY EditorAssumption
  <1>2. ASSUME NEW T, T \subseteq Char, keyword \in Seq(T) PROVE keyword \in Seq(Char)
    BY <1>2
  <1>3. keyword \in Line
    BY <1>1, <1>2 DEF Line
  <1> QED BY <1>1, <1>3, CharLemma

(* Tab keeps the first k characters left of the cursor and what is right   *)
(* of it, and appends.                                                     *)
LEMMA TabKeywordDoes ==
    ASSUME IInv, TabKeyword
    PROVE  \E e \in 1..Len(buffer), keyword \in Keyword : \E s \in 0..e - 1 : \E k \in 0..cursor :
             /\ IsLastWord(s, e) /\ IsStrictPrefix(SubSeq(buffer, s + 1, e), keyword)
             /\ e - s <= cursor => k = cursor - (e - s)
             /\ buffer' = SubSeq(buffer, 1, k)
                            \o SubSeq(buffer, cursor + 1, Len(buffer)) \o Append(keyword, " ")
             /\ ShowsUnless(Put(EraseRight(Back(Screen, cursor - k)), Append(keyword, " ")),
                            torn \/ cursor < Len(buffer))
  <1>0. Len(buffer) \in Nat /\ cursor \in 0..Len(buffer)
    BY DEF IInv, TypeOK, NoPanic, Line
  <1>a. PICK e \in 1..Len(buffer), keyword \in Keyword : \E s \in 0..e - 1 :
             /\ IsLastWord(s, e) /\ IsStrictPrefix(SubSeq(buffer, s + 1, e), keyword)
             /\ buffer' = SubSeq(buffer, 1, cursor - (IF e - s <= cursor THEN e - s ELSE cursor))
                            \o SubSeq(buffer, cursor + 1, Len(buffer)) \o Append(keyword, " ")
             /\ ShowsUnless(Put(EraseRight(Back(Screen, IF e - s <= cursor THEN e - s ELSE cursor)),
                               Append(keyword, " ")),
                            torn \/ cursor < Len(buffer))
    BY Zenon DEF TabKeyword
  <1>1. PICK s \in 0..e - 1 :
             /\ IsLastWord(s, e) /\ IsStrictPrefix(SubSeq(buffer, s + 1, e), keyword)
             /\ buffer' = SubSeq(buffer, 1, cursor - (IF e - s <= cursor THEN e - s ELSE cursor))
                            \o SubSeq(buffer, cursor + 1, Len(buffer)) \o Append(keyword, " ")
             /\ ShowsUnless(Put(EraseRight(Back(Screen, IF e - s <= cursor THEN e - s ELSE cursor)),
                               Append(keyword, " ")),
                            torn \/ cursor < Len(buffer))
    BY <1>a, Zenon
  <1> DEFINE k == cursor - (IF e - s <= cursor THEN e - s ELSE cursor)
  <1>2. k \in 0..cursor /\ (e - s <= cursor => k = cursor - (e - s))
    BY <1>0
  <1>3. cursor - k = IF e - s <= cursor THEN e - s ELSE cursor
    BY <1>0
  <1> HIDE DEF k
  <1>4. /\ buffer' = SubSeq(buffer, 1, k)
                       \o SubSeq(buffer, cursor + 1, Len(buffer)) \o Append(keyword, " ")
        /\ ShowsUnless(Put(EraseRight(Back(Screen, cursor - k)), Append(keyword, " ")),
                            torn \/ cursor < Len(buffer))
    BY <1>1, <1>3, Zenon DEF k
  <1> QED BY <1>1, <1>2, <1>4, Zenon

(* Every key keeps it. *)
LEMMA KeyHolds == IInv /\ [Next]_vars => IInv'
  <1> SUFFICES ASSUME IInv, [Next]_vars PROVE IInv'
    OBVIOUS
  <1>a. /\ buffer \in Line /\ Len(buffer) \in Nat
        /\ cursor \in 0..Len(buffer)
        /\ history \in Seq(Line) /\ Len(history) \in Nat
        /\ index \in 0..Len(history)
        /\ esc \in {"Normal", "GotEsc", "GotBracket"}
    BY DEF IInv, TypeOK, NoPanic, Line
  <1>b. <<>> \in Line /\ Len(<<>>) = 0
    BY DEF Line
  <1>1. CASE TypeChar
    <2>1. PICK c \in Char : buffer' = InsertAt(buffer, cursor + 1, c)
      BY <1>1 DEF TypeChar
    <2>2. buffer' \in Line /\ Len(buffer') = Len(buffer) + 1
      BY <1>a, <2>1, InsertLemma
    <2>3. cursor' = cursor + 1 /\ index' = index /\ UNCHANGED <<history, esc>>
      BY <1>1 DEF TypeChar, Key
    <2> QED BY <1>a, <2>2, <2>3, EditKeeps
  <1>2. CASE Backspace
    <2>1. cursor > 0 /\ buffer' = RemoveAt(buffer, cursor)
      BY <1>2 DEF Backspace
    <2>2. cursor \in 1..Len(buffer)
      BY <1>a, <2>1
    <2>3. buffer' \in Line /\ Len(buffer') = Len(buffer) - 1
      BY <1>a, <2>1, <2>2, RemoveLemma
    <2>4. cursor' = cursor - 1 /\ index' = index /\ UNCHANGED <<history, esc>>
      BY <1>2 DEF Backspace, Key
    <2> QED BY <1>a, <2>2, <2>3, <2>4, EditKeeps
  <1>3. CASE CtrlD
    <2>1. cursor < Len(buffer) /\ buffer' = RemoveAt(buffer, cursor + 1)
      BY <1>3 DEF CtrlD
    <2>2. cursor + 1 \in 1..Len(buffer)
      BY <1>a, <2>1
    <2>3. buffer' \in Line /\ Len(buffer') = Len(buffer) - 1
      BY <1>a, <2>1, <2>2, RemoveLemma
    <2>4. cursor' = cursor /\ index' = index /\ UNCHANGED <<history, esc>>
      BY <1>3 DEF CtrlD, Key
    <2> QED BY <1>a, <2>1, <2>3, <2>4, EditKeeps
  <1>4. CASE MoveLeft /\ esc' \in {"Normal", "GotEsc", "GotBracket"}
    <2>1. cursor > 0 /\ cursor' = cursor - 1 /\ UNCHANGED <<buffer, history, index>>
      BY <1>4 DEF MoveLeft
    <2> QED BY <1>4, <1>a, <2>1, EditKeeps
  <1>5. CASE MoveRight /\ esc' \in {"Normal", "GotEsc", "GotBracket"}
    <2>1. /\ cursor < Len(buffer) /\ cursor' = cursor + 1
          /\ UNCHANGED <<buffer, history, index>>
      BY <1>5 DEF MoveRight
    <2> QED BY <1>5, <1>a, <2>1, EditKeeps
  <1>6. CASE CtrlA
    <2>1. cursor' = 0 /\ UNCHANGED <<buffer, history, index, esc>>
      BY <1>6 DEF CtrlA, Key
    <2> QED BY <1>a, <2>1, EditKeeps
  <1>7. CASE CtrlE
    <2>1. cursor' = Len(buffer) /\ UNCHANGED <<buffer, history, index, esc>>
      BY <1>7 DEF CtrlE, Key
    <2> QED BY <1>a, <2>1, EditKeeps
  <1>8. CASE CtrlK
    <2>1. buffer' = SubSeq(buffer, 1, cursor) /\ UNCHANGED <<cursor, history, index, esc>>
      BY <1>8 DEF CtrlK, Key
    <2>2. buffer' \in Line /\ Len(buffer') = cursor
      BY <1>a, <2>1, PrefixLemma DEF Line
    <2> QED BY <1>a, <2>1, <2>2, EditKeeps
  <1>9. CASE CtrlU
    <2>1. /\ buffer' = SubSeq(buffer, cursor + 1, Len(buffer)) /\ cursor' = 0
          /\ UNCHANGED <<history, index, esc>>
      BY <1>9 DEF CtrlU, Key
    <2>2. buffer' \in Line /\ Len(buffer') = Len(buffer) - cursor
      BY <1>a, <2>1, DropLemma DEF Line
    <2> QED BY <1>a, <2>1, <2>2, EditKeeps
  <1>10. CASE CtrlW
    <2>1. PICK pos \in 0..cursor :
            /\ buffer' = SubSeq(buffer, 1, pos) \o SubSeq(buffer, cursor + 1, Len(buffer))
            /\ cursor' = pos
      <3>1. PICK p \in 0..cursor : \E pos \in 0..p :
              /\ buffer' = SubSeq(buffer, 1, pos) \o SubSeq(buffer, cursor + 1, Len(buffer))
              /\ cursor' = pos
        BY <1>10 DEF CtrlW
      <3>2. 0..p \subseteq 0..cursor
        BY <1>a
      <3> QED BY <3>1, <3>2
    <2>2. pos \in 0..Len(buffer) /\ cursor \in pos..Len(buffer)
      BY <1>a
    <2>3. buffer' \in Line /\ Len(buffer') = Len(buffer) - (cursor - pos)
      BY <1>a, <2>1, <2>2, CutLemma
    <2>4. UNCHANGED <<history, index, esc>>
      BY <1>10 DEF CtrlW, Key
    <2>5. index' \in 0..Len(history)
      BY <1>a, <2>4
    <2>6. cursor' \in 0..Len(buffer')
      <3>1. ASSUME NEW n \in Nat, n = Len(buffer) - (cursor - pos) PROVE pos \in 0..n
        BY <1>a, <3>1
      <3>2. Len(buffer') \in Nat
        BY <2>3 DEF Line
      <3> QED BY <2>1, <2>3, <3>1, <3>2
    <2> QED BY <1>a, <2>3, <2>4, <2>5, <2>6, EditKeeps
  <1>11. CASE CtrlC
    <2>1. buffer' = <<>> /\ cursor' = 0 /\ index' = 0 /\ UNCHANGED <<history, esc>>
      BY <1>11 DEF CtrlC, Key, NotRecalling
    <2> QED BY <1>a, <1>b, <2>1, EditKeeps
  <1>12. CASE Submit
    <2>1. /\ history' = Remembered(buffer) /\ buffer' = <<>> /\ cursor' = 0
          /\ index' = 0 /\ esc' = esc
      BY <1>12 DEF Submit, NotRecalling
    <2>2. history' \in Seq(Line) /\ NoRepeats'
      BY <1>a, <2>1, RememberedLemma DEF IInv
    <2>3. TypeOK'
      BY <1>a, <1>b, <2>1, <2>2 DEF TypeOK
    <2>4. NoPanic'
      BY <1>b, <2>1, <2>2 DEF NoPanic
    <2> QED BY <2>2, <2>3, <2>4 DEF IInv
  <1>13. CASE Escape \/ Bracket \/ NoKey
    <2>1. UNCHANGED <<buffer, cursor, history, index>>
      BY <1>13 DEF Escape, Bracket, NoKey
    <2>2. esc' \in {"Normal", "GotEsc", "GotBracket"}
      BY <1>13 DEF Escape, Bracket, NoKey, Letter
    <2> QED BY <1>a, <2>1, <2>2, EditKeeps
  <1>14. ASSUME NEW line \in Line, Recall(line), UNCHANGED history, Letter,
                index' \in 0..Len(history)
         PROVE  IInv'
    <2>1. buffer' = line /\ cursor' = Len(line) /\ esc' = "Normal"
      BY <1>14 DEF Recall, RedrawLine, Letter
    <2>2. Len(line) \in Nat
      BY DEF Line
    <2> QED BY <1>14, <2>1, <2>2, EditKeeps
  <1>15. CASE Up
    <2>1. history # <<>> /\ Recall(history[index']) /\ Letter /\ UNCHANGED history
      BY <1>15 DEF Up
    <2>2. Len(history) > 0
      BY <1>a, <2>1
    <2>3. index' \in 1..Len(history)
      BY <1>a, <1>15, <2>2 DEF Up, NotRecalling
    <2>4. history[index'] \in Line
      BY <1>a, <2>3
    <2> QED BY <1>14, <2>1, <2>3, <2>4
  <1>16. CASE Down
    <2>1. /\ Letter /\ UNCHANGED history /\ index # 0
          /\ index' = (IF index + 1 > Len(history) THEN 0 ELSE index + 1)
          /\ Recall(IF index' = 0 THEN <<>> ELSE history[index'])
      BY <1>16 DEF Down, NotRecalling
    <2>2. index' \in 0..Len(history)
      BY <1>a, <2>1
    <2>3. CASE index' = 0
      BY <1>14, <1>b, <2>1, <2>2, <2>3
    <2>4. CASE index' # 0
      <3>1. history[index'] \in Line
        BY <1>a, <2>2, <2>4
      <3> QED BY <1>14, <2>1, <2>2, <2>4, <3>1
    <2> QED BY <2>3, <2>4
  <1>17. CASE UNCHANGED vars
    <2>1. UNCHANGED <<buffer, cursor, history, index, esc>>
      BY <1>17 DEF vars, editor
    <2> QED BY <1>a, <2>1, EditKeeps
  <1>18. CASE CtrlB \/ CtrlF \/ LeftArrow \/ RightArrow
    <2>1. esc' \in {"Normal", "GotEsc", "GotBracket"} /\ (MoveLeft \/ MoveRight)
      BY <1>18 DEF CtrlB, CtrlF, LeftArrow, RightArrow, Key, Letter
    <2> QED BY <1>4, <1>5, <2>1
  <1>19. CASE TabKeyword
    <2>1. PICK keyword \in Keyword, k \in 0..cursor :
             buffer' = SubSeq(buffer, 1, k)
                        \o SubSeq(buffer, cursor + 1, Len(buffer)) \o Append(keyword, " ")
      BY <1>19, TabKeywordDoes
    <2>2. k \in 0..Len(buffer) /\ cursor \in k..Len(buffer)
      BY <1>a
    <2>3. SubSeq(buffer, 1, k) \o SubSeq(buffer, cursor + 1, Len(buffer)) \in Line
      BY <1>a, <2>2, CutLemma
    <2>4. buffer' \in Line
      BY <2>1, <2>3, KeywordLemma, ConcatLemma DEF Line
    <2>5. cursor' = Len(buffer') /\ UNCHANGED <<history, index, esc>>
      BY <1>19 DEF TabKeyword, Key
    <2>6. Len(buffer') \in 0..Len(buffer')
      BY <2>4 DEF Line
    <2> QED BY <1>a, <2>4, <2>5, <2>6, EditKeeps
  <1>20. CASE TabBlank
    <2>1. buffer' = Append(buffer, " ") /\ cursor' = Len(buffer') /\ UNCHANGED <<history, index, esc>>
      BY <1>20 DEF TabBlank, Key
    <2>2. buffer' \in Line /\ Len(buffer') = Len(buffer) + 1
      BY <1>a, <2>1, AppendLemma, EditorAssumption DEF Line
    <2>3. Len(buffer') \in 0..Len(buffer')
      <3>1. buffer' \in Line
        BY <2>2
      <3> QED BY <3>1 DEF Line
    <2> QED BY <1>a, <2>1, <2>2, <2>3, EditKeeps
  <1>21. CASE Question
    <2>1. UNCHANGED <<buffer, cursor, history, index, esc>>
      BY <1>21 DEF Question, Key
    <2> QED BY <1>a, <2>1, EditKeeps
  <1>22. CASE CtrlZ
    <2>1. buffer' = <<>> /\ cursor' = 0 /\ index' = 0 /\ UNCHANGED <<history, esc>>
      BY <1>22 DEF CtrlZ, Key, NotRecalling
    <2> QED BY <1>a, <1>b, <2>1, EditKeeps
  <1> QED
    BY <1>1, <1>2, <1>3, <1>6, <1>7, <1>8, <1>9, <1>10, <1>11, <1>12,
       <1>13, <1>15, <1>16, <1>17, <1>18, <1>19, <1>20, <1>21, <1>22 DEF Next

-----------------------------------------------------------------------------
(* The cursor stays inside the line and the recalled index inside the      *)
(* history, so that no insert(), remove(), drain() or index expression of  *)
(* send() is out of range, whatever is typed.                              *)
THEOREM IndexesInRange == Spec => []NoPanic
  <1>1. Init => IInv
    BY InitHolds
  <1>2. IInv /\ [Next]_vars => IInv'
    BY KeyHolds
  <1>3. IInv => NoPanic
    BY DEF IInv
  <1> QED BY <1>1, <1>2, <1>3, PTL DEF Spec

(* No two neighbours in the history are equal. *)
THEOREM HistoryWithoutRepeats == Spec => []NoRepeats
  <1>1. Init => IInv
    BY InitHolds
  <1>2. IInv /\ [Next]_vars => IInv'
    BY KeyHolds
  <1>3. IInv => NoRepeats
    BY DEF IInv
  <1> QED BY <1>1, <1>2, <1>3, PTL DEF Spec

-----------------------------------------------------------------------------
(* The text left and right of the cursor.                                  *)

(* Sequences with the same elements are equal.                             *)
LEMMA EqualLemma ==
    ASSUME NEW s \in Line, NEW t \in Line, Len(s) = Len(t),
           \A i \in 1..Len(s) : s[i] = t[i]
    PROVE  s = t
  BY DEF Line

(* Two texts put together are told apart again by the length of the first. *)
LEMMA SplitLemma ==
    ASSUME NEW l \in Line, NEW r \in Line
    PROVE  /\ SubSeq(l \o r, 1, Len(l)) = l
           /\ SubSeq(l \o r, Len(l) + 1, Len(l \o r)) = r
  BY DEF Line

(* A line is what is left and what is right of a position.                 *)
LEMMA JoinLemma ==
    ASSUME NEW s \in Line, NEW p \in 0..Len(s)
    PROVE  /\ SubSeq(s, 1, p) \in Line /\ Len(SubSeq(s, 1, p)) = p
           /\ SubSeq(s, p + 1, Len(s)) \in Line /\ Len(SubSeq(s, p + 1, Len(s))) = Len(s) - p
           /\ s = SubSeq(s, 1, p) \o SubSeq(s, p + 1, Len(s))
  <1> DEFINE l == SubSeq(s, 1, p)
             r == SubSeq(s, p + 1, Len(s))
  <1>1. /\ l \in Seq(Char) /\ Len(l) = p
        /\ \A i \in 1..p : l[i] = s[i]
    BY PrefixLemma DEF Line
  <1>2. /\ r \in Seq(Char) /\ Len(r) = Len(s) - p
        /\ \A i \in 1..(Len(s) - p) : r[i] = s[p + i]
    BY DropLemma DEF Line
  <1> HIDE DEF l, r
  <1>3. Len(s) \in Nat /\ p \in Nat
    BY DEF Line
  <1>4. /\ l \o r \in Seq(Char) /\ Len(l \o r) = Len(s)
        /\ \A i \in 1..p : (l \o r)[i] = l[i]
        /\ \A i \in 1..(Len(s) - p) : (l \o r)[p + i] = r[i]
    <2>1. Len(l \o r) = p + (Len(s) - p)
      BY <1>1, <1>2, ConcatLemma
    <2> QED BY <1>1, <1>2, <1>3, <2>1, ConcatLemma
  <1>5. ASSUME NEW i \in 1..Len(s) PROVE (l \o r)[i] = s[i]
    <2>1. CASE i <= p
      BY <1>1, <1>3, <1>4, <2>1
    <2>2. CASE i > p
      <3>1. i - p \in 1..(Len(s) - p) /\ p + (i - p) = i
        BY <1>3, <2>2
      <3> QED BY <1>2, <1>4, <3>1
    <2>3. i <= p \/ i > p
      BY <1>3
    <2> QED BY <2>1, <2>2, <2>3
  <1>6. l \o r = s
    BY <1>4, <1>5, EqualLemma DEF Line
  <1> QED BY <1>1, <1>2, <1>6 DEF Line, l, r

Left  == SubSeq(buffer, 1, cursor)
Right == SubSeq(buffer, cursor + 1, Len(buffer))

(* What the invariant says of them. *)
LEMMA SidesLemma ==
    ASSUME IInv
    PROVE  /\ Left \in Line /\ Len(Left) = cursor /\ \A i \in 1..cursor : Left[i] = buffer[i]
           /\ Right \in Line /\ Len(Right) = Len(buffer) - cursor
           /\ buffer = Left \o Right
           /\ buffer \in Line /\ Len(buffer) \in Nat /\ cursor \in 0..Len(buffer)
  <1>1. buffer \in Line /\ Len(buffer) \in Nat /\ cursor \in 0..Len(buffer)
    BY DEF IInv, TypeOK, NoPanic, Line
  <1>2. \A i \in 1..cursor : SubSeq(buffer, 1, cursor)[i] = buffer[i]
    BY <1>1, PrefixLemma DEF Line
  <1> QED BY <1>1, <1>2, JoinLemma DEF Left, Right

(* A step that makes the line of l and r, with the cursor between them.    *)
LEMMA EditLemma ==
    ASSUME NEW l \in Line, NEW r \in Line,
           buffer' = l \o r, cursor' = Len(l)
    PROVE  Left' = l /\ Right' = r
  BY SplitLemma DEF Left, Right

(* Putting together is associative, and nothing is its neutral element.    *)
LEMMA AssocLemma ==
    ASSUME NEW a \in Line, NEW b \in Line, NEW c \in Line
    PROVE  (a \o b) \o c = a \o (b \o c)
  BY DEF Line

(* Nothing put before or after a text. *)
LEMMA EmptyLemma ==
    ASSUME NEW a \in Line
    PROVE  a \o <<>> = a /\ <<>> \o a = a /\ <<>> \in Line /\ Len(<<>>) = 0
  <1>1. <<>> \in Line /\ a \o <<>> \in Line /\ <<>> \o a \in Line /\ Len(<<>>) = 0
    BY DEF Line
  <1>2. a \o <<>> = a /\ <<>> \o a = a
    BY <1>1, EqualLemma DEF Line
  <1> QED BY <1>1, <1>2

(* The first and the last character of a text.                             *)
LEMMA EndsLemma ==
    ASSUME NEW s \in Line, s # <<>>
    PROVE  /\ Front(s) \in Line /\ Len(Front(s)) = Len(s) - 1 /\ <<Last(s)>> \in Line
           /\ s = Front(s) \o <<Last(s)>>
           /\ Tail(s) \in Line /\ <<Head(s)>> \in Line /\ Len(<<Head(s)>>) = 1
           /\ s = <<Head(s)>> \o Tail(s)
  <1>1. s \in Seq(Char) /\ Len(s) \in Nat \ {0} /\ s[Len(s)] \in Char /\ Head(s) \in Char
    BY DEF Line
  <1>2. Len(s) - 1 \in 0..Len(s) /\ (Len(s) - 1) + 1 = Len(s)
    BY <1>1
  <1>3. /\ SubSeq(s, 1, Len(s) - 1) \in Line /\ Len(SubSeq(s, 1, Len(s) - 1)) = Len(s) - 1
        /\ s = SubSeq(s, 1, Len(s) - 1) \o SubSeq(s, Len(s), Len(s))
    BY <1>2, JoinLemma, ZenonT(40)
  <1>5. <<Head(s)>> \in Seq(Char) /\ Tail(s) \in Seq(Char) /\ <<s[Len(s)]>> \in Seq(Char)
    BY <1>1
  <1>4. SubSeq(s, Len(s), Len(s)) = <<s[Len(s)]>>
    <2> DEFINE t == SubSeq(s, Len(s), Len(s))
               u == <<s[Len(s)]>>
    <2>1. t \in Seq(Char) /\ Len(t) = 1 /\ t[1] = s[Len(s)]
      BY <1>1
    <2>2. u \in Seq(Char) /\ Len(u) = 1 /\ u[1] = s[Len(s)]
      BY <1>1
    <2> HIDE DEF t, u
    <2>3. t = u
      BY <2>1, <2>2
    <2> QED BY <2>3 DEF t, u
  <1>6. s = <<Head(s)>> \o Tail(s)
    BY <1>1, <1>5
  <1> QED BY <1>3, <1>4, <1>5, <1>6 DEF Front, Last, Line

(* A step that leaves the history alone and makes the line of l and r,     *)
(* with the cursor between them, is an edit to l and r.                    *)
LEMMA EditIs ==
    ASSUME NEW l \in Line, NEW r \in Line, UNCHANGED history,
           buffer' = l \o r, cursor' = Len(l)
    PROVE  Text!Edit(l, r)
  <1>1. Left' = l /\ Right' = r
    BY EditLemma
  <1> QED BY <1>1 DEF Text!Edit, Left, Right

(* A step that changes neither line, cursor nor history is a stutter.      *)
LEMMA StutterIs ==
    ASSUME UNCHANGED <<buffer, cursor, history>>
    PROVE  UNCHANGED Text!text
  BY DEF Text!text

(* A typed character goes left of the cursor.                              *)
LEMMA TypeIs == IInv /\ TypeChar => Text!Type
  <1> SUFFICES ASSUME IInv, TypeChar PROVE Text!Type
    OBVIOUS
  <1>1. PICK c \in Char : buffer' = InsertAt(buffer, cursor + 1, c)
    BY DEF TypeChar
  <1>2. cursor' = cursor + 1 /\ UNCHANGED history
    BY DEF TypeChar, Key
  <1>3. buffer' = (Left \o <<c>>) \o Right
    <2>1. (cursor + 1) - 1 = cursor
      BY SidesLemma
    <2> QED BY <1>1, <2>1, Zenon DEF InsertAt, Left, Right
  <1>4. /\ Append(Left, c) \in Line /\ Append(Left, c) = Left \o <<c>>
        /\ Len(Append(Left, c)) = cursor + 1
    BY SidesLemma, CharLemma
  <1>5. buffer' = Append(Left, c) \o Right
    BY <1>3, <1>4
  <1>6. Text!Edit(Append(Left, c), Right)
    BY <1>2, <1>4, <1>5, SidesLemma, EditIs
  <1> QED BY <1>6 DEF Text!Type, Left, Right

(* Backspace removes the character left of the cursor.                     *)
LEMMA BackspaceIs == IInv /\ Backspace => Text!Rubout
  <1> SUFFICES ASSUME IInv, Backspace PROVE Text!Rubout
    OBVIOUS
  <1>1. /\ cursor > 0 /\ buffer' = RemoveAt(buffer, cursor)
        /\ cursor' = cursor - 1 /\ UNCHANGED history
    BY DEF Backspace, Key
  <1>2. Left # <<>>
    BY <1>1, SidesLemma
  <1>3. Front(Left) \in Line /\ Len(Front(Left)) = cursor - 1
    BY <1>2, SidesLemma, EndsLemma
  <1>4. SubSeq(buffer, 1, cursor - 1) = Front(Left)
    <2>1. cursor - 1 \in 0..Len(buffer)
      BY <1>1, SidesLemma
    <2>2. /\ SubSeq(buffer, 1, cursor - 1) \in Line
          /\ Len(SubSeq(buffer, 1, cursor - 1)) = cursor - 1
      BY <2>1, SidesLemma, JoinLemma
    <2>3. \A i \in 1..(cursor - 1) : SubSeq(buffer, 1, cursor - 1)[i] = buffer[i]
      BY <2>1, SidesLemma, PrefixLemma DEF Line
    <2>4. Len(Left) - 1 \in 0..Len(Left) /\ Len(Left) = cursor /\ cursor \in Nat
      BY <1>1, SidesLemma
    <2>5. \A i \in 1..(cursor - 1) : Front(Left)[i] = Left[i]
      BY <2>4, SidesLemma, PrefixLemma DEF Line, Front
    <2>6. \A i \in 1..(cursor - 1) : Left[i] = buffer[i]
      BY <2>4, SidesLemma
    <2> QED BY <1>3, <2>2, <2>3, <2>5, <2>6, EqualLemma
  <1>5. buffer' = Front(Left) \o Right
    BY <1>1, <1>4 DEF RemoveAt, Right
  <1>6. Text!Edit(Front(Left), Right)
    BY <1>1, <1>3, <1>5, SidesLemma, EditIs
  <1> QED BY <1>2, <1>6 DEF Text!Rubout, Text!Front, Front, Left, Right

(* Ctrl-D removes the character right of it.                               *)
LEMMA CtrlDIs == IInv /\ CtrlD => Text!Delete
  <1> SUFFICES ASSUME IInv, CtrlD PROVE Text!Delete
    OBVIOUS
  <1>1. /\ cursor < Len(buffer) /\ buffer' = RemoveAt(buffer, cursor + 1)
        /\ UNCHANGED <<cursor, history>>
    BY DEF CtrlD, Key
  <1>2. Right # <<>>
    BY <1>1, SidesLemma
  <1>3. Tail(Right) \in Line
    BY <1>2, SidesLemma, EndsLemma
  <1>4. SubSeq(buffer, cursor + 2, Len(buffer)) = Tail(Right)
    <2>1. /\ cursor + 1 \in 0..Len(buffer) /\ (cursor + 1) + 1 = cursor + 2
          /\ cursor \in 0..Len(buffer)
      BY <1>1, SidesLemma
    <2>2. /\ SubSeq(buffer, cursor + 2, Len(buffer)) \in Line
          /\ Len(SubSeq(buffer, cursor + 2, Len(buffer))) = Len(buffer) - (cursor + 1)
          /\ \A i \in 1..(Len(buffer) - (cursor + 1)) :
               SubSeq(buffer, cursor + 2, Len(buffer))[i] = buffer[(cursor + 1) + i]
      <3>1. buffer \in Seq(Char)
        BY SidesLemma DEF Line
      <3>2. PICK k : k = cursor + 1
        OBVIOUS
      <3>3. k \in 0..Len(buffer) /\ k + 1 = cursor + 2
        BY <2>1, <3>2
      <3>4. /\ SubSeq(buffer, k + 1, Len(buffer)) \in Seq(Char)
            /\ Len(SubSeq(buffer, k + 1, Len(buffer))) = Len(buffer) - k
            /\ \A i \in 1..(Len(buffer) - k) : SubSeq(buffer, k + 1, Len(buffer))[i] = buffer[k + i]
        BY ONLY <3>1, <3>3, DropLemma
      <3> QED BY <3>2, <3>3, <3>4 DEF Line
    <2>3. Len(Tail(Right)) = Len(Right) - 1 /\ \A i \in 1..(Len(Right) - 1) : Tail(Right)[i] = Right[i + 1]
      BY <1>2, SidesLemma DEF Line
    <2>4. \A i \in 1..(Len(buffer) - cursor) : Right[i] = buffer[cursor + i]
      BY <2>1, SidesLemma, DropLemma DEF Line, Right
    <2>5. Len(Right) - 1 = Len(buffer) - (cursor + 1) /\ Len(buffer) \in Nat /\ cursor \in Nat
      BY SidesLemma
    <2>6. ASSUME NEW i \in 1..(Len(Right) - 1)
          PROVE  SubSeq(buffer, cursor + 2, Len(buffer))[i] = Tail(Right)[i]
      <3>1. i + 1 \in 1..(Len(buffer) - cursor) /\ (cursor + 1) + i = cursor + (i + 1)
        BY <2>5
      <3> QED BY <2>2, <2>3, <2>4, <2>5, <3>1
    <2> QED BY <1>3, <2>2, <2>3, <2>5, <2>6, EqualLemma
  <1>5. buffer' = Left \o Tail(Right)
    <2>1. (cursor + 1) - 1 = cursor /\ (cursor + 1) + 1 = cursor + 2
      BY SidesLemma
    <2> QED BY <1>1, <1>4, <2>1 DEF RemoveAt, Left
  <1>6. Text!Edit(Left, Tail(Right))
    BY <1>1, <1>3, <1>5, SidesLemma, EditIs
  <1> QED BY <1>2, <1>6 DEF Text!Delete, Left, Right

(* The cursor moves over the character left of it, and right of it.        *)
LEMMA MoveLeftIs == IInv /\ MoveLeft => Text!GoLeft
  <1> SUFFICES ASSUME IInv, MoveLeft PROVE Text!GoLeft
    OBVIOUS
  <1>1. cursor > 0 /\ cursor' = cursor - 1 /\ UNCHANGED <<buffer, history>>
    BY DEF MoveLeft
  <1>2. Left # <<>>
    BY <1>1, SidesLemma
  <1> DEFINE f == Front(Left)
             e == <<Last(Left)>>
  <1>3. f \in Line /\ Len(f) = cursor - 1 /\ e \in Line /\ Left = f \o e
    BY <1>2, SidesLemma, EndsLemma
  <1> HIDE DEF f, e
  <1>4. buffer' = f \o (e \o Right) /\ e \o Right \in Line
    <2>0. Right \in Line
      BY SidesLemma
    <2>1. (f \o e) \o Right = f \o (e \o Right) /\ e \o Right \in Line
      BY <1>3, <2>0, AssocLemma, ConcatLemma DEF Line
    <2>2. buffer' = (f \o e) \o Right
      BY <1>1, <1>3, SidesLemma
    <2> QED BY <2>0, <2>1, <2>2
  <1>5. Text!Edit(f, e \o Right)
    BY <1>1, <1>3, <1>4, EditIs
  <1>6. Text!Edit(Front(Left), <<Last(Left)>> \o Right)
    BY <1>5 DEF f, e
  <1> QED BY <1>2, <1>6 DEF Text!GoLeft, Text!Front, Front, Text!Last, Last, Left, Right

(* The other way. *)
LEMMA MoveRightIs == IInv /\ MoveRight => Text!GoRight
  <1> SUFFICES ASSUME IInv, MoveRight PROVE Text!GoRight
    OBVIOUS
  <1>1. cursor < Len(buffer) /\ cursor' = cursor + 1 /\ UNCHANGED <<buffer, history>>
    BY DEF MoveRight
  <1>2. Right # <<>>
    BY <1>1, SidesLemma
  <1> DEFINE h == Head(Right)
             t == Tail(Right)
  <1>3. h \in Char /\ t \in Line /\ Right = <<h>> \o t
    <2>1. Right \in Seq(Char)
      BY SidesLemma DEF Line
    <2>2. Head(Right) \in Char
      BY <1>2, <2>1
    <2> QED BY <1>2, <2>2, SidesLemma, EndsLemma
  <1> HIDE DEF h, t
  <1>4. /\ Append(Left, h) \in Line /\ Len(Append(Left, h)) = cursor + 1
        /\ <<h>> \in Line /\ Append(Left, h) = Left \o <<h>>
    BY <1>3, SidesLemma, CharLemma
  <1>5. buffer' = Append(Left, h) \o t
    <2>0. Left \in Line
      BY SidesLemma
    <2>1. (Left \o <<h>>) \o t = Left \o (<<h>> \o t)
      BY <1>3, <1>4, <2>0, AssocLemma
    <2>2. buffer' = Left \o (<<h>> \o t)
      BY <1>1, <1>3, SidesLemma
    <2> QED BY <1>4, <2>0, <2>1, <2>2
  <1>6. Text!Edit(Append(Left, h), t)
    BY <1>1, <1>3, <1>4, <1>5, EditIs
  <1> QED BY <1>2, <1>6 DEF Text!GoRight, Left, Right, h, t

(* Ctrl-A and Ctrl-E put all of the line right or left of the cursor.      *)
LEMMA CtrlAIs == IInv /\ CtrlA => Text!Home
  <1> SUFFICES ASSUME IInv, CtrlA PROVE Text!Home
    OBVIOUS
  <1>1. cursor' = 0 /\ UNCHANGED <<buffer, history>>
    BY DEF CtrlA, Key
  <1>2. /\ Left \o Right \in Line /\ <<>> \in Line /\ Len(<<>>) = 0
        /\ <<>> \o buffer = buffer
    BY SidesLemma, EmptyLemma
  <1>3. buffer' = <<>> \o (Left \o Right)
    BY <1>1, <1>2, SidesLemma
  <1>4. Text!Edit(<<>>, Left \o Right)
    BY <1>1, <1>2, <1>3, EditIs
  <1> QED BY <1>4 DEF Text!Home, Left, Right

(* The other way. *)
LEMMA CtrlEIs == IInv /\ CtrlE => Text!End
  <1> SUFFICES ASSUME IInv, CtrlE PROVE Text!End
    OBVIOUS
  <1>1. cursor' = Len(buffer) /\ UNCHANGED <<buffer, history>>
    BY DEF CtrlE, Key
  <1>2. <<>> \in Line /\ buffer \o <<>> = buffer /\ buffer = Left \o Right
    BY SidesLemma, EmptyLemma
  <1>3. Left \o Right \in Line /\ buffer' = (Left \o Right) \o <<>> /\ cursor' = Len(Left \o Right)
    BY <1>1, <1>2, SidesLemma
  <1>4. Text!Edit(Left \o Right, <<>>)
    BY <1>1, <1>2, <1>3, EditIs
  <1> QED BY <1>4 DEF Text!End, Left, Right

(* Ctrl-K and Ctrl-U drop what is right and what is left of the cursor.    *)
LEMMA CtrlKIs == IInv /\ CtrlK => Text!KillRight
  <1> SUFFICES ASSUME IInv, CtrlK PROVE Text!KillRight
    OBVIOUS
  <1>1. buffer' = Left /\ UNCHANGED <<cursor, history>>
    BY DEF CtrlK, Key, Left
  <1>2. <<>> \in Line /\ Left \o <<>> = Left
    BY SidesLemma, EmptyLemma
  <1>3. Text!Edit(Left, <<>>)
    BY <1>1, <1>2, SidesLemma, EditIs
  <1> QED BY <1>3 DEF Text!KillRight, Left, Right

(* The other way. *)
LEMMA CtrlUIs == IInv /\ CtrlU => Text!KillLeft
  <1> SUFFICES ASSUME IInv, CtrlU PROVE Text!KillLeft
    OBVIOUS
  <1>1. buffer' = Right /\ cursor' = 0 /\ UNCHANGED history
    BY DEF CtrlU, Key, Right
  <1>2. <<>> \in Line /\ <<>> \o Right = Right /\ Len(<<>>) = 0
    BY SidesLemma, EmptyLemma
  <1>3. Text!Edit(<<>>, Right)
    BY <1>1, <1>2, SidesLemma, EditIs
  <1> QED BY <1>3 DEF Text!KillLeft, Left, Right

(* Ctrl-W drops the blanks left of the cursor and the word before them,    *)
(* and nothing right of the cursor.                                        *)
LEMMA CtrlWIs == IInv /\ CtrlW => Text!KillWord
  <1> SUFFICES ASSUME IInv, CtrlW PROVE Text!KillWord
    OBVIOUS
  <1>0. PICK p \in 0..cursor : \E k \in 0..p :
          /\ SkippedBlanks(p) /\ SkippedWord(p, k) /\ k < cursor
          /\ buffer' = SubSeq(buffer, 1, k) \o SubSeq(buffer, cursor + 1, Len(buffer))
          /\ cursor' = k
    BY DEF CtrlW
  <1>1. PICK k \in 0..p :
          /\ SkippedBlanks(p) /\ SkippedWord(p, k) /\ k < cursor
          /\ buffer' = SubSeq(buffer, 1, k) \o SubSeq(buffer, cursor + 1, Len(buffer))
          /\ cursor' = k
    BY <1>0
  <1>2. UNCHANGED history
    BY DEF CtrlW, Key
  <1>3. /\ Left \in Line /\ Len(Left) = cursor /\ cursor \in Nat
        /\ \A i \in 1..cursor : Left[i] = buffer[i]
        /\ p \in 0..cursor /\ k \in 0..cursor /\ k <= p
    BY SidesLemma
  <1>4. /\ k > 0 => Left[k] = " "
        /\ p > 0 => Left[p] # " "
        /\ \A i \in k + 1..p : Left[i] # " "
        /\ \A i \in p + 1..Len(Left) : Left[i] = " "
    <2>1. \A i \in 1..cursor : Left[i] = buffer[i]
      BY <1>3
    <2>2. /\ k \in Nat /\ p \in Nat /\ k + 1..p \subseteq 1..cursor
          /\ p + 1..cursor \subseteq 1..cursor
          /\ (k > 0 => k \in 1..cursor) /\ (p > 0 => p \in 1..cursor)
      BY <1>3
    <2>3. /\ \A i \in p + 1..cursor : buffer[i] = " "
          /\ p > 0 => buffer[p] # " "
          /\ \A i \in k + 1..p : buffer[i] # " "
          /\ k > 0 => buffer[k] = " "
      BY <1>1 DEF SkippedBlanks, SkippedWord
    <2>4. k > 0 => Left[k] = " "
      BY <2>1, <2>2, <2>3
    <2>5. p > 0 => Left[p] # " "
      BY <2>1, <2>2, <2>3
    <2>6. \A i \in k + 1..p : Left[i] # " "
      BY <2>1, <2>2, <2>3
    <2>7. \A i \in p + 1..Len(Left) : Left[i] = " "
      BY <1>3, <2>1, <2>2, <2>3
    <2> QED BY <2>4, <2>5, <2>6, <2>7
  <1> DEFINE t == SubSeq(Left, 1, k)
  <1>5. t \in Line /\ Len(t) = k /\ \A i \in 1..k : t[i] = Left[i]
    BY <1>3, PrefixLemma DEF Line
  <1>6. SubSeq(buffer, 1, k) = t
    <2>1. k \in 0..Len(buffer) /\ buffer \in Line
      BY <1>3, SidesLemma
    <2>2. /\ SubSeq(buffer, 1, k) \in Line /\ Len(SubSeq(buffer, 1, k)) = k
          /\ \A i \in 1..k : SubSeq(buffer, 1, k)[i] = buffer[i]
      BY <2>1, PrefixLemma DEF Line
    <2>3. \A i \in 1..k : t[i] = buffer[i]
      BY <1>3, <1>5
    <2> HIDE DEF t
    <2> QED BY <1>5, <2>2, <2>3, EqualLemma
  <1>7. buffer' = t \o Right
    BY <1>1, <1>6 DEF Right
  <1> HIDE DEF t
  <1>8. Text!Edit(t, Right)
    BY <1>1, <1>2, <1>5, <1>7, SidesLemma, EditIs
  <1>9. k \in 0..Len(Left) /\ p \in 0..Len(Left)
    BY <1>3
  <1> QED BY <1>3, <1>4, <1>8, <1>9 DEF Text!KillWord, t, Left, Right

(* What is left of a position left of the cursor.                          *)
LEMMA LeftOfLeft ==
    ASSUME IInv, NEW k \in 0..cursor
    PROVE  SubSeq(buffer, 1, k) = SubSeq(Left, 1, k) /\ SubSeq(Left, 1, k) \in Line
           /\ Len(SubSeq(Left, 1, k)) = k
  <1>1. /\ Left \in Line /\ Len(Left) = cursor /\ \A i \in 1..cursor : Left[i] = buffer[i]
        /\ buffer \in Line /\ Len(buffer) \in Nat /\ cursor \in 0..Len(buffer)
    BY SidesLemma
  <1> DEFINE t == SubSeq(Left, 1, k)
             u == SubSeq(buffer, 1, k)
  <1>2. t \in Line /\ Len(t) = k /\ \A i \in 1..k : t[i] = Left[i]
    BY <1>1, PrefixLemma DEF Line
  <1>3. u \in Line /\ Len(u) = k /\ \A i \in 1..k : u[i] = buffer[i]
    <2>1. k \in 0..Len(buffer)
      BY <1>1
    <2> QED BY <1>1, <2>1, PrefixLemma DEF Line
  <1>4. \A i \in 1..k : t[i] = u[i]
    BY <1>1, <1>2, <1>3
  <1> HIDE DEF t, u
  <1>5. u = t
    BY <1>2, <1>3, <1>4, EqualLemma
  <1> QED BY <1>2, <1>5 DEF t, u

(* The last word, seen from behind it.                                     *)
LEMMA LastWordLemma ==
    ASSUME IInv, Right = <<>>, NEW s \in 0..Len(buffer) - 1, IsLastWord(s, Len(buffer))
    PROVE  /\ Left = buffer /\ s \in 0..Len(Left) - 1
           /\ s > 0 => Left[s] = " "
           /\ \A i \in s + 1..Len(Left) : Left[i] # " "
  <1>1. Left = buffer
    BY SidesLemma, EmptyLemma
  <1> QED BY <1>1, SidesLemma DEF IsLastWord

(* Tab behind a word completes it; elsewhere it appends to the line.       *)
LEMMA TabKeywordIs == IInv /\ TabKeyword => Text!CompleteWord \/ Text!CompleteAway
  <1> SUFFICES ASSUME IInv, TabKeyword PROVE Text!CompleteWord \/ Text!CompleteAway
    OBVIOUS
  <1>0. /\ Left \in Line /\ Len(Left) = cursor /\ Right \in Line
        /\ buffer = Left \o Right /\ Len(Right) = Len(buffer) - cursor
        /\ buffer \in Line /\ Len(buffer) \in Nat /\ cursor \in 0..Len(buffer)
    BY SidesLemma
  <1>a. PICK e \in 1..Len(buffer), keyword \in Keyword : \E s \in 0..e - 1 : \E k \in 0..cursor :
             /\ IsLastWord(s, e) /\ IsStrictPrefix(SubSeq(buffer, s + 1, e), keyword)
             /\ e - s <= cursor => k = cursor - (e - s)
             /\ buffer' = SubSeq(buffer, 1, k) \o Right \o Append(keyword, " ")
    BY TabKeywordDoes, Zenon DEF Right
  <1>b. PICK s \in 0..e - 1 : \E k \in 0..cursor :
             /\ IsLastWord(s, e) /\ IsStrictPrefix(SubSeq(buffer, s + 1, e), keyword)
             /\ e - s <= cursor => k = cursor - (e - s)
             /\ buffer' = SubSeq(buffer, 1, k) \o Right \o Append(keyword, " ")
    BY <1>a, Zenon
  <1>1. PICK k \in 0..cursor :
             /\ IsLastWord(s, e) /\ IsStrictPrefix(SubSeq(buffer, s + 1, e), keyword)
             /\ e - s <= cursor => k = cursor - (e - s)
             /\ buffer' = SubSeq(buffer, 1, k) \o Right \o Append(keyword, " ")
    BY <1>b, Zenon
  <1>c. e \in Nat /\ e <= Len(buffer) /\ s \in Nat /\ s < e /\ Len(buffer) \in Nat
    BY <1>0
  <1>2. cursor' = Len(buffer') /\ UNCHANGED history
    BY DEF TabKeyword, Key
  <1> DEFINE t == SubSeq(Left, 1, k)
  <1>3. t \in Line /\ SubSeq(buffer, 1, k) = t
    BY LeftOfLeft
  <1> HIDE DEF t
  <1>4. /\ keyword \in Line /\ Append(keyword, " ") \in Line /\ <<" ">> \in Line
        /\ Append(keyword, " ") = keyword \o <<" ">>
    BY KeywordLemma
  <1>5. t \o Right \in Line /\ (t \o Right) \o Append(keyword, " ") \in Line
    BY <1>0, <1>3, <1>4, ConcatLemma DEF Line
  <1>6. buffer' = ((t \o Right) \o Append(keyword, " ")) \o <<>> /\ <<>> \in Line
    BY <1>1, <1>3, <1>5, EmptyLemma
  <1>7. Text!Edit((t \o Right) \o Append(keyword, " "), <<>>)
    <2>1. cursor' = Len((t \o Right) \o Append(keyword, " "))
      BY <1>2, <1>5, <1>6, EmptyLemma
    <2> QED BY <1>2, <1>5, <1>6, <2>1, EditIs
  <1>8. CASE Right # <<>> \/ (Left # <<>> /\ Last(Left) = " ")
    <2>1. k \in 0..Len(Left)
      BY <1>0
    <2> QED BY <1>7, <1>8, <2>1 DEF Text!CompleteAway, Text!Last, Last, t, Left, Right
  <1>9. CASE Right = <<>> /\ (Left = <<>> \/ Last(Left) # " ")
    <2>1. cursor = Len(buffer) /\ Left = buffer
      <3>1. Len(Right) = 0
        BY <1>9
      <3> QED BY <1>0, <1>9, <3>1, EmptyLemma
    <2>2. e = Len(buffer)
      <3>1. Len(buffer) > 0 /\ Left # <<>>
        BY <1>0, <2>1
      <3>2. buffer[Len(buffer)] # " "
        BY <1>9, <2>1, <3>1 DEF Last
      <3>3. e < Len(buffer) => Len(buffer) \in e + 1..Len(buffer)
        BY <1>0
      <3>4. \A i \in e + 1..Len(buffer) : buffer[i] = " "
        BY <1>1 DEF IsLastWord
      <3>5. e \in Nat /\ e <= Len(buffer) /\ ~(e < Len(buffer))
        BY <1>c, <3>2, <3>3, <3>4
      <3> QED BY <1>0, <3>5
    <2>3. k = s
      <3>1. e - s <= cursor => k = cursor - (e - s)
        BY <1>1, Zenon
      <3> QED BY <1>c, <2>1, <2>2, <3>1
    <2>4. /\ s \in 0..Len(Left) - 1 /\ (s > 0 => Left[s] = " ")
          /\ \A i \in s + 1..Len(Left) : Left[i] # " "
      BY <1>1, <1>9, <2>2, LastWordLemma
    <2>5. Text!IsPrefix(SubSeq(Left, s + 1, Len(Left)), keyword)
      BY <1>1, <2>1, <2>2 DEF Text!IsPrefix, IsPrefix, IsStrictPrefix
    <2>6. (t \o Right) \o Append(keyword, " ") = t \o keyword \o <<" ">>
      <3>1. t \o Right = t
        BY <1>3, <1>9, EmptyLemma
      <3>2. (t \o keyword) \o <<" ">> = t \o (keyword \o <<" ">>)
        BY <1>3, <1>4, AssocLemma
      <3> QED BY <1>4, <3>1, <3>2
    <2>7. Text!Edit(SubSeq(Left, 1, s) \o keyword \o <<" ">>, <<>>)
      BY <1>7, <2>3, <2>6 DEF t
    <2> QED BY <1>9, <2>4, <2>5, <2>7 DEF Text!CompleteWord, Left, Right
  <1> QED BY <1>8, <1>9

(* A word that is complete gets a blank, behind it or at the end.          *)
LEMMA TabBlankIs == IInv /\ TabBlank => Text!CompleteWord \/ Text!CompleteAway
  <1> SUFFICES ASSUME IInv, TabBlank PROVE Text!CompleteWord \/ Text!CompleteAway
    OBVIOUS
  <1>0. /\ Left \in Line /\ Len(Left) = cursor /\ Right \in Line
        /\ buffer = Left \o Right
        /\ buffer \in Line /\ Len(buffer) \in Nat /\ cursor \in 0..Len(buffer)
    BY SidesLemma
  <1>1. PICK s \in 0..Len(buffer) - 1 :
          IsLastWord(s, Len(buffer)) /\ SubSeq(buffer, s + 1, Len(buffer)) \in Keyword
    BY DEF TabBlank
  <1>2. buffer' = Append(buffer, " ") /\ cursor' = Len(buffer') /\ UNCHANGED history
    BY DEF TabBlank, Key
  <1>3. /\ <<" ">> \in Line /\ Append(buffer, " ") = buffer \o <<" ">>
        /\ buffer \o <<" ">> \in Line
    BY <1>0, CharLemma, EditorAssumption
  <1>4. Text!Edit(buffer \o <<" ">>, <<>>)
    <2>1. buffer' = (buffer \o <<" ">>) \o <<>> /\ <<>> \in Line
      BY <1>2, <1>3, EmptyLemma
    <2> QED BY <1>2, <1>3, <2>1, EditIs
  <1>5. CASE Right # <<>>
    <2>1. SubSeq(Left, 1, Len(Left)) = Left /\ Len(Left) \in 0..Len(Left)
      <3>1. Len(Left) \in 0..cursor /\ Len(Left) \in 0..Len(Left)
        BY <1>0
      <3>2. Left \o <<>> = Left
        BY <1>0, EmptyLemma
      <3>3. <<>> \in Line
        BY <1>0, EmptyLemma
      <3> QED BY <1>0, <3>1, <3>2, <3>3, SplitLemma
    <2>2. Append(<<>>, " ") = <<" ">>
      OBVIOUS
    <2>3. Text!Edit(SubSeq(Left, 1, Len(Left)) \o Right \o Append(<<>>, " "), <<>>)
      BY <1>0, <1>4, <2>1, <2>2
    <2> QED BY <1>5, <2>1, <2>3 DEF Text!CompleteAway, Left, Right
  <1>6. CASE Right = <<>>
    <2> DEFINE word == SubSeq(Left, s + 1, Len(Left))
               t == SubSeq(Left, 1, s)
    <2>1. /\ Left = buffer /\ s \in 0..Len(Left) - 1 /\ (s > 0 => Left[s] = " ")
          /\ \A i \in s + 1..Len(Left) : Left[i] # " "
      BY <1>1, <1>6, LastWordLemma
    <2>2. s \in 0..Len(Left)
      <3>1. Len(Left) \in Nat /\ s \in 0..Len(Left) - 1
        BY <1>0, <2>1
      <3> QED BY <3>1
    <2>3. Left = t \o word /\ word \in Line
      BY <1>0, <2>2, JoinLemma
    <2>4. word \in Keyword
      BY <1>1, <2>1
    <2>5. Text!IsPrefix(word, word)
      BY DEF Text!IsPrefix
    <2> HIDE DEF word, t
    <2>6. Text!Edit(t \o word \o <<" ">>, <<>>)
      BY <1>4, <2>1, <2>3
    <2> QED BY <1>6, <2>1, <2>4, <2>5, <2>6 DEF Text!CompleteWord, Left, Right, word, t
  <1> QED BY <1>5, <1>6

(* A step to an empty line. *)
LEMMA EmptyIs ==
    ASSUME buffer' = <<>>, cursor' = 0
    PROVE  Left' = <<>> /\ Right' = <<>>
  <1>1. <<>> \in Line /\ <<>> \o <<>> = <<>> /\ Len(<<>>) = 0
    BY EmptyLemma DEF Line
  <1> QED BY <1>1, EditLemma

(* Ctrl-C and Ctrl-Z drop the line. *)
LEMMA CtrlCIs == IInv /\ (CtrlC \/ CtrlZ) => Text!Cancel
  <1> SUFFICES ASSUME IInv, CtrlC \/ CtrlZ PROVE Text!Cancel
    OBVIOUS
  <1>1. buffer' = <<>> /\ cursor' = 0 /\ UNCHANGED history
    BY DEF CtrlC, CtrlZ, Key
  <1>2. Left' = <<>> /\ Right' = <<>>
    BY <1>1, EmptyIs
  <1> QED BY <1>1, <1>2 DEF Text!Cancel, Text!Empty, Left, Right

(* What ToSet() holds after a line is appended. *)
LEMMA ToSetLemma ==
    ASSUME NEW line \in Line, NEW s \in Seq(Line)
    PROVE  ToSet(Append(s, line)) = ToSet(s) \union {line}
  BY AppendLemma DEF ToSet

(* CR submits the line: it joins those that the arrows recall, unless it   *)
(* is blank; a line equal to the last one is among them already.           *)
LEMMA SubmitIs == IInv /\ Submit => Text!Submit
  <1> SUFFICES ASSUME IInv, Submit PROVE Text!Submit
    OBVIOUS
  <1>1. /\ history' = Remembered(buffer) /\ buffer' = <<>> /\ cursor' = 0
        /\ history \in Seq(Line)
    BY DEF Submit, IInv, TypeOK
  <1>2. Left' = <<>> /\ Right' = <<>>
    BY <1>1, EmptyIs
  <1>3. ToSet(history)' = IF IsBlank(buffer) THEN ToSet(history) ELSE ToSet(history) \union {buffer}
    <2>1. CASE IsBlank(buffer)
      BY <1>1, <2>1 DEF Remembered
    <2>2. CASE ~IsBlank(buffer) /\ history # <<>> /\ Last(history) = buffer
      <3>1. history' = history
        BY <1>1, <2>2 DEF Remembered
      <3>2. buffer \in ToSet(history)
        BY <1>1, <2>2 DEF ToSet, Last
      <3> QED BY <2>2, <3>1, <3>2
    <2>3. CASE ~IsBlank(buffer) /\ ~(history # <<>> /\ Last(history) = buffer)
      <3>1. history' = Append(history, buffer)
        BY <1>1, <2>3 DEF Remembered
      <3> QED BY <1>1, <2>3, <3>1, SidesLemma, ToSetLemma
    <2> QED BY <2>1, <2>2, <2>3
  <1>4. ToSet(history)' = IF \A i \in 1..Len(Left \o Right) : (Left \o Right)[i] = " "
                            THEN ToSet(history) ELSE ToSet(history) \union {Left \o Right}
    BY <1>3, SidesLemma DEF IsBlank
  <1> QED BY <1>2, <1>4 DEF Text!Submit, Text!Empty, Text!ToSet, ToSet, Left, Right

(* A recalled line is one of those submitted. *)
LEMMA RecallIs ==
    ASSUME IInv, UNCHANGED history, NEW i \in 1..Len(history), Recall(history[i])
    PROVE  Text!Recall
  <1> DEFINE line == history[i]
  <1>1. line \in Line /\ line \in ToSet(history)
    BY DEF IInv, TypeOK, ToSet
  <1>2. buffer' = line /\ cursor' = Len(line)
    BY DEF Recall, RedrawLine
  <1> HIDE DEF line
  <1>3. <<>> \in Line /\ line \o <<>> = line
    BY <1>1, EmptyLemma
  <1>4. Text!Edit(line, <<>>)
    BY <1>1, <1>2, <1>3, EditIs
  <1> QED BY <1>1, <1>4 DEF Text!Recall, Text!ToSet, ToSet

(* Every key does to the text on both sides of the cursor what it promises,*)
(* or nothing.                                                             *)
LEMMA KeyIs == IInv /\ [Next]_vars => [Text!Next]_(Text!text)
  <1> SUFFICES ASSUME IInv, [Next]_vars PROVE [Text!Next]_(Text!text)
    OBVIOUS
  <1>1. CASE Up
    <2>1. history # <<>> /\ Recall(history[index']) /\ UNCHANGED history
      BY <1>1 DEF Up
    <2>2. history \in Seq(Line) /\ index \in 0..Len(history)
      BY DEF IInv, TypeOK, NoPanic
    <2>3. index' \in 1..Len(history)
      BY <1>1, <2>1, <2>2 DEF Up, NotRecalling
    <2>4. Text!Recall
      BY <2>1, <2>3, RecallIs
    <2> QED BY <2>4 DEF Text!Next
  <1>2. CASE Down
    <2>1. /\ UNCHANGED history /\ index # 0
          /\ index' = (IF index + 1 > Len(history) THEN 0 ELSE index + 1)
          /\ Recall(IF index' = 0 THEN <<>> ELSE history[index'])
      BY <1>2 DEF Down, NotRecalling
    <2>2. history \in Seq(Line) /\ index \in 0..Len(history)
      BY DEF IInv, TypeOK, NoPanic
    <2>3. CASE index' = 0
      <3>1. buffer' = <<>> /\ cursor' = Len(<<>>) /\ Len(<<>>) = 0
        BY <2>1, <2>3 DEF Recall, RedrawLine
      <3>2. Left' = <<>> /\ Right' = <<>>
        BY <3>1, EmptyIs
      <3> QED BY <2>1, <3>2 DEF Text!Next, Text!Cancel, Text!Empty, Left, Right
    <2>4. CASE index' # 0
      <3>1. index' \in 1..Len(history)
        BY <2>1, <2>2, <2>4
      <3>2. Text!Recall
        BY <2>1, <2>4, <3>1, RecallIs
      <3> QED BY <3>2 DEF Text!Next
    <2> QED BY <2>3, <2>4
  <1>3. CASE CtrlB \/ LeftArrow
    BY <1>3, MoveLeftIs DEF CtrlB, LeftArrow, Text!Next
  <1>4. CASE CtrlF \/ RightArrow
    BY <1>4, MoveRightIs DEF CtrlF, RightArrow, Text!Next
  <1>5. CASE Escape \/ Bracket \/ NoKey \/ Question \/ UNCHANGED vars
    <2>1. UNCHANGED <<buffer, cursor, history>>
      BY <1>5 DEF Escape, Bracket, NoKey, Question, Key, vars, editor
    <2> QED BY <2>1, StutterIs
  <1>6. CASE TypeChar \/ Backspace \/ CtrlD \/ CtrlA \/ CtrlE
    BY <1>6, TypeIs, BackspaceIs, CtrlDIs, CtrlAIs, CtrlEIs DEF Text!Next
  <1>7. CASE CtrlK \/ CtrlU \/ CtrlW \/ TabKeyword \/ TabBlank \/ CtrlC \/ CtrlZ \/ Submit
    BY <1>7, CtrlKIs, CtrlUIs, CtrlWIs, TabKeywordIs, TabBlankIs, CtrlCIs, SubmitIs DEF Text!Next
  <1> QED BY <1>1, <1>2, <1>3, <1>4, <1>5, <1>6, <1>7 DEF Next

(* The editor implements the abstract one: each key does what the table of *)
(* editing keys says to the text left and right of the cursor, and only    *)
(* submitted lines come back, whatever is typed and however long.          *)
THEOREM EditorIsLineBuffer == Spec => LineBufferSpec
  <1>1. Init => Text!Init
    <2> SUFFICES ASSUME Init PROVE Text!Init
      OBVIOUS
    <2>1. buffer = <<>> /\ cursor = 0 /\ history = <<>>
      BY DEF Init
    <2>2. SubSeq(<<>>, 1, 0) = <<>> /\ SubSeq(<<>>, 0 + 1, Len(<<>>)) = <<>>
      <3>1. <<>> \in Line /\ <<>> \o <<>> = <<>> /\ Len(<<>>) = 0
        BY EmptyLemma DEF Line
      <3> QED BY <3>1, SplitLemma
    <2>3. Text!ToSet(<<>>) = {}
      BY DEF Text!ToSet
    <2>4. ToSet(<<>>) = {}
      BY DEF ToSet
    <2> QED BY <2>1, <2>2, <2>3, <2>4 DEF Text!Init
  <1>2. Init => IInv
    BY InitHolds
  <1>3. IInv /\ [Next]_vars => IInv'
    BY KeyHolds
  <1>4. IInv /\ [Next]_vars => [Text!Next]_(Text!text)
    BY KeyIs
  <1> QED BY <1>1, <1>2, <1>3, <1>4, PTL DEF Spec, LineBufferSpec, Text!Spec

-----------------------------------------------------------------------------
(* The terminal.                                                           *)

Cell == Char \union {PromptCell}
Row  == Seq(Cell)

At(r, i) == IF i <= Len(r) THEN r[i] ELSE " "

(* A row is padded with blanks or cut to n cells. *)
LEMMA CellsLemma ==
    ASSUME NEW r \in Row, NEW n \in Nat
    PROVE  /\ Cells(r, n) \in Row /\ Len(Cells(r, n)) = n
           /\ \A i \in 1..n : Cells(r, n)[i] = At(r, i)
  <1>1. Len(r) \in Nat /\ \A i \in 1..Len(r) : r[i] \in Cell
    BY DEF Row
  <1>2. " " \in Cell
    BY EditorAssumption DEF Cell
  <1>3. ASSUME NEW i \in 1..n PROVE (IF i <= Len(r) THEN r[i] ELSE " ") \in Cell
    <2>1. CASE i <= Len(r)
      <3>1. i \in 1..Len(r)
        BY <1>1, <2>1
      <3> QED BY <1>1, <2>1, <3>1
    <2>2. CASE ~(i <= Len(r))
      BY <1>2, <2>2
    <2> QED BY <2>1, <2>2
  <1>4. Cells(r, n) \in [1..n -> Cell]
    BY <1>3 DEF Cells
  <1>5. Cells(r, n) \in Row /\ Len(Cells(r, n)) = n
    BY <1>4 DEF Row
  <1>6. \A i \in 1..n : Cells(r, n)[i] = At(r, i)
    BY DEF Cells, At
  <1> QED BY <1>5, <1>6

(* Two parts put together, by its elements. *)
LEMMA PartsLemma ==
    ASSUME NEW a \in Row, NEW c \in Row
    PROVE  \E m \in Row : /\ m = a \o c /\ Len(m) = Len(a) + Len(c)
                          /\ \A i \in 1..Len(a) : m[i] = a[i]
                          /\ \A i \in 1..Len(c) : m[Len(a) + i] = c[i]
  <1>1. /\ a \o c \in Row /\ Len(a \o c) = Len(a) + Len(c)
        /\ \A i \in 1..Len(a) : (a \o c)[i] = a[i]
        /\ \A i \in 1..Len(c) : (a \o c)[Len(a) + i] = c[i]
    BY ConcatLemma DEF Row
  <1> QED BY <1>1, Zenon

(* Output overwrites the cells from the cursor on and moves the cursor     *)
(* behind it.                                                              *)
LEMMA PutLemma ==
    ASSUME NEW r \in Row, NEW n \in Nat, NEW c \in Row
    PROVE  \E q \in Row :
             /\ Put(<<r, n>>, c) = <<q, n + Len(c)>>
             /\ Len(q) >= n + Len(c)
             /\ Len(q) = n + Len(c) \/ Len(q) = Len(r)
             /\ \A i \in 1..n : q[i] = At(r, i)
             /\ \A i \in 1..Len(c) : q[n + i] = c[i]
             /\ \A i \in 1..(Len(q) - (n + Len(c))) : q[n + Len(c) + i] = r[n + Len(c) + i]
  <1>1. PICK a \in Row : a = Cells(r, n) /\ Len(a) = n /\ \A i \in 1..n : a[i] = At(r, i)
    BY CellsLemma
  <1>2. PICK k \in Nat : k = n + Len(c)
    BY DEF Row
  <1>3. PICK b \in Row :
          /\ b = SubSeq(r, k + 1, Len(r))
          /\ Len(b) = IF k <= Len(r) THEN Len(r) - k ELSE 0
          /\ \A i \in 1..Len(b) : b[i] = r[k + i]
    <2>1. CASE k <= Len(r)
      <3>1. k \in 0..Len(r)
        BY <2>1 DEF Row
      <3>2. /\ SubSeq(r, k + 1, Len(r)) \in Row /\ Len(SubSeq(r, k + 1, Len(r))) = Len(r) - k
            /\ \A i \in 1 .. (Len(r) - k) : SubSeq(r, k + 1, Len(r))[i] = r[k + i]
        BY <3>1, DropLemma DEF Row
      <3>3. Len(SubSeq(r, k + 1, Len(r))) = IF k <= Len(r) THEN Len(r) - k ELSE 0
        BY <2>1, <3>2, Zenon
      <3> QED BY <3>2, <3>3, Zenon
    <2>2. CASE ~(k <= Len(r))
      <3>1. SubSeq(r, k + 1, Len(r)) = <<>>
        BY <2>2 DEF Row
      <3>2. <<>> \in Row /\ Len(<<>>) = 0
        BY DEF Row
      <3>3. Len(<<>>) = (IF k <= Len(r) THEN Len(r) - k ELSE 0) /\ \A i \in 1..Len(<<>>) : FALSE
        BY <2>2, <3>2
      <3> QED BY <3>1, <3>2, <3>3, Zenon
    <2> QED BY <2>1, <2>2
  <1>4. PICK m \in Row : /\ m = a \o c /\ Len(m) = Len(a) + Len(c)
                         /\ \A i \in 1..Len(a) : m[i] = a[i]
                         /\ \A i \in 1..Len(c) : m[Len(a) + i] = c[i]
    BY PartsLemma, Zenon
  <1>5. PICK q \in Row : /\ q = m \o b /\ Len(q) = Len(m) + Len(b)
                         /\ \A i \in 1..Len(m) : q[i] = m[i]
                         /\ \A i \in 1..Len(b) : q[Len(m) + i] = b[i]
    BY PartsLemma, Zenon
  <1>6. Put(<<r, n>>, c) = <<q, k>>
    BY <1>1, <1>2, <1>3, <1>4, <1>5 DEF Put
  <1>7. Len(m) = k /\ Len(a) = n
    BY <1>1, <1>2, <1>4
  <1>8. Len(q) = k + Len(b) /\ Len(b) \in Nat /\ Len(r) \in Nat /\ Len(c) \in Nat
    BY <1>5, <1>7 DEF Row
  <1>9. Len(q) >= k /\ (Len(q) = k \/ Len(q) = Len(r)) /\ Len(b) = Len(q) - k
    <2>1. Len(b) = IF k <= Len(r) THEN Len(r) - k ELSE 0
      BY <1>3
    <2> QED BY <1>8, <2>1
  <1>10. /\ \A i \in 1..n : i \in 1..k
         /\ \A i \in 1..Len(c) : n + i \in 1..k
    BY <1>2, <1>8
  <1>11. \A i \in 1..n : q[i] = At(r, i)
    BY <1>1, <1>4, <1>5, <1>7, <1>10
  <1>12. \A i \in 1..Len(c) : q[n + i] = c[i]
    BY <1>4, <1>5, <1>7, <1>10
  <1>13. \A i \in 1..(Len(q) - k) : q[k + i] = r[k + i]
    <2>1. \A i \in 1..Len(b) : q[k + i] = b[i]
      BY <1>5, <1>7, Zenon
    <2>2. \A i \in 1..Len(b) : b[i] = r[k + i]
      BY <1>3
    <2>3. Len(q) - k = Len(b)
      BY <1>9
    <2> QED BY <2>1, <2>2, <2>3, Zenon
  <1> QED BY <1>2, <1>6, <1>9, <1>11, <1>12, <1>13

(* Erasing to the right leaves the cells left of the cursor.               *)
LEMMA EraseLemma ==
    ASSUME NEW r \in Row, NEW n \in 0..Len(r)
    PROVE  \E q \in Row :
             /\ EraseRight(<<r, n>>) = <<q, n>> /\ Len(q) = n
             /\ \A i \in 1..n : q[i] = r[i]
  <1>1. n \in Nat /\ Len(r) \in Nat
    BY DEF Row
  <1>2. /\ Cells(r, n) \in Row /\ Len(Cells(r, n)) = n
        /\ \A i \in 1..n : Cells(r, n)[i] = At(r, i)
    BY <1>1, CellsLemma
  <1>3. ASSUME NEW i \in 1..n PROVE At(r, i) = r[i]
    <2>1. i <= Len(r)
      BY <1>1
    <2> QED BY <2>1 DEF At
  <1>4. EraseRight(<<r, n>>) = <<Cells(r, n), n>>
    BY DEF EraseRight
  <1> QED BY <1>2, <1>3, <1>4

(* Row r shows line l, whose first character is right of cell s.           *)
Shown(r, s, l) ==
    /\ Len(r) >= s + Len(l)
    /\ \A i \in 1..(Len(r) - s) : r[s + i] = IF i <= Len(l) THEN l[i] ELSE " "

(* redraw_from_cursor() makes the row show the line if it does so left of  *)
(* the cursor.                                                             *)
LEMMA RedrawLemma ==
    ASSUME NEW r \in Row, NEW s \in Nat, NEW l \in Line, NEW c \in 0..Len(l),
           \A i \in 1..c : At(r, s + i) = l[i]
    PROVE  \E q \in Row : RedrawFromCursor(<<r, s + c>>, l, c) = <<q, s + c>> /\ Shown(q, s, l)
  <1> DEFINE d == SubSeq(l, c + 1, Len(l))
  <1>1. l \in Seq(Char) /\ Len(l) \in Nat /\ c \in Nat /\ s + c \in Nat
    BY DEF Line
  <1>2. d \in Row /\ Len(d) = Len(l) - c /\ \A i \in 1..(Len(l) - c) : d[i] = l[c + i]
    <2>1. d \in Seq(Char) /\ Len(d) = Len(l) - c /\ \A i \in 1..(Len(l) - c) : d[i] = l[c + i]
      BY <1>1, DropLemma
    <2> HIDE DEF d
    <2>2. d \in Seq(Cell)
      BY <2>1 DEF Cell
    <2> QED BY <2>1, <2>2 DEF Row
  <1> HIDE DEF d
  <1>3. (s + c) + Len(d) = s + Len(l) /\ s + Len(l) \in Nat
    BY <1>1, <1>2
  <1>4. PICK q1 \in Row :
          /\ Put(<<r, s + c>>, d) = <<q1, s + Len(l)>> /\ Len(q1) >= s + Len(l)
          /\ \A i \in 1..(s + c) : q1[i] = At(r, i)
          /\ \A i \in 1..Len(d) : q1[(s + c) + i] = d[i]
    <2>1. \E q \in Row :
             /\ Put(<<r, s + c>>, d) = <<q, (s + c) + Len(d)>>
             /\ Len(q) >= (s + c) + Len(d)
             /\ \A i \in 1..(s + c) : q[i] = At(r, i)
             /\ \A i \in 1..Len(d) : q[(s + c) + i] = d[i]
      <3>1. s + c \in Nat /\ d \in Row
        BY <1>1, <1>2
      <3> DEFINE n == s + c
      <3> HIDE DEF n
      <3>2. n \in Nat
        BY <3>1 DEF n
      <3>3. \E q \in Row :
             /\ Put(<<r, n>>, d) = <<q, n + Len(d)>>
             /\ Len(q) >= n + Len(d)
             /\ \A i \in 1..n : q[i] = At(r, i)
             /\ \A i \in 1..Len(d) : q[n + i] = d[i]
        BY <3>1, <3>2, PutLemma
      <3> QED BY <3>3 DEF n
    <2> QED BY <1>3, <2>1
  <1>5. s + Len(l) \in 0..Len(q1)
    BY <1>3, <1>4 DEF Row
  <1>6. PICK q \in Row :
          /\ EraseRight(<<q1, s + Len(l)>>) = <<q, s + Len(l)>> /\ Len(q) = s + Len(l)
          /\ \A i \in 1..(s + Len(l)) : q[i] = q1[i]
    BY <1>5, EraseLemma
  <1>7. Back(<<q, s + Len(l)>>, Len(l) - c) = <<q, s + c>>
    <2>1. Len(l) - c <= s + Len(l) /\ (s + Len(l)) - (Len(l) - c) = s + c
      BY <1>1
    <2> QED BY <2>1 DEF Back
  <1>8. RedrawFromCursor(<<r, s + c>>, l, c) = <<q, s + c>>
    BY <1>4, <1>6, <1>7 DEF RedrawFromCursor, d
  <1>9. ASSUME NEW i \in 1..Len(l) PROVE q[s + i] = l[i]
    <2>1. s + i \in 1..(s + Len(l)) /\ i \in Nat
      BY <1>1
    <2>2. CASE i <= c
      <3>1. s + i \in 1..(s + c) /\ i \in 1..c
        BY <1>1, <2>1, <2>2
      <3> QED BY <1>4, <1>6, <2>1, <3>1
    <2>3. CASE i > c
      <3>1. i - c \in 1..(Len(l) - c) /\ (s + c) + (i - c) = s + i /\ c + (i - c) = i
        BY <1>1, <2>1, <2>3
      <3>2. d[i - c] = l[i]
        BY <1>2, <3>1
      <3>3. q1[s + i] = d[i - c]
        BY <1>2, <1>4, <3>1
      <3> QED BY <1>6, <2>1, <3>2, <3>3
    <2>4. i <= c \/ i > c
      BY <1>1, <2>1
    <2> QED BY <2>2, <2>3, <2>4
  <1>10. Len(q) - s = Len(l) /\ Len(q) >= s + Len(l)
    BY <1>1, <1>3, <1>6
  <1>11. ASSUME NEW i \in 1..(Len(q) - s) PROVE q[s + i] = IF i <= Len(l) THEN l[i] ELSE " "
    <2>1. i \in 1..Len(l) /\ i <= Len(l)
      BY <1>1, <1>10
    <2> QED BY <1>9, <2>1
  <1>12. Shown(q, s, l)
    BY <1>10, <1>11 DEF Shown
  <1> QED BY <1>8, <1>12

(* What the terminal holds: cells, unless it is not followed, and the line *)
(* where its state says.                                                   *)
TerminalInv ==
    /\ row \in Row /\ col \in Nat /\ start \in Nat /\ torn \in BOOLEAN
    /\ ~torn => col = start + cursor /\ Shown(row, start, buffer)

(* A step that leaves the terminal unfollowed, or showing the new line in  *)
(* place.                                                                  *)
LEMMA ShowLemma ==
    ASSUME NEW q \in Row, NEW n \in Nat, NEW tears \in BOOLEAN, start' \in Nat,
           \/ ShowsUnless(<<q, n>>, tears) /\ n = start' + cursor' /\ Shown(q, start', buffer')
           \/ \E t : ShowsUnless(t, tears) /\ tears
    PROVE  TerminalInv'
  <1>1. CASE ShowsUnless(<<q, n>>, tears) /\ ~tears /\ n = start' + cursor' /\ Shown(q, start', buffer')
    <2>1. torn' = FALSE /\ row' = q /\ col' = n
      BY <1>1 DEF ShowsUnless
    <2> QED BY <1>1, <2>1 DEF TerminalInv, Shown
  <1>2. CASE \E t : ShowsUnless(t, tears) /\ tears
    <2>1. torn' = TRUE /\ row' = <<>> /\ col' = 0
      BY <1>2 DEF ShowsUnless
    <2>2. <<>> \in Row
      BY DEF Row
    <2> QED BY <2>1, <2>2 DEF TerminalInv
  <1>3. CASE ShowsUnless(<<q, n>>, tears) /\ tears
    BY <1>2, <1>3
  <1> QED BY <1>1, <1>2, <1>3

(* What the invariants say of a terminal in step. *)
LEMMA InStepLemma ==
    ASSUME IInv, TerminalInv, ~torn
    PROVE  /\ buffer \in Line /\ Len(buffer) \in Nat /\ cursor \in 0..Len(buffer)
           /\ Len(row) \in Nat /\ start \in Nat /\ col = start + cursor
           /\ Len(row) >= start + Len(buffer)
           /\ \A i \in 1..Len(buffer) : At(row, start + i) = buffer[i] /\ row[start + i] = buffer[i]
           /\ \A i \in 1..(Len(row) - start) : i > Len(buffer) => row[start + i] = " "
  <1>1. /\ buffer \in Line /\ Len(buffer) \in Nat /\ cursor \in 0..Len(buffer)
        /\ Len(row) \in Nat /\ start \in Nat
    BY SidesLemma DEF TerminalInv, Row
  <1>2. /\ col = start + cursor /\ Len(row) >= start + Len(buffer)
        /\ \A i \in 1..(Len(row) - start) : row[start + i] = IF i <= Len(buffer) THEN buffer[i] ELSE " "
    BY DEF TerminalInv, Shown
  <1>3. ASSUME NEW i \in 1..Len(buffer) PROVE At(row, start + i) = buffer[i] /\ row[start + i] = buffer[i]
    <2>0. Len(row) >= start + Len(buffer) /\ Len(row) \in Nat /\ start \in Nat
      BY <1>1, <1>2
    <2>1. i <= Len(buffer) /\ i \in 1..(Len(row) - start) /\ start + i <= Len(row)
      BY <1>1, <2>0
    <2> QED BY <1>2, <2>1 DEF At
  <1>4. ASSUME NEW i \in 1..(Len(row) - start), i > Len(buffer) PROVE row[start + i] = " "
    <2>1. ~(i <= Len(buffer))
      BY <1>1, <1>4
    <2> QED BY <1>2, <2>1
  <1> QED BY <1>1, <1>2, <1>3, <1>4

(* A step that sends nothing the terminal could get wrong. *)
LEMMA TornLemma ==
    ASSUME TerminalInv, torn, NEW t, Shows(t), start' \in Nat
    PROVE  TerminalInv'
  <1>1. ShowsUnless(t, TRUE)
    BY Zenon DEF Shows, TerminalInv
  <1>2. <<>> \in Row
    BY DEF Row
  <1> QED BY <1>1, <1>2, ShowLemma

(* A step that redraws from the new cursor on, when the row shows what is  *)
(* left of it.                                                             *)
LEMMA RedrawKeeps ==
    ASSUME NEW r \in Row, torn = FALSE, start \in Nat, start' = start,
           buffer' \in Line, cursor' \in 0..Len(buffer'),
           \A i \in 1..cursor' : At(r, start + i) = (buffer')[i],
           Shows(RedrawFromCursor(<<r, start + cursor'>>, buffer', cursor'))
    PROVE  TerminalInv'
  <1>1. PICK q \in Row :
          /\ RedrawFromCursor(<<r, start + cursor'>>, buffer', cursor') = <<q, start + cursor'>>
          /\ Shown(q, start, buffer')
    BY RedrawLemma
  <1>2. ShowsUnless(<<q, start + cursor'>>, FALSE)
    BY <1>1, Zenon DEF Shows
  <1>3. start + cursor' \in Nat
    <2>1. Len(buffer') \in Nat
      BY DEF Line
    <2>2. \A a, k \in Nat : \A c \in 0..k : a + c \in Nat
      OBVIOUS
    <2> QED BY <2>1, <2>2, Zenon
  <1> QED BY <1>1, <1>2, <1>3, ShowLemma

(* The characters of a line with one inserted. *)
LEMMA InsertedLemma ==
    ASSUME NEW b \in Line, NEW p \in 0..Len(b), NEW c \in Char, NEW n,
           n = InsertAt(b, p + 1, c)
    PROVE  /\ n \in Line /\ Len(n) = Len(b) + 1
           /\ \A i \in 1..p : n[i] = b[i]
           /\ n[p + 1] = c
  <1>1. n \in Line /\ Len(n) = Len(b) + 1
    BY InsertLemma
  <1>2. PICK l \in Line : l = SubSeq(b, 1, p) /\ Len(l) = p /\ \A i \in 1..p : l[i] = b[i]
    BY PrefixLemma, ZenonT(40) DEF Line
  <1>3. PICK r \in Line : r = SubSeq(b, p + 1, Len(b))
    BY DropLemma DEF Line
  <1>4. <<c>> \in Line /\ Len(<<c>>) = 1 /\ <<c>>[1] = c
    BY DEF Line
  <1>5. PICK m \in Line : /\ m = l \o <<c>> /\ Len(m) = p + 1
                          /\ \A i \in 1..p : m[i] = l[i]
                          /\ m[p + 1] = c
    <2>1. /\ l \o <<c>> \in Line /\ Len(l \o <<c>>) = p + 1
          /\ \A i \in 1..p : (l \o <<c>>)[i] = l[i]
          /\ (l \o <<c>>)[p + 1] = c
      BY <1>2, <1>4 DEF Line
    <2> QED BY <2>1, Zenon
  <1>6. n = m \o r
    <2>1. (p + 1) - 1 = p
      BY DEF Line
    <2> QED BY <1>2, <1>3, <1>5, <2>1, Zenon DEF InsertAt
  <1>7. \A i \in 1..Len(m) : n[i] = m[i]
    BY <1>6, ConcatLemma DEF Line
  <1>8. (\A i \in 1..p : i \in 1..(p + 1)) /\ p + 1 \in 1..(p + 1)
    BY DEF Line
  <1> QED BY <1>1, <1>2, <1>5, <1>7, <1>8

(* The characters left of one that was removed. *)
LEMMA RemovedLemma ==
    ASSUME NEW b \in Line, NEW p \in 1..Len(b), NEW n, n = RemoveAt(b, p)
    PROVE  n \in Line /\ Len(n) = Len(b) - 1 /\ \A i \in 1..(p - 1) : n[i] = b[i]
  <1>1. n \in Line /\ Len(n) = Len(b) - 1
    BY RemoveLemma
  <1>2. p - 1 \in 0..Len(b) /\ p \in 0..Len(b)
    BY DEF Line
  <1>3. PICK l \in Line : /\ l = SubSeq(b, 1, p - 1) /\ Len(l) = p - 1
                          /\ \A i \in 1..(p - 1) : l[i] = b[i]
    BY <1>2, PrefixLemma DEF Line
  <1>4. PICK r \in Line : r = SubSeq(b, p + 1, Len(b))
    BY <1>2, DropLemma DEF Line
  <1>5. n = l \o r
    BY <1>3, <1>4, Zenon DEF RemoveAt
  <1>6. \A i \in 1..Len(l) : n[i] = l[i]
    BY <1>5, ConcatLemma DEF Line
  <1> QED BY <1>1, <1>3, <1>6

(* A step that moves the cursors only. *)
LEMMA MoveKeeps ==
    ASSUME IInv, TerminalInv, torn = FALSE, UNCHANGED <<buffer, start>>,
           cursor' \in 0..Len(buffer), Shows(<<row, start + cursor'>>)
    PROVE  TerminalInv'
  <1>1. row \in Row /\ start \in Nat /\ Shown(row, start, buffer) /\ Len(buffer) \in Nat
    BY SidesLemma DEF TerminalInv
  <1>2. ShowsUnless(<<row, start + cursor'>>, FALSE)
    BY Zenon DEF Shows
  <1>3. start + cursor' \in Nat
    <2>1. \A a, k \in Nat : \A c \in 0..k : a + c \in Nat
      OBVIOUS
    <2> QED BY <1>1, <2>1, Zenon
  <1>4. Shown(row, start', buffer') /\ start' = start
    BY <1>1
  <1> QED BY <1>1, <1>2, <1>3, <1>4, ShowLemma

(* What is shown after a character is put at the cursor. *)
LEMMA TypedLemma ==
    ASSUME IInv, TerminalInv, torn = FALSE, NEW c \in Char, NEW n,
           n = InsertAt(buffer, cursor + 1, c)
    PROVE  \E q \in Row :
             /\ Put(Screen, <<c>>) = <<q, start + (cursor + 1)>>
             /\ \A i \in 1..(cursor + 1) : q[start + i] = n[i] /\ At(q, start + i) = n[i]
             /\ cursor = Len(buffer) => Shown(q, start, n)
  <1>1. /\ buffer \in Line /\ Len(buffer) \in Nat /\ cursor \in 0..Len(buffer)
        /\ Len(row) \in Nat /\ start \in Nat /\ col = start + cursor
        /\ Len(row) >= start + Len(buffer)
    BY InStepLemma
  <1>2. /\ \A i \in 1..Len(buffer) : At(row, start + i) = buffer[i]
        /\ \A i \in 1..(Len(row) - start) : i > Len(buffer) => row[start + i] = " "
    BY InStepLemma
  <1>3. n \in Line /\ Len(n) = Len(buffer) + 1 /\ n[cursor + 1] = c
    BY <1>1, InsertedLemma
  <1>4. \A i \in 1..cursor : n[i] = buffer[i]
    BY <1>1, InsertedLemma
  <1>5. PICK w \in Row : w = <<c>> /\ Len(w) = 1 /\ w[1] = c
    <2>1. <<c>> \in Row /\ Len(<<c>>) = 1 /\ <<c>>[1] = c
      BY DEF Row, Cell
    <2> QED BY <2>1
  <1>6. PICK q \in Row :
          /\ Put(<<row, col>>, w) = <<q, col + Len(w)>>
          /\ Len(q) >= col + Len(w)
          /\ Len(q) = col + Len(w) \/ Len(q) = Len(row)
          /\ \A i \in 1..col : q[i] = At(row, i)
          /\ \A i \in 1..Len(w) : q[col + i] = w[i]
          /\ \A i \in 1..(Len(q) - (col + Len(w))) : q[col + Len(w) + i] = row[col + Len(w) + i]
    <2>1. row \in Row /\ col \in Nat
      BY DEF TerminalInv
    <2> QED BY <2>1, PutLemma, Zenon
  <1>7. col + Len(w) = start + (cursor + 1) /\ cursor \in Nat /\ Len(q) \in Nat
    BY <1>1, <1>5 DEF Row
  <1>8. ASSUME NEW i \in 1..(cursor + 1) PROVE q[start + i] = n[i] /\ start + i <= Len(q)
    <2>1. start + i <= Len(q)
      <3>1. Len(q) >= col + Len(w)
        BY <1>6
      <3> QED BY <1>1, <1>7, <3>1
    <2>2. CASE i <= cursor
      <3>1. i \in 1..cursor /\ i \in 1..Len(buffer) /\ start + i \in 1..col
        BY <1>1, <1>7, <2>2
      <3> QED BY <1>2, <1>4, <1>6, <2>1, <3>1
    <2>3. CASE i = cursor + 1
      <3>1. start + i = col + 1 /\ 1 \in 1..Len(w)
        BY <1>1, <1>5, <1>7, <2>3
      <3> QED BY <1>3, <1>5, <1>6, <2>1, <2>3, <3>1
    <2> QED BY <1>7, <2>2, <2>3
  <1>9. ASSUME NEW i \in 1..(cursor + 1) PROVE At(q, start + i) = n[i]
    BY <1>8 DEF At
  <1>10. ASSUME cursor = Len(buffer) PROVE Shown(q, start, n)
    <2>1. Len(q) >= start + Len(n) /\ Len(n) = cursor + 1
      <3>1. Len(q) >= col + Len(w)
        BY <1>6
      <3>2. Len(n) = Len(buffer) + 1
        BY <1>3
      <3> QED BY <1>7, <1>10, <3>1, <3>2
    <2>2. ASSUME NEW i \in 1..(Len(q) - start)
          PROVE  q[start + i] = IF i <= Len(n) THEN n[i] ELSE " "
      <3>1. CASE i <= Len(n)
        <4>1. i \in 1..(cursor + 1)
          BY <1>7, <2>1, <3>1
        <4> QED BY <1>8, <3>1, <4>1
      <3>2. CASE ~(i <= Len(n))
        <4>0. Len(q) = col + Len(w) \/ Len(q) = Len(row)
          BY <1>6
        <4>1. PICK j \in 1..(Len(q) - (col + Len(w))) : col + Len(w) + j = start + i
          <5>1. i - (cursor + 1) \in 1..(Len(q) - (col + Len(w)))
            BY <1>1, <1>7, <2>1, <3>2
          <5>2. col + Len(w) + (i - (cursor + 1)) = start + i
            BY <1>1, <1>7
          <5> QED BY <5>1, <5>2, Zenon
        <4>2. i \in 1..(Len(row) - start) /\ i > Len(buffer)
          BY <1>1, <1>7, <1>10, <2>1, <3>2, <4>0
        <4>3. q[start + i] = row[start + i]
          BY <1>6, <4>1, Zenon
        <4>4. row[start + i] = " "
          BY <1>2, <4>2, Zenon
        <4> QED BY <3>2, <4>3, <4>4, Zenon
      <3> QED BY <3>1, <3>2
    <2> QED BY <2>1, <2>2 DEF Shown
  <1>11. Put(Screen, <<c>>) = <<q, start + (cursor + 1)>>
    BY <1>5, <1>6, <1>7, Zenon DEF Screen
  <1> QED BY <1>8, <1>9, <1>10, <1>11

(* A typed character is seen where it was typed. *)
LEMMA TypeShows == IInv /\ TerminalInv /\ TypeChar => TerminalInv'
  <1> SUFFICES ASSUME IInv, TerminalInv, TypeChar PROVE TerminalInv'
    OBVIOUS
  <1>1. PICK c \in Char :
          /\ buffer' = InsertAt(buffer, cursor + 1, c)
          /\ Shows(IF cursor = Len(buffer)
                     THEN Put(Screen, <<c>>)
                     ELSE RedrawFromCursor(Put(Screen, <<c>>), buffer', cursor + 1))
    BY DEF TypeChar
  <1>2. cursor' = cursor + 1 /\ start' = start /\ start \in Nat
    BY DEF TypeChar, TerminalInv
  <1>3. CASE torn
    BY <1>1, <1>2, <1>3, TornLemma
  <1>4. CASE torn = FALSE
    <2>1. PICK q \in Row :
             /\ Put(Screen, <<c>>) = <<q, start + (cursor + 1)>>
             /\ \A i \in 1..(cursor + 1) : At(q, start + i) = (buffer')[i]
             /\ cursor = Len(buffer) => Shown(q, start, buffer')
      BY <1>1, <1>4, TypedLemma
    <2>2. buffer' \in Line /\ cursor + 1 \in 0..Len(buffer') /\ start + (cursor + 1) \in Nat
      <3>1. buffer \in Line /\ Len(buffer) \in Nat /\ cursor \in 0..Len(buffer)
        BY SidesLemma
      <3>2. buffer' \in Line /\ Len(buffer') = Len(buffer) + 1
        BY <1>1, <3>1, InsertLemma
      <3>3. cursor + 1 \in 0..(Len(buffer) + 1) /\ start + (cursor + 1) \in Nat
        BY <1>2, <3>1
      <3> QED BY <3>2, <3>3
    <2>3. CASE cursor = Len(buffer)
      <3>1. ShowsUnless(<<q, start + (cursor + 1)>>, FALSE)
        BY <1>1, <1>4, <2>1, <2>3, Zenon DEF Shows
      <3>2. Shown(q, start', buffer') /\ start + (cursor + 1) = start' + cursor'
        BY <1>2, <2>1, <2>3, Zenon
      <3> QED BY <1>2, <2>2, <3>1, <3>2, ShowLemma
    <2>4. CASE cursor # Len(buffer)
      <3>1. Shows(RedrawFromCursor(<<q, start + cursor'>>, buffer', cursor'))
        BY <1>1, <1>2, <2>1, <2>4, Zenon
      <3>2. \A i \in 1..cursor' : At(q, start + i) = (buffer')[i]
        BY <1>2, <2>1, Zenon
      <3>3. cursor' \in 0..Len(buffer')
        BY <1>2, <2>2, Zenon
      <3> QED BY <1>2, <1>4, <2>2, <3>1, <3>2, <3>3, RedrawKeeps
    <2> QED BY <2>3, <2>4
  <1>5. torn \/ torn = FALSE
    BY DEF TerminalInv
  <1> QED BY <1>3, <1>4, <1>5

(* Removing a character, or a word, leaves what is left of it in place. *)
LEMMA CutShows ==
    ASSUME IInv, TerminalInv, torn = FALSE, UNCHANGED start,
           buffer' \in Line, cursor' \in 0..cursor, cursor' \in 0..Len(buffer'),
           \A i \in 1..cursor' : (buffer')[i] = buffer[i],
           Shows(RedrawFromCursor(<<row, start + cursor'>>, buffer', cursor'))
    PROVE  TerminalInv'
  <1>1. /\ row \in Row /\ start \in Nat
        /\ \A i \in 1..Len(buffer) : At(row, start + i) = buffer[i]
    BY InStepLemma DEF TerminalInv
  <1>2. 1..cursor' \subseteq 1..Len(buffer)
    <2>1. Len(buffer) \in Nat /\ cursor \in 0..Len(buffer)
      BY SidesLemma
    <2> QED BY <2>1
  <1>3. \A i \in 1..cursor' : At(row, start + i) = (buffer')[i]
    BY <1>1, <1>2, Zenon
  <1>4. start' = start
    OBVIOUS
  <1> QED BY <1>1, <1>3, <1>4, RedrawKeeps

(* Backspace. *)
LEMMA BackspaceShows == IInv /\ TerminalInv /\ Backspace => TerminalInv'
  <1> SUFFICES ASSUME IInv, TerminalInv, Backspace PROVE TerminalInv'
    OBVIOUS
  <1>1. /\ cursor > 0 /\ cursor' = cursor - 1 /\ buffer' = RemoveAt(buffer, cursor)
        /\ Shows(RedrawFromCursor(Back(Screen, 1), buffer', cursor'))
        /\ UNCHANGED start /\ start \in Nat
    BY DEF Backspace, TerminalInv
  <1>2. CASE torn
    BY <1>1, <1>2, TornLemma
  <1>3. CASE torn = FALSE
    <2>1. /\ buffer \in Line /\ Len(buffer) \in Nat /\ cursor \in 1..Len(buffer)
          /\ col = start + cursor
      <3>1. /\ buffer \in Line /\ Len(buffer) \in Nat /\ cursor \in 0..Len(buffer)
            /\ col = start + cursor
        BY <1>3, InStepLemma
      <3> QED BY <1>1, <3>1
    <2>2. /\ buffer' \in Line /\ Len(buffer') = Len(buffer) - 1
          /\ \A i \in 1..(cursor - 1) : (buffer')[i] = buffer[i]
      BY <1>1, <2>1, RemovedLemma
    <2>3. Back(Screen, 1) = <<row, start + cursor'>>
      <3>1. 1 <= col /\ col - 1 = start + cursor'
        BY <1>1, <2>1
      <3> QED BY <3>1 DEF Back, Screen
    <2>4. Shows(RedrawFromCursor(<<row, start + cursor'>>, buffer', cursor'))
      BY <1>1, <2>3, Zenon
    <2>5. cursor' \in 0..cursor /\ cursor' \in 0..(Len(buffer) - 1)
      BY <1>1, <2>1
    <2>6. cursor' \in 0..Len(buffer') /\ \A i \in 1..cursor' : (buffer')[i] = buffer[i]
      BY <1>1, <2>2, <2>5, Zenon
    <2> QED BY <1>1, <1>3, <2>2, <2>4, <2>5, <2>6, CutShows
  <1> QED BY <1>2, <1>3 DEF TerminalInv

(* Ctrl-D. *)
LEMMA CtrlDShows == IInv /\ TerminalInv /\ CtrlD => TerminalInv'
  <1> SUFFICES ASSUME IInv, TerminalInv, CtrlD PROVE TerminalInv'
    OBVIOUS
  <1>1. /\ cursor < Len(buffer) /\ cursor' = cursor /\ buffer' = RemoveAt(buffer, cursor + 1)
        /\ Shows(RedrawFromCursor(Screen, buffer', cursor))
        /\ UNCHANGED start /\ start \in Nat
    BY DEF CtrlD, TerminalInv
  <1>2. CASE torn
    BY <1>1, <1>2, TornLemma
  <1>3. CASE torn = FALSE
    <2>1. /\ buffer \in Line /\ Len(buffer) \in Nat /\ cursor \in 0..Len(buffer)
          /\ col = start + cursor
      BY <1>3, InStepLemma
    <2>2. cursor + 1 \in 1..Len(buffer) /\ (cursor + 1) - 1 = cursor
      BY <1>1, <2>1
    <2>3. /\ buffer' \in Line /\ Len(buffer') = Len(buffer) - 1
          /\ \A i \in 1..((cursor + 1) - 1) : (buffer')[i] = buffer[i]
      BY <1>1, <2>1, <2>2, RemovedLemma
    <2>4. Shows(RedrawFromCursor(<<row, start + cursor'>>, buffer', cursor'))
      BY <1>1, <2>1, Zenon DEF Screen
    <2>5. cursor' \in 0..cursor /\ cursor' \in 0..(Len(buffer) - 1)
      BY <1>1, <2>1
    <2>6. cursor' \in 0..Len(buffer') /\ \A i \in 1..cursor' : (buffer')[i] = buffer[i]
      BY <1>1, <2>2, <2>3, <2>5, Zenon
    <2> QED BY <1>1, <1>3, <2>3, <2>4, <2>5, <2>6, CutShows
  <1> QED BY <1>2, <1>3 DEF TerminalInv

(* Ctrl-W. *)
LEMMA CtrlWShows == IInv /\ TerminalInv /\ CtrlW => TerminalInv'
  <1> SUFFICES ASSUME IInv, TerminalInv, CtrlW PROVE TerminalInv'
    OBVIOUS
  <1>1. UNCHANGED start /\ start \in Nat
    BY DEF CtrlW, TerminalInv
  <1>2. PICK k \in 0..cursor :
          /\ buffer' = SubSeq(buffer, 1, k) \o SubSeq(buffer, cursor + 1, Len(buffer))
          /\ cursor' = k
          /\ Shows(RedrawFromCursor(Back(Screen, cursor - k), buffer', k))
    <2>1. PICK p \in 0..cursor : \E k \in 0..p :
            /\ buffer' = SubSeq(buffer, 1, k) \o SubSeq(buffer, cursor + 1, Len(buffer))
            /\ cursor' = k
            /\ Shows(RedrawFromCursor(Back(Screen, cursor - k), buffer', k))
      BY DEF CtrlW
    <2>2. 0..p \subseteq 0..cursor
      BY SidesLemma
    <2> QED BY <2>1, <2>2
  <1>3. CASE torn
    BY <1>1, <1>2, <1>3, TornLemma
  <1>4. CASE torn = FALSE
    <2>1. /\ buffer \in Line /\ Len(buffer) \in Nat /\ cursor \in 0..Len(buffer)
          /\ col = start + cursor
      BY <1>4, InStepLemma
    <2>2. k \in 0..Len(buffer) /\ cursor \in k..Len(buffer) /\ k \in Nat
      BY <2>1
    <2>3. buffer' \in Line /\ Len(buffer') = Len(buffer) - (cursor - k)
      BY <1>2, <2>1, <2>2, CutLemma
    <2>4. PICK l \in Line : /\ l = SubSeq(buffer, 1, k) /\ Len(l) = k
                            /\ \A i \in 1..k : l[i] = buffer[i]
      BY <2>1, <2>2, PrefixLemma, ZenonT(40) DEF Line
    <2>5. PICK r \in Line : r = SubSeq(buffer, cursor + 1, Len(buffer))
      BY <2>1, DropLemma DEF Line
    <2>6. buffer' = l \o r
      BY <1>2, <2>4, <2>5, Zenon
    <2>7. \A i \in 1..Len(l) : (buffer')[i] = l[i]
      BY <2>6, ConcatLemma DEF Line
    <2>8. \A i \in 1..cursor' : (buffer')[i] = buffer[i]
      BY <1>2, <2>4, <2>7, Zenon
    <2>9. Back(Screen, cursor - k) = <<row, start + cursor'>>
      <3>1. cursor - k <= col /\ col - (cursor - k) = start + cursor'
        BY <1>1, <1>2, <2>1, <2>2
      <3> QED BY <3>1 DEF Back, Screen
    <2>10. Shows(RedrawFromCursor(<<row, start + cursor'>>, buffer', cursor'))
      BY <1>2, <2>9, Zenon
    <2>11. cursor' \in 0..cursor /\ k \in 0..(Len(buffer) - (cursor - k))
      BY <1>2, <2>1, <2>2
    <2>12. cursor' \in 0..Len(buffer')
      BY <1>2, <2>3, <2>11, Zenon
    <2> QED BY <1>1, <1>4, <2>3, <2>8, <2>10, <2>11, <2>12, CutShows
  <1> QED BY <1>3, <1>4 DEF TerminalInv

(* The keys that move the cursor. *)
LEMMA MoveShows == IInv /\ TerminalInv /\ (MoveLeft \/ MoveRight \/ CtrlA \/ CtrlE) => TerminalInv'
  <1> SUFFICES ASSUME IInv, TerminalInv, MoveLeft \/ MoveRight \/ CtrlA \/ CtrlE PROVE TerminalInv'
    OBVIOUS
  <1>1. UNCHANGED <<buffer, start>> /\ start \in Nat
    BY DEF MoveLeft, MoveRight, CtrlA, CtrlE, TerminalInv
  <1>2. PICK t : Shows(t) /\ (torn = FALSE => t = <<row, start + cursor'>>)
    <2>0. ASSUME torn = FALSE
          PROVE  /\ Len(buffer) \in Nat /\ cursor \in 0..Len(buffer)
                 /\ col = start + cursor
      BY <2>0, InStepLemma
    <2>1. CASE MoveLeft
      <3>1. ASSUME torn = FALSE PROVE Back(Screen, 1) = <<row, start + cursor'>>
        <4>1. 1 <= col /\ col - 1 = start + cursor'
          <5>1. cursor > 0 /\ cursor' = cursor - 1
            BY <2>1 DEF MoveLeft
          <5>2. start \in Nat /\ Len(buffer) \in Nat /\ cursor \in Nat /\ col = start + cursor
            <6>1. /\ Len(buffer) \in Nat /\ cursor \in 0..Len(buffer)
                  /\ col = start + cursor
              BY <2>0, <3>1, Zenon
            <6> QED BY <1>1, <6>1
          <5> QED BY <5>1, <5>2
        <4> QED BY <4>1 DEF Back, Screen
      <3> QED BY <2>1, <3>1 DEF MoveLeft
    <2>2. CASE MoveRight
      <3>1. ASSUME torn = FALSE PROVE Forward(Screen, 1) = <<row, start + cursor'>>
        <4>1. col + 1 = start + cursor'
          <5>1. cursor' = cursor + 1
            BY <2>2 DEF MoveRight
          <5>2. start \in Nat /\ Len(buffer) \in Nat /\ cursor \in Nat /\ col = start + cursor
            <6>1. /\ Len(buffer) \in Nat /\ cursor \in 0..Len(buffer)
                  /\ col = start + cursor
              BY <2>0, <3>1, Zenon
            <6> QED BY <1>1, <6>1
          <5> QED BY <5>1, <5>2
        <4> QED BY <4>1 DEF Forward, Screen
      <3> QED BY <2>2, <3>1 DEF MoveRight
    <2>3. CASE CtrlA
      <3>1. ASSUME torn = FALSE PROVE Back(Screen, cursor) = <<row, start + cursor'>>
        <4>1. cursor <= col /\ col - cursor = start + cursor'
          <5>1. cursor' = 0
            BY <2>3 DEF CtrlA
          <5>2. start \in Nat /\ Len(buffer) \in Nat /\ cursor \in Nat /\ col = start + cursor
            <6>1. /\ Len(buffer) \in Nat /\ cursor \in 0..Len(buffer)
                  /\ col = start + cursor
              BY <2>0, <3>1, Zenon
            <6> QED BY <1>1, <6>1
          <5> QED BY <5>1, <5>2
        <4> QED BY <4>1 DEF Back, Screen
      <3> QED BY <2>3, <3>1 DEF CtrlA
    <2>4. CASE CtrlE
      <3>1. ASSUME torn = FALSE PROVE Forward(Screen, Len(buffer) - cursor) = <<row, start + cursor'>>
        <4>1. col + (Len(buffer) - cursor) = start + cursor'
          <5>1. cursor' = Len(buffer)
            BY <2>4 DEF CtrlE
          <5>2. start \in Nat /\ Len(buffer) \in Nat /\ cursor \in Nat /\ col = start + cursor
            <6>1. /\ Len(buffer) \in Nat /\ cursor \in 0..Len(buffer)
                  /\ col = start + cursor
              BY <2>0, <3>1, Zenon
            <6> QED BY <1>1, <6>1
          <5> QED BY <5>1, <5>2
        <4> QED BY <4>1 DEF Forward, Screen
      <3> QED BY <2>4, <3>1 DEF CtrlE
    <2> QED BY <2>1, <2>2, <2>3, <2>4
  <1>3. CASE torn
    BY <1>1, <1>2, <1>3, TornLemma
  <1>4. CASE torn = FALSE
    <2>1. cursor' \in 0..Len(buffer)
      <3>1. Len(buffer) \in Nat /\ cursor \in 0..Len(buffer)
        BY SidesLemma
      <3> QED BY <3>1 DEF MoveLeft, MoveRight, CtrlA, CtrlE
    <2>2. Shows(<<row, start + cursor'>>)
      BY <1>2, <1>4, Zenon
    <2> QED BY <1>1, <1>4, <2>1, <2>2, MoveKeeps
  <1> QED BY <1>3, <1>4 DEF TerminalInv

(* Ctrl-K erases what is right of the cursor, in the line and on the row.  *)
LEMMA CtrlKShows == IInv /\ TerminalInv /\ CtrlK => TerminalInv'
  <1> SUFFICES ASSUME IInv, TerminalInv, CtrlK PROVE TerminalInv'
    OBVIOUS
  <1>1. /\ buffer' = SubSeq(buffer, 1, cursor) /\ Shows(EraseRight(Screen))
        /\ UNCHANGED <<cursor, start>> /\ start \in Nat /\ row \in Row
    BY DEF CtrlK, TerminalInv
  <1>2. CASE torn
    BY <1>1, <1>2, TornLemma
  <1>3. CASE torn = FALSE
    <2>1. /\ buffer \in Line /\ Len(buffer) \in Nat /\ cursor \in 0..Len(buffer)
          /\ Len(row) \in Nat /\ col = start + cursor
          /\ Len(row) >= start + Len(buffer)
      BY <1>3, InStepLemma
    <2>2. \A i \in 1..Len(buffer) : row[start + i] = buffer[i]
      BY <1>3, InStepLemma
    <2>3. col \in 0..Len(row)
      BY <1>1, <2>1
    <2>4. PICK q \in Row : /\ EraseRight(<<row, col>>) = <<q, col>> /\ Len(q) = col
                           /\ \A i \in 1..col : q[i] = row[i]
      BY <1>1, <2>3, EraseLemma
    <2>5. /\ buffer' \in Line /\ Len(buffer') = cursor
          /\ \A i \in 1..cursor : (buffer')[i] = buffer[i]
      BY <1>1, <2>1, PrefixLemma DEF Line
    <2>6. Len(q) >= start + Len(buffer') /\ Len(q) - start = cursor
      BY <1>1, <2>1, <2>4, <2>5
    <2>7. ASSUME NEW i \in 1..cursor PROVE q[start + i] = (buffer')[i] /\ i <= Len(buffer')
      <3>1. start + i \in 1..col /\ i \in 1..Len(buffer) /\ i \in 1..cursor /\ i <= cursor
        BY <1>1, <2>1
      <3> QED BY <2>2, <2>4, <2>5, <3>1
    <2>8. \A i \in 1..cursor : q[start + i] = IF i <= Len(buffer') THEN (buffer')[i] ELSE " "
      BY <2>7
    <2>9. Shown(q, start', buffer') /\ col = start' + cursor'
      BY <1>1, <2>1, <2>6, <2>8 DEF Shown
    <2>10. ShowsUnless(<<q, col>>, FALSE) /\ col \in Nat
      BY <1>1, <1>3, <2>3, <2>4, Zenon DEF Shows, Screen, TerminalInv
    <2> QED BY <1>1, <2>9, <2>10, ShowLemma
  <1> QED BY <1>2, <1>3 DEF TerminalInv

BlankAfter(r, k) == \A i \in 1..(Len(r) - k) : r[k + i] = " "

(* A prompt put at the end of what the row shows. *)
LEMMA PromptLemma ==
    ASSUME NEW r \in Row, NEW n \in Nat, BlankAfter(r, n + 1)
    PROVE  \E q \in Row : Put(<<r, n>>, prompt) = <<q, n + 1>> /\ Shown(q, n + 1, <<>>)
  <1>1. PICK w \in Row : w = prompt /\ Len(w) = 1
    <2>0. PromptCell \in Cell
      BY Zenon DEF Cell
    <2>1. <<PromptCell>> \in Row /\ Len(<<PromptCell>>) = 1
      BY <2>0 DEF Row
    <2> QED BY <2>1 DEF prompt
  <1>2. PICK q \in Row :
          /\ Put(<<r, n>>, w) = <<q, n + Len(w)>>
          /\ Len(q) >= n + Len(w)
          /\ Len(q) = n + Len(w) \/ Len(q) = Len(r)
          /\ \A i \in 1..(Len(q) - (n + Len(w))) : q[n + Len(w) + i] = r[n + Len(w) + i]
    BY PutLemma, Zenon
  <1>3. n + Len(w) = n + 1 /\ Len(q) \in Nat /\ Len(r) \in Nat
    <2>1. Len(q) \in Nat /\ Len(r) \in Nat
      BY DEF Row
    <2>2. n + Len(w) = n + 1
      BY <1>1, Zenon
    <2> QED BY <2>1, <2>2
  <1>4. Len(q) >= n + 1 /\ (Len(q) = n + 1 \/ Len(q) = Len(r))
    BY <1>2, <1>3, Zenon
  <1>5. ASSUME NEW i \in 1..(Len(q) - (n + 1)) PROVE q[(n + 1) + i] = " " /\ ~(i <= 0)
    <2>0. \A a, b, m \in Nat : a >= m + 1 /\ (a = m + 1 \/ a = b) =>
            \A j \in 1..(a - (m + 1)) : j \in 1..(b - (m + 1)) /\ ~(j <= 0)
      OBVIOUS
    <2>1. i \in 1..(Len(r) - (n + 1)) /\ ~(i <= 0)
      BY <1>3, <1>4, <2>0, Zenon
    <2>2. q[(n + 1) + i] = r[(n + 1) + i]
      BY <1>2, <1>3, Zenon
    <2> QED BY <2>1, <2>2, Zenon DEF BlankAfter
  <1>6. Len(<<>>) = 0
    OBVIOUS
  <1>7. Len(q) >= (n + 1) + 0
    <2>1. \A a, m \in Nat : a >= m + 1 => a >= (m + 1) + 0
      OBVIOUS
    <2> QED BY <1>3, <1>4, <2>1, Zenon
  <1>8. Shown(q, n + 1, <<>>)
    <2>1. Len(q) >= (n + 1) + Len(<<>>)
      BY <1>6, <1>7, Zenon
    <2>2. ASSUME NEW i \in 1..(Len(q) - (n + 1))
          PROVE  q[(n + 1) + i] = IF i <= Len(<<>>) THEN <<>>[i] ELSE " "
      <3>1. ~(i <= Len(<<>>))
        BY <1>5, <1>6, Zenon
      <3> QED BY <1>5, <3>1, Zenon
    <2> QED BY <2>1, <2>2, Zenon DEF Shown
  <1>9. Put(<<r, n>>, prompt) = <<q, n + 1>>
    BY <1>1, <1>2, <1>3, Zenon
  <1> QED BY <1>8, <1>9

(* Ctrl-C starts another prompt where the cursor is: in step only if the   *)
(* cursor was at the end of the line.                                      *)
LEMMA CtrlCShows == IInv /\ TerminalInv /\ CtrlC => TerminalInv'
  <1> SUFFICES ASSUME IInv, TerminalInv, CtrlC PROVE TerminalInv'
    OBVIOUS
  <1>1. /\ buffer' = <<>> /\ cursor' = 0
        /\ ShowsUnless(Put(Screen, prompt), torn \/ cursor < Len(buffer))
        /\ start' = (IF torn' THEN 1 ELSE col + 1)
        /\ row \in Row /\ col \in Nat
    BY DEF CtrlC, TerminalInv
  <1>2. start' \in Nat
    BY <1>1
  <1>3. <<>> \in Row /\ 0 \in Nat
    BY DEF Row
  <1>4. CASE torn \/ cursor < Len(buffer)
    <2>1. ShowsUnless(Put(Screen, prompt), TRUE)
      BY <1>1, <1>4, Zenon DEF ShowsUnless
    <2> QED BY <1>2, <1>3, <2>1, ShowLemma
  <1>5. CASE torn = FALSE /\ ~(cursor < Len(buffer))
    <2>1. ShowsUnless(Put(Screen, prompt), FALSE)
      BY <1>1, <1>5, Zenon DEF ShowsUnless
    <2>2. start' = col + 1
      BY <1>1, <2>1, Zenon DEF ShowsUnless
    <2>3. /\ Len(buffer) \in Nat /\ cursor = Len(buffer) /\ start \in Nat
          /\ Len(row) \in Nat /\ col = start + cursor
      <3>1. /\ Len(buffer) \in Nat /\ cursor \in 0..Len(buffer) /\ start \in Nat
            /\ Len(row) \in Nat /\ col = start + cursor
        BY <1>5, InStepLemma
      <3> QED BY <1>5, <3>1
    <2>4. \A i \in 1..(Len(row) - start) : i > Len(buffer) => row[start + i] = " "
      BY <1>5, InStepLemma
    <2>5. ASSUME NEW i \in 1..(Len(row) - (col + 1)) PROVE row[(col + 1) + i] = " "
      <3>1. PICK j \in 1..(Len(row) - start) : j > Len(buffer) /\ start + j = (col + 1) + i
        <4>1. /\ (cursor + 1) + i \in 1..(Len(row) - start) /\ (cursor + 1) + i > Len(buffer)
              /\ start + ((cursor + 1) + i) = (col + 1) + i
          BY <2>3
        <4> QED BY <4>1, Zenon
      <3> QED BY <2>4, <3>1, Zenon
    <2>6. PICK q \in Row : Put(<<row, col>>, prompt) = <<q, col + 1>> /\ Shown(q, col + 1, <<>>)
      <3>1. BlankAfter(row, col + 1)
        BY <2>5 DEF BlankAfter
      <3> QED BY <1>1, <3>1, PromptLemma
    <2>7. ShowsUnless(<<q, col + 1>>, FALSE)
      BY <2>1, <2>6, Zenon DEF Screen
    <2>8. col + 1 \in Nat /\ col + 1 = start' + cursor'
      BY <1>1, <2>2
    <2>9. Shown(q, start', buffer')
      BY <1>1, <2>2, <2>6, Zenon
    <2> QED BY <1>2, <2>7, <2>8, <2>9, ShowLemma
  <1> QED BY <1>4, <1>5 DEF TerminalInv

(* The output of a submitted line, and that of Ctrl-Z, ends in a prompt on *)
(* a row of its own.                                                       *)
LEMMA SubmitShows == IInv /\ TerminalInv /\ (Submit \/ CtrlZ) => TerminalInv'
  <1> SUFFICES ASSUME IInv, TerminalInv, Submit \/ CtrlZ PROVE TerminalInv'
    OBVIOUS
  <1>1. /\ buffer' = <<>> /\ cursor' = 0 /\ start' = 1
        /\ ShowsUnless(Put(NewRow, prompt), FALSE)
    BY DEF Submit, CtrlZ
  <1>2. <<>> \in Row /\ BlankAfter(<<>>, 0 + 1)
    <2>1. Len(<<>>) = 0
      OBVIOUS
    <2>2. ASSUME NEW i \in 1..(0 - (0 + 1)) PROVE FALSE
      OBVIOUS
    <2>3. <<>> \in Row
      BY DEF Row
    <2> QED BY <2>1, <2>2, <2>3, Zenon DEF BlankAfter
  <1>3. PICK q \in Row : Put(<<<<>>, 0>>, prompt) = <<q, 0 + 1>> /\ Shown(q, 0 + 1, <<>>)
    BY <1>2, PromptLemma
  <1>4. 0 + 1 = 1 /\ 1 \in Nat /\ 1 = start' + cursor'
    BY <1>1
  <1>5. ShowsUnless(<<q, 1>>, FALSE) /\ Shown(q, start', buffer')
    BY <1>1, <1>3, <1>4, Zenon DEF NewRow
  <1> QED BY <1>1, <1>4, <1>5, ShowLemma

(* The prompt with something after it. *)
LEMMA PromptAndLemma ==
    ASSUME NEW l \in Row
    PROVE  \E w \in Row : /\ w = prompt \o l /\ Len(w) = 1 + Len(l)
                          /\ \A i \in 1..Len(l) : w[1 + i] = l[i]
  <1>1. prompt \in Row /\ Len(prompt) = 1
    <2>1. PromptCell \in Cell
      BY Zenon DEF Cell
    <2>2. <<PromptCell>> \in Row /\ Len(<<PromptCell>>) = 1
      BY <2>1 DEF Row
    <2> QED BY <2>2 DEF prompt
  <1>2. PICK w \in Row : /\ w = prompt \o l /\ Len(w) = Len(prompt) + Len(l)
                         /\ \A i \in 1..Len(l) : w[Len(prompt) + i] = l[i]
    BY <1>1, PartsLemma, Zenon
  <1> QED BY <1>1, <1>2, Zenon

(* A line is a row without a prompt in it. *)
LEMMA LineIsRow == Line \subseteq Row
  BY DEF Line, Row, Cell

(* What is put behind a line that is shown is shown with it.               *)
LEMMA PutBehindLemma ==
    ASSUME NEW r \in Row, NEW s \in Nat, NEW l \in Line, NEW c \in Line, Shown(r, s, l)
    PROVE  \E q \in Row : /\ Put(<<r, s + Len(l)>>, c) = <<q, s + Len(l \o c)>>
                          /\ Shown(q, s, l \o c)
  <1>1. PICK a, b \in Nat : a = Len(l) /\ b = Len(c)
    BY DEF Line
  <1>2. /\ l \o c \in Line /\ Len(l \o c) = a + b
        /\ \A i \in 1..a : (l \o c)[i] = l[i]
        /\ \A i \in 1..b : (l \o c)[a + i] = c[i]
    BY <1>1, ConcatLemma DEF Line
  <1>3. PICK n \in Nat : n = s + a
    BY <1>1
  <1>4. c \in Row /\ Len(r) \in Nat
    BY LineIsRow DEF Row
  <1>a. PICK q \in Row :
          /\ Put(<<r, n>>, c) = <<q, n + Len(c)>>
          /\ Len(q) >= n + Len(c)
          /\ Len(q) = n + Len(c) \/ Len(q) = Len(r)
          /\ \A i \in 1..n : q[i] = At(r, i)
          /\ \A i \in 1..Len(c) : q[n + i] = c[i]
          /\ \A i \in 1..(Len(q) - (n + Len(c))) : q[n + Len(c) + i] = r[n + Len(c) + i]
    BY <1>3, <1>4, PutLemma, Zenon
  <1>5. /\ Put(<<r, n>>, c) = <<q, n + b>>
        /\ Len(q) >= n + b
        /\ Len(q) = n + b \/ Len(q) = Len(r)
        /\ \A i \in 1..n : q[i] = At(r, i)
        /\ \A i \in 1..b : q[n + i] = c[i]
        /\ \A i \in 1..(Len(q) - (n + b)) : q[n + b + i] = r[n + b + i]
    BY <1>1, <1>a
  <1>b. Len(r) >= s + a
    BY <1>1 DEF Shown
  <1>6. /\ Len(r) >= s + a
        /\ \A i \in 1..(Len(r) - s) : r[s + i] = IF i <= a THEN l[i] ELSE " "
    BY <1>1, Zenon DEF Shown
  <1>7. Len(q) \in Nat
    BY DEF Row
  <1>8. ASSUME NEW i \in 1..(Len(q) - s)
        PROVE  q[s + i] = IF i <= a + b THEN (l \o c)[i] ELSE " "
    <2>0. i \in Nat /\ i >= 1 /\ i <= Len(q) - s
      BY <1>7
    <2>1. CASE i <= a
      <3>1. s + i \in 1..n /\ s + i <= Len(r) /\ i \in 1..(Len(r) - s) /\ i \in 1..a /\ i <= a + b
        BY <1>1, <1>3, <1>4, <1>b, <2>0, <2>1
      <3>2. q[s + i] = At(r, s + i) /\ At(r, s + i) = r[s + i]
        BY <1>5, <3>1 DEF At
      <3> QED BY <1>2, <1>6, <2>1, <3>1, <3>2
    <2>2. CASE i > a /\ i <= a + b
      <3>1. PICK j \in 1..b : s + i = n + j /\ i = a + j
        <4>1. i - a \in 1..b /\ s + i = n + (i - a) /\ i = a + (i - a)
          BY <1>1, <1>3, <2>0, <2>2
        <4> QED BY <4>1
      <3>2. q[n + j] = c[j] /\ (l \o c)[a + j] = c[j]
        BY <1>2, <1>5
      <3> QED BY <2>2, <3>1, <3>2
    <2>3. CASE i > a + b
      <3>1. Len(q) = Len(r) /\ i \in 1..(Len(r) - s) /\ ~(i <= a)
        BY <1>1, <1>3, <1>4, <1>5, <1>7, <2>0, <2>3
      <3>2. PICK j \in 1..(Len(q) - (n + b)) : s + i = n + b + j
        <4>1. i - (a + b) \in 1..(Len(q) - (n + b)) /\ s + i = n + b + (i - (a + b))
          BY <1>1, <1>3, <1>7, <2>0, <2>3
        <4> QED BY <4>1
      <3>3. q[s + i] = r[s + i]
        BY <1>5, <3>2
      <3>4. r[s + i] = " "
        BY <1>6, <3>1
      <3>5. ~(i <= a + b)
        BY <1>1, <2>0, <2>3
      <3> QED BY <3>3, <3>4, <3>5
    <2>4. i <= a \/ (i > a /\ i <= a + b) \/ i > a + b
      BY <1>1, <2>0
    <2> QED BY <2>1, <2>2, <2>3, <2>4, Zenon
  <1>9. n + b = s + Len(l \o c) /\ s + Len(l) = n /\ Len(q) >= s + Len(l \o c)
    BY <1>1, <1>2, <1>3, <1>5, <1>7
  <1>10. Shown(q, s, l \o c)
    BY <1>2, <1>8, <1>9 DEF Shown
  <1> QED BY <1>5, <1>9, <1>10

(* Tab puts a blank behind a complete word: in step at the end of the line. *)
LEMMA TabBlankShows == IInv /\ TerminalInv /\ TabBlank => TerminalInv'
  <1> SUFFICES ASSUME IInv, TerminalInv, TabBlank PROVE TerminalInv'
    OBVIOUS
  <1>1. /\ buffer' = Append(buffer, " ") /\ cursor' = Len(buffer')
        /\ ShowsUnless(Put(Screen, <<" ">>), torn \/ cursor < Len(buffer))
        /\ start' = start /\ start \in Nat /\ row \in Row
    BY DEF TabBlank, TerminalInv
  <1>2. CASE torn \/ cursor < Len(buffer)
    <2>1. ShowsUnless(Put(Screen, <<" ">>), TRUE)
      BY <1>1, <1>2, Zenon DEF ShowsUnless
    <2>2. <<>> \in Row /\ 0 \in Nat
      BY DEF Row
    <2> QED BY <1>1, <2>1, <2>2, ShowLemma
  <1>3. CASE torn = FALSE /\ ~(cursor < Len(buffer))
    <2>1. /\ buffer \in Line /\ Len(buffer) \in Nat /\ cursor = Len(buffer)
          /\ col = start + Len(buffer)
      <3>1. /\ buffer \in Line /\ Len(buffer) \in Nat /\ cursor \in 0..Len(buffer)
            /\ col = start + cursor
        BY <1>3, InStepLemma
      <3> QED BY <1>3, <3>1
    <2>2. <<" ">> \in Line /\ buffer' = buffer \o <<" ">> /\ buffer' \in Line
      BY <1>1, <2>1, CharLemma, EditorAssumption
    <2>3. Shown(row, start, buffer)
      BY <1>3 DEF TerminalInv
    <2>a. start \in Nat /\ row \in Row /\ buffer \in Line /\ <<" ">> \in Line
      BY <1>1, <2>1, <2>2
    <2>b. \E q \in Row : /\ Put(<<row, start + Len(buffer)>>, <<" ">>)
                                = <<q, start + Len(buffer \o <<" ">>)>>
                         /\ Shown(q, start, buffer \o <<" ">>)
      BY <2>3, <2>a, PutBehindLemma, Zenon
    <2>4. PICK q \in Row : /\ Put(<<row, start + Len(buffer)>>, <<" ">>) = <<q, start + Len(buffer')>>
                           /\ Shown(q, start, buffer')
      BY <2>2, <2>b, Zenon
    <2>5. ShowsUnless(<<q, start + Len(buffer')>>, FALSE)
      <3>1. ShowsUnless(Put(Screen, <<" ">>), FALSE)
        BY <1>1, <1>3, Zenon DEF ShowsUnless
      <3> QED BY <2>1, <2>4, <3>1 DEF Screen
    <2>6. start + Len(buffer') \in Nat
      <3>1. buffer' \in Line
        BY <2>2
      <3>2. Len(buffer') \in Nat
        BY <3>1 DEF Line
      <3>3. start \in Nat
        BY <1>1
      <3> QED BY <3>2, <3>3
    <2> QED BY <1>1, <2>4, <2>5, <2>6, ShowLemma
  <1> QED BY <1>2, <1>3 DEF TerminalInv

(* Tab writes a keyword over the word it is short for: likewise.           *)
LEMMA TabKeywordShows == IInv /\ TerminalInv /\ TabKeyword => TerminalInv'
  <1> SUFFICES ASSUME IInv, TerminalInv, TabKeyword PROVE TerminalInv'
    OBVIOUS
  <1>1. PICK keyword \in Keyword, k \in 0..cursor :
             /\ buffer' = SubSeq(buffer, 1, k) \o Right \o Append(keyword, " ")
             /\ ShowsUnless(Put(EraseRight(Back(Screen, cursor - k)), Append(keyword, " ")),
                            torn \/ cursor < Len(buffer))
    BY TabKeywordDoes, Zenon DEF Right
  <1>2. cursor' = Len(buffer') /\ start' = start /\ start \in Nat /\ row \in Row
    BY DEF TabKeyword, TerminalInv
  <1>3. CASE torn \/ cursor < Len(buffer)
    <2>1. ShowsUnless(Put(EraseRight(Back(Screen, cursor - k)), Append(keyword, " ")), TRUE)
      BY <1>1, <1>3, Zenon DEF ShowsUnless
    <2>2. <<>> \in Row /\ 0 \in Nat
      BY DEF Row
    <2> QED BY <1>2, <2>1, <2>2, ShowLemma
  <1>4. CASE torn = FALSE /\ ~(cursor < Len(buffer))
    <2>1. /\ buffer \in Line /\ Len(buffer) \in Nat /\ cursor \in 0..Len(buffer)
          /\ Len(row) \in Nat /\ col = start + cursor
          /\ Len(row) >= start + Len(buffer)
      BY <1>4, InStepLemma
    <2>2. \A i \in 1..Len(buffer) : row[start + i] = buffer[i]
      BY <1>4, InStepLemma
    <2>3. Right = <<>>
      <3>1. Right \in Line /\ Len(Right) = Len(buffer) - cursor
        BY SidesLemma
      <3>2. Len(Right) = 0
        BY <1>4, <2>1, <3>1
      <3> QED BY <3>1, <3>2 DEF Line
    <2> DEFINE t == SubSeq(buffer, 1, k)
               c == Append(keyword, " ")
    <2>4. k \in 0..Len(buffer)
      BY <2>1
    <2>5. t \in Line /\ Len(t) = k /\ \A i \in 1..k : t[i] = buffer[i]
      BY <2>1, <2>4, PrefixLemma DEF Line
    <2>6. c \in Line
      BY KeywordLemma
    <2>7. buffer' = t \o c
      BY <1>1, <2>3, <2>5, EmptyLemma
    <2> HIDE DEF t, c
    <2>8. Back(Screen, cursor - k) = <<row, start + k>>
      <3>1. cursor - k <= col /\ col - (cursor - k) = start + k
        BY <1>2, <2>1
      <3> QED BY <3>1 DEF Back, Screen
    <2>9. start + k \in 0..Len(row)
      BY <1>2, <2>1, <2>4
    <2>10. PICK r \in Row : /\ EraseRight(<<row, start + k>>) = <<r, start + k>> /\ Len(r) = start + k
                            /\ \A i \in 1..(start + k) : r[i] = row[i]
      BY <1>2, <2>9, EraseLemma
    <2>11. Shown(r, start, t)
      <3>1. Len(r) >= start + Len(t) /\ Len(r) - start = k
        BY <1>2, <2>4, <2>5, <2>10
      <3>2. ASSUME NEW i \in 1..k PROVE r[start + i] = IF i <= Len(t) THEN t[i] ELSE " "
        <4>1. start + i \in 1..(start + k) /\ i \in 1..Len(buffer) /\ i <= Len(t)
          BY <1>2, <2>1, <2>4, <2>5
        <4> QED BY <2>2, <2>5, <2>10, <4>1
      <3> QED BY <3>1, <3>2 DEF Shown
    <2>12. PICK q \in Row : /\ Put(<<r, start + Len(t)>>, c) = <<q, start + Len(t \o c)>>
                            /\ Shown(q, start, t \o c)
      BY <1>2, <2>5, <2>6, <2>11, PutBehindLemma
    <2>13. ShowsUnless(<<q, start + Len(buffer')>>, FALSE)
      <3>1. ShowsUnless(Put(EraseRight(Back(Screen, cursor - k)), c), FALSE)
        BY <1>1, <1>4, Zenon DEF ShowsUnless, c
      <3> QED BY <2>5, <2>7, <2>8, <2>10, <2>12, <3>1
    <2>14. start + Len(buffer') \in Nat
      <3>1. t \o c \in Line
        BY <2>5, <2>6, ConcatLemma DEF Line
      <3> QED BY <1>2, <2>7, <3>1 DEF Line
    <2> QED BY <1>2, <2>7, <2>12, <2>13, <2>14, ShowLemma
  <1> QED BY <1>3, <1>4 DEF TerminalInv

(* ? writes the whole line on a row of its own: in step if the cursor is   *)
(* at its end.                                                             *)
LEMMA QuestionShows == IInv /\ TerminalInv /\ Question => TerminalInv'
  <1> SUFFICES ASSUME IInv, TerminalInv, Question PROVE TerminalInv'
    OBVIOUS
  <1>1. /\ UNCHANGED <<buffer, cursor>> /\ start' = 1
        /\ ShowsUnless(Put(NewRow, prompt \o buffer), cursor < Len(buffer))
        /\ buffer \in Line /\ Len(buffer) \in Nat /\ cursor \in 0..Len(buffer)
    BY SidesLemma DEF Question
  <1>2. <<>> \in Row /\ Len(<<>>) = 0
    BY DEF Row
  <1>3. CASE cursor < Len(buffer)
    <2>1. ShowsUnless(Put(NewRow, prompt \o buffer), TRUE)
      BY <1>1, <1>3, Zenon DEF ShowsUnless
    <2> QED BY <1>1, <1>2, <2>1, ShowLemma
  <1>4. CASE ~(cursor < Len(buffer))
    <2>0. (cursor < Len(buffer)) = FALSE
      BY <1>1, <1>4
    <2>1. ShowsUnless(Put(NewRow, prompt \o buffer), FALSE)
      BY <1>1, <2>0
    <2>2. PICK w \in Row : /\ w = prompt \o buffer /\ Len(w) = 1 + Len(buffer)
                           /\ \A i \in 1..Len(buffer) : w[1 + i] = buffer[i]
      BY <1>1, LineIsRow, PromptAndLemma
    <2>3. Len(w) \in Nat /\ 0 \in Nat /\ 0 + Len(w) = Len(w)
      BY DEF Row
    <2>4. PICK q \in Row :
            /\ Put(<<<<>>, 0>>, w) = <<q, 0 + Len(w)>>
            /\ Len(q) >= 0 + Len(w)
            /\ Len(q) = 0 + Len(w) \/ Len(q) = Len(<<>>)
            /\ \A i \in 1..0 : q[i] = At(<<>>, i)
            /\ \A i \in 1..Len(w) : q[0 + i] = w[i]
            /\ \A i \in 1..(Len(q) - (0 + Len(w))) : q[0 + Len(w) + i] = <<>>[0 + Len(w) + i]
      BY <1>2, <2>2, <2>3, PutLemma, Zenon
    <2>5. Len(q) = 1 + Len(buffer)
      BY <1>1, <1>2, <2>2, <2>4
    <2>6. ASSUME NEW i \in 1..Len(buffer) PROVE q[1 + i] = buffer[i] /\ i <= Len(buffer)
      <3>1. 1 + i \in 1..Len(w) /\ 0 + (1 + i) = 1 + i /\ i <= Len(buffer)
        BY <1>1, <2>2
      <3> QED BY <2>2, <2>4, <3>1
    <2>7. Shown(q, 1, buffer)
      <3>1. Len(q) >= 1 + Len(buffer) /\ Len(q) - 1 = Len(buffer)
        BY <1>1, <2>5
      <3> QED BY <2>6, <3>1 DEF Shown
    <2>8. ShowsUnless(<<q, 1 + Len(buffer)>>, FALSE)
      BY <2>1, <2>2, <2>3, <2>4 DEF NewRow
    <2>9. 1 + Len(buffer) \in Nat /\ 1 + Len(buffer) = start' + cursor'
      BY <1>1, <1>4
    <2>10. Shown(q, start', buffer')
      BY <1>1, <2>7
    <2> QED BY <1>1, <2>8, <2>9, <2>10, ShowLemma
  <1> QED BY <1>3, <1>4

(* The arrows redraw the whole row. *)
LEMMA RecallShows ==
    ASSUME TerminalInv, NEW line \in Line, Recall(line)
    PROVE  TerminalInv'
  <1>1. /\ buffer' = line /\ cursor' = Len(line) /\ start' = 1
        /\ ShowsUnless(EraseRight(Put(Return(Screen), prompt \o line)), FALSE)
    BY DEF Recall, RedrawLine
  <1>2. row \in Row /\ 0 \in Nat
    BY DEF TerminalInv
  <1>3. PICK w \in Row : /\ w = prompt \o line /\ Len(w) = 1 + Len(line)
                         /\ \A i \in 1..Len(line) : w[1 + i] = line[i]
    BY LineIsRow, PromptAndLemma
  <1>4. Len(line) \in Nat /\ Len(w) \in Nat /\ 0 + Len(w) = Len(w)
    BY DEF Line, Row
  <1>5. PICK q1 \in Row : /\ Put(<<row, 0>>, w) = <<q1, 0 + Len(w)>> /\ Len(q1) >= 0 + Len(w)
                          /\ \A i \in 1..Len(w) : q1[0 + i] = w[i]
    BY <1>2, PutLemma, Zenon
  <1>6. Put(Return(Screen), prompt \o line) = <<q1, Len(w)>>
    <2>1. Return(Screen) = <<row, 0>>
      BY DEF Return, Screen
    <2> QED BY <1>3, <1>4, <1>5, <2>1, Zenon
  <1>7. Len(w) \in 0..Len(q1)
    <2>1. Len(q1) \in Nat /\ Len(q1) >= Len(w)
      BY <1>4, <1>5 DEF Row
    <2> QED BY <1>4, <2>1
  <1>8. PICK q \in Row : /\ EraseRight(<<q1, Len(w)>>) = <<q, Len(w)>> /\ Len(q) = Len(w)
                         /\ \A i \in 1..Len(w) : q[i] = q1[i]
    BY <1>7, EraseLemma
  <1>9. ASSUME NEW i \in 1..Len(line) PROVE q[1 + i] = line[i]
    <2>1. 1 + i \in 1..Len(w) /\ 0 + (1 + i) = 1 + i
      BY <1>3, <1>4
    <2>2. q1[1 + i] = w[1 + i]
      BY <1>5, <2>1, Zenon
    <2> QED BY <1>3, <1>8, <2>1, <2>2, Zenon
  <1>10. Shown(q, 1, line)
    <2>1. Len(q) >= 1 + Len(line) /\ Len(q) - 1 = Len(line)
      BY <1>3, <1>4, <1>8
    <2>2. \A i \in 1..Len(line) : i <= Len(line)
      BY <1>4
    <2>3. \A i \in 1..(Len(q) - 1) : q[1 + i] = IF i <= Len(line) THEN line[i] ELSE " "
      BY <1>9, <2>1, <2>2, Zenon
    <2> QED BY <2>1, <2>3 DEF Shown
  <1>11. ShowsUnless(<<q, Len(w)>>, FALSE)
    BY <1>1, <1>6, <1>8, Zenon
  <1>12. Len(w) = start' + cursor' /\ start' \in Nat /\ Shown(q, start', buffer')
    BY <1>1, <1>3, <1>10
  <1> QED BY <1>4, <1>11, <1>12, ShowLemma

(* Ctrl-U writes the row anew and pads it: in step if the line was on a    *)
(* row with one prompt and the cursor at its end.                          *)
LEMMA CtrlUShows == IInv /\ TerminalInv /\ CtrlU => TerminalInv'
  <1> SUFFICES ASSUME IInv, TerminalInv, CtrlU PROVE TerminalInv'
    OBVIOUS
  <1> DEFINE pad == [i \in 1..cursor |-> " "]
             t   == Back(Put(Return(Screen), prompt \o buffer' \o pad), cursor)
             tears == torn \/ start # 1 \/ cursor < Len(buffer)
  <1>0. ShowsUnless(t, tears)
    BY DEF CtrlU
  <1> HIDE DEF t
  <1>1. buffer' = SubSeq(buffer, cursor + 1, Len(buffer)) /\ cursor' = 0 /\ start' = 1
    BY DEF CtrlU
  <1>2. <<>> \in Row /\ 0 \in Nat /\ start' \in Nat
    BY <1>1 DEF Row
  <1>3. CASE tears
    <2>1. ShowsUnless(t, TRUE)
      BY <1>0, <1>3, Zenon DEF ShowsUnless
    <2> QED BY <1>2, <2>1, ShowLemma
  <1>4. CASE ~tears
    <2>1. ShowsUnless(t, FALSE)
      BY <1>0, <1>4, Zenon DEF ShowsUnless
    <2>2. torn = FALSE /\ start = 1
      BY <1>4, Zenon DEF TerminalInv
    <2>3. /\ buffer \in Line /\ Len(buffer) \in Nat /\ cursor \in 0..Len(buffer) /\ cursor \in Nat
          /\ Len(row) \in Nat /\ cursor = Len(buffer)
      <3>1. /\ buffer \in Line /\ Len(buffer) \in Nat /\ cursor \in 0..Len(buffer) /\ Len(row) \in Nat
        BY <2>2, InStepLemma
      <3> QED BY <1>4, <3>1
    <2>4. \A i \in 1..(Len(row) - 1) : i > Len(buffer) => row[1 + i] = " "
      <3>1. \A i \in 1..(Len(row) - start) : i > Len(buffer) => row[start + i] = " "
        BY <2>2, InStepLemma
      <3> QED BY <2>2, <3>1, Zenon
    <2>5. buffer' = <<>>
      <3>1. /\ SubSeq(buffer, cursor + 1, Len(buffer)) \in Line
            /\ Len(SubSeq(buffer, cursor + 1, Len(buffer))) = Len(buffer) - cursor
        BY <2>3, JoinLemma
      <3>2. Len(buffer') = 0 /\ buffer' \in Line
        <4>1. Len(buffer) - cursor = 0
          BY <2>3
        <4> QED BY <1>1, <3>1, <4>1, Zenon
      <3>3. \A s \in Line : Len(s) = 0 => s = <<>>
        BY DEF Line
      <3> QED BY <3>2, <3>3, Zenon
    <2>6. PICK b \in Row : b = pad /\ Len(b) = cursor /\ \A i \in 1..cursor : b[i] = " "
      <3>1. " " \in Cell
        BY EditorAssumption, Zenon DEF Cell
      <3>2. pad \in Row /\ Len(pad) = cursor
        <4>1. pad \in [1..cursor -> Cell]
          BY <3>1
        <4> HIDE DEF pad
        <4> QED BY <2>3, <4>1 DEF Row
      <3>3. \A i \in 1..cursor : pad[i] = " "
        OBVIOUS
      <3> HIDE DEF pad
      <3> QED BY <3>2, <3>3, Zenon
    <2>7. PICK w \in Row : /\ w = (prompt \o buffer') \o pad /\ Len(w) = 1 + cursor
                           /\ \A i \in 1..cursor : w[1 + i] = b[i]
      <3>1. PICK m \in Row : m = prompt \o buffer' /\ Len(m) = 1
        <4>1. PICK m \in Row : m = prompt \o <<>> /\ Len(m) = 1 + Len(<<>>)
          BY <1>2, PromptAndLemma
        <4>2. 1 + Len(<<>>) = 1
          OBVIOUS
        <4> QED BY <2>5, <4>1, <4>2, Zenon
      <3>2. PICK w \in Row : /\ w = m \o b /\ Len(w) = Len(m) + Len(b)
                             /\ \A i \in 1..Len(b) : w[Len(m) + i] = b[i]
        BY PartsLemma, Zenon
      <3> HIDE DEF pad
      <3>3. w = (prompt \o buffer') \o pad /\ \A i \in 1..cursor : w[1 + i] = b[i]
        BY <2>6, <3>1, <3>2, Zenon
      <3>4. Len(w) = 1 + cursor
        BY <2>6, <3>1, <3>2, Zenon
      <3> QED BY <3>3, <3>4, Zenon
    <2>8. Len(w) \in Nat /\ 0 + Len(w) = Len(w)
      BY DEF Row
    <2>9. PICK q \in Row : /\ Put(<<row, 0>>, w) = <<q, 0 + Len(w)>>
                           /\ Len(q) >= 0 + Len(w)
                           /\ Len(q) = 0 + Len(w) \/ Len(q) = Len(row)
                           /\ \A i \in 1..Len(w) : q[0 + i] = w[i]
                           /\ \A i \in 1..(Len(q) - (0 + Len(w))) : q[0 + Len(w) + i] = row[0 + Len(w) + i]
      <3>1. row \in Row
        BY DEF TerminalInv
      <3> QED BY <1>2, <3>1, PutLemma, Zenon
    <2>10. t = <<q, 1>>
      <3>1. Return(Screen) = <<row, 0>>
        BY DEF Return, Screen
      <3> HIDE DEF pad
      <3>2. Put(Return(Screen), (prompt \o buffer') \o pad) = <<q, 1 + cursor>>
        BY <2>7, <2>8, <2>9, <3>1, Zenon
      <3>3. Back(<<q, 1 + cursor>>, cursor) = <<q, 1>>
        <4>1. cursor <= 1 + cursor /\ (1 + cursor) - cursor = 1
          BY <2>3
        <4> QED BY <4>1 DEF Back
      <3> QED BY <3>2, <3>3 DEF t
    <2>11. Len(q) \in Nat /\ Len(q) >= 1 + cursor /\ (Len(q) = 1 + cursor \/ Len(q) = Len(row))
      <3>1. Len(q) \in Nat
        BY DEF Row
      <3> QED BY <2>7, <2>8, <2>9, <3>1, Zenon
    <2>12. ASSUME NEW i \in 1..(Len(q) - 1) PROVE q[1 + i] = " "
      <3>1. CASE i <= cursor
        <4>1. i \in 1..cursor /\ 1 + i \in 1..Len(w) /\ 0 + (1 + i) = 1 + i
          <5>1. Len(w) = 1 + cursor
            BY <2>7
          <5> QED BY <2>3, <3>1, <5>1
        <4>2. q[1 + i] = w[1 + i]
          BY <2>9, <4>1, Zenon
        <4> QED BY <2>6, <2>7, <4>1, <4>2, Zenon
      <3>2. CASE ~(i <= cursor)
        <4>0. PICK n \in Nat : n = Len(w) /\ n = 1 + cursor /\ 0 + Len(w) = n
          BY <2>7, <2>8, Zenon
        <4>1. /\ i - cursor \in 1..(Len(q) - n) /\ n + (i - cursor) = 1 + i
              /\ i \in 1..(Len(row) - 1) /\ i > Len(buffer)
          BY <2>3, <2>11, <3>2, <4>0
        <4>2. PICK j \in 1..(Len(q) - n) : n + j = 1 + i
          BY <4>1, Zenon
        <4>3. q[1 + i] = row[1 + i]
          BY <2>9, <4>0, <4>2, Zenon
        <4> QED BY <2>4, <4>1, <4>3, Zenon
      <3> QED BY <3>1, <3>2
    <2>13. Shown(q, start', buffer')
      <3>1. Len(q) >= 1 + 0 /\ Len(<<>>) = 0 /\ \A i \in 1..(Len(q) - 1) : ~(i <= 0)
        BY <2>3, <2>11
      <3>2. Shown(q, 1, <<>>)
        BY <2>12, <3>1, Zenon DEF Shown
      <3> QED BY <1>1, <2>5, <3>2, Zenon
    <2>14. 1 \in Nat /\ 1 = start' + cursor'
      BY <1>1
    <2>15. ShowsUnless(<<q, 1>>, FALSE)
      BY <2>1, <2>10, Zenon
    <2> QED BY <1>2, <2>13, <2>14, <2>15, ShowLemma
  <1> QED BY <1>3, <1>4

(* Every key keeps the terminal in step, or leaves it unfollowed. *)
LEMMA TerminalHolds == IInv /\ TerminalInv /\ [Next]_vars => TerminalInv'
  <1> SUFFICES ASSUME IInv, TerminalInv, [Next]_vars PROVE TerminalInv'
    OBVIOUS
  <1>1. CASE Up \/ Down
    <2>1. IInv'
      BY KeyHolds
    <2>2. PICK line : buffer' = line /\ Recall(line)
      BY <1>1 DEF Up, Down, Recall
    <2>3. line \in Line
      BY <2>1, <2>2 DEF IInv, TypeOK
    <2> QED BY <2>2, <2>3, RecallShows
  <1>2. CASE Escape \/ Bracket \/ NoKey \/ UNCHANGED vars
    <2>1. UNCHANGED <<buffer, cursor, row, col, start, torn>>
      BY <1>2 DEF Escape, Bracket, NoKey, vars, editor, terminal
    <2> QED BY <2>1, Zenon DEF TerminalInv, Shown
  <1>3. CASE CtrlB \/ CtrlF \/ LeftArrow \/ RightArrow \/ CtrlA \/ CtrlE
    BY <1>3, MoveShows DEF CtrlB, CtrlF, LeftArrow, RightArrow
  <1>4. CASE \/ TypeChar \/ Backspace \/ CtrlD \/ CtrlK \/ CtrlU \/ CtrlW
             \/ TabKeyword \/ TabBlank \/ Question \/ CtrlC \/ CtrlZ \/ Submit
    BY <1>4, TypeShows, BackspaceShows, CtrlDShows, CtrlKShows, CtrlUShows, CtrlWShows,
       TabKeywordShows, TabBlankShows, QuestionShows, CtrlCShows, SubmitShows
  <1> QED BY <1>1, <1>2, <1>3, <1>4 DEF Next

(* At the first prompt. *)
LEMMA InitShows == Init => TerminalInv
  <1> SUFFICES ASSUME Init PROVE TerminalInv
    OBVIOUS
  <1>1. /\ buffer = <<>> /\ cursor = 0 /\ row = prompt /\ col = 1 /\ start = 1 /\ torn = FALSE
    BY DEF Init
  <1>2. PromptCell \in Cell
    BY Zenon DEF Cell
  <1>3. prompt \in Row /\ Len(prompt) = 1
    BY <1>2 DEF prompt, Row
  <1>4. Len(<<>>) = 0 /\ 1 >= 1 + 0 /\ 1 = 1 + 0 /\ 1 \in Nat /\ \A i \in 1..(1 - 1) : FALSE
    OBVIOUS
  <1>5. Shown(prompt, 1, <<>>)
    BY <1>3, <1>4, Zenon DEF Shown
  <1>6. col = start + cursor
    BY <1>1
  <1> QED BY <1>1, <1>3, <1>4, <1>5, <1>6, Zenon DEF TerminalInv

(* The client's terminal shows the line the device holds, and its cursor   *)
(* where the device has it, after any keys, Tab and ? among them, up to    *)
(* the next Ctrl-U, Ctrl-C, Tab or ? in one of the places that the model   *)
(* names, and again from the next key that writes the whole line.          *)
THEOREM TerminalInStep == Spec => []TerminalShowsLine
  <1>1. Init => IInv /\ TerminalInv
    BY InitHolds, InitShows
  <1>2. IInv /\ TerminalInv /\ [Next]_vars => IInv' /\ TerminalInv'
    BY KeyHolds, TerminalHolds
  <1>3. TerminalInv => TerminalShowsLine
    BY DEF TerminalInv, TerminalShowsLine, Shown
  <1> QED BY <1>1, <1>2, <1>3, PTL DEF Spec
=============================================================================
