----------------------------- MODULE LineBuffer ------------------------------
(***************************************************************************)
(* What a line editor with a memory promises: the line is the text left of *)
(* the cursor followed by the text right of it, each key does to the two   *)
(* what the table of editing keys says, and a recalled line is one that    *)
(* was submitted.                                                          *)
(***************************************************************************)
EXTENDS Naturals, Sequences, SequencesExt

CONSTANTS Char, Keyword

VARIABLES
    left, right, \* the text on either side of the cursor
    lines        \* the lines submitted so far, blank ones left out

text == <<left, right, lines>>

Init == left = <<>> /\ right = <<>> /\ lines = {}

Empty == left' = <<>> /\ right' = <<>>

Edit(l, r) == left' = l /\ right' = r /\ UNCHANGED lines

Type    == \E c \in Char : Edit(Append(left, c), right)
Rubout  == left # <<>> /\ Edit(Front(left), right)
Delete  == right # <<>> /\ Edit(left, Tail(right))
GoLeft  == left # <<>> /\ Edit(Front(left), <<Last(left)>> \o right)
GoRight == right # <<>> /\ Edit(Append(left, Head(right)), Tail(right))
Home    == Edit(<<>>, left \o right)
End     == Edit(left \o right, <<>>)

KillLeft  == Edit(<<>>, right)
KillRight == Edit(left, <<>>)

(* The blanks left of the cursor and the whole word before them. *)
KillWord ==
    \E k \in 0..Len(left), m \in 0..Len(left) :
      /\ k <= m /\ (k > 0 => left[k] = " ") /\ (m > 0 => left[m] # " ")
      /\ \A i \in k + 1..m : left[i] # " "
      /\ \A i \in m + 1..Len(left) : left[i] = " "
      /\ Edit(SubSeq(left, 1, k), right)

(* Tab behind a word: the keyword it is short for, and a blank. *)
CompleteWord ==
    /\ right = <<>>
    /\ \E k \in 0..Len(left) - 1, keyword \in Keyword :
         /\ k > 0 => left[k] = " "
         /\ \A i \in k + 1..Len(left) : left[i] # " "
         /\ IsPrefix(SubSeq(left, k + 1, Len(left)), keyword)
         /\ Edit(SubSeq(left, 1, k) \o keyword \o <<" ">>, <<>>)

(* Tab elsewhere: the line may lose text left of the cursor, whatever it   *)
(* is, and what is completed goes to its end.                              *)
CompleteAway ==
    /\ right # <<>> \/ (left # <<>> /\ Last(left) = " ")
    /\ \E k \in 0..Len(left), insert \in Keyword \union {<<>>} :
         Edit(SubSeq(left, 1, k) \o right \o Append(insert, " "), <<>>)

Cancel == Empty /\ UNCHANGED lines
Recall == \E line \in lines : Edit(line, <<>>)

Submit ==
    /\ Empty
    /\ LET line == left \o right
       IN  lines' = IF \A i \in 1..Len(line) : line[i] = " "
                      THEN lines ELSE lines \union {line}

Next ==
    \/ Type \/ Rubout \/ Delete \/ GoLeft \/ GoRight \/ Home \/ End
    \/ KillLeft \/ KillRight \/ KillWord \/ CompleteWord \/ CompleteAway
    \/ Cancel \/ Recall \/ Submit

Spec == Init /\ [][Next]_text
=============================================================================
