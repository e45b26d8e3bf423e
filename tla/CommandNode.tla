----------------------------- MODULE CommandNode -----------------------------
(***************************************************************************)
(* cmd_tree.rs: the nodes of the command trees, how a typed word is matched *)
(* against them, and the three walks along a line of words: the parser,    *)
(* the `?' help and the completion.                                        *)
(*                                                                         *)
(* A line is the sequence of its words.  Words and keywords are in lower   *)
(* case: find_matches() folds both sides.  A parameter has the name of its *)
(* type, and a handler is its function's name without the "handle_".       *)
(***************************************************************************)
EXTENDS Naturals, Sequences, SequencesExt

CONSTANTS
    Numerals    \* the words that parse as integers, each with its value

ASSUME NumeralsAssumption == \A w \in DOMAIN Numerals : Numerals[w] \in Nat

Classes == {"user", "priv", "config", "sub"}

-----------------------------------------------------------------------------
(* Building a tree.  handler and no_handler are "" where the node has none. *)

None == ""
Keyword(kw, h, kids) ==
    [kind |-> "keyword", name |-> kw, from |-> 0, to |-> 0, handler |-> h,
     no_handler |-> None, modes |-> Classes, children |-> kids]
Param(kind, h, kids) ==
    [Keyword("<" \o kind \o ">", h, kids) EXCEPT !.kind = kind]
InRange(a, b, kids) == [Param("range", None, kids) EXCEPT !.from = a, !.to = b]

Only(classes, n) == [n EXCEPT !.modes = classes]
Undone(h, n)     == [n EXCEPT !.no_handler = h]

(* The shapes most nodes have: a keyword that is a command, with others    *)
(* below it or without; one that needs more; one that takes a parameter.   *)
Cmd(kw, h)         == Keyword(kw, h, <<>>)
Menu(kw, kids)     == Keyword(kw, None, kids)
Takes(kw, kind, h) == Menu(kw, <<Param(kind, h, <<>>)>>)
Cmds(kws, h)       == [i \in DOMAIN kws |-> Cmd(kws[i], h)]
AllTake(kws, kind, h) == [i \in DOMAIN kws |-> Takes(kws[i], kind, h)]
AllOnly(classes, nodes) == [i \in DOMAIN nodes |-> Only(classes, nodes[i])]

-----------------------------------------------------------------------------
(* Matching one word. *)

StartsWith(kw, w) == Len(w) <= Len(kw) /\ SubSeq(kw, 1, Len(w)) = w

MatchesWord(n, w) ==
    CASE n.kind = "keyword" -> StartsWith(n.name, w)
      [] n.kind = "number"  -> w \in DOMAIN Numerals
      [] n.kind = "range"   -> w \in DOMAIN Numerals
                                  /\ Numerals[w] >= n.from /\ Numerals[w] <= n.to
      [] OTHER              -> w # ""

(* Nodes of a list are named by their positions in it: two may look alike. *)
IsSingle(is)     == \E i \in is : is = {i}
Names(nodes, is) == { nodes[i].name : i \in is }

(* A mutant: the mode filter is not asked. *)
VisibleToAll(nodes, class) == DOMAIN nodes
Visible(nodes, class) == { i \in DOMAIN nodes : class \in nodes[i].modes }

(* A mutant: an exact keyword is one match among others. *)
AllMatches(w, nodes, class) ==
    LET all == { i \in Visible(nodes, class) : MatchesWord(nodes[i], w) }
        kws == { i \in all : nodes[i].kind = "keyword" }
    IN  IF kws = {} THEN all ELSE kws
(* Keywords beat parameters, and a single keyword typed in full beats      *)
(* those it is a prefix of.                                                *)
find_matches(w, nodes, class) ==
    LET all   == { i \in Visible(nodes, class) : MatchesWord(nodes[i], w) }
        kws   == { i \in all : nodes[i].kind = "keyword" }
        exact == { i \in kws : nodes[i].name = w }
    IN  IF kws = {} THEN all ELSE IF IsSingle(exact) THEN exact ELSE kws

-----------------------------------------------------------------------------
(* Walking down a tree.  "at" is "path" while each word met one node;      *)
(* otherwise the walk stopped at the word that met none, or several.       *)

Root(tree) == [at |-> "path", node |-> Menu(None, tree), taken |-> 0, path |-> <<>>]

Down(s, n) ==
    [at |-> "path", node |-> n, taken |-> s.taken + 1, path |-> Append(s.path, n.name)]

Step(s, w, class) ==
    LET m == find_matches(w, s.node.children, class)
    IN  IF s.at # "path" THEN s
        ELSE IF IsSingle(m) THEN Down(s, s.node.children[CHOOSE i \in m : TRUE])
        ELSE [s EXCEPT !.at = IF m = {} THEN "invalid" ELSE "ambiguous"]

Resolve(words, tree, class) ==
    LET after[n \in 0 .. Len(words)] ==
            IF n = 0 THEN Root(tree) ELSE Step(after[n - 1], words[n], class)
    IN  after[Len(words)]

(* The parser stops at a parameter that takes the rest of the line. *)
Descend(words, tree, class) ==
    LET after[n \in 0 .. Len(words)] ==
            IF n = 0 THEN Root(tree)
            ELSE IF after[n - 1].node.kind = "rest" THEN after[n - 1]
            ELSE Step(after[n - 1], words[n], class)
    IN  after[Len(words)]

(* parse() and, for a line that began with "no", parse_for_no(): what      *)
(* becomes of the line, the handler it runs, and the number of words in    *)
(* front of the one that an error's caret points at.                       *)
Parsed(kind, s, h) == [kind |-> kind, handler |-> h, taken |-> s.taken, path |-> s.path]

parse(words, tree, class) ==
    LET s == Descend(words, tree, class)
    IN  IF words = <<>> THEN Parsed("empty", s, None)
        ELSE IF s.at # "path" THEN Parsed(s.at, s, None)
        ELSE IF s.node.handler = None THEN Parsed("incomplete", s, None)
        ELSE Parsed("execute", s, s.node.handler)

parse_for_no(words, tree, class) ==
    LET s == Descend(words, tree, class)
    IN  IF s.at = "path" /\ words # <<>> /\ s.node.kind # "rest" /\ s.node.no_handler # None
        THEN Parsed("execute", s, s.node.no_handler)
        ELSE parse(words, tree, class)

-----------------------------------------------------------------------------
(* `?' *)

(* help_for_no() does not offer these. *)
ExcludedFromNo == {"no", "exit", "end", "help", "do"}

Listing(names, cr) == [kind |-> "listing", names |-> names, cr |-> cr]
NotFound == [kind |-> "not_found", names |-> {}, cr |-> FALSE]

(* After a space: what can follow, and whether the line is complete. *)
NextWords(words, tree, class, complete(_)) ==
    LET s == Resolve(words, tree, class)
    IN  IF s.at # "path" THEN NotFound
        ELSE Listing(Names(s.node.children, Visible(s.node.children, class)), complete(s.node))

(* In the middle of a word: the keywords it may become. *)
Completions(words, tree, class) ==
    LET s      == Resolve(Front(words), tree, class)
        nodes  == s.node.children
        starts == { i \in Visible(nodes, class) :
                      nodes[i].kind = "keyword" /\ StartsWith(nodes[i].name, Last(words)) }
    IN  IF s.at # "path" THEN NotFound ELSE Listing(Names(nodes, starts), FALSE)

help(words, space, tree, class) ==
    IF words = <<>> THEN Listing(Names(tree, Visible(tree, class)), FALSE)
    ELSE IF space THEN NextWords(words, tree, class, LAMBDA n : n.handler # None)
    ELSE Completions(words, tree, class)

(* A mutant: the negated line is not asked for a handler of its own. *)
HelpWithoutUndo(words, space, tree, class) ==
    LET offered(l) == [l EXCEPT !.names = @ \ ExcludedFromNo]
    IN  offered(help(words, space, tree, class))
help_for_no(words, space, tree, class) ==
    LET offered(l) == [l EXCEPT !.names = @ \ ExcludedFromNo]
    IN  IF words = <<>> THEN offered(Listing(Names(tree, Visible(tree, class)), FALSE))
        ELSE IF space
        THEN NextWords(words, tree, class, LAMBDA n : n.handler # None \/ n.no_handler # None)
        ELSE offered(Completions(words, tree, class))

-----------------------------------------------------------------------------
(* Tab: how many characters are erased in front of the cursor, and the     *)
(* keyword that is then written with a space; or a beep.                   *)

Beep == [erase |-> 0, insert |-> "", beep |-> TRUE]

(* A mutant: the first of several matches is taken. *)
FirstCompletion(words, space, tree, class) ==
    LET s == Resolve(Front(words), tree, class)
        m == find_matches(Last(words), s.node.children, class)
        n == s.node.children[CHOOSE i \in m : \A j \in m : i <= j]
    IN  IF words = <<>> \/ s.at # "path" \/ m = {} \/ n.kind # "keyword" THEN Beep
        ELSE [erase |-> Len(Last(words)), insert |-> n.name, beep |-> FALSE]
Completion(words, space, tree, class) ==
    LET s == Resolve(Front(words), tree, class)
        m == find_matches(Last(words), s.node.children, class)
        n == s.node.children[CHOOSE i \in m : TRUE]
    IN  IF words = <<>> \/ s.at # "path" \/ ~ IsSingle(m) \/ n.kind # "keyword" THEN Beep
        ELSE IF n.name # Last(words)
        THEN [erase |-> Len(Last(words)), insert |-> n.name, beep |-> FALSE]
        ELSE IF space THEN Beep
        ELSE [erase |-> 0, insert |-> "", beep |-> FALSE]
=============================================================================
