----------------------------- MODULE CommandLine -----------------------------
(***************************************************************************)
(* A line typed at the mock device, word by word, with `?' and Tab at any  *)
(* point of it, and what Enter makes of it: which tree it is parsed with,  *)
(* the handler it runs, and the mode the device is in afterwards.          *)
(*                                                                         *)
(* The cursor is at the end of the line (LineEditor moves it), words are   *)
(* separated by one space, and pipes are left out.  The questions that     *)
(* enable, configure, reload and install ask are answered at once, either  *)
(* way: MockIosCli has them in detail.                                     *)
(***************************************************************************)
EXTENDS Dispatching

CONSTANTS
    Args,           \* the words typed where a parameter may stand
    Lengths,        \* bound: the lengths keywords are abbreviated to
    MaxWords,       \* bound: words on a line
    Starts,         \* the modes a session starts in
    EnablePassword  \* does the device have one?

ASSUME TypingAssumption ==
    /\ Lengths \subseteq Nat \ {0} /\ MaxWords \in Nat
    /\ EnablePassword \in BOOLEAN

VARIABLES
    mode,   \* the CliMode, "closed" once the connection is, "panic" once it died
    line,   \* the words of input_buffer
    space,  \* is there a space behind the last one?
    reply   \* what the last key made the device say

vars == <<mode, line, space, reply>>

LoginModes == {"login", "password"}

Nothing == [kind |-> "nothing"]
Init ==
    /\ mode \in Starts /\ line = <<>> /\ space = FALSE /\ reply = Nothing

-----------------------------------------------------------------------------
(* The modes a handler can leave the device in.  One run with "do" is put  *)
(* back to the mode it came from before its question is answered.          *)
NamedListMode(ws) ==
    IF Len(ws) >= 4 /\ ws[3] = "extended" THEN "config-ext-nacl"
    ELSE IF Len(ws) >= 4 /\ ws[3] = "standard" THEN "config-std-nacl"
    ELSE "config"

IsVlan(w)       == Numerals[w] \in 1 .. 65535
VlanMode(m, ws) == IF IsVlan(Last(ws)) THEN "config-vlan" ELSE m

Asking == {"configure_alone", "reload_alone", "install_activate"}
HandlerModes(h, m, ws) ==
    CASE h = "enable" -> {"priv"} \cup (IF EnablePassword THEN {m} ELSE {})
      [] h = "disable"            -> {"user"}
      [] h = "configure_terminal" -> {"config"}
      [] h = "configure_alone"    -> {m, "config"}
      [] h \in {"reload_alone", "install_activate"} -> {m, "closed"}
      [] h = "exit"               -> {"closed"}
      [] h = "config_exit"        -> {IF m = "config" THEN "priv" ELSE "config"}
      [] h = "config_end"         -> {"priv"}
      [] h = "interface"          -> {"config-if"}
      [] h \in {"router_ospf", "router_bgp", "router_eigrp", "ipv6_router_ospf"}
                                  -> {"config-router"}
      [] h \in {"line_vty", "line_console"} -> {"config-line"}
      [] h = "vlan"               -> {VlanMode(m, ws)}
      [] h = "ip_access_list"     -> {NamedListMode(ws)}
      [] OTHER                    -> {m}

(* A mutant: the mode that a "do" line left is not restored. *)
ModesAfterForgotten(h, m, ws) == HandlerModes(h, m, ws)
ModesAfter(h, m, ws) ==
    IF Prefixed(m, ws, "do") /\ h \notin Asking THEN {m} ELSE HandlerModes(h, m, ws)

-----------------------------------------------------------------------------
(* `?' and Tab, as the keys are handled. *)

Negating(m, ws, sp) ==
    m \in ConfigModes /\ ws # <<>> /\ ws[1] = "no" /\ (sp \/ Len(ws) > 1)

HelpIn(m, ws, sp, tree) ==
    IF Negating(m, ws, sp) THEN help_for_no(Tail(ws), sp, tree, class(m))
    ELSE help(ws, sp, tree, class(m))
Help(m, ws, sp) == HelpIn(m, ws, sp, Tree(m))

(* try_tab_complete() looks for the text "no " wherever it is in the line, *)
(* and completes what is behind it.                                        *)
EndsInNo(w) == Len(w) >= 2 /\ SubSeq(w, Len(w) - 1, Len(w)) = "no"
Effective(m, ws, sp) ==
    LET hits == { i \in DOMAIN ws : EndsInNo(ws[i]) /\ (i < Len(ws) \/ sp) }
        first == CHOOSE i \in hits : \A j \in hits : i <= j
    IN  IF m \notin ConfigModes \/ hits = {} THEN ws
        ELSE SubSeq(ws, first + 1, Len(ws))

try_tab_complete(m, ws, sp) == Completion(Effective(m, ws, sp), sp, Tree(m), class(m))

(* The erasing counts characters back from the cursor: from behind a space *)
(* it leaves the first one of the word.                                    *)
Completed(ws, sp, c) ==
    IF c.erase = 0 THEN ws
    ELSE [ws EXCEPT ![Len(ws)] = IF sp THEN SubSeq(@, 1, 1) \o c.insert ELSE c.insert]

-----------------------------------------------------------------------------
(* The keys.  A word is a keyword that can follow, spelled out or cut      *)
(* short, one of Args, or "no" or "do".                                    *)

(* What the words so far are looked up in, "do" and "no" alone included. *)
Ahead ==
    LET first == IF mode \in ConfigModes /\ line # <<>> THEN line[1] ELSE None
        in    == IF first = "do" THEN "priv" ELSE mode
    IN  [tree |-> Tree(in), class |-> class(in),
         words |-> IF first \in {"do", "no"} THEN Tail(line) ELSE line]
Led(a) == Resolve(a.words, a.tree, a.class)
Following(a) ==
    LET s     == Led(a)
        nodes == s.node.children
        kws   == { i \in Visible(nodes, a.class) : nodes[i].kind = "keyword" }
    IN  IF mode \notin CommandModes \/ s.at # "path" THEN {} ELSE Names(nodes, kws)

Spellings(kw) == {kw} \cup { SubSeq(kw, 1, n) : n \in { l \in Lengths : l < Len(kw) } }
Typeable ==
    (UNION { Spellings(kw) : kw \in Following(Ahead) }) \cup Args \cup DOMAIN Numerals
    \cup (IF line = <<>> THEN {"no", "do"} ELSE {})

Type(w) ==
    /\ mode \notin {"closed", "panic"}
    /\ Len(line) < MaxWords /\ (line # <<>> => space)
    /\ line' = Append(line, w) /\ space' = FALSE /\ reply' = Nothing
    /\ UNCHANGED mode

Space ==
    /\ mode \notin {"closed", "panic"} /\ line # <<>> /\ ~ space
    /\ space' = TRUE /\ reply' = Nothing
    /\ UNCHANGED <<mode, line>>

(* The trees ask every node whether it is visible in the mode, and         *)
(* CliModeClass::from_cli_mode() panics outside of the command modes.      *)
Question ==
    /\ mode \notin {"closed", "panic"}
    /\ IF mode \in CommandModes
       THEN mode' = mode /\ reply' = Help(mode, line, space)
       ELSE mode' = "panic" /\ reply' = Nothing
    /\ UNCHANGED <<line, space>>

Tab ==
    /\ mode \notin {"closed", "panic"}
    /\ IF mode \in CommandModes
       THEN LET c == try_tab_complete(mode, line, space)
            IN  /\ line' = Completed(line, space, c)
                /\ space' = (space \/ ~ c.beep)
                /\ reply' = IF c.beep THEN [kind |-> "beep"] ELSE Nothing
                /\ UNCHANGED mode
       ELSE /\ mode' = IF line = <<>> THEN mode ELSE "panic"
            /\ reply' = [kind |-> "beep"]
            /\ UNCHANGED <<line, space>>

Enter ==
    /\ mode \in CommandModes
    /\ LET p == Dispatch(mode, line)
       IN  /\ reply' = p
           /\ mode' \in IF p.kind = "execute" THEN ModesAfter(p.handler, mode, line) ELSE {mode}
    /\ line' = <<>> /\ space' = FALSE

(* handle_login(): the name, then the password; an empty line is ignored. *)
EnterLogin ==
    /\ mode \in LoginModes
    /\ mode' \in IF line = <<>> THEN {mode}
                 ELSE IF mode = "login" THEN {"login", "password"}
                 ELSE {"login", IF EnablePassword THEN "user" ELSE "priv"}
    /\ line' = <<>> /\ space' = FALSE /\ reply' = Nothing

CtrlZ ==
    /\ mode \notin {"closed", "panic"}
    /\ mode' = IF mode \in ConfigModes THEN "priv" ELSE mode
    /\ line' = <<>> /\ space' = FALSE /\ reply' = Nothing

Next ==
    \/ \E w \in Typeable : Type(w)
    \/ Space \/ Question \/ Tab \/ Enter \/ EnterLogin \/ CtrlZ

Spec == Init /\ [][Next]_vars

-----------------------------------------------------------------------------
TypeOK ==
    /\ mode \in CommandModes \cup LoginModes \cup {"closed", "panic"}
    /\ Len(line) <= MaxWords /\ space \in BOOLEAN /\ (space => line # <<>>)
    /\ reply.kind \in {"nothing", "beep", "listing", "not_found", "execute", "incomplete",
                       "invalid", "ambiguous", "empty"}

(* A line whose last parameter, if it takes the rest of the line, was given *)
(* one word: of more, the help knows nothing.  Nor does it of "do".        *)
Explained ==
    LET p == Dispatch(mode, line)
    IN  /\ ~ (mode \in ConfigModes /\ line # <<>> /\ line[1] = "do")
        /\ p.kind \in {"execute", "incomplete"} =>
               p.taken + (IF Prefixed(mode, line, "no") THEN 1 ELSE 0) = Len(line)

(* Lines that reach a handler which then says that they are incomplete or  *)
(* invalid: show, show ip, show ipv6 and most of what is below it always;  *)
(* named lists and their entries when their keywords are cut short.        *)
Hints == {"show_incomplete", "show_ip_incomplete", "show_ipv6_incomplete"}
Refused(h, ws) ==
    \/ h \in Hints
    \/ h = "ip_access_list" /\ NamedListMode(ws) = "config"
    \/ h = "nacl_entry" /\ ws[1] \notin {"permit", "deny", "remark"}
IsCommand(p, ws) == p.kind = "execute" /\ ~ Refused(p.handler, ws)

(* What `?' says is what Enter would do: it offers <cr> exactly where the  *)
(* line is a command, and wrongly on the lines that only their handler     *)
(* refuses; it finds nothing only where the line is wrong, and each        *)
(* keyword it lists is understood when it is put there (cmd_tree.rs help   *)
(* and help_for_no against parse and parse_for_no).                        *)
Parameters == {"<word>", "<number>", "<range>", "<rest>"}
HelpTellsTruth ==
    reply.kind \in {"listing", "not_found"} /\ Explained =>
        LET path == IF space THEN line ELSE IF line = <<>> THEN <<>> ELSE Front(line)
            entered(kw) == Dispatch(mode, Append(path, kw)).kind
        IN  IF reply.kind = "not_found"
            THEN Dispatch(mode, path).kind \in {"invalid", "ambiguous"}
            ELSE /\ space =>
                     LET p == Dispatch(mode, line)
                     IN  reply.cr <=> IsCommand(p, line) \/ Refused(p.handler, line)
                 /\ \A kw \in reply.names \ Parameters :
                        entered(kw) \in {"execute", "incomplete"}

(* Every command can be typed: behind words that were understood, and      *)
(* however they were cut short, each keyword that can follow, spelled out  *)
(* in full, is understood as itself (find_matches).  A keyword that begins *)
(* another, as ip does ipv6, and one that a tree has twice are what could  *)
(* put a command out of reach.                                             *)
SpelledOut(words, path) ==
    [i \in DOMAIN words |-> IF path[i] \in Parameters THEN words[i] ELSE path[i]]
CanBeTyped(a, s) ==
    LET spelled == Led([a EXCEPT !.words = SpelledOut(a.words, s.path)])
    IN  \A kw \in Following(a) :
            Step(spelled, kw, a.class).path = Append(s.path, kw)
EveryCommandCanBeTyped ==
    (space \/ line = <<>>) /\ reply = Nothing /\ mode \in CommandModes =>
        LET a == Ahead IN CanBeTyped(a, Led(a))

(* Tab behind a word does not change what the line means, nor does it make *)
(* one out of a line that means nothing (try_tab_complete).  A word that   *)
(* ends in "no" in front of it is another matter: see Effective.           *)
TabKeepsMeaning ==
    [][Tab /\ mode \in CommandModes /\ ~ space
          /\ (Effective(mode, line, space) = line \/ line[1] = "no")
        => Dispatch(mode, line') = Dispatch(mode, line)]_vars

Ran(handlers) == (reply.kind = "execute" /\ reply.handler \in handlers)'

(* Nothing but enable, or a login, leads from the unprivileged mode to     *)
(* another, whatever is typed and however it is cut short: each command    *)
(* that could is visible to the privileged mode only.                      *)
OnlyEnableRaises ==
    [][mode = "user" /\ mode' \notin {"user", "closed"} =>
           mode' = "panic" \/ Ran({"enable"})]_vars

(* A session stays in the configuration modes whatever is run with "do",   *)
(* but for a confirmed reload: only exit, end and Ctrl-Z lead out.         *)
ConfigurationIsLeftOnPurpose ==
    [][mode' \notin ConfigModes /\ mode \in ConfigModes =>
           CtrlZ \/ Ran({"config_exit", "config_end", "reload_alone", "install_activate"})]_vars

(* The comment on try_tab_complete() says that what is erased is the typed *)
(* prefix: of the words in front of the cursor, Tab changes the last only, *)
(* and that to a keyword it is a prefix of.                                *)
TabErasesThePrefix ==
    [][Tab /\ line' # line => StartsWith(Last(line'), Last(line))]_vars

(* "not a command mode" is a panic, meant to be out of reach.              *)
NeverPanics == mode # "panic"
=============================================================================
