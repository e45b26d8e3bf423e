------------------------------ MODULE ConfigText ------------------------------
(***************************************************************************)
(* What a device promises to whoever configures it: the running            *)
(* configuration is a text, a set of lines in blocks; a command that is    *)
(* entered puts its line under the block it was entered in, in place of    *)
(* the line that said otherwise; `no' takes it away; and no command        *)
(* touches a line of another block.                                        *)
(*                                                                         *)
(* A line and the header of its block are sequences of words; the headers  *)
(* are themselves lines of the block <<>>.                                 *)
(***************************************************************************)
EXTENDS Naturals, Sequences
LOCAL INSTANCE SequencesExt

CONSTANTS
    Silent,     \* the first words of commands the text does not show
    Unsettled,  \* the commands of which nothing is said
    FileText    \* by the command that copies it, a file's lines with their blocks

VARIABLES
    text,       \* pairs of a block and a line
    said        \* the last command

Begin(line, words) == 
    Len(words) <= Len(line) /\ SubSeq(line, 1, Len(words)) = words
(* What is said once: a line replaces the one that begins the same. *)
Settings ==
    { <<"hostname">>, <<"description">>, <<"ip", "address">>, <<"banner", "motd">>,
      <<"enable", "secret">>, <<"logging", "buffered">>, <<"switchport", "mode">>,
      <<"switchport", "access", "vlan">>, <<"ip", "ospf", "network">>, <<"shutdown">>,
      <<"ipv6", "enable">>, <<"ipv6", "unicast-routing">> }
Setting(line) == { s \in Settings : s[1] = line[1] /\ Begin(line, s) }
(* What the lines of a setting stand for. *)
Replaces(new, old) ==
    \/ new = old
    \/ \E s \in Setting(new) : Begin(old, s)
    \/ new[1] = "username" /\ Begin(old, SubSeq(new, 1, 2))
    \/ Begin(new, <<"ipv6", "ospf">>) /\ (Begin(old, <<"ipv6", "ospf">>)
                                            \/ Begin(old, <<"ip", "ospf">>))
    \/ Begin(new, <<"ipv6", "address">>)
         /\ (old = <<"ipv6", "enable">> \/ (Last(new) = "link-local" /\ Last(old) = "link-local"))

(* `no' names a setting, or as much of a line as tells it from others. *)
Undoes(line, old) ==
    \/ line = old
    \/ \E s \in Setting(line) : Begin(old, s)
    \/ line[1] \in {"username", "access-list"} /\ Begin(old, SubSeq(line, 1, 2))
    \/ Begin(line, <<"ipv6", "route">>) /\ Begin(old, SubSeq(line, 1, 3))
    \/ Begin(line, <<"ipv6", "address">>)
         /\ (Begin(old, <<"ipv6", "address">>) \/ old = <<"ipv6", "enable">>)
    \/ Begin(line, <<"ipv6", "ospf">>)
         /\ (Begin(old, <<"ipv6", "ospf">>) \/ Begin(old, <<"ip", "ospf">>))

(* The settings that are not written: what the device does anyhow. *)
Defaults == { <<"switchport", "mode", "access">>, <<"switchport", "access", "vlan", "1">>,
              <<"logging", "buffered", "4096">>, <<"description">> }
(* What is only said where something else is. *)
Beside(old, block, line) ==
    LET has(words) == \E l \in old : l[1] = block /\ Begin(l[2], words)
    IN  CASE line = <<"ipv6", "enable">>         -> ~ has(<<"ipv6", "address">>)
          [] Begin(line, <<"ip", "ospf">>)       -> has(<<"ipv6", "ospf">>)
          [] line[1] = "switchport"              ->
                ~ has(<<"ip", "address">>) /\ SubSeq(block[2], 1, 4) \in {"Giga", "TenG"}
          [] OTHER -> TRUE

In(block, lines) == { <<block, l>> : l \in lines }
Dropped(old, block, is(_)) == { l \in old : ~ (l[1] = block /\ is(l[2])) }

Undone(old, block, line) ==
    LET rest == Dropped(old, block, LAMBDA l : Undoes(line, l))
    IN  IF line[1] = "hostname" THEN rest \cup In(block, {<<"hostname", "Router">>})
        ELSE IF line = <<"logging", "console">> THEN old \cup In(block, {<<"no">> \o line})
        ELSE rest
Entered(old, block, line) ==
    IF line = <<"logging", "console">> THEN old \ In(block, {<<"no">> \o line})
    ELSE IF ~ Beside(old, block, line) THEN old
    ELSE Dropped(old, block, LAMBDA l : Replaces(line, l))
         \cup In(block, IF line \in Defaults THEN {} ELSE {line})
Edited(old, block, line) ==
    IF line[1] \in Silent THEN old
    ELSE IF line[1] = "no"
    THEN IF line[2] \in Silent THEN old ELSE Undone(old, block, Tail(line))
    ELSE Entered(old, block, line)

(* Whether a port has an address decides if the lines of a switch port are *)
(* shown.                                                                  *)
Plain(lines) == { l \in lines : l[2][1] # "switchport" }
IsAddress(line) == Begin(line, <<"ip", "address">>) \/ Begin(line, <<"no", "ip", "address">>)

(* A copy enters lines of the file, each under its block, and takes away   *)
(* what these replace.  It need not know all lines.                        *)
Merged(old, new, file) ==
    /\ Plain(new \ old) \subseteq file
    /\ \A gone \in Plain(old \ new) : \E l \in file :
          l[1] = gone[1] /\ IF l[2][1] = "no" THEN Undoes(Tail(l[2]), gone[2])
                            ELSE Replaces(l[2], gone[2])

Init == said = [block |-> <<>>, line |-> <<>>]
Enter ==
    LET old   == text
        new   == text'
        block == said'.block
        line  == said'.line
    IN  \/ line \in Unsettled
        \/ line \in DOMAIN FileText /\ Merged(old, new, FileText[line])
        \/ IsAddress(line) /\ Plain(new) = Plain(Edited(old, block, line))
        \/ line \notin DOMAIN FileText /\ new = Edited(old, block, line)
Spec == Init /\ [][Enter]_<<text, said>>
=============================================================================
