---------------------------- MODULE MCCliSession -----------------------------
(* Small sessions for TLC. *)
EXTENDS CliSession, IosTemplates

MCKind == IosKind
MCAsks == IosAsks
MCStart == "start"

(* A show command, and a copy that asks for a file name. *)
CopyScripts == { <<"text", "prompt">>, <<"filename", "text", "prompt">> }
(* Two questions in a row, of the kinds that are answered, and a command   *)
(* that is refused.                                                        *)
ChatScripts == { <<"filename", "confirm_inline", "text", "prompt">>,
                 <<"yes_no_bracket", "text", "confirm_inline", "prompt">>,
                 <<"yes_no", "prompt">>, <<"text", "prompt">>,
                 <<"percent", "prompt">> }
(* A template for run_cmd_with_template: the default prompts of            *)
(* run_cmd_chat and those of the safety reload, an error for a refused     *)
(* command, and a state for what follows the first text.                   *)
ChatOrError ==
    LET rules == << On({"percent"}, "Error", Stay) >>
                     \o IosChat["start"] \o ReloadChat["start"]
    IN  [start |-> rules \o << On({"text"}, "Next", "body") >>, body |-> rules]
(* A question at the end of a line of text, and a template that knows it   *)
(* only at the start of one.                                               *)
ConfirmScripts == { <<"confirm_inline", "prompt">>, <<"text", "prompt">> }
=============================================================================
