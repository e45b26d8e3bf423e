---------------------------- MODULE IosTemplates -----------------------------
(***************************************************************************)
(* The TextFSMPlus templates ayclic drives Cisco IOS devices with, over    *)
(* the classes of device output their regexes tell apart.                  *)
(***************************************************************************)
EXTENDS Naturals, Sequences, TextFsmFeed

(* prompt          "Router1#"                                              *)
(* hash            a line of output that has a # in it                     *)
(* filename        "Destination filename [x]?"                             *)
(* confirm         "[confirm]" at the start of a line                      *)
(* confirm_inline  "Proceed with reload? [confirm]"                        *)
(* yes_no          "(yes/no)?"                                             *)
(* yes_no_bracket  "Save? [yes/no]:"                                       *)
(* y_n             "(y/n)?"                                                *)
(* percent         "% Invalid input detected"                              *)
(* text            anything else                                           *)
IosAsks == {"filename", "confirm", "confirm_inline", "yes_no",
            "yes_no_bracket", "y_n"}
IosKind == IosAsks \cup {"prompt", "hash", "percent", "text"}

On(kinds, act, next) == [match |-> kinds, act |-> act, next |-> next]

(* CISCO_IOS_PROMPT, the template of run_cmd on an IOS connection. *)
CiscoIosPrompt ==
    [start |-> << On({"prompt", "hash"}, "Done", Stay),
                  On({"filename"}, "Send", Stay),
                  On({"confirm"}, "Send", Stay),
                  On({"yes_no"}, "Send", Stay),
                  On({"y_n"}, "Send", Stay) >>]

(* Mutant: prompts are matched at the start of a line. *)
ChatKindsAnchored == [hash    |-> {"prompt"},
                      bracket |-> {"filename"},
                      confirm |-> {"confirm"},
                      yes_no  |-> {"yes_no"},
                      yes_no_bracket |-> {"yes_no_bracket"}]

(* What a prompt of the PromptAction API matches: its text anywhere. *)
ChatKinds == [hash    |-> {"prompt", "hash"},
              bracket |-> {"filename"},
              confirm |-> {"confirm", "confirm_inline"},
              yes_no  |-> {"yes_no"},
              yes_no_bracket |-> {"yes_no_bracket"}]

(* build_chat_template: one rule per prompt, in the caller's order. *)
ChatTemplate(prompts) ==
    [start |-> [i \in DOMAIN prompts |->
                  IF prompts[i].done
                    THEN On(ChatKinds[prompts[i].text], "Done", Stay)
                    ELSE On(ChatKinds[prompts[i].text], "Send", "start")]]

DoneOn(text) == [text |-> text, done |-> TRUE]
AnswerOn(text) == [text |-> text, done |-> FALSE]

(* ios_prompt_actions: the default prompts of run_cmd_chat. *)
IosChat == ChatTemplate(<< DoneOn("hash"), AnswerOn("bracket"),
                           AnswerOn("confirm"), AnswerOn("yes_no") >>)

(* The prompts config_atomic answers when it schedules a reload. *)
ReloadChat == ChatTemplate(<< DoneOn("hash"), AnswerOn("yes_no_bracket"),
                              AnswerOn("confirm"), AnswerOn("bracket") >>)

(* The login templates tell apart, beside these: username and password      *)
(* ("Username: "), and a prompt of user EXEC mode ("Router1>").             *)
Sends(kinds, text, next) ==
    [match |-> kinds, act |-> "Send", next |-> next, send |-> text]
TermLen0(kinds) == Sends(kinds, "terminal length 0", "TermLen")

CiscoIosSshPostLogin ==
    [Start   |-> << TermLen0({"prompt", "hash"}) >>,
     TermLen |-> << On({"prompt", "hash"}, "Done", Stay) >>]

(* Mutant: the prompt after the password is the end of the login. *)
TelnetDoneEarly ==
    [Start        |-> << Sends({"username"}, "username", "WaitPassword"),
                         Sends({"password"}, "password", "WaitPrompt"),
                         TermLen0({"prompt", "hash"}), TermLen0({"user_prompt"}) >>,
     WaitPassword |-> << Sends({"password"}, "password", "WaitPrompt") >>,
     WaitPrompt   |-> << On({"prompt", "hash"}, "Done", Stay),
                         On({"user_prompt"}, "Done", Stay),
                         On({"percent"}, "Error", Stay) >>,
     TermLen      |-> << On({"prompt", "hash"}, "Done", Stay),
                         On({"user_prompt"}, "Done", Stay) >>]
(* Mutant: a refusal is looked for from the start. *)
TelnetRefusedAtStart ==
    [Start        |-> << On({"percent"}, "Error", Stay),
                         Sends({"username"}, "username", "WaitPassword"),
                         Sends({"password"}, "password", "WaitPrompt"),
                         TermLen0({"prompt", "hash"}), TermLen0({"user_prompt"}) >>,
     WaitPassword |-> << Sends({"password"}, "password", "WaitPrompt") >>,
     WaitPrompt   |-> << TermLen0({"prompt", "hash"}), TermLen0({"user_prompt"}),
                         On({"percent"}, "Error", Stay) >>,
     TermLen      |-> << On({"prompt", "hash"}, "Done", Stay),
                         On({"user_prompt"}, "Done", Stay) >>]

CiscoIosTelnetLogin ==
    [Start        |-> << Sends({"username"}, "username", "WaitPassword"),
                         Sends({"password"}, "password", "WaitPrompt"),
                         TermLen0({"prompt", "hash"}), TermLen0({"user_prompt"}) >>,
     WaitPassword |-> << Sends({"password"}, "password", "WaitPrompt") >>,
     WaitPrompt   |-> << TermLen0({"prompt", "hash"}), TermLen0({"user_prompt"}),
                         On({"percent"}, "Error", Stay) >>,
     TermLen      |-> << On({"prompt", "hash"}, "Done", Stay),
                         On({"user_prompt"}, "Done", Stay) >>]

(* The hops of CiscoIosConn::new(): to a device by telnet, or by ssh with a *)
(* password or a keyboard-interactive login.                               *)
To(where) == [type |-> "transport", to |-> where]
By(rules) == [type |-> "interactive", template |-> rules]
IosHops(conntype) ==
    << To(conntype), By(IF conntype = "telnet" THEN CiscoIosTelnetLogin
                                               ELSE CiscoIosSshPostLogin) >>
=============================================================================
