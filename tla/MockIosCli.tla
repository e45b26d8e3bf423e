----------------------------- MODULE MockIosCli ------------------------------
(***************************************************************************)
(* A client typing at a MockIosDevice behind the telnet or SSH server.     *)
(*                                                                         *)
(* The server task reads whatever bytes have arrived, passes them to       *)
(* send(), which handles them one by one, takes the output with receive()  *)
(* and writes it back; it ends when the device went to Reloading.  The     *)
(* device keeps a mode and at most one pending question, and the next      *)
(* line, whoever meant it for what, is the answer.                         *)
(*                                                                         *)
(* The client waits for its turn: it types when the last output it         *)
(* received ended in a prompt or a question, a command at a prompt and an  *)
(* answer at a question.  Output is reduced to the tokens it tells apart:  *)
(* "prompt", the name of a question, or "text" for everything else.        *)
(***************************************************************************)
EXTENDS Naturals, Sequences

CONSTANTS
    Commands,      \* command lines the client may type
    Answers,       \* question -> the lines it may answer with
    LineEnds,      \* sequences of "cr" and "lf" that its Enter key may send
    CancelKeys,    \* keys (of ControlKeys) it may press at a question
    SplitLineEnds  \* may a chunk end between a CR and its LF?

Logins == {"username", "password"}

Pendings ==
    {"copyConfirm", "copyFilename", "reloadConfirm", "reloadSave",
     "enablePassword", "installActivateConfirm", "configureMethod"}

Modes == {"Login", "LoginPassword", "UserExec", "PrivilegedExec", "Config",
          "ConfigSub", "Reloading"}

ControlKeys == {"ctrl_c", "ctrl_z", "ctrl_d"}

ASSUME CliAssumption ==
    /\ DOMAIN Answers = Pendings \cup Logins
    /\ LineEnds \subseteq {<<"cr">>, <<"lf">>, <<"cr", "lf">>}
    /\ CancelKeys \subseteq ControlKeys
    /\ SplitLineEnds \in BOOLEAN

VARIABLES
    has,      \* what the device is set up with: a login, an enable secret, install mode
    dev,      \* the device: mode, pending_interactive, input_buffer, output_queue
    chunk,    \* bytes of the current send() not handled yet
    atRead,   \* the server task waits for input
    open,     \* the connection is open
    net,      \* bytes on their way to the server
    seen,     \* what the last output the client received asks for
    turn,     \* the client may type
    given,    \* history: right passwords the client answered with, its privilege's
    lastLine  \* history: what the last line handled was sent for and taken as

vars == <<has, dev, chunk, atRead, open, net, seen, turn, given, lastLine>>

None == "none"

(* What the device waits for: a question, or a command. *)
Asking(d) ==
    IF d.pending # None
      THEN d.pending
      ELSE CASE d.mode = "Login"         -> "username"
             [] d.mode = "LoginPassword" -> "password"
             [] OTHER                    -> "prompt"

-----------------------------------------------------------------------------
(* Output. *)

Say(d, tokens) == [d EXCEPT !.output = @ \o tokens]

(* prompt(): nothing while logging in or reloading. *)
Prompt(d) ==
    IF d.mode \in {"Login", "LoginPassword", "Reloading"} THEN <<>> ELSE <<"prompt">>

SayPrompt(d) == Say(d, Prompt(d))

Enter(d, mode) == [d EXCEPT !.mode = mode]
Ask(d, question) == Say([d EXCEPT !.pending = question], <<question>>)

-----------------------------------------------------------------------------
(* Lines typed while logging in. *)

(* A mutant: a wrong password asks for the username without going back. *)
LoginNotReset(d, line) ==
    CASE d.mode = "Login" /\ line = "user" ->
           Say(Enter(d, "LoginPassword"), <<"password">>)
      [] d.mode = "LoginPassword" /\ line = "pass" ->
           SayPrompt(Enter(d, IF "secret" \in has THEN "UserExec" ELSE "PrivilegedExec"))
      [] OTHER -> Say(d, <<"username">>)

HandleLogin(d, line) ==
    CASE d.mode = "Login" /\ line = "user" ->
           Say(Enter(d, "LoginPassword"), <<"password">>)
      [] d.mode = "LoginPassword" /\ line = "pass" ->
           SayPrompt(Enter(d, IF "secret" \in has THEN "UserExec" ELSE "PrivilegedExec"))
      [] OTHER -> Say(Enter(d, "Login"), <<"username">>)

-----------------------------------------------------------------------------
(* Exec commands.  "show" stands for every command that only prints and    *)
(* prompts, "delete" for those of them the tree offers in privileged mode. *)

HandleEnable(d) ==
    CASE d.mode = "PrivilegedExec" -> SayPrompt(d)
      [] d.mode # "PrivilegedExec" /\ "secret" \in has -> Ask(d, "enablePassword")
      [] OTHER -> SayPrompt(Enter(d, "PrivilegedExec"))

HandleDisable(d) == SayPrompt(Enter(d, "UserExec"))
HandleConfigureTerminal(d) == SayPrompt(Enter(d, "Config"))

HandleInstallActivate(d) ==
    IF "install" \in has THEN Ask(d, "installActivateConfirm") ELSE SayPrompt(d)

HandleExit(d) == Enter(d, "Reloading")

(* A mutant: "configure terminal" offered in every exec mode. *)
PrivOnlyButConfigure ==
    {"disable", "configure", "copy http:", "copy flash:", "delete", "reload",
     "reload in", "install activate"}

PrivOnly ==
    {"disable", "configure", "configure terminal", "copy http:", "copy flash:",
     "delete", "reload", "reload in", "install activate"}

(* dispatch_exec(): unknown and filtered commands only print the prompt. *)
DispatchExec(d, line) ==
    IF line \in PrivOnly /\ d.mode # "PrivilegedExec"
      THEN SayPrompt(d)
      ELSE CASE line = "enable"             -> HandleEnable(d)
             [] line = "disable"            -> HandleDisable(d)
             [] line = "configure"          -> Ask(d, "configureMethod")
             [] line = "configure terminal" -> HandleConfigureTerminal(d)
             [] line = "copy http:"         -> Ask(d, "copyFilename")
             [] line = "copy flash:"        -> Ask(d, "copyConfirm")
             [] line = "reload"             -> Ask(d, "reloadConfirm")
             [] line = "reload in"          -> Ask(d, "reloadSave")
             [] line = "install activate"   -> HandleInstallActivate(d)
             [] line = "exit"               -> HandleExit(d)
             [] OTHER                       -> SayPrompt(d)

-----------------------------------------------------------------------------
(* Configuration commands. *)

HandleInterface(d) == SayPrompt(Enter(d, "ConfigSub"))
HandleConfigEnd(d) == SayPrompt(Enter(d, "PrivilegedExec"))

HandleConfigExit(d) ==
    SayPrompt(Enter(d, IF d.mode = "ConfigSub" THEN "Config" ELSE "PrivilegedExec"))

DoLines == [line \in {"do show", "do disable", "do reload"} |->
    CASE line = "do show"    -> "show"
      [] line = "do disable" -> "disable"
      [] line = "do reload"  -> "reload"]

(* "do": the exec command in privileged mode, then the configuration mode  *)
(* as it was and one more prompt.                                          *)
HandleDo(d, line) ==
    SayPrompt(Enter(DispatchExec(Enter(d, "PrivilegedExec"), line), d.mode))

DispatchConfig(d, line) ==
    CASE line \in DOMAIN DoLines -> HandleDo(d, DoLines[line])
      [] line = "interface"       -> HandleInterface(d)
      [] line = "end"             -> HandleConfigEnd(d)
      [] line = "exit"            -> HandleConfigExit(d)
      [] OTHER                    -> SayPrompt(d)

-----------------------------------------------------------------------------
(* Answers.  The question is taken before the answer is looked at. *)

HandleReload(d) == Say(Enter(d, "Reloading"), <<"text">>)

HandleInteractiveResponse(d, line, pending) ==
    CASE pending = "enablePassword" /\ line = "secret" ->
           SayPrompt(Enter(d, "PrivilegedExec"))
      [] pending = "installActivateConfirm" /\ line = "y" -> HandleReload(d)
      [] pending = "reloadConfirm" -> HandleReload(d)
      [] pending = "reloadSave"    -> Ask(d, "reloadConfirm")
      [] pending = "configureMethod" /\ line = "" -> SayPrompt(Enter(d, "Config"))
      [] OTHER -> SayPrompt(d)

(* A mutant: the pending question is looked at but not taken. *)
QuestionKept(d, line) ==
    CASE d.pending # None -> HandleInteractiveResponse(d, line, d.pending)
      [] d.pending = None /\ line = "" -> SayPrompt(d)
      [] d.pending = None /\ line # "" /\ d.mode \in {"Login", "LoginPassword"} ->
           HandleLogin(d, line)
      [] d.pending = None /\ line # "" /\ d.mode \in {"UserExec", "PrivilegedExec"} ->
           DispatchExec(d, line)
      [] d.pending = None /\ line # "" /\ d.mode \in {"Config", "ConfigSub"} ->
           DispatchConfig(d, line)
      [] OTHER -> d

(* handle_line(): a pending question comes first, even for an empty line. *)
HandleLine(d, line) ==
    CASE d.pending # None ->
           HandleInteractiveResponse([d EXCEPT !.pending = None], line, d.pending)
      [] d.pending = None /\ line = "" -> SayPrompt(d)
      [] d.pending = None /\ line # "" /\ d.mode \in {"Login", "LoginPassword"} ->
           HandleLogin(d, line)
      [] d.pending = None /\ line # "" /\ d.mode \in {"UserExec", "PrivilegedExec"} ->
           DispatchExec(d, line)
      [] d.pending = None /\ line # "" /\ d.mode \in {"Config", "ConfigSub"} ->
           DispatchConfig(d, line)
      [] OTHER -> d

-----------------------------------------------------------------------------
(* send(): one action per kind of byte. *)

IsPasswordMode(d) == d.mode = "LoginPassword" \/ d.pending = "enablePassword"

NextByte(key) == ~atRead /\ chunk # <<>> /\ Head(chunk).key = key

(* A byte was handled: dev is as it left it. *)
Handled(d) ==
    /\ dev' = d
    /\ chunk' = Tail(chunk)
    /\ UNCHANGED <<has, atRead, open, net, seen, turn>>

TypeText ==
    /\ NextByte("text")
    /\ LET echo == IF IsPasswordMode(dev) THEN <<>> ELSE <<"text">>
       IN  Handled(Say([dev EXCEPT !.input = Head(chunk).line], echo))
    /\ UNCHANGED <<given, lastLine>>

(* The passwords a line gives when it answers this question. *)
GivenBy(question, line) ==
    CASE question = "password"       -> {line} \cap {"pass"}
      [] question = "enablePassword" -> {line} \cap {"secret"}
      [] OTHER                       -> {}

(* The line is taken out of input_buffer, echoed as a line end and handled. *)
TakeLine ==
    LET line == dev.input
    IN  /\ Handled(HandleLine(Say([dev EXCEPT !.input = ""], <<"text">>), line))
        /\ lastLine' = [sent |-> Head(chunk).for, taken |-> Asking(dev)]
        /\ given' = (given \cup GivenBy(Asking(dev), line))
                       \ (IF dev.mode = "PrivilegedExec" /\ dev'.mode = "UserExec"
                          THEN {"secret"} ELSE {})

CarriageReturn == NextByte("cr") /\ TakeLine

(* LF: skipped as the second half of a CR LF when there is no input and    *)
(* there is output.                                                        *)
LfAlwaysCounts(d) == FALSE                     \* a mutant: no skipping
LfOnEmptySkipped(d) == d.input = ""            \* a mutant: output not looked at

LfIsSkipped(d) == d.input = "" /\ d.output # <<>>

LineFeed ==
    /\ NextByte("lf")
    /\ \/ LfIsSkipped(dev) /\ Handled(dev) /\ UNCHANGED <<given, lastLine>>
       \/ ~LfIsSkipped(dev) /\ TakeLine

(* Ctrl-C: input is dropped and a prompt printed, whatever is pending. *)
CancelInput(d) == SayPrompt([d EXCEPT !.input = ""])

CtrlC ==
    /\ NextByte("ctrl_c")
    /\ Handled(CancelInput(dev))
    /\ UNCHANGED <<given, lastLine>>

(* Ctrl-Z: the same, after leaving a configuration mode. *)
LeaveConfig(d) ==
    IF d.mode \in {"Config", "ConfigSub"} THEN Enter(d, "PrivilegedExec") ELSE d

CtrlZ ==
    /\ NextByte("ctrl_z")
    /\ Handled(CancelInput(LeaveConfig(dev)))
    /\ UNCHANGED <<given, lastLine>>

(* Ctrl-D on an empty line: disconnect. *)
CtrlD ==
    /\ NextByte("ctrl_d")
    /\ Handled(IF dev.input = "" THEN Enter(dev, "Reloading") ELSE dev)
    /\ UNCHANGED <<given, lastLine>>

-----------------------------------------------------------------------------
(* The server task. *)

(* A chunk: what has arrived so far, or less. *)
MayEndAt(n) ==
    n < Len(net) /\ net[n].key = "cr" /\ net[n + 1].key = "lf" => SplitLineEnds

Read ==
    /\ open /\ atRead /\ net # <<>>
    /\ \E n \in 1..Len(net) :
         /\ MayEndAt(n)
         /\ chunk' = SubSeq(net, 1, n)
         /\ net' = SubSeq(net, n + 1, Len(net))
    /\ atRead' = FALSE
    /\ UNCHANGED <<has, dev, open, seen, turn, given, lastLine>>

(* receive(), the write to the client, and the test for a disconnect; the  *)
(* client looks for the last prompt or question in what it gets.           *)
Questions(output) == {i \in DOMAIN output : output[i] # "text"}

ClientSees(output) ==
    \/ Questions(output) = {} /\ UNCHANGED <<seen, turn>>
    \/ \E i \in Questions(output) :
         /\ \A j \in Questions(output) : j <= i
         /\ seen' = output[i]
         /\ turn' = TRUE

Respond ==
    /\ open /\ ~atRead /\ chunk = <<>>
    /\ ClientSees(dev.output)
    /\ dev' = [dev EXCEPT !.output = <<>>]
    /\ atRead' = TRUE
    /\ open' = (dev.mode # "Reloading")
    /\ UNCHANGED <<has, chunk, net, given, lastLine>>

-----------------------------------------------------------------------------
(* The client. *)

Bytes(line, ending, for) ==
    (IF line = "" THEN <<>> ELSE <<[key |-> "text", line |-> line, for |-> for]>>)
      \o [i \in 1..Len(ending) |-> [key |-> ending[i], line |-> "", for |-> for]]

TypeLine ==
    /\ open /\ turn
    /\ \E line \in (IF seen = "prompt" THEN Commands ELSE Answers[seen]), e \in LineEnds :
         net' = net \o Bytes(line, e, seen)
    /\ turn' = FALSE
    /\ UNCHANGED <<has, dev, chunk, atRead, open, seen, given, lastLine>>

PressKey ==
    /\ open /\ turn
    /\ \E k \in (IF seen = "prompt" THEN ControlKeys ELSE CancelKeys) :
         net' = Append(net, [key |-> k, line |-> "", for |-> seen])
    /\ turn' = FALSE
    /\ UNCHANGED <<has, dev, chunk, atRead, open, seen, given, lastLine>>

-----------------------------------------------------------------------------
(* with_login(), with_enable(), new(), then the first receive(). *)
FirstMode(features) ==
    CASE "login" \in features -> "Login"
      [] "login" \notin features /\ "secret" \in features -> "UserExec"
      [] OTHER -> "PrivilegedExec"

Init ==
    /\ has \in SUBSET {"login", "secret", "install"}
    /\ dev = [mode |-> FirstMode(has), pending |-> None, input |-> "", output |-> <<>>]
    /\ chunk = <<>> /\ atRead = TRUE /\ open = TRUE /\ net = <<>>
    /\ seen = Asking(dev) /\ turn = TRUE
    /\ given = {} /\ lastLine = [sent |-> "prompt", taken |-> "prompt"]

Server ==
    \/ TypeText \/ CarriageReturn \/ LineFeed \/ CtrlC \/ CtrlZ \/ CtrlD
    \/ Read \/ Respond

Next == Server \/ TypeLine \/ PressKey

Spec == Init /\ [][Next]_vars

(* The server task runs on; nobody has to type. *)
FairSpec == Spec /\ WF_vars(Server)

-----------------------------------------------------------------------------
(* Properties. *)

Line  == {""} \cup Commands \cup UNION {Answers[q] : q \in Pendings \cup Logins}
Token == {"text", "prompt"} \cup Pendings \cup Logins
Asked == Token \ {"text"}
Byte  == [key : {"text", "cr", "lf"} \cup ControlKeys, line : Line, for : Asked]
Device == [mode : Modes, pending : Pendings \cup {None}, input : Line, output : Seq(Token)]

(* The device, the bytes and the client hold what they can hold. *)
TypeOK ==
    /\ has \subseteq {"login", "secret", "install"}
    /\ dev \in Device
    /\ chunk \in Seq(Byte) /\ net \in Seq(Byte)
    /\ atRead \in BOOLEAN /\ open \in BOOLEAN /\ turn \in BOOLEAN
    /\ seen \in Asked
    /\ given \subseteq {"pass", "secret"}
    /\ lastLine \in [sent : Asked, taken : Asked]

(* A line is handled as what its sender meant it for: no command is taken  *)
(* as the answer to a question nobody sees, no answer as a command, and no *)
(* half of a line end as a line of its own (handle_line() gives the next   *)
(* line, even an empty one, to the pending question).                      *)
LinesMeetTheirQuestion == lastLine.sent = lastLine.taken

(* When nothing is under way, the client's screen ends in what the device  *)
(* waits for: one prompt or question per line, after every handler.        *)
ScreenIsTrue ==
    open /\ net = <<>> /\ atRead /\ dev.output = <<>> => turn /\ seen = Asking(dev)

(* Privileged and configuration modes are entered only by who gave the     *)
(* login password, and the enable secret since the last "disable".         *)
PrivilegeIsEarned ==
    dev.mode \in {"PrivilegedExec", "Config", "ConfigSub"} =>
        /\ "login" \in has => "pass" \in given
        /\ "secret" \in has => "secret" \in given

(* The device goes down only for a session that asked for it: by Ctrl-D or *)
(* "exit" at a prompt, or by the answer to a question the client saw.      *)
ReloadIsMeant ==
    [][ dev.mode # "Reloading" /\ dev'.mode = "Reloading" =>
          \/ Head(chunk).key = "ctrl_d" \/ dev.input = "exit"
          \/ Head(chunk).for \in {"reloadConfirm", "installActivateConfirm"} ]_vars

(* Whatever is typed, the client gets its turn again or the session ends:  *)
(* the server loop answers every line it was sent.                         *)
EveryLineAnswered == ~turn ~> (turn \/ ~open)
=============================================================================
