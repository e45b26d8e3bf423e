-------------------------- MODULE MockIosCli_proofs --------------------------
(***************************************************************************)
(* Theorems about MockIosCli: its type invariant, and that no privileged   *)
(* mode is reached without the passwords, for every set of commands,       *)
(* answers, line ends and keys, however the bytes are cut into reads; and  *)
(* that client and device keep their turns when the client is Mannered.    *)
(***************************************************************************)
EXTENDS MockIosCli, StreamLemmas

(* The handlers return a device; its fields are those of the device they   *)
(* were given, except for the ones they set.                               *)
LEMMA SayLemma ==
    ASSUME NEW d \in Device, NEW tokens \in Seq(Token)
    PROVE  /\ Say(d, tokens) \in Device
           /\ Say(d, tokens).mode = d.mode
           /\ Say(d, tokens).pending = d.pending
           /\ Say(d, tokens).input = d.input
  <1>1. d.output \o tokens \in Seq(Token)
    BY ConcatLemma DEF Device
  <1> QED BY <1>1 DEF Say, Device

(* The prompt is output. *)
LEMMA SayPromptLemma ==
    ASSUME NEW d \in Device
    PROVE  /\ SayPrompt(d) \in Device
           /\ SayPrompt(d).mode = d.mode
           /\ SayPrompt(d).pending = d.pending
           /\ SayPrompt(d).input = d.input
  <1>1. <<>> \in Seq(Token) /\ <<"prompt">> \in Seq(Token)
    BY DEF Token
  <1>2. Prompt(d) \in Seq(Token)
    BY <1>1 DEF Prompt
  <1> QED BY <1>2, SayLemma DEF SayPrompt

(* A change of mode. *)
LEMMA EnterLemma ==
    ASSUME NEW d \in Device, NEW m \in Modes
    PROVE  /\ Enter(d, m) \in Device
           /\ Enter(d, m).mode = m
           /\ Enter(d, m).pending = d.pending
           /\ Enter(d, m).input = d.input
  BY DEF Enter, Device

(* A question. *)
LEMMA AskLemma ==
    ASSUME NEW d \in Device, NEW q \in Pendings
    PROVE  /\ Ask(d, q) \in Device
           /\ Ask(d, q).mode = d.mode
           /\ Ask(d, q).pending = q
           /\ Ask(d, q).input = d.input
  <1>1. [d EXCEPT !.pending = q] \in Device
    BY DEF Device
  <1>2. <<q>> \in Seq(Token)
    BY DEF Token
  <1> QED BY <1>1, <1>2, SayLemma DEF Ask, Device

(* A change of mode and the output that tells of it. *)
LEMMA EnterPromptLemma ==
    ASSUME NEW d \in Device, NEW m \in Modes
    PROVE  /\ SayPrompt(Enter(d, m)) \in Device
           /\ SayPrompt(Enter(d, m)).mode = m
           /\ SayPrompt(Enter(d, m)).pending = d.pending
  <1>1. Enter(d, m) \in Device /\ Enter(d, m).mode = m /\ Enter(d, m).pending = d.pending
    BY EnterLemma
  <1> QED BY <1>1, SayPromptLemma

(* A change of mode and any other output. *)
LEMMA EnterSayLemma ==
    ASSUME NEW d \in Device, NEW m \in Modes, NEW tokens \in Seq(Token)
    PROVE  /\ Say(Enter(d, m), tokens) \in Device
           /\ Say(Enter(d, m), tokens).mode = m
           /\ Say(Enter(d, m), tokens).pending = d.pending
  <1>1. Enter(d, m) \in Device /\ Enter(d, m).mode = m /\ Enter(d, m).pending = d.pending
    BY EnterLemma
  <1> QED BY <1>1, SayLemma

-----------------------------------------------------------------------------
(* What the client has given, and what a device may then be in.  The part  *)
(* about pending questions makes it inductive: the answer to a question    *)
(* can change the mode long after the command that asked it.               *)
LoggedIn(g) == "login" \in has => "pass" \in g
Earned(g)   == LoggedIn(g) /\ ("secret" \in has => "secret" \in g)

Safe(d, g) ==
    /\ d.mode \in {"PrivilegedExec", "Config", "ConfigSub"} => Earned(g)
    /\ d.mode = "UserExec" => LoggedIn(g)
    /\ d.pending # None => LoggedIn(g)
    /\ d.pending = "configureMethod" => Earned(g)

(* A device the handlers may be left with, and its privileges. *)
LEMMA ExecKeeps ==
    ASSUME NEW d \in Device, NEW g, NEW line,
           d.mode \in {"UserExec", "PrivilegedExec"}, d.pending = None, Safe(d, g)
    PROVE  /\ DispatchExec(d, line) \in Device
           /\ Safe(DispatchExec(d, line), g)
           /\ d.mode = "PrivilegedExec" /\ DispatchExec(d, line).mode = "UserExec" =>
                DispatchExec(d, line).pending = None
  <1> DEFINE e == DispatchExec(d, line)
  <1>a. SayPrompt(d) \in Device /\ SayPrompt(d).mode = d.mode /\ SayPrompt(d).pending = None
    BY SayPromptLemma
  <1>1. CASE line \in PrivOnly /\ d.mode # "PrivilegedExec"
    BY <1>1, <1>a DEF DispatchExec, Safe
  <1>2. CASE ~(line \in PrivOnly /\ d.mode # "PrivilegedExec") /\ line = "enable"
    <2>1. e = HandleEnable(d)
      BY <1>2 DEF DispatchExec
    <2>2. CASE d.mode = "PrivilegedExec"
      BY <2>1, <2>2, <1>a DEF HandleEnable, Safe
    <2>3. CASE d.mode # "PrivilegedExec" /\ "secret" \in has
      BY <2>1, <2>3, AskLemma DEF HandleEnable, Safe, Pendings, None
    <2>4. CASE d.mode # "PrivilegedExec" /\ "secret" \notin has
      <3>1. e = SayPrompt(Enter(d, "PrivilegedExec"))
        BY <2>1, <2>4 DEF HandleEnable
      <3> QED BY <3>1, <2>4, EnterPromptLemma DEF Safe, Earned, Modes, None
    <2> QED BY <2>2, <2>3, <2>4
  <1>3. CASE d.mode = "PrivilegedExec" /\ line = "disable"
    <2>1. e = SayPrompt(Enter(d, "UserExec"))
      BY <1>3 DEF DispatchExec, HandleDisable
    <2> QED BY <2>1, <1>3, EnterPromptLemma DEF Safe, Earned, Modes, None
  <1>4. CASE d.mode = "PrivilegedExec" /\ line = "configure terminal"
    <2>1. e = SayPrompt(Enter(d, "Config"))
      BY <1>4 DEF DispatchExec, HandleConfigureTerminal
    <2>2. "Config" \in Modes
      BY DEF Modes
    <2>3. e \in Device /\ e.mode = "Config" /\ e.pending = None
      BY <2>1, <2>2, EnterPromptLemma
    <2> QED BY <2>3, <1>4 DEF Safe, None
  <1>5. CASE /\ d.mode = "PrivilegedExec"
             /\ line \in {"configure", "copy http:", "copy flash:", "reload", "reload in",
                          "install activate"}
    <2>1. \/ e = SayPrompt(d)
          \/ \E q \in Pendings : e = Ask(d, q)
      BY <1>5 DEF DispatchExec, HandleInstallActivate, Pendings
    <2> QED BY <2>1, <1>5, <1>a, AskLemma DEF Safe, Earned, Modes, None
  <1>6. CASE line = "exit"
    <2>1. e = Enter(d, "Reloading")
      BY <1>6 DEF DispatchExec, HandleExit, PrivOnly
    <2> QED BY <2>1, EnterLemma DEF Safe, Modes
  <1>7. CASE line \notin {"enable", "disable", "configure", "configure terminal", "copy http:",
                          "copy flash:", "reload", "reload in", "install activate", "exit"}
    BY <1>7, <1>a DEF DispatchExec, Safe
  <1> QED BY <1>1, <1>2, <1>3, <1>4, <1>5, <1>6, <1>7 DEF PrivOnly

-----------------------------------------------------------------------------
(* The other handlers.  A right password counts among what was given when  *)
(* it answers the question for it.                                         *)
With(g, question, line) == g \cup GivenBy(question, line)

(* What was given stays given. *)
LEMMA SafeGrows ==
    ASSUME NEW d, NEW g, NEW question, NEW line, Safe(d, g)
    PROVE  Safe(d, With(g, question, line))
  BY DEF Safe, Earned, LoggedIn, With

(* The login dialogue. *)
LEMMA LoginKeeps ==
    ASSUME NEW d \in Device, NEW g, NEW line,
           d.mode \in {"Login", "LoginPassword"}, d.pending = None
    PROVE  /\ HandleLogin(d, line) \in Device
           /\ Safe(HandleLogin(d, line), With(g, Asking(d), line))
  <1>2. CASE d.mode = "Login" /\ line = "user"
    <2>1. HandleLogin(d, line) = Say(Enter(d, "LoginPassword"), <<"password">>)
      BY <1>2 DEF HandleLogin
    <2>2. "LoginPassword" \in Modes /\ <<"password">> \in Seq(Token)
      BY DEF Modes, Token, Logins
    <2> DEFINE e == Say(Enter(d, "LoginPassword"), <<"password">>)
    <2>3. e \in Device /\ e.mode = "LoginPassword" /\ e.pending = None
      BY <2>2, EnterSayLemma
    <2> QED BY <2>1, <2>3 DEF Safe, None
  <1>3. CASE d.mode = "LoginPassword" /\ line = "pass"
    <2> DEFINE m == IF "secret" \in has THEN "UserExec" ELSE "PrivilegedExec"
    <2>1. HandleLogin(d, line) = SayPrompt(Enter(d, m))
      BY <1>3 DEF HandleLogin
    <2>2. m \in Modes /\ LoggedIn(With(g, Asking(d), line))
      BY <1>3 DEF Modes, LoggedIn, With, GivenBy, Asking
    <2>3. m # "UserExec" => m = "PrivilegedExec" /\ Earned(With(g, Asking(d), line))
      BY <2>2 DEF Earned
    <2> HIDE DEF m
    <2> QED BY <2>1, <2>2, <2>3, EnterPromptLemma DEF Safe, None
  <1>4. CASE ~(d.mode = "Login" /\ line = "user") /\ ~(d.mode = "LoginPassword" /\ line = "pass")
    <2>1. HandleLogin(d, line) = Say(Enter(d, "Login"), <<"username">>)
      BY <1>4 DEF HandleLogin
    <2>2. "Login" \in Modes /\ <<"username">> \in Seq(Token)
      BY DEF Modes, Token, Logins
    <2> DEFINE e == Say(Enter(d, "Login"), <<"username">>)
    <2>3. e \in Device /\ e.mode = "Login" /\ e.pending = None
      BY <2>2, EnterSayLemma
    <2> QED BY <2>1, <2>3 DEF Safe, None
  <1> QED BY <1>2, <1>3, <1>4

(* Configuration mode, do-lines included. *)
LEMMA ConfigKeeps ==
    ASSUME NEW d \in Device, NEW g, NEW line,
           d.mode \in {"Config", "ConfigSub"}, d.pending = None, Safe(d, g)
    PROVE  /\ DispatchConfig(d, line) \in Device
           /\ Safe(DispatchConfig(d, line), g)
  <1>1. Earned(g) /\ LoggedIn(g)
    BY DEF Safe, Earned
  <1>2. CASE line \in DOMAIN DoLines
    <2> DEFINE p == Enter(d, "PrivilegedExec")
               e == DispatchExec(p, DoLines[line])
    <2>1. p \in Device /\ p.mode = "PrivilegedExec" /\ p.pending = None /\ Safe(p, g)
      BY <1>1, EnterLemma DEF Safe, Modes, None
    <2> HIDE DEF p
    <2>2. e \in Device /\ Safe(e, g)
      BY <2>1, ExecKeeps
    <2>3. DispatchConfig(d, line) = SayPrompt(Enter(e, d.mode))
      BY <1>2 DEF DispatchConfig, HandleDo, DoLines, p
    <2> HIDE DEF e
    <2>4. d.mode \in Modes
      BY DEF Device
    <2> QED BY <2>2, <2>3, <2>4, <1>1, EnterPromptLemma DEF Safe
  <1>3. CASE line \notin DOMAIN DoLines
    <2>1. \/ DispatchConfig(d, line) = SayPrompt(d)
          \/ \E m \in {"ConfigSub", "Config", "PrivilegedExec"} :
               DispatchConfig(d, line) = SayPrompt(Enter(d, m))
      <3>1. CASE line \in {"interface", "end", "exit"}
        BY <3>1, <1>3 DEF DispatchConfig, HandleInterface, HandleConfigEnd, HandleConfigExit
      <3>2. CASE line \notin {"interface", "end", "exit"}
        BY <3>2, <1>3 DEF DispatchConfig
      <3> QED BY <3>1, <3>2
    <2>2. {"ConfigSub", "Config", "PrivilegedExec"} \subseteq Modes
      BY DEF Modes
    <2>3. \A m \in Modes :
            SayPrompt(Enter(d, m)) \in Device /\ SayPrompt(Enter(d, m)).pending = None
      BY EnterPromptLemma
    <2>4. SayPrompt(d) \in Device /\ SayPrompt(d).pending = None
      BY SayPromptLemma
    <2>5. DispatchConfig(d, line) \in Device /\ DispatchConfig(d, line).pending = None
      BY <2>1, <2>2, <2>3, <2>4
    <2> QED BY <2>5, <1>1 DEF Safe, None
  <1> QED BY <1>2, <1>3

(* Answers. *)
LEMMA AnswerKeeps ==
    ASSUME NEW d \in Device, NEW g, NEW line, NEW pending \in Pendings,
           d.pending = None, Safe([d EXCEPT !.pending = pending], g)
    PROVE  /\ HandleInteractiveResponse(d, line, pending) \in Device
           /\ Safe(HandleInteractiveResponse(d, line, pending), With(g, pending, line))
           /\ HandleInteractiveResponse(d, line, pending).mode = "UserExec" =>
                d.mode = "UserExec"
  <1> DEFINE e == HandleInteractiveResponse(d, line, pending)
  <1>1. /\ Safe(d, With(g, pending, line)) /\ LoggedIn(With(g, pending, line))
        /\ pending = "configureMethod" => Earned(With(g, pending, line))
    <2>1. Safe([d EXCEPT !.pending = pending], With(g, pending, line))
      BY SafeGrows
    <2>2. [d EXCEPT !.pending = pending].pending = pending /\ pending # None
      BY DEF Device, Pendings, None
    <2>3. [d EXCEPT !.pending = pending].mode = d.mode
      BY DEF Device
    <2> QED BY <2>1, <2>2, <2>3 DEF Safe, None
  <1>2. <<"text">> \in Seq(Token)
    BY DEF Token
  <1>3. \/ e = SayPrompt(d)
        \/ e = Say(Enter(d, "Reloading"), <<"text">>)
        \/ e = Ask(d, "reloadConfirm")
        \/ e = SayPrompt(Enter(d, "PrivilegedExec")) /\ line = "secret" /\ pending = "enablePassword"
        \/ e = SayPrompt(Enter(d, "Config")) /\ pending = "configureMethod"
    BY DEF HandleInteractiveResponse, HandleReload, Pendings
  <1> HIDE DEF e
  <1>4. CASE e = SayPrompt(d)
    BY <1>4, <1>1, SayPromptLemma DEF Safe, e
  <1>5. CASE e = Say(Enter(d, "Reloading"), <<"text">>)
    <2>1. "Reloading" \in Modes
      BY DEF Modes
    <2>2. e \in Device /\ e.mode = "Reloading" /\ e.pending = None
      BY <1>2, <1>5, <2>1, EnterSayLemma
    <2> QED BY <2>2 DEF Safe, None, e
  <1>6. CASE e = Ask(d, "reloadConfirm")
    BY <1>6, <1>1, AskLemma DEF Safe, Pendings, e
  <1>7. CASE e = SayPrompt(Enter(d, "PrivilegedExec")) /\ line = "secret" /\ pending = "enablePassword"
    <2>1. Earned(With(g, pending, line))
      BY <1>7, <1>1 DEF Earned, With, GivenBy
    <2> QED BY <2>1, <1>7, <1>1, EnterPromptLemma DEF Safe, Modes, e
  <1>8. CASE e = SayPrompt(Enter(d, "Config")) /\ pending = "configureMethod"
    BY <1>8, <1>1, EnterPromptLemma DEF Safe, Modes, e
  <1> QED BY <1>3, <1>4, <1>5, <1>6, <1>7, <1>8

(* A line, whatever it is and whatever is pending. *)
LEMMA LineKeeps ==
    ASSUME NEW d \in Device, NEW g, NEW line, Safe(d, g)
    PROVE  /\ HandleLine(d, line) \in Device
           /\ Safe(HandleLine(d, line), With(g, Asking(d), line))
           /\ d.mode = "PrivilegedExec" /\ HandleLine(d, line).mode = "UserExec" =>
                HandleLine(d, line).pending = None
  <1>0. /\ d.mode \in Modes /\ d.pending \in Pendings \cup {None}
        /\ Safe(d, With(g, Asking(d), line))
    BY SafeGrows DEF Device
  <1>1. CASE d.pending # None
    <2> DEFINE free == [d EXCEPT !.pending = None]
    <2>1. HandleLine(d, line) = HandleInteractiveResponse(free, line, d.pending)
      BY <1>1 DEF HandleLine
    <2>2. free \in Device /\ free.pending = None /\ free.mode = d.mode
          /\ [free EXCEPT !.pending = d.pending] = d
      BY DEF Device
    <2> HIDE DEF free
    <2>3. Safe([free EXCEPT !.pending = d.pending], g)
      BY <2>2
    <2>4. d.pending \in Pendings /\ Asking(d) = d.pending
      BY <1>0, <1>1 DEF Asking
    <2> QED BY <2>1, <2>2, <2>3, <2>4, AnswerKeeps
  <1>2. CASE d.pending = None /\ line = ""
    <2>1. HandleLine(d, line) = SayPrompt(d)
      BY <1>2 DEF HandleLine
    <2> QED BY <2>1, <1>0, <1>2, SayPromptLemma DEF Safe
  <1>3. CASE d.pending = None /\ line # "" /\ d.mode \in {"Login", "LoginPassword"}
    <2>1. HandleLine(d, line) = HandleLogin(d, line)
      BY <1>3 DEF HandleLine
    <2>2. HandleLogin(d, line) \in Device /\ Safe(HandleLogin(d, line), With(g, Asking(d), line))
      <3>1. d.mode \in {"Login", "LoginPassword"} /\ d.pending = None
        BY <1>3
      <3> QED BY <3>1, LoginKeeps
    <2> QED BY <2>1, <2>2, <1>3
  <1>4. CASE d.pending = None /\ line # "" /\ d.mode \in {"UserExec", "PrivilegedExec"}
    <2>1. HandleLine(d, line) = DispatchExec(d, line)
      BY <1>4 DEF HandleLine
    <2> DEFINE e == DispatchExec(d, line)
    <2>2. /\ e \in Device /\ Safe(e, g)
          /\ d.mode = "PrivilegedExec" /\ e.mode = "UserExec" => e.pending = None
      <3>1. d.mode \in {"UserExec", "PrivilegedExec"} /\ d.pending = None
        BY <1>4
      <3> QED BY <3>1, ExecKeeps
    <2>3. Safe(e, With(g, Asking(d), line))
      BY <2>2, SafeGrows
    <2> QED BY <2>1, <2>2, <2>3
  <1>5. CASE d.pending = None /\ line # "" /\ d.mode \in {"Config", "ConfigSub"}
    <2>1. HandleLine(d, line) = DispatchConfig(d, line)
      BY <1>5 DEF HandleLine
    <2> DEFINE e == DispatchConfig(d, line)
    <2>2. e \in Device /\ Safe(e, g)
      <3>1. d.mode \in {"Config", "ConfigSub"} /\ d.pending = None
        BY <1>5
      <3> QED BY <3>1, ConfigKeeps
    <2>3. Safe(e, With(g, Asking(d), line))
      BY <2>2, SafeGrows
    <2> QED BY <2>1, <2>2, <2>3, <1>5
  <1>6. CASE d.pending = None /\ line # "" /\ d.mode = "Reloading"
    <2>1. HandleLine(d, line) = d
      BY <1>6 DEF HandleLine
    <2> QED BY <2>1, <1>0, <1>6
  <1> QED BY <1>0, <1>1, <1>2, <1>3, <1>4, <1>5, <1>6 DEF Modes

-----------------------------------------------------------------------------
(* Type correctness. *)

(* What the client types. *)
LEMMA BytesType ==
    ASSUME NEW line \in Line, NEW ending \in LineEnds, NEW for \in Asked
    PROVE  Bytes(line, ending, for) \in Seq(Byte)
  <1> DEFINE typed == IF line = "" THEN <<>> ELSE <<[key |-> "text", line |-> line, for |-> for]>>
             enter == [i \in 1..Len(ending) |-> [key |-> ending[i], line |-> "", for |-> for]]
  <1>1. typed \in Seq(Byte)
    <2>1. [key |-> "text", line |-> line, for |-> for] \in Byte
      BY DEF Byte
    <2>2. <<>> \in Seq(Byte) /\ <<[key |-> "text", line |-> line, for |-> for]>> \in Seq(Byte)
      BY <2>1
    <2> QED BY <2>2
  <1>2. enter \in Seq(Byte)
    <2>1. Len(ending) \in Nat /\ \A i \in 1..Len(ending) : ending[i] \in {"cr", "lf"}
      BY CliAssumption
    <2>2. \A i \in 1..Len(ending) : [key |-> ending[i], line |-> "", for |-> for] \in Byte
      BY <2>1 DEF Byte, Line
    <2>3. enter \in [1..Len(ending) -> Byte]
      BY <2>2
    <2> HIDE DEF enter
    <2> QED BY <2>1, <2>3, ElementsLemma
  <1> HIDE DEF typed, enter
  <1> QED BY <1>1, <1>2, ConcatLemma DEF Bytes, typed, enter

(* What the device waits for is something a client can be asked for. *)
LEMMA AskingType ==
    ASSUME NEW d \in Device
    PROVE  Asking(d) \in Asked
  BY DEF Asking, Asked, Token, Device, Logins, Pendings, None

(* The invariant: types, and the privileges of a device that may have a    *)
(* question pending.                                                       *)
IInv == TypeOK /\ Safe(dev, given)

(* The device starts with a prompt and no privilege it should not have. *)
LEMMA InitIInv == Init => IInv
  <1> SUFFICES ASSUME Init PROVE IInv
    OBVIOUS
  <1>1. FirstMode(has) \in {"Login", "UserExec", "PrivilegedExec"}
    BY DEF FirstMode
  <1>2. dev \in Device
    <2>1. FirstMode(has) \in Modes /\ None \in Pendings \cup {None} /\ "" \in Line
      BY <1>1 DEF Modes, Line
    <2>2. <<>> \in Seq(Token)
      OBVIOUS
    <2> QED BY <2>1, <2>2 DEF Init, Device
  <1>3. /\ FirstMode(has) = "PrivilegedExec" => Earned({})
        /\ FirstMode(has) = "UserExec" => LoggedIn({})
    BY DEF FirstMode, Earned, LoggedIn
  <1>4. dev.mode = FirstMode(has) /\ dev.pending = None /\ given = {}
    BY DEF Init
  <1>5. Safe(dev, given)
    BY <1>1, <1>3, <1>4 DEF Safe, None
  <1>6. seen \in Asked
    BY <1>2, AskingType DEF Init
  <1>7. "prompt" \in Asked
    BY DEF Asked, Token
  <1>8. <<>> \in Seq(Byte)
    OBVIOUS
  <1>9. TypeOK
    BY <1>2, <1>6, <1>7, <1>8 DEF Init, TypeOK
  <1> QED BY <1>5, <1>9 DEF IInv

(* What handling a byte leaves alone. *)
LEMMA HandledKeeps ==
    ASSUME IInv, chunk # <<>>, NEW d \in Device, Handled(d),
           Safe(d, given'), given' \subseteq {"pass", "secret"},
           lastLine' \in [sent : Asked, taken : Asked]
    PROVE  IInv'
  <1>1. Tail(chunk) \in Seq(Byte)
    BY TailLemma DEF IInv, TypeOK
  <1>2. dev' = d /\ has' = has
    BY DEF Handled
  <1>3. Safe(dev, given)'
    BY <1>2 DEF Safe, Earned, LoggedIn
  <1> QED BY <1>1, <1>2, <1>3 DEF IInv, TypeOK, Handled

(* A text byte. *)
LEMMA TypeTextKeeps == IInv /\ TypeText => IInv'
  <1> SUFFICES ASSUME IInv, TypeText PROVE IInv'
    OBVIOUS
  <1> DEFINE t == [dev EXCEPT !.input = Head(chunk).line]
             echo == IF IsPasswordMode(dev) THEN <<>> ELSE <<"text">>
  <1>1. chunk # <<>> /\ Head(chunk) \in Byte
    BY TailLemma DEF IInv, TypeOK, TypeText, NextByte
  <1>2. t \in Device /\ t.mode = dev.mode /\ t.pending = dev.pending
    BY <1>1 DEF IInv, TypeOK, Device, Byte
  <1>3. <<>> \in Seq(Token) /\ <<"text">> \in Seq(Token)
    BY DEF Token
  <1>4. echo \in Seq(Token)
    BY <1>3
  <1>5. Handled(Say(t, echo)) /\ UNCHANGED <<given, lastLine>>
    BY DEF TypeText
  <1> HIDE DEF t, echo
  <1>6. Say(t, echo) \in Device /\ Safe(Say(t, echo), given)
    BY <1>2, <1>4, SayLemma DEF IInv, Safe
  <1> QED BY <1>1, <1>5, <1>6, HandledKeeps DEF IInv, TypeOK

(* A line end that counts: "secret" leaves what was given only with the    *)
(* privilege it gave.                                                      *)
LEMMA TakeLineKeeps ==
    ASSUME IInv, chunk # <<>>, TakeLine
    PROVE  IInv'
  <1> DEFINE s == Say([dev EXCEPT !.input = ""], <<"text">>)
             line == dev.input
             e == HandleLine(s, line)
  <1>1. Head(chunk) \in Byte /\ dev \in Device
    BY TailLemma DEF IInv, TypeOK
  <1>2. s \in Device /\ s.mode = dev.mode /\ s.pending = dev.pending
    <2>1. <<"text">> \in Seq(Token)
      BY DEF Token
    <2>2. /\ [dev EXCEPT !.input = ""] \in Device
          /\ [dev EXCEPT !.input = ""].mode = dev.mode
          /\ [dev EXCEPT !.input = ""].pending = dev.pending
      BY <1>1 DEF Device, Line
    <2> QED BY <2>1, <2>2, SayLemma
  <1>3. Handled(e)
    BY DEF TakeLine
  <1>4. /\ lastLine' = [sent |-> Head(chunk).for, taken |-> Asking(dev)]
        /\ given' = With(given, Asking(dev), line)
                      \ (IF dev.mode = "PrivilegedExec" /\ dev'.mode = "UserExec"
                         THEN {"secret"} ELSE {})
    BY DEF TakeLine, With
  <1> HIDE DEF s, line
  <1>5. Safe(s, given)
    BY <1>2 DEF IInv, Safe
  <1>6. /\ e \in Device /\ Safe(e, With(given, Asking(dev), line))
        /\ s.mode = "PrivilegedExec" /\ e.mode = "UserExec" => e.pending = None
    <2>1. Asking(s) = Asking(dev)
      BY <1>2 DEF Asking
    <2> QED BY <1>2, <1>5, <2>1, LineKeeps
  <1> HIDE DEF e
  <1>7. dev' = e
    BY <1>3 DEF Handled
  <1>8. Safe(e, given')
    <2>1. CASE dev.mode = "PrivilegedExec" /\ dev'.mode = "UserExec"
      <3>1. given' = With(given, Asking(dev), line) \ {"secret"}
        BY <1>4, <2>1
      <3>2. e.mode = "UserExec" /\ e.pending = None
        BY <1>2, <1>6, <1>7, <2>1
      <3>3. LoggedIn(given')
        BY <1>6, <3>1, <3>2 DEF Safe, LoggedIn
      <3> QED BY <3>2, <3>3 DEF Safe, None
    <2>2. CASE ~(dev.mode = "PrivilegedExec" /\ dev'.mode = "UserExec")
      BY <1>4, <1>6, <2>2
    <2> QED BY <2>1, <2>2
  <1>9. lastLine' \in [sent : Asked, taken : Asked]
    BY <1>1, <1>4, AskingType DEF Byte
  <1>10. given' \subseteq {"pass", "secret"}
    BY <1>4 DEF IInv, TypeOK, With, GivenBy
  <1> QED BY <1>3, <1>6, <1>8, <1>9, <1>10, HandledKeeps

(* Ctrl-C and Ctrl-Z. *)
LEMMA CancelKeeps ==
    ASSUME NEW d \in Device, NEW g, Safe(d, g)
    PROVE  CancelInput(d) \in Device /\ Safe(CancelInput(d), g)
  <1> DEFINE c == [d EXCEPT !.input = ""]
  <1>1. c \in Device /\ c.mode = d.mode /\ c.pending = d.pending
    BY DEF Device, Line
  <1>2. CancelInput(d) = SayPrompt(c)
    BY DEF CancelInput
  <1> HIDE DEF c
  <1> QED BY <1>1, <1>2, SayPromptLemma DEF Safe

(* Leaving a configuration mode keeps the privilege. *)
LEMMA LeaveConfigKeeps ==
    ASSUME NEW d \in Device, NEW g, Safe(d, g)
    PROVE  LeaveConfig(d) \in Device /\ Safe(LeaveConfig(d), g)
  <1>1. CASE d.mode \in {"Config", "ConfigSub"}
    <2>1. LeaveConfig(d) = Enter(d, "PrivilegedExec") /\ Earned(g)
      BY <1>1 DEF LeaveConfig, Safe
    <2>2. "PrivilegedExec" \in Modes
      BY DEF Modes
    <2> QED BY <2>1, <2>2, EnterLemma DEF Safe
  <1>2. CASE d.mode \notin {"Config", "ConfigSub"}
    BY <1>2 DEF LeaveConfig
  <1> QED BY <1>1, <1>2

(* Every step keeps the invariant. *)
LEMMA NextIInv == IInv /\ [Next]_vars => IInv'
  <1> SUFFICES ASSUME IInv, [Next]_vars PROVE IInv'
    OBVIOUS
  <1>0. dev \in Device /\ Safe(dev, given) /\ given \subseteq {"pass", "secret"}
        /\ lastLine \in [sent : Asked, taken : Asked]
    BY DEF IInv, TypeOK
  <1>1. CASE TypeText
    BY <1>1, TypeTextKeeps
  <1>2. CASE CarriageReturn
    BY <1>2, TakeLineKeeps DEF CarriageReturn, NextByte
  <1>3. CASE LineFeed
    <2>1. chunk # <<>>
      BY <1>3 DEF LineFeed, NextByte
    <2>2. CASE Handled(dev) /\ UNCHANGED <<given, lastLine>>
      BY <1>0, <2>1, <2>2, HandledKeeps
    <2>3. CASE TakeLine
      BY <2>1, <2>3, TakeLineKeeps
    <2> QED BY <1>3, <2>2, <2>3 DEF LineFeed
  <1>4. CASE CtrlC
    <2>1. CancelInput(dev) \in Device /\ Safe(CancelInput(dev), given)
      BY <1>0, CancelKeeps
    <2>2. chunk # <<>> /\ Handled(CancelInput(dev)) /\ UNCHANGED <<given, lastLine>>
      BY <1>4 DEF CtrlC, NextByte
    <2> QED BY <1>0, <2>1, <2>2, HandledKeeps
  <1>5. CASE CtrlZ
    <2> DEFINE d == LeaveConfig(dev)
    <2>1. d \in Device /\ Safe(d, given)
      BY <1>0, LeaveConfigKeeps
    <2>2. chunk # <<>> /\ Handled(CancelInput(d)) /\ UNCHANGED <<given, lastLine>>
      BY <1>5 DEF CtrlZ, NextByte
    <2> HIDE DEF d
    <2>3. CancelInput(d) \in Device /\ Safe(CancelInput(d), given)
      BY <2>1, CancelKeeps
    <2> QED BY <1>0, <2>2, <2>3, HandledKeeps
  <1>6. CASE CtrlD
    <2> DEFINE d == IF dev.input = "" THEN Enter(dev, "Reloading") ELSE dev
    <2>1. chunk # <<>> /\ Handled(d) /\ UNCHANGED <<given, lastLine>>
      BY <1>6 DEF CtrlD, NextByte
    <2>2. "Reloading" \in Modes
      BY DEF Modes
    <2>3. Enter(dev, "Reloading") \in Device /\ Safe(Enter(dev, "Reloading"), given)
      BY <1>0, <2>2, EnterLemma DEF Safe
    <2>4. d \in Device /\ Safe(d, given)
      BY <1>0, <2>3
    <2> HIDE DEF d
    <2> QED BY <1>0, <2>1, <2>4, HandledKeeps
  <1>7. CASE Read
    <2>1. PICK n \in 1..Len(net) :
            chunk' = SubSeq(net, 1, n) /\ net' = SubSeq(net, n + 1, Len(net))
      BY <1>7 DEF Read
    <2>2. net \in Seq(Byte) /\ n \in 0..Len(net)
      BY <2>1 DEF IInv, TypeOK
    <2>3. chunk' \in Seq(Byte)
      BY <2>1, <2>2, PrefixLemma
    <2>4. net' \in Seq(Byte)
      BY <2>1, <2>2, DropLemma
    <2>5. UNCHANGED <<has, dev, open, seen, turn, given, lastLine>> /\ atRead' = FALSE
      BY <1>7 DEF Read
    <2> QED BY <2>3, <2>4, <2>5 DEF IInv, TypeOK, Safe, Earned, LoggedIn
  <1>8. CASE Respond
    <2>1. dev' \in Device /\ dev'.mode = dev.mode /\ dev'.pending = dev.pending
      <3>1. <<>> \in Seq(Token)
        OBVIOUS
      <3>2. dev' = [dev EXCEPT !.output = <<>>]
        BY <1>8 DEF Respond
      <3> QED BY <1>0, <3>1, <3>2 DEF Device
    <2>2. UNCHANGED <<has, chunk, net, given, lastLine>> /\ atRead' = TRUE /\ open' \in BOOLEAN
      BY <1>8 DEF Respond
    <2>3. seen' \in Asked /\ turn' \in BOOLEAN
      <3>1. CASE UNCHANGED <<seen, turn>>
        BY <3>1 DEF IInv, TypeOK
      <3>2. CASE \E i \in Questions(dev.output) : seen' = dev.output[i] /\ turn' = TRUE
        <4>1. dev.output \in Seq(Token)
          BY <1>0 DEF Device
        <4>2. \A i \in Questions(dev.output) : dev.output[i] \in Asked
          BY <4>1 DEF Questions, Asked
        <4> QED BY <3>2, <4>2
      <3> QED BY <1>8, <3>1, <3>2 DEF Respond, ClientSees
    <2>4. Safe(dev, given)'
      BY <1>0, <2>1, <2>2 DEF Safe, Earned, LoggedIn
    <2> QED BY <2>1, <2>2, <2>3, <2>4 DEF IInv, TypeOK
  <1>9. CASE TypeLine
    <2>1. PICK line \in (IF seen = "prompt" THEN Commands ELSE Answers[seen]), e \in LineEnds :
            net' = net \o Bytes(line, e, seen)
      BY <1>9 DEF TypeLine
    <2>2. seen \in Asked /\ net \in Seq(Byte)
      BY DEF IInv, TypeOK
    <2>3. line \in Line
      <3>1. CASE seen = "prompt"
        BY <2>1, <3>1 DEF Line
      <3>2. CASE seen # "prompt"
        <4>1. seen \in Pendings \cup Logins
          BY <2>2, <3>2 DEF Asked, Token
        <4> QED BY <2>1, <3>2, <4>1 DEF Line
      <3> QED BY <3>1, <3>2
    <2>4. Bytes(line, e, seen) \in Seq(Byte)
      BY <2>1, <2>2, <2>3, BytesType
    <2>5. net' \in Seq(Byte)
      BY <2>1, <2>2, <2>4, ConcatLemma
    <2>6. UNCHANGED <<has, dev, chunk, atRead, open, seen, given, lastLine>> /\ turn' = FALSE
      BY <1>9 DEF TypeLine
    <2> QED BY <2>5, <2>6 DEF IInv, TypeOK, Safe, Earned, LoggedIn
  <1>10. CASE PressKey
    <2>1. PICK k \in (IF seen = "prompt" THEN ControlKeys ELSE CancelKeys) :
            net' = Append(net, [key |-> k, line |-> "", for |-> seen])
      BY <1>10 DEF PressKey
    <2>2. seen \in Asked /\ net \in Seq(Byte)
      BY DEF IInv, TypeOK
    <2>3. k \in ControlKeys
      BY <2>1, CliAssumption
    <2>4. [key |-> k, line |-> "", for |-> seen] \in Byte
      BY <2>2, <2>3 DEF Byte, Line
    <2>5. net' \in Seq(Byte)
      BY <2>1, <2>2, <2>4, AppendLemma
    <2>6. UNCHANGED <<has, dev, chunk, atRead, open, seen, given, lastLine>> /\ turn' = FALSE
      BY <1>10 DEF PressKey
    <2> QED BY <2>5, <2>6 DEF IInv, TypeOK, Safe, Earned, LoggedIn
  <1>11. CASE UNCHANGED vars
    BY <1>11 DEF vars, IInv, TypeOK, Safe, Earned, LoggedIn
  <1> QED
    BY <1>1, <1>2, <1>3, <1>4, <1>5, <1>6, <1>7, <1>8, <1>9, <1>10, <1>11 DEF Next, Server

(* The invariant holds throughout. *)
LEMMA Invariant == Spec => []IInv
  BY InitIInv, NextIInv, PTL DEF Spec

(* Every reachable state is of the model's types, whatever is typed at the *)
(* device and however it arrives.                                          *)
THEOREM TypeCorrect == Spec => []TypeOK
  <1>1. IInv => TypeOK
    BY DEF IInv
  <1> QED BY <1>1, Invariant, PTL

(* No command, answer, line end, control key or cut of the bytes into      *)
(* reads takes a session into a privileged or configuration mode without   *)
(* the login password and, since the last "disable", the enable secret.    *)
THEOREM PrivilegeCorrect == Spec => []PrivilegeIsEarned
  <1>1. IInv => PrivilegeIsEarned
    BY DEF IInv, Safe, Earned, LoggedIn, PrivilegeIsEarned
  <1> QED BY <1>1, Invariant, PTL

-----------------------------------------------------------------------------
(* Turns.  A client with no keys to press at a question, whose line ends   *)
(* arrive in one piece, is told what the device waits for before it types. *)
(* "do reload" is not for it: the question it asks is followed by a prompt. *)
(* An empty line while logging in is not answered at all.                  *)
Mannered ==
    /\ CancelKeys = {} /\ SplitLineEnds = FALSE
    /\ "do reload" \notin Commands
    /\ "" \notin Answers["username"] \cup Answers["password"]

(* Output ends in what asks for the next line. *)
EndsIn(output, question) == output # <<>> /\ output[Len(output)] = question

(* A question is pending in the exec modes only, and the output of a       *)
(* device that goes on ends in what it waits for.                          *)
Waits(d) == d.pending # None => d.mode \in {"UserExec", "PrivilegedExec"}

Told(d) ==
    /\ Waits(d)
    /\ \/ d.mode = "Reloading" /\ Questions(d.output) = {}
       \/ d.mode # "Reloading" /\ EndsIn(d.output, Asking(d))

(* A handler made e of d: it told, and left the input alone. *)
Turned(d, e) == e \in Device /\ e.input = d.input /\ e.output # <<>> /\ Told(e)

(* A device that is about to handle a line: nothing but echo is output. *)
Echoed(d) == d.output # <<>> /\ Questions(d.output) = {}

Exec == {"UserExec", "PrivilegedExec"}
Conf == {"Config", "ConfigSub"}

(* What is said last is what the output ends in. *)
LEMMA SayEnds ==
    ASSUME NEW d \in Device, NEW q \in Token
    PROVE  /\ Say(d, <<q>>) \in Device
           /\ Say(d, <<q>>).mode = d.mode
           /\ Say(d, <<q>>).pending = d.pending
           /\ Say(d, <<q>>).input = d.input
           /\ EndsIn(Say(d, <<q>>).output, q)
           /\ q = "text" /\ Questions(d.output) = {} => Questions(Say(d, <<q>>).output) = {}
  <1>1. d.output \in Seq(Token) /\ <<q>> \in Seq(Token) /\ Len(<<q>>) = 1 /\ <<q>>[1] = q
    BY DEF Device
  <1> DEFINE o == d.output \o <<q>>
  <1>2. /\ o \in Seq(Token) /\ Len(o) = Len(d.output) + 1 /\ o[Len(d.output) + 1] = q
        /\ \A i \in 1 .. Len(d.output) : o[i] = d.output[i]
    <2>1. /\ o \in Seq(Token)
          /\ Len(o) = Len(d.output) + Len(<<q>>)
          /\ \A i \in 1 .. Len(d.output) : o[i] = d.output[i]
          /\ \A i \in 1 .. Len(<<q>>) : o[Len(d.output) + i] = <<q>>[i]
      BY <1>1, ConcatLemma
    <2> QED BY <2>1, <1>1
  <1>3. Say(d, <<q>>).output = o
    BY DEF Say, Device
  <1> HIDE DEF o
  <1>4. Len(d.output) \in Nat /\ DOMAIN o = 1 .. Len(o) /\ DOMAIN d.output = 1 .. Len(d.output)
    BY <1>1, <1>2
  <1>5. EndsIn(o, q)
    BY <1>2, <1>4 DEF EndsIn
  <1>6. q = "text" /\ Questions(d.output) = {} => Questions(o) = {}
    BY <1>2, <1>4 DEF Questions
  <1> QED BY <1>1, <1>3, <1>5, <1>6, SayLemma

(* A prompt tells that a command is waited for. *)
LEMMA SayPromptTold ==
    ASSUME NEW d \in Device, d.pending = None,
           d.mode \in Exec \cup Conf
    PROVE  Turned(d, SayPrompt(d)) /\ SayPrompt(d).mode = d.mode /\ SayPrompt(d).pending = None
  <1>1. SayPrompt(d) = Say(d, <<"prompt">>)
    BY DEF SayPrompt, Prompt, Exec, Conf
  <1> DEFINE e == Say(d, <<"prompt">>)
  <1>2. /\ e \in Device /\ e.mode = d.mode /\ e.pending = None /\ e.input = d.input
        /\ EndsIn(e.output, "prompt")
    BY SayEnds DEF Token
  <1> HIDE DEF e
  <1>3. Asking(e) = "prompt" /\ e.mode # "Reloading"
    BY <1>2 DEF Asking, Exec, Conf
  <1>4. Turned(d, e)
    BY <1>2, <1>3 DEF Turned, Told, Waits, EndsIn
  <1> QED BY <1>1, <1>2, <1>4 DEF e

(* So does one after a change of mode. *)
LEMMA EnterPromptTold ==
    ASSUME NEW d \in Device, d.pending = None, NEW m \in Exec \cup Conf
    PROVE  /\ Turned(d, SayPrompt(Enter(d, m)))
           /\ SayPrompt(Enter(d, m)).mode = m
           /\ SayPrompt(Enter(d, m)).pending = None
  <1>1. m \in Modes
    BY DEF Modes, Exec, Conf
  <1>2. Enter(d, m) \in Device /\ Enter(d, m).mode = m /\ Enter(d, m).pending = None
        /\ Enter(d, m).input = d.input
    BY <1>1, EnterLemma
  <1> QED BY <1>2, SayPromptTold DEF Turned

(* A question tells what it asks. *)
LEMMA AskTold ==
    ASSUME NEW d \in Device, NEW q \in Pendings, d.mode \in Exec
    PROVE  Turned(d, Ask(d, q)) /\ Ask(d, q).mode = d.mode
  <1> DEFINE c == [d EXCEPT !.pending = q]
             e == Say(c, <<q>>)
  <1>1. c \in Device /\ c.mode = d.mode /\ c.pending = q /\ c.input = d.input
    BY DEF Device
  <1>2. q \in Token
    BY DEF Token
  <1>3. Ask(d, q) = e
    BY DEF Ask
  <1> HIDE DEF c
  <1>4. /\ e \in Device /\ e.mode = d.mode /\ e.pending = q /\ e.input = d.input
        /\ EndsIn(e.output, q)
    BY <1>1, <1>2, SayEnds
  <1> HIDE DEF e
  <1>5. q # None
    BY DEF Pendings, None
  <1>6. Asking(e) = q /\ e.mode # "Reloading"
    BY <1>4, <1>5 DEF Asking, Exec
  <1> QED BY <1>3, <1>4, <1>6 DEF Turned, Told, Waits, EndsIn, Exec

(* An exec command tells; of those typed after "do", none asks. *)
LEMMA ExecTold ==
    ASSUME NEW d \in Device, NEW line, d.mode \in Exec, d.pending = None, Echoed(d)
    PROVE  /\ Turned(d, DispatchExec(d, line))
           /\ DispatchExec(d, line).mode = "Reloading" => line = "exit"
           /\ line \in {"show", "disable"} => DispatchExec(d, line).pending = None
  <1> DEFINE e == DispatchExec(d, line)
  <1>1. \/ e = SayPrompt(d)
        \/ \E m \in Exec \cup Conf : e = SayPrompt(Enter(d, m))
        \/ line \notin {"show", "disable"} /\ \E q \in Pendings : e = Ask(d, q)
        \/ line = "exit" /\ e = Enter(d, "Reloading")
    BY DEF DispatchExec, HandleEnable, HandleDisable, HandleConfigureTerminal,
           HandleInstallActivate, HandleExit, PrivOnly, Pendings, Exec, Conf
  <1> HIDE DEF e
  <1>2. CASE e = SayPrompt(d)
    BY <1>2, SayPromptTold DEF e, Exec
  <1>3. ASSUME NEW m \in Exec \cup Conf, e = SayPrompt(Enter(d, m))
        PROVE  Turned(d, e) /\ e.mode # "Reloading" /\ e.pending = None
    BY <1>3, EnterPromptTold DEF Exec, Conf
  <1>4. ASSUME NEW q \in Pendings, e = Ask(d, q)
        PROVE  Turned(d, e) /\ e.mode # "Reloading"
    BY <1>4, AskTold DEF Exec
  <1>5. ASSUME e = Enter(d, "Reloading")
        PROVE  Turned(d, e) /\ e.pending = None
    <2>1. "Reloading" \in Modes
      BY DEF Modes
    <2>2. e \in Device /\ e.mode = "Reloading" /\ e.pending = None /\ e.input = d.input
      BY <1>5, <2>1, EnterLemma
    <2>3. e.output = d.output
      BY <1>5 DEF Enter, Device
    <2> QED BY <2>2, <2>3 DEF Turned, Told, Waits, Echoed
  <1> QED BY <1>1, <1>2, <1>3, <1>4, <1>5 DEF e

(* The login dialogue asks for one or the other, or prompts. *)
LEMMA LoginTold ==
    ASSUME NEW d \in Device, NEW line, d.pending = None
    PROVE  Turned(d, HandleLogin(d, line)) /\ HandleLogin(d, line).mode # "Reloading"
  <1> DEFINE e == HandleLogin(d, line)
  <1>1. \/ e = Say(Enter(d, "LoginPassword"), <<"password">>)
        \/ \E m \in Exec : e = SayPrompt(Enter(d, m))
        \/ e = Say(Enter(d, "Login"), <<"username">>)
    BY DEF HandleLogin, Exec
  <1> HIDE DEF e
  <1>2. ASSUME NEW m \in Modes, NEW q \in Token, e = Say(Enter(d, m), <<q>>)
        PROVE  /\ e \in Device /\ e.mode = m /\ e.pending = None /\ e.input = d.input
               /\ EndsIn(e.output, q)
    <2>1. Enter(d, m) \in Device /\ Enter(d, m).mode = m /\ Enter(d, m).pending = None
          /\ Enter(d, m).input = d.input
      BY EnterLemma
    <2> QED BY <1>2, <2>1, SayEnds
  <1>3. CASE e = Say(Enter(d, "LoginPassword"), <<"password">>)
    <2>1. "LoginPassword" \in Modes /\ "password" \in Token
      BY DEF Modes, Token, Logins
    <2>2. /\ e \in Device /\ e.mode = "LoginPassword" /\ e.pending = None
          /\ e.input = d.input /\ EndsIn(e.output, "password")
      BY <1>2, <1>3, <2>1
    <2>3. Asking(e) = "password"
      BY <2>2 DEF Asking
    <2> QED BY <2>2, <2>3 DEF Turned, Told, Waits, EndsIn, e
  <1>4. ASSUME NEW m \in Exec, e = SayPrompt(Enter(d, m))
        PROVE  Turned(d, e) /\ e.mode # "Reloading"
    BY <1>4, EnterPromptTold DEF Exec
  <1>5. CASE e = Say(Enter(d, "Login"), <<"username">>)
    <2>1. "Login" \in Modes /\ "username" \in Token
      BY DEF Modes, Token, Logins
    <2>2. /\ e \in Device /\ e.mode = "Login" /\ e.pending = None
          /\ e.input = d.input /\ EndsIn(e.output, "username")
      BY <1>2, <1>5, <2>1
    <2>3. Asking(e) = "username"
      BY <2>2 DEF Asking
    <2> QED BY <2>2, <2>3 DEF Turned, Told, Waits, EndsIn, e
  <1> QED BY <1>1, <1>3, <1>4, <1>5 DEF e

(* A configuration command prompts. *)
LEMMA ConfigTold ==
    ASSUME NEW d \in Device, NEW line, line # "do reload",
           d.mode \in Conf, d.pending = None, Echoed(d)
    PROVE  Turned(d, DispatchConfig(d, line)) /\ DispatchConfig(d, line).mode # "Reloading"
  <1>1. CASE line \in DOMAIN DoLines
    <2> DEFINE p == Enter(d, "PrivilegedExec")
               e == DispatchExec(p, DoLines[line])
    <2>1. DoLines[line] \in {"show", "disable"}
      BY <1>1 DEF DoLines
    <2>2. DispatchConfig(d, line) = SayPrompt(Enter(e, d.mode))
      BY <1>1 DEF DispatchConfig, HandleDo, DoLines, p
    <2>3. /\ p \in Device /\ p.mode = "PrivilegedExec" /\ p.pending = None
          /\ p.input = d.input /\ p.output = d.output
      <3>1. "PrivilegedExec" \in Modes
        BY DEF Modes
      <3>2. p.output = d.output
        BY DEF Enter, Device
      <3> QED BY <3>1, <3>2, EnterLemma
    <2> HIDE DEF p
    <2>4. Turned(p, e) /\ e.pending = None
      <3>1. Echoed(p) /\ p.mode \in Exec
        BY <2>3 DEF Echoed, Exec
      <3> QED BY <2>1, <2>3, <3>1, ExecTold
    <2> HIDE DEF e
    <2>5. e \in Device /\ e.input = d.input
      BY <2>3, <2>4 DEF Turned
    <2>6. Turned(e, SayPrompt(Enter(e, d.mode))) /\ SayPrompt(Enter(e, d.mode)).mode = d.mode
      BY <2>4, <2>5, EnterPromptTold
    <2> QED BY <2>2, <2>5, <2>6 DEF Turned, Conf
  <1>2. CASE line \notin DOMAIN DoLines
    <2>1. \/ DispatchConfig(d, line) = SayPrompt(d)
          \/ \E m \in Exec \cup Conf : DispatchConfig(d, line) = SayPrompt(Enter(d, m))
      BY <1>2 DEF DispatchConfig, HandleInterface, HandleConfigEnd, HandleConfigExit, Exec, Conf
    <2>2. Turned(d, SayPrompt(d)) /\ SayPrompt(d).mode # "Reloading"
      BY SayPromptTold DEF Conf
    <2>3. ASSUME NEW m \in Exec \cup Conf
          PROVE  Turned(d, SayPrompt(Enter(d, m))) /\ SayPrompt(Enter(d, m)).mode # "Reloading"
      BY EnterPromptTold DEF Exec, Conf
    <2> QED BY <2>1, <2>2, <2>3
  <1> QED BY <1>1, <1>2

(* An answer brings a prompt, the next question or the reload it confirms. *)
LEMMA AnswerTold ==
    ASSUME NEW d \in Device, NEW line, NEW pending \in Pendings,
           d.mode \in Exec, d.pending = None, Echoed(d)
    PROVE  /\ Turned(d, HandleInteractiveResponse(d, line, pending))
           /\ HandleInteractiveResponse(d, line, pending).mode = "Reloading" =>
                pending \in {"reloadConfirm", "installActivateConfirm"}
  <1> DEFINE e == HandleInteractiveResponse(d, line, pending)
  <1>1. \/ e = SayPrompt(d)
        \/ \E m \in Exec \cup Conf : e = SayPrompt(Enter(d, m))
        \/ \E q \in Pendings : e = Ask(d, q)
        \/ /\ e = Say(Enter(d, "Reloading"), <<"text">>)
           /\ pending \in {"reloadConfirm", "installActivateConfirm"}
    BY DEF HandleInteractiveResponse, HandleReload, Pendings, Exec, Conf
  <1> HIDE DEF e
  <1>2. CASE e = SayPrompt(d)
    BY <1>2, SayPromptTold DEF e, Exec
  <1>3. ASSUME NEW m \in Exec \cup Conf, e = SayPrompt(Enter(d, m))
        PROVE  Turned(d, e) /\ e.mode # "Reloading"
    BY <1>3, EnterPromptTold DEF Exec, Conf
  <1>4. ASSUME NEW q \in Pendings, e = Ask(d, q)
        PROVE  Turned(d, e) /\ e.mode # "Reloading"
    BY <1>4, AskTold DEF Exec
  <1>5. ASSUME e = Say(Enter(d, "Reloading"), <<"text">>)
        PROVE  Turned(d, e)
    <2> DEFINE r == Enter(d, "Reloading")
    <2>1. "Reloading" \in Modes /\ "text" \in Token
      BY DEF Modes, Token
    <2>2. r \in Device /\ r.mode = "Reloading" /\ r.pending = None /\ r.input = d.input
      BY <2>1, EnterLemma
    <2>3. r.output = d.output
      BY DEF Enter, Device
    <2> HIDE DEF r
    <2>4. /\ e \in Device /\ e.mode = "Reloading" /\ e.pending = None /\ e.input = d.input
          /\ EndsIn(e.output, "text") /\ Questions(e.output) = {}
      BY <1>5, <2>1, <2>2, <2>3, SayEnds DEF Echoed, r
    <2> QED BY <2>4 DEF Turned, Told, Waits, EndsIn
  <1> QED BY <1>1, <1>2, <1>3, <1>4, <1>5 DEF e

(* A line that a client may type at a question, or at the prompt. *)
FitLine(line, question) ==
    /\ question = "prompt" => line # "do reload"
    /\ question \in Logins => line # ""

(* Such a line, whatever is pending. *)
LEMMA LineTold ==
    ASSUME NEW d \in Device, NEW line, Waits(d), d.mode # "Reloading", Echoed(d),
           FitLine(line, Asking(d))
    PROVE  /\ Turned(d, HandleLine(d, line))
           /\ HandleLine(d, line).mode = "Reloading" =>
                line = "exit" \/ Asking(d) \in {"reloadConfirm", "installActivateConfirm"}
  <1>0. d.mode \in Modes /\ d.pending \in Pendings \cup {None}
    BY DEF Device
  <1>1. CASE d.pending # None
    <2> DEFINE free == [d EXCEPT !.pending = None]
    <2>1. HandleLine(d, line) = HandleInteractiveResponse(free, line, d.pending)
      BY <1>1 DEF HandleLine
    <2>2. /\ free \in Device /\ free.pending = None /\ free.mode = d.mode
          /\ free.input = d.input /\ free.output = d.output
      BY DEF Device
    <2> HIDE DEF free
    <2>3. d.pending \in Pendings /\ Asking(d) = d.pending /\ free.mode \in Exec /\ Echoed(free)
      BY <1>0, <1>1, <2>2 DEF Asking, Waits, Echoed, Exec
    <2>4. /\ Turned(free, HandleInteractiveResponse(free, line, d.pending))
          /\ HandleInteractiveResponse(free, line, d.pending).mode = "Reloading" =>
                d.pending \in {"reloadConfirm", "installActivateConfirm"}
      BY <2>2, <2>3, AnswerTold
    <2> QED BY <2>1, <2>2, <2>3, <2>4 DEF Turned
  <1>2. CASE d.pending = None /\ line = ""
    <2>1. HandleLine(d, line) = SayPrompt(d)
      BY <1>2 DEF HandleLine
    <2>2. d.mode \in Exec \cup Conf
      BY <1>0, <1>2 DEF FitLine, Asking, Logins, Modes, Exec, Conf
    <2> QED BY <2>1, <2>2, <1>2, SayPromptTold DEF Exec, Conf
  <1>3. CASE d.pending = None /\ line # "" /\ d.mode \in {"Login", "LoginPassword"}
    <2>1. HandleLine(d, line) = HandleLogin(d, line)
      BY <1>3 DEF HandleLine
    <2> QED BY <2>1, <1>3, LoginTold
  <1>4. CASE d.pending = None /\ line # "" /\ d.mode \in Exec
    <2>1. HandleLine(d, line) = DispatchExec(d, line)
      BY <1>4 DEF HandleLine, Exec
    <2> QED BY <2>1, <1>4, ExecTold
  <1>5. CASE d.pending = None /\ line # "" /\ d.mode \in Conf
    <2>1. HandleLine(d, line) = DispatchConfig(d, line)
      BY <1>5 DEF HandleLine, Conf
    <2>2. line # "do reload"
      BY <1>5 DEF FitLine, Asking, Conf
    <2> QED BY <2>1, <2>2, <1>5, ConfigTold
  <1> QED BY <1>0, <1>1, <1>2, <1>3, <1>4, <1>5 DEF Modes, Exec, Conf

-----------------------------------------------------------------------------
(* One line, or one key, is under way at a time.                           *)

(* What follows the first n bytes is a line end. *)
EndsLine(w, n) ==
    \/ Len(w) = n + 1 /\ w[n + 1].key \in {"cr", "lf"}
    \/ Len(w) = n + 2 /\ w[n + 1].key = "cr" /\ w[n + 2].key = "lf"

(* The bytes w still to be handled by d: a line end, with the line before  *)
(* it or with that already in the input, or a key at a prompt.             *)
UnderWay(d, w) ==
    \/ /\ EndsLine(w, 0) /\ FitLine(d.input, Asking(d))
       /\ w[1].key = "lf" /\ d.input = "" => d.output = <<>>
    \/ /\ EndsLine(w, 1) /\ w[1].key = "text" /\ w[1].line # ""
       /\ FitLine(w[1].line, Asking(d)) /\ d.input = ""
    \/ Len(w) = 1 /\ w[1].key \in ControlKeys /\ d.input = "" /\ Asking(d) = "prompt"

(* They were sent for what d waits for, and no chunk c ends within CR LF. *)
Meant(d, w) == \A i \in 1 .. Len(w) : w[i].for = Asking(d)
Whole(c, w) == \A i \in 1 .. (Len(w) - 1) : w[i].key = "cr" => Len(c) # i

Way == chunk \o net

(* The client's turn, the line on its way, the output on its way back (a   *)
(* LF may be left of the line end, to be skipped), and the end.            *)
Idle ==
    /\ turn /\ open /\ atRead /\ net = <<>>
    /\ dev.input = "" /\ dev.mode # "Reloading" /\ seen = Asking(dev)

Typing ==
    /\ ~turn /\ open /\ dev.mode # "Reloading" /\ Questions(dev.output) = {}
    /\ UnderWay(dev, Way) /\ Meant(dev, Way) /\ Whole(chunk, Way)

Answered ==
    /\ ~turn /\ open /\ ~atRead /\ net = <<>> /\ dev.input = ""
    /\ chunk # <<>> => Len(chunk) = 1 /\ chunk[1].key = "lf" /\ dev.output # <<>>
    /\ Told(dev)

Closed == ~turn /\ ~open /\ atRead

TurnInv ==
    /\ Waits(dev)
    /\ lastLine.sent = lastLine.taken
    /\ atRead => chunk = <<>> /\ dev.output = <<>>
    /\ Idle \/ Typing \/ Answered \/ Closed

(* Handling a byte takes it off the way. *)
LEMMA WayLemma ==
    ASSUME NEW c \in Seq(Byte), NEW n \in Seq(Byte)
    PROVE  /\ c \o n \in Seq(Byte)
           /\ Len(c \o n) = Len(c) + Len(n) /\ Len(c) \in Nat /\ Len(n) \in Nat
           /\ c = <<>> => c \o n = n
           /\ n = <<>> => c \o n = c
           /\ Len(n) = 0 => n = <<>>
           /\ Len(c) = 0 => c = <<>>
           /\ c # <<>> =>
                /\ Head(c) = (c \o n)[1]
                /\ Len(c) >= 1
                /\ Len(Tail(c)) = Len(c) - 1
                /\ Len(Tail(c) \o n) = Len(c \o n) - 1
                /\ \A i \in 1 .. (Len(c \o n) - 1) : (Tail(c) \o n)[i] = (c \o n)[i + 1]
  OBVIOUS

(* A chunk and the rest are what was under way. *)
LEMMA CutLemma ==
    ASSUME NEW w \in Seq(Byte), NEW k \in 1 .. Len(w)
    PROVE  SubSeq(w, 1, k) \o SubSeq(w, k + 1, Len(w)) = w /\ Len(SubSeq(w, 1, k)) = k
  OBVIOUS

(* A byte is taken off the way. *)
LEMMA HandledWay ==
    ASSUME IInv, chunk # <<>>, NEW d, Handled(d)
    PROVE  /\ Way \in Seq(Byte) /\ Len(Way) \in Nat /\ Len(chunk) \in Nat /\ Len(net) \in Nat
           /\ Head(chunk) = Way[1] /\ Len(chunk) >= 1
           /\ Len(Way) = Len(chunk) + Len(net) /\ (Len(net) = 0 => net = <<>>)
           /\ Len(Way)' = Len(Way) - 1 /\ Len(chunk)' = Len(chunk) - 1
           /\ \A i \in 1 .. (Len(Way) - 1) : Way'[i] = Way[i + 1]
           /\ Len(chunk)' = 0 => chunk' = <<>>
           /\ net' = <<>> => chunk' = Way'
           /\ dev' = d /\ UNCHANGED <<atRead, open, net, seen, turn>>
  <1>1. chunk \in Seq(Byte) /\ net \in Seq(Byte)
    BY DEF IInv, TypeOK
  <1>2. chunk' = Tail(chunk) /\ dev' = d /\ UNCHANGED <<atRead, open, net, seen, turn>>
    BY DEF Handled
  <1>3. Way' = Tail(chunk) \o net
    BY <1>2 DEF Way
  <1>4. Tail(chunk) \in Seq(Byte)
    BY <1>1, TailLemma
  <1>5. /\ Len(Tail(chunk)) = 0 => Tail(chunk) = <<>>
        /\ net = <<>> => Tail(chunk) \o net = Tail(chunk)
    BY <1>1, <1>4, WayLemma
  <1> QED BY <1>1, <1>2, <1>3, <1>5, WayLemma DEF Way

(* While bytes are handled, a line is typed or has been answered. *)
LEMMA HandlingPhase ==
    ASSUME IInv, TurnInv, NEW k, NextByte(k)
    PROVE  Typing \/ (Answered /\ k = "lf")
  <1>1. chunk # <<>> /\ ~atRead /\ chunk[1].key = k
    BY TailLemma DEF NextByte, IInv, TypeOK
  <1> QED BY <1>1 DEF TurnInv, Idle, Closed, Answered

(* The first bytes after one was taken. *)
LEMMA ShiftLemma ==
    ASSUME NEW w, NEW v, NEW n \in Nat, \A i \in 1 .. (n - 1) : v[i] = w[i + 1]
    PROVE  (n >= 2 => v[1] = w[2]) /\ (n >= 3 => v[2] = w[3])
  <1>1. /\ n >= 2 => 1 \in 1 .. (n - 1)
        /\ n >= 3 => 2 \in 1 .. (n - 1)
        /\ 1 + 1 = 2 /\ 2 + 1 = 3
    OBVIOUS
  <1> QED BY <1>1, Zenon

(* The line ends, spelt out. *)
LEMMA EndsLineLemma ==
    ASSUME NEW w
    PROVE  /\ EndsLine(w, 0) <=>
                \/ Len(w) = 1 /\ w[1].key \in {"cr", "lf"}
                \/ Len(w) = 2 /\ w[1].key = "cr" /\ w[2].key = "lf"
           /\ EndsLine(w, 1) <=>
                \/ Len(w) = 2 /\ w[2].key \in {"cr", "lf"}
                \/ Len(w) = 3 /\ w[2].key = "cr" /\ w[3].key = "lf"
  <1>1. 0 + 1 = 1 /\ 0 + 2 = 2 /\ 1 + 1 = 2 /\ 1 + 2 = 3
    OBVIOUS
  <1> QED BY <1>1, Zenon DEF EndsLine

(* The byte that completes a line, or a key, is the last one but for the   *)
(* LF of a CR LF, which is in the same chunk.                              *)
LEMMA LastByte ==
    ASSUME IInv, Typing, chunk # <<>>, Head(chunk).key # "text", NEW d, Handled(d)
    PROVE  /\ net' = <<>>
           /\ chunk' # <<>> =>
                Len(chunk') = 1 /\ chunk'[1].key = "lf" /\ Head(chunk).key = "cr"
           /\ Head(chunk).key \in {"cr", "lf"} =>
                /\ FitLine(dev.input, Asking(dev))
                /\ Head(chunk).key = "lf" /\ dev.input = "" => dev.output = <<>>
           /\ Head(chunk).key \in ControlKeys => dev.input = "" /\ Asking(dev) = "prompt"
  <1> DEFINE w == Way
  <1>1. /\ Len(w) \in Nat /\ Len(chunk) \in Nat /\ Len(net) \in Nat
        /\ Head(chunk) = w[1] /\ Len(chunk) >= 1
        /\ Len(w) = Len(chunk) + Len(net) /\ (Len(net) = 0 => net = <<>>)
        /\ Len(chunk)' = Len(chunk) - 1 /\ net' = net
        /\ Len(chunk)' = 0 => chunk' = <<>>
        /\ net' = <<>> => chunk' = Way'
        /\ \A i \in 1 .. (Len(w) - 1) : Way'[i] = w[i + 1]
    BY HandledWay
  <1>2. UnderWay(dev, w) /\ Whole(chunk, w)
    BY DEF Typing
  <1> HIDE DEF w
  <1>a. /\ Len(w) = 1 => Len(net) = 0 /\ Len(chunk) = 1
        /\ Len(w) = 2 /\ Len(chunk) # 1 => Len(net) = 0 /\ Len(chunk) = 2
    <2>1. \A a, b, c \in Nat : a = b + c /\ b >= 1 =>
            /\ a = 1 => c = 0 /\ b = 1
            /\ a = 2 /\ b # 1 => c = 0 /\ b = 2
      OBVIOUS
    <2> QED BY <1>1, <2>1
  <1>b. /\ Len(w) = 1 => net' = <<>> /\ chunk' = <<>>
        /\ Len(w) = 2 /\ Len(chunk) # 1 => net' = <<>> /\ Len(chunk)' = 1
    BY <1>1, <1>a
  <1>3. CASE Len(w) = 1 /\ w[1].key \in ControlKeys /\ dev.input = "" /\ Asking(dev) = "prompt"
    BY <1>1, <1>3, <1>b DEF ControlKeys
  <1>4. CASE /\ EndsLine(w, 0) /\ FitLine(dev.input, Asking(dev))
             /\ w[1].key = "lf" /\ dev.input = "" => dev.output = <<>>
    <2>1. CASE Len(w) = 1 /\ w[1].key \in {"cr", "lf"}
      BY <1>1, <1>4, <1>b, <2>1 DEF ControlKeys
    <2>2. CASE Len(w) = 2 /\ w[1].key = "cr" /\ w[2].key = "lf"
      <3>1. Len(chunk) # 1
        BY <1>2, <2>2 DEF Whole
      <3>2. net' = <<>> /\ Len(chunk)' = 1
        BY <1>b, <2>2, <3>1
      <3>3. chunk'[1] = w[2]
        <4>1. PICK v : v = Way'
          OBVIOUS
        <4>2. Len(w) \in Nat /\ \A i \in 1 .. (Len(w) - 1) : v[i] = w[i + 1]
          BY <1>1, <4>1
        <4>3. v[1] = w[2]
          <5>1. Len(w) >= 2 => v[1] = w[2]
            BY ONLY <4>2, ShiftLemma
          <5> QED BY <5>1, <2>2
        <4> QED BY <1>1, <3>2, <4>1, <4>3
      <3> QED BY <1>1, <1>4, <2>2, <3>2, <3>3 DEF ControlKeys
    <2> QED BY <1>4, <2>1, <2>2, EndsLineLemma
  <1> QED BY <1>1, <1>2, <1>3, <1>4 DEF UnderWay

(* Then the answer is ready. *)
LEMMA AnsweredNow ==
    ASSUME IInv, Typing, ~atRead, chunk # <<>>, Head(chunk).key # "text",
           NEW d, Handled(d), Told(d), d.input = "",
           Head(chunk).key = "cr" => d.output # <<>>,
           lastLine'.sent = lastLine'.taken
    PROVE  TurnInv'
  <1>1. /\ net' = <<>>
        /\ chunk' # <<>> =>
             Len(chunk') = 1 /\ chunk'[1].key = "lf" /\ Head(chunk).key = "cr"
    BY LastByte
  <1>2. dev' = d /\ UNCHANGED <<atRead, open, turn>>
    BY DEF Handled
  <1>3. Answered'
    BY <1>1, <1>2 DEF Answered, Typing
  <1>4. Waits(dev)'
    BY <1>2 DEF Told
  <1> QED BY <1>2, <1>3, <1>4 DEF TurnInv

(* The text of a line is input. *)
LEMMA TypeTextTurn == IInv /\ TurnInv /\ TypeText => TurnInv'
  <1> SUFFICES ASSUME IInv, TurnInv, TypeText PROVE TurnInv'
    OBVIOUS
  <1> DEFINE w == Way
             line == Head(chunk).line
             t == [dev EXCEPT !.input = line]
             echo == IF IsPasswordMode(dev) THEN <<>> ELSE <<"text">>
             d == Say(t, echo)
  <1>1. chunk # <<>> /\ ~atRead /\ Head(chunk).key = "text" /\ Head(chunk) \in Byte
    BY TailLemma DEF IInv, TypeOK, TypeText, NextByte
  <1>2. Typing
    BY HandlingPhase DEF TypeText
  <1>3. Handled(d) /\ UNCHANGED <<given, lastLine>>
    BY DEF TypeText
  <1>4. /\ t \in Device /\ t.mode = dev.mode /\ t.pending = dev.pending /\ t.input = line
        /\ t.output = dev.output /\ dev \in Device
    BY <1>1 DEF IInv, TypeOK, Device, Byte
  <1>5. /\ d \in Device /\ d.mode = dev.mode /\ d.pending = dev.pending /\ d.input = line
        /\ Questions(d.output) = {}
    <2> HIDE DEF t
    <2>1. CASE IsPasswordMode(dev)
      <3>1. <<>> \in Seq(Token)
        OBVIOUS
      <3>2. d = Say(t, <<>>)
        BY <2>1
      <3>3. d.output = t.output \o <<>>
        BY <3>2, <1>4 DEF Say, Device
      <3>4. t.output \in Seq(Token)
        BY <1>4 DEF Device
      <3>5. d.output = t.output
        BY <3>3, <3>4
      <3>6. /\ Say(t, <<>>) \in Device /\ Say(t, <<>>).mode = t.mode
            /\ Say(t, <<>>).pending = t.pending /\ Say(t, <<>>).input = t.input
        BY <3>1, <1>4, SayLemma
      <3> HIDE DEF d
      <3> QED BY <3>2, <3>5, <3>6, <1>2, <1>4 DEF Typing
    <2>2. CASE ~IsPasswordMode(dev)
      <3>1. d = Say(t, <<"text">>)
        BY <2>2
      <3>2. "text" \in Token
        BY DEF Token
      <3> QED BY <3>1, <3>2, <1>2, <1>4, SayEnds, ZenonT(40) DEF Typing
    <2> QED BY <2>1, <2>2
  <1> HIDE DEF d
  <1>6. Asking(d) = Asking(dev)
    BY <1>5 DEF Asking
  <1>7. /\ Len(w) \in Nat /\ Len(chunk) \in Nat
        /\ Head(chunk) = w[1] /\ Len(chunk) >= 1
        /\ Len(Way)' = Len(w) - 1 /\ Len(chunk)' = Len(chunk) - 1
        /\ \A i \in 1 .. (Len(w) - 1) : Way'[i] = w[i + 1]
        /\ dev' = d /\ UNCHANGED <<atRead, open, net, seen, turn>>
    BY <1>1, <1>3, HandledWay
  <1>8. UnderWay(dev, w) /\ Meant(dev, w) /\ Whole(chunk, w)
    BY <1>2 DEF Typing
  <1> HIDE DEF w
  <1>9. EndsLine(w, 1) /\ line # "" /\ FitLine(line, Asking(dev))
    BY <1>1, <1>7, <1>8, EndsLineLemma DEF UnderWay, ControlKeys
  <1>10. EndsLine(Way, 0)'
    <2>1. PICK v : v = Way'
      OBVIOUS
    <2>2. Len(v) = Len(w) - 1 /\ \A i \in 1 .. (Len(w) - 1) : v[i] = w[i + 1]
      BY <1>7, <2>1
    <2>3. EndsLine(v, 0)
      <3>1. (Len(w) >= 2 => v[1] = w[2]) /\ (Len(w) >= 3 => v[2] = w[3])
        BY <1>7, <2>2, ShiftLemma
      <3>2. CASE Len(w) = 2 /\ w[2].key \in {"cr", "lf"}
        <4>1. Len(v) = 1 /\ v[1] = w[2]
          BY <2>2, <3>1, <3>2
        <4> QED BY <3>2, <4>1, EndsLineLemma
      <3>3. CASE Len(w) = 3 /\ w[2].key = "cr" /\ w[3].key = "lf"
        <4>1. Len(v) = 2 /\ v[1] = w[2] /\ v[2] = w[3]
          BY <2>2, <3>1, <3>3
        <4> QED BY <3>3, <4>1, EndsLineLemma
      <3> QED BY <1>9, <3>2, <3>3, EndsLineLemma
    <2> QED BY <2>1, <2>3
  <1>11. UnderWay(dev, Way)'
    BY <1>5, <1>6, <1>7, <1>9, <1>10 DEF UnderWay
  <1>12. Meant(dev, Way)'
    BY <1>6, <1>7, <1>8 DEF Meant
  <1>13. Whole(chunk, Way)'
    BY <1>7, <1>8, SMTT(40) DEF Whole
  <1>14. Typing'
    BY <1>2, <1>5, <1>7, <1>11, <1>12, <1>13 DEF Typing
  <1>15. Waits(dev)'
    BY <1>5, <1>7 DEF TurnInv, Waits
  <1> QED BY <1>1, <1>3, <1>7, <1>14, <1>15 DEF TurnInv

(* A line end hands the line to what the device waits for. *)
LEMMA TakeLineTurn ==
    ASSUME IInv, TurnInv, Typing, ~atRead, chunk # <<>>, Head(chunk).key \in {"cr", "lf"}, TakeLine
    PROVE  /\ TurnInv'
           /\ dev'.mode = "Reloading" =>
                \/ dev.input = "exit"
                \/ Head(chunk).for \in {"reloadConfirm", "installActivateConfirm"}
  <1> DEFINE s == Say([dev EXCEPT !.input = ""], <<"text">>)
             line == dev.input
             e == HandleLine(s, line)
  <1>1. Head(chunk) \in Byte /\ dev \in Device
    BY TailLemma DEF IInv, TypeOK
  <1>2. /\ s \in Device /\ s.mode = dev.mode /\ s.pending = dev.pending /\ s.input = ""
        /\ Echoed(s)
    <2> DEFINE c == [dev EXCEPT !.input = ""]
    <2>1. "text" \in Token
      BY DEF Token
    <2>2. /\ c \in Device /\ c.mode = dev.mode /\ c.pending = dev.pending /\ c.input = ""
          /\ c.output = dev.output
      BY <1>1 DEF Device, Line
    <2> HIDE DEF c
    <2>3. Questions(c.output) = {}
      BY <2>2 DEF Typing
    <2> QED BY <2>1, <2>2, <2>3, SayEnds DEF Echoed, EndsIn, c
  <1>3. Handled(e)
    BY DEF TakeLine
  <1>4. lastLine' = [sent |-> Head(chunk).for, taken |-> Asking(dev)]
    BY DEF TakeLine
  <1>5. FitLine(line, Asking(dev))
    BY <1>3, LastByte
  <1> HIDE DEF s, line, e
  <1>6. Asking(s) = Asking(dev) /\ Waits(s) /\ s.mode # "Reloading"
    BY <1>2 DEF Asking, TurnInv, Waits, Typing
  <1>7. /\ Turned(s, e)
        /\ e.mode = "Reloading" =>
             line = "exit" \/ Asking(dev) \in {"reloadConfirm", "installActivateConfirm"}
    BY <1>2, <1>5, <1>6, LineTold DEF e
  <1>8. Head(chunk).for = Asking(dev)
    <2>1. Head(chunk) = Way[1] /\ 1 \in 1 .. Len(Way)
      BY <1>3, HandledWay
    <2> QED BY <2>1 DEF Typing, Meant
  <1>9. TurnInv'
    BY <1>2, <1>3, <1>4, <1>7, <1>8, AnsweredNow DEF Turned
  <1>10. dev' = e
    BY <1>3 DEF Handled
  <1> QED BY <1>7, <1>8, <1>9, <1>10 DEF line

(* A LF is the rest of an answered line end, and skipped, or a line end of *)
(* its own.                                                                *)
LEMMA LineFeedTurn ==
    ASSUME IInv, TurnInv, LineFeed
    PROVE  /\ TurnInv'
           /\ dev.mode # "Reloading" /\ dev'.mode = "Reloading" =>
                \/ dev.input = "exit"
                \/ Head(chunk).for \in {"reloadConfirm", "installActivateConfirm"}
  <1>1. /\ chunk # <<>> /\ ~atRead /\ Head(chunk).key = "lf" /\ Head(chunk) = chunk[1]
        /\ chunk \in Seq(Byte)
    BY TailLemma DEF IInv, TypeOK, LineFeed, NextByte
  <1>2. CASE Typing
    <2>1. ASSUME LfIsSkipped(dev), Handled(dev)
          PROVE  FALSE
      BY <1>1, <1>2, <2>1, LastByte DEF LfIsSkipped
    <2>2. TakeLine
      BY <2>1 DEF LineFeed
    <2> QED BY <1>1, <1>2, <2>2, TakeLineTurn
  <1>3. CASE Answered
    <2>1. Len(chunk) = 1 /\ dev.output # <<>> /\ dev.input = ""
      BY <1>1, <1>3 DEF Answered
    <2>2. Handled(dev) /\ UNCHANGED <<given, lastLine>>
      BY <2>1 DEF LineFeed, LfIsSkipped
    <2>3. Len(chunk') = 0 => chunk' = <<>>
      BY <1>1, <2>2, HandledWay
    <2>4. Len(chunk') = Len(chunk) - 1
      BY <1>1, <2>2, HandledWay
    <2>5. chunk' = <<>> /\ dev' = dev /\ UNCHANGED <<atRead, open, net, seen, turn>>
      <3>1. chunk' = <<>>
        <4>1. PICK v : v = chunk'
          OBVIOUS
        <4>2. (Len(v) = 0 => v = <<>>) /\ Len(v) = Len(chunk) - 1
          BY <2>3, <2>4, <4>1
        <4>3. Len(v) = 0
          <5>1. Len(chunk) = 1
            BY <2>1
          <5> QED BY <4>2, <5>1
        <4>4. v = <<>>
          BY <4>2, <4>3
        <4> QED BY <4>1, <4>4
      <3> QED BY <2>2, <3>1 DEF Handled
    <2>6. Answered'
      BY <1>3, <2>5 DEF Answered
    <2> QED BY <1>1, <2>2, <2>5, <2>6 DEF TurnInv
  <1> QED BY <1>2, <1>3, HandlingPhase DEF LineFeed

(* A CR ends a line. *)
LEMMA CarriageReturnTurn ==
    ASSUME IInv, TurnInv, CarriageReturn
    PROVE  /\ TurnInv'
           /\ dev'.mode = "Reloading" =>
                \/ dev.input = "exit"
                \/ Head(chunk).for \in {"reloadConfirm", "installActivateConfirm"}
  <1>1. chunk # <<>> /\ ~atRead /\ Head(chunk).key = "cr" /\ TakeLine
    BY DEF CarriageReturn, NextByte
  <1>2. Typing
    BY HandlingPhase DEF CarriageReturn
  <1> QED BY <1>1, <1>2, TakeLineTurn

(* What a control key meets: a device at a prompt, with nothing typed. *)
LEMMA KeyPhase ==
    ASSUME IInv, TurnInv, NEW k \in ControlKeys, NextByte(k), NEW d, Handled(d)
    PROVE  /\ Typing /\ ~atRead /\ chunk # <<>> /\ Head(chunk).key = k
           /\ dev \in Device /\ dev.input = "" /\ dev.pending = None
           /\ dev.mode \in Exec \cup Conf
  <1>1. ~atRead /\ chunk # <<>> /\ Head(chunk).key = k
    BY DEF NextByte
  <1>2. Typing
    BY HandlingPhase DEF ControlKeys
  <1>3. dev.input = "" /\ Asking(dev) = "prompt"
    BY <1>1, <1>2, LastByte DEF ControlKeys
  <1>4. dev \in Device /\ dev.mode \in Modes /\ dev.mode # "Reloading"
    BY <1>2 DEF IInv, TypeOK, Device, Typing
  <1>5. dev.pending = None
    BY <1>3, <1>4 DEF Asking, Device, Pendings
  <1> QED BY <1>1, <1>2, <1>3, <1>4, <1>5 DEF Asking, Modes, Exec, Conf

(* Ctrl-C, Ctrl-Z and Ctrl-D at a prompt. *)
LEMMA KeysTurn ==
    ASSUME IInv, TurnInv, CtrlC \/ CtrlZ \/ CtrlD
    PROVE  TurnInv' /\ (dev'.mode = "Reloading" => Head(chunk).key = "ctrl_d")
  <1>a. lastLine'.sent = lastLine'.taken
    BY DEF TurnInv, CtrlC, CtrlZ, CtrlD
  <1>1. ASSUME NEW k \in {"ctrl_c", "ctrl_z"}, NEW d \in Device, NextByte(k),
               d.mode \in Exec \cup Conf, d.pending = None,
               Handled(CancelInput(d))
        PROVE  TurnInv' /\ dev'.mode # "Reloading"
    <2> DEFINE c == [d EXCEPT !.input = ""]
               e == SayPrompt(c)
    <2>1. c \in Device /\ c.mode = d.mode /\ c.pending = None /\ c.input = ""
      BY <1>1 DEF Device, Line
    <2>2. CancelInput(d) = e
      BY DEF CancelInput
    <2> HIDE DEF c
    <2>3. Turned(c, e) /\ e.mode = d.mode
      BY <1>1, <2>1, SayPromptTold
    <2> HIDE DEF e
    <2>4. k \in ControlKeys /\ k \notin {"text", "cr"}
      BY DEF ControlKeys
    <2>5. Typing /\ ~atRead /\ chunk # <<>> /\ Head(chunk).key = k
      BY <1>1, <2>4, KeyPhase
    <2>6. TurnInv'
      BY <1>1, <1>a, <2>1, <2>2, <2>3, <2>4, <2>5, AnsweredNow DEF Turned
    <2>7. dev' = e
      BY <1>1, <2>2 DEF Handled
    <2> QED BY <1>1, <2>3, <2>6, <2>7 DEF Exec, Conf
  <1>2. CASE CtrlC
    <2>1. NextByte("ctrl_c") /\ Handled(CancelInput(dev))
      BY <1>2 DEF CtrlC
    <2>2. dev \in Device /\ dev.pending = None /\ dev.mode \in Exec \cup Conf
      BY <2>1, KeyPhase DEF ControlKeys
    <2> QED BY <1>1, <2>1, <2>2
  <1>3. CASE CtrlZ
    <2> DEFINE d == LeaveConfig(dev)
    <2>1. NextByte("ctrl_z") /\ Handled(CancelInput(d))
      BY <1>3 DEF CtrlZ
    <2>2. dev \in Device /\ dev.pending = None /\ dev.mode \in Exec \cup Conf
      BY <2>1, KeyPhase DEF ControlKeys
    <2>3. d \in Device /\ d.pending = None /\ d.mode \in Exec \cup Conf
      <3>1. CASE dev.mode \in {"Config", "ConfigSub"}
        <4>1. d = Enter(dev, "PrivilegedExec") /\ "PrivilegedExec" \in Modes
          BY <3>1 DEF LeaveConfig, Modes
        <4> QED BY <2>2, <4>1, EnterLemma DEF Exec
      <3>2. CASE dev.mode \notin {"Config", "ConfigSub"}
        BY <2>2, <3>2 DEF LeaveConfig
      <3> QED BY <3>1, <3>2
    <2> HIDE DEF d
    <2> QED BY <1>1, <2>1, <2>3
  <1>4. CASE CtrlD
    <2> DEFINE d == IF dev.input = "" THEN Enter(dev, "Reloading") ELSE dev
    <2>1. NextByte("ctrl_d") /\ Handled(d)
      BY <1>4 DEF CtrlD
    <2>2. /\ Typing /\ ~atRead /\ chunk # <<>> /\ Head(chunk).key = "ctrl_d"
          /\ dev \in Device /\ dev.input = "" /\ dev.pending = None
      BY <2>1, KeyPhase DEF ControlKeys
    <2>3. d = Enter(dev, "Reloading") /\ "Reloading" \in Modes
      BY <2>2 DEF Modes
    <2>4. d.mode = "Reloading" /\ d.pending = None /\ d.input = "" /\ d.output = dev.output
      <3>1. d.output = dev.output
        BY <2>2, <2>3 DEF Enter, Device
      <3> HIDE DEF d
      <3> QED BY <2>2, <2>3, <3>1, EnterLemma
    <2> HIDE DEF d
    <2>5. Told(d)
      BY <2>2, <2>4 DEF Told, Waits, Typing
    <2>6. TurnInv'
      BY <1>a, <2>1, <2>2, <2>4, <2>5, AnsweredNow
    <2> QED BY <2>2, <2>6
  <1> QED BY <1>2, <1>3, <1>4

(* A read cuts what has arrived, but not in a CR LF. *)
LEMMA ReadTurn ==
    ASSUME Mannered, IInv, TurnInv, Read
    PROVE  TurnInv' /\ dev' = dev
  <1>1. PICK n \in 1 .. Len(net) :
          /\ MayEndAt(n)
          /\ chunk' = SubSeq(net, 1, n)
          /\ net' = SubSeq(net, n + 1, Len(net))
    BY DEF Read
  <1>2. /\ open /\ atRead /\ net # <<>> /\ chunk = <<>> /\ net \in Seq(Byte)
        /\ UNCHANGED <<has, dev, open, seen, turn, given, lastLine>> /\ atRead' = FALSE
    BY DEF Read, TurnInv, IInv, TypeOK
  <1>3. Typing
    BY <1>2 DEF TurnInv, Idle, Answered, Closed
  <1>4. Way = net
    BY <1>2 DEF Way
  <1>5. Way' = net /\ Len(chunk') = n
    BY <1>1, <1>2, CutLemma DEF Way
  <1>6. Whole(chunk, Way)'
    <2>1. ~(n < Len(net) /\ net[n].key = "cr" /\ net[n + 1].key = "lf")
      BY <1>1 DEF MayEndAt, Mannered
    <2>2. ASSUME n < Len(net), net[n].key = "cr"
          PROVE  net[n + 1].key = "lf"
      <3>1. UnderWay(dev, net)
        BY <1>3, <1>4 DEF Typing
      <3>2. EndsLine(net, 0) \/ (EndsLine(net, 1) /\ net[1].key = "text")
        <4>1. ASSUME Len(net) = 1 PROVE FALSE
          BY <2>2, <4>1
        <4> QED BY <3>1, <4>1 DEF UnderWay
      <3>3. CASE EndsLine(net, 0)
        <4>1. Len(net) = 2 /\ net[2].key = "lf" /\ n = 1
          BY <2>2, <3>3, EndsLineLemma
        <4> QED BY <4>1
      <3>4. CASE EndsLine(net, 1) /\ net[1].key = "text"
        <4>1. n # 1
          BY <2>2, <3>4
        <4>2. Len(net) = 3 /\ net[3].key = "lf" /\ n = 2
          BY <2>2, <3>4, <4>1, EndsLineLemma
        <4> QED BY <4>2
      <3> QED BY <3>2, <3>3, <3>4
    <2> QED BY <1>1, <1>2, <1>5, <2>1, <2>2 DEF Whole
  <1>7. Typing'
    BY <1>2, <1>3, <1>4, <1>5, <1>6 DEF Typing
  <1> QED BY <1>2, <1>7 DEF TurnInv

(* The client is told, when there is something to tell. *)
LEMMA RespondTurn ==
    ASSUME IInv, TurnInv, Respond
    PROVE  TurnInv' /\ dev'.mode = dev.mode
  <1>1. /\ open /\ ~atRead /\ chunk = <<>> /\ ClientSees(dev.output)
        /\ dev' = [dev EXCEPT !.output = <<>>] /\ atRead' = TRUE
        /\ open' = (dev.mode # "Reloading")
        /\ UNCHANGED <<has, chunk, net, given, lastLine>> /\ dev \in Device
        /\ dev.output \in Seq(Token)
    BY DEF Respond, IInv, TypeOK, Device
  <1>2. /\ dev'.mode = dev.mode /\ dev'.pending = dev.pending /\ dev'.input = dev.input
        /\ dev'.output = <<>>
    BY <1>1 DEF Device
  <1>3. Asking(dev') = Asking(dev) /\ (Waits(dev') <=> Waits(dev))
    BY <1>2 DEF Asking, Waits
  <1>4. Way' = Way
    BY <1>1 DEF Way
  <1>5. CASE Typing
    <2>1. Questions(dev.output) = {} /\ dev.mode # "Reloading"
      BY <1>5 DEF Typing
    <2>2. UNCHANGED <<seen, turn>>
      BY <1>1, <2>1 DEF ClientSees
    <2>3. Questions(<<>>) = {}
      BY DEF Questions
    <2>4. UnderWay(dev, Way)'
      BY <1>2, <1>3, <1>4, <1>5 DEF Typing, UnderWay
    <2>5. Meant(dev, Way)' /\ Whole(chunk, Way)'
      BY <1>1, <1>3, <1>4, <1>5 DEF Typing, Meant, Whole
    <2>6. Typing'
      BY <1>1, <1>2, <1>5, <2>1, <2>2, <2>3, <2>4, <2>5 DEF Typing
    <2> QED BY <1>1, <1>2, <1>3, <2>6 DEF TurnInv
  <1>6. CASE Answered
    <2>1. CASE dev.mode = "Reloading"
      <3>1. Questions(dev.output) = {}
        BY <1>6, <2>1 DEF Answered, Told
      <3>2. UNCHANGED <<seen, turn>>
        BY <1>1, <3>1 DEF ClientSees
      <3>3. Closed'
        BY <1>1, <1>6, <2>1, <3>2 DEF Answered, Closed
      <3> QED BY <1>1, <1>2, <1>3, <3>3 DEF TurnInv
    <2>2. CASE dev.mode # "Reloading"
      <3>1. EndsIn(dev.output, Asking(dev))
        BY <1>6, <2>2 DEF Answered, Told
      <3>2. /\ Len(dev.output) \in DOMAIN dev.output
            /\ \A j \in DOMAIN dev.output : j \in Nat /\ j <= Len(dev.output)
        BY <1>1, <3>1 DEF EndsIn
      <3>3. Asking(dev) # "text"
        BY <1>1, AskingType DEF Asked
      <3>4. Len(dev.output) \in Questions(dev.output)
        BY <3>1, <3>2, <3>3 DEF Questions, EndsIn
      <3>5. PICK i \in Questions(dev.output) :
              /\ \A j \in Questions(dev.output) : j <= i
              /\ seen' = dev.output[i] /\ turn' = TRUE
        BY <1>1, <3>4 DEF ClientSees
      <3>6. i = Len(dev.output)
        <4>1. i \in Nat /\ i <= Len(dev.output) /\ Len(dev.output) <= i /\ Len(dev.output) \in Nat
          BY <3>2, <3>4, <3>5 DEF Questions
        <4> QED BY <4>1
      <3>7. seen' = Asking(dev) /\ turn' = TRUE
        BY <3>1, <3>5, <3>6 DEF EndsIn
      <3>8. Idle'
        BY <1>1, <1>2, <1>3, <1>6, <2>2, <3>7 DEF Idle, Answered
      <3> QED BY <1>1, <1>2, <1>3, <3>8 DEF TurnInv
    <2> QED BY <2>1, <2>2
  <1> QED BY <1>1, <1>2, <1>5, <1>6 DEF TurnInv, Idle, Closed

(* What the client types is one line for what it was asked. *)
LEMMA BytesShape ==
    ASSUME NEW line \in Line, NEW ending \in LineEnds, NEW for \in Asked
    PROVE  /\ line = "" => EndsLine(Bytes(line, ending, for), 0)
           /\ line # "" => /\ EndsLine(Bytes(line, ending, for), 1)
                           /\ Bytes(line, ending, for)[1].key = "text"
                           /\ Bytes(line, ending, for)[1].line = line
           /\ \A i \in 1 .. Len(Bytes(line, ending, for)) : Bytes(line, ending, for)[i].for = for
  <1> DEFINE text  == [key |-> "text", line |-> line, for |-> for]
             typed == IF line = "" THEN <<>> ELSE <<text>>
             enter == [i \in 1 .. Len(ending) |-> [key |-> ending[i], line |-> "", for |-> for]]
             b     == Bytes(line, ending, for)
  <1>1. /\ Len(ending) \in Nat
        /\ \/ Len(ending) = 1 /\ ending[1] \in {"cr", "lf"}
           \/ Len(ending) = 2 /\ ending[1] = "cr" /\ ending[2] = "lf"
        /\ \A i \in 1 .. Len(ending) : ending[i] \in {"cr", "lf"}
    BY CliAssumption
  <1>2. /\ enter \in Seq(Byte) /\ Len(enter) = Len(ending)
        /\ \A i \in 1 .. Len(ending) : enter[i].key = ending[i] /\ enter[i].for = for
    <2>1. \A i \in 1 .. Len(ending) : [key |-> ending[i], line |-> "", for |-> for] \in Byte
      BY <1>1 DEF Byte, Line
    <2>2. enter \in [1 .. Len(ending) -> Byte] /\ DOMAIN enter = 1 .. Len(ending)
      BY <2>1
    <2>3. \A i \in 1 .. Len(ending) : enter[i].key = ending[i] /\ enter[i].for = for
      OBVIOUS
    <2> HIDE DEF enter
    <2>4. enter \in Seq(Byte)
      BY <1>1, <2>2, ElementsLemma
    <2>5. Len(enter) = Len(ending)
      BY <1>1, <2>2, <2>4
    <2> QED BY <2>3, <2>4, <2>5
  <1>3. text \in Byte /\ text.key = "text" /\ text.line = line /\ text.for = for
    BY DEF Byte
  <1>4. typed \in Seq(Byte)
    <2> HIDE DEF text
    <2>1. <<>> \in Seq(Byte) /\ <<text>> \in Seq(Byte)
      BY <1>3
    <2> QED BY <2>1
  <1>5. b = typed \o enter
    BY DEF Bytes
  <1>6. \/ line = "" /\ typed = <<>>
        \/ line # "" /\ typed = <<text>>
    OBVIOUS
  <1> HIDE DEF text, typed, enter, b
  <1>7. /\ Len(b) = Len(typed) + Len(enter)
        /\ \A i \in 1 .. Len(typed) : b[i] = typed[i]
        /\ \A i \in 1 .. Len(enter) : b[Len(typed) + i] = enter[i]
    <2>1. enter \in Seq(Byte)
      BY <1>2
    <2>2. /\ Len(typed \o enter) = Len(typed) + Len(enter)
          /\ \A i \in 1 .. Len(typed) : (typed \o enter)[i] = typed[i]
          /\ \A i \in 1 .. Len(enter) : (typed \o enter)[Len(typed) + i] = enter[i]
      BY ONLY <1>4, <2>1, ConcatLemma
    <2> QED BY <1>5, <2>2
  <1>8. CASE line = "" /\ typed = <<>>
    <2>1. Len(b) = Len(ending) /\ \A i \in 1 .. Len(ending) : b[i] = enter[i]
      <3>1. Len(typed) = 0 /\ Len(enter) = Len(ending)
        BY <1>2, <1>8
      <3>2. \A i \in 1 .. Len(ending) : 0 + i = i
        OBVIOUS
      <3> QED BY <1>1, <1>7, <3>1, <3>2
    <2>2. EndsLine(b, 0)
      <3>1. 1 \in 1 .. Len(ending) /\ (Len(ending) = 2 => 2 \in 1 .. Len(ending))
        BY <1>1
      <3> QED BY <1>1, <1>2, <2>1, <3>1, EndsLineLemma, ZenonT(40)
    <2> QED BY <1>2, <1>8, <2>1, <2>2 DEF b
  <1>9. CASE line # "" /\ typed = <<text>>
    <2>1. /\ Len(b) = 1 + Len(ending) /\ b[1] = text
          /\ \A i \in 1 .. Len(ending) : b[1 + i] = enter[i]
      <3>1. /\ Len(<<text>>) = 1 /\ <<text>>[1] = text
            /\ 1 \in 1 .. 1
        OBVIOUS
      <3>2. Len(typed) = 1 /\ typed[1] = text /\ Len(enter) = Len(ending)
        BY <1>2, <1>9, <3>1
      <3> QED BY <1>7, <3>1, <3>2
    <2>2. EndsLine(b, 1)
      <3>1. 1 \in 1 .. Len(ending) /\ (Len(ending) = 2 => 2 \in 1 .. Len(ending))
        BY <1>1
      <3>2. b[2] = enter[1] /\ (Len(ending) = 2 => b[3] = enter[2])
        <4>1. 1 + 1 = 2 /\ 1 + 2 = 3
          OBVIOUS
        <4>2. b[1 + 1] = enter[1] /\ (Len(ending) = 2 => b[1 + 2] = enter[2])
          BY <2>1, <3>1, Zenon
        <4> QED BY <4>1, <4>2, Zenon
      <3>3. b[2].key = ending[1] /\ (Len(ending) = 2 => b[3].key = ending[2])
        BY <1>2, <3>1, <3>2
      <3>4. \/ Len(b) = 2 /\ b[2].key \in {"cr", "lf"}
            \/ Len(b) = 3 /\ b[2].key = "cr" /\ b[3].key = "lf"
        BY <1>1, <2>1, <3>3
      <3> QED BY <3>4, EndsLineLemma
    <2>3. ASSUME NEW i \in 1 .. Len(b) PROVE b[i].for = for
      <3>1. CASE i = 1
        BY <1>3, <2>1, <3>1
      <3>2. CASE i # 1
        <4>1. i - 1 \in 1 .. Len(ending) /\ 1 + (i - 1) = i
          BY <1>1, <2>1, <3>2
        <4> QED BY <1>2, <2>1, <4>1
      <3> QED BY <3>1, <3>2
    <2> QED BY <1>3, <1>9, <2>1, <2>2, <2>3 DEF b
  <1> QED BY <1>6, <1>8, <1>9

(* It is the client's turn when nothing is under way, and what it types    *)
(* was asked for.                                                          *)
LEMMA TypedTurn ==
    ASSUME Mannered, IInv, TurnInv, TypeLine
    PROVE  TurnInv' /\ dev' = dev
  <1>1. PICK line \in (IF seen = "prompt" THEN Commands ELSE Answers[seen]), e \in LineEnds :
          net' = net \o Bytes(line, e, seen)
    BY DEF TypeLine
  <1>2. /\ open /\ turn /\ turn' = FALSE
        /\ UNCHANGED <<has, dev, chunk, atRead, open, seen, given, lastLine>>
    BY DEF TypeLine
  <1>3. Idle /\ chunk = <<>> /\ dev.output = <<>>
    BY <1>2 DEF TurnInv, Idle, Typing, Answered, Closed
  <1>4. /\ net = <<>> /\ seen = Asking(dev) /\ dev.input = "" /\ dev.mode # "Reloading"
        /\ seen \in Asked
    BY <1>3 DEF Idle, IInv, TypeOK
  <1>5. line \in Line /\ FitLine(line, seen)
    <2>1. CASE seen = "prompt"
      BY <1>1, <2>1 DEF Line, FitLine, Logins, Mannered
    <2>2. CASE seen # "prompt"
      <3>1. seen \in Pendings \cup Logins /\ line \in Answers[seen]
        BY <1>1, <1>4, <2>2 DEF Asked, Token
      <3>2. seen \in Logins => line # ""
        BY <3>1 DEF Logins, Mannered
      <3> QED BY <2>2, <3>1, <3>2 DEF Line, FitLine
    <2> QED BY <2>1, <2>2
  <1>6. PICK b : b = Bytes(line, e, seen)
    OBVIOUS
  <1>7. /\ b \in Seq(Byte)
        /\ line = "" => EndsLine(b, 0)
        /\ line # "" => EndsLine(b, 1) /\ b[1].key = "text" /\ b[1].line = line
        /\ \A i \in 1 .. Len(b) : b[i].for = seen
    <2>1. line \in Line /\ e \in LineEnds /\ seen \in Asked
      BY <1>1, <1>4, <1>5
    <2>2. Bytes(line, e, seen) \in Seq(Byte)
      BY ONLY <2>1, BytesType
    <2>3. /\ line = "" => EndsLine(Bytes(line, e, seen), 0)
          /\ line # "" => /\ EndsLine(Bytes(line, e, seen), 1)
                          /\ Bytes(line, e, seen)[1].key = "text"
                          /\ Bytes(line, e, seen)[1].line = line
          /\ \A i \in 1 .. Len(Bytes(line, e, seen)) : Bytes(line, e, seen)[i].for = seen
      BY ONLY <2>1, BytesShape, ZenonT(40)
    <2> QED BY ONLY <1>6, <2>2, <2>3
  <1>8. Way' = b
    <2>1. <<>> \o b = b
      <3>1. b \in Seq(Byte)
        BY <1>7
      <3>2. <<>> \in Seq(Byte)
        OBVIOUS
      <3> QED BY ONLY <3>1, <3>2, WayLemma
    <2>2. net' = b
      BY <1>1, <1>4, <1>6, <2>1
    <2>3. Way' = <<>> \o b
      BY <1>2, <1>3, <2>2 DEF Way
    <2> QED BY <2>1, <2>3
  <1>9. UnderWay(dev, b)
    BY <1>3, <1>4, <1>5, <1>7 DEF UnderWay
  <1>10. Meant(dev, b)
    BY <1>4, <1>7 DEF Meant
  <1>11. Whole(chunk, b)
    BY <1>3 DEF Whole
  <1>12. Questions(dev.output) = {}
    BY <1>3 DEF Questions
  <1>13. Typing'
    BY <1>2, <1>4, <1>8, <1>9, <1>10, <1>11, <1>12 DEF Typing
  <1> QED BY <1>2, <1>13 DEF TurnInv

(* So is a key, which it has at a prompt only. *)
LEMMA PressedTurn ==
    ASSUME Mannered, IInv, TurnInv, PressKey
    PROVE  TurnInv' /\ dev' = dev
  <1>1. PICK k \in (IF seen = "prompt" THEN ControlKeys ELSE CancelKeys) :
          net' = Append(net, [key |-> k, line |-> "", for |-> seen])
    BY DEF PressKey
  <1>2. /\ open /\ turn /\ turn' = FALSE
        /\ UNCHANGED <<has, dev, chunk, atRead, open, seen, given, lastLine>>
    BY DEF PressKey
  <1>3. Idle /\ chunk = <<>> /\ dev.output = <<>>
    BY <1>2 DEF TurnInv, Idle, Typing, Answered, Closed
  <1>4. /\ net = <<>> /\ seen = Asking(dev) /\ dev.input = "" /\ dev.mode # "Reloading"
    BY <1>3 DEF Idle
  <1>5. seen = "prompt" /\ k \in ControlKeys
    BY <1>1 DEF Mannered
  <1>6. PICK b : b = [key |-> k, line |-> "", for |-> seen]
    OBVIOUS
  <1>7. Way' = <<b>> /\ b.key = k /\ b.for = seen
    <2>1. Append(<<>>, b) = <<b>> /\ <<>> \o <<b>> = <<b>>
      OBVIOUS
    <2>2. net' = <<b>>
      BY <1>1, <1>4, <1>6, <2>1
    <2>3. Way' = <<>> \o <<b>>
      BY <1>2, <1>3, <2>2 DEF Way
    <2> QED BY <1>6, <2>1, <2>3
  <1>8. PICK w : w = <<b>>
    OBVIOUS
  <1>9. Len(w) = 1 /\ w[1] = b
    BY <1>8
  <1>10. UnderWay(dev, w)
    BY <1>4, <1>5, <1>7, <1>9 DEF UnderWay
  <1>11. Meant(dev, w)
    <2>1. \A i \in 1 .. 1 : i = 1
      OBVIOUS
    <2> QED BY <1>4, <1>7, <1>9, <2>1 DEF Meant
  <1>12. Whole(chunk, w)
    BY <1>3 DEF Whole
  <1>13. Questions(dev.output) = {}
    BY <1>3 DEF Questions
  <1>14. Typing'
    BY <1>2, <1>4, <1>7, <1>8, <1>10, <1>11, <1>12, <1>13 DEF Typing
  <1> QED BY <1>2, <1>14 DEF TurnInv

(* Every step keeps the turns, and reloads when it was meant to. *)
LEMMA NextTurn ==
    ASSUME Mannered, IInv, TurnInv, [Next]_vars
    PROVE  /\ TurnInv'
           /\ dev.mode # "Reloading" /\ dev'.mode = "Reloading" =>
                \/ Head(chunk).key = "ctrl_d" \/ dev.input = "exit"
                \/ Head(chunk).for \in {"reloadConfirm", "installActivateConfirm"}
  <1>1. CASE TypeText
    <2>1. PICK d : Handled(d) /\ d.mode = dev.mode
      <3>1. ASSUME NEW o PROVE Say([dev EXCEPT !.input = Head(chunk).line], o).mode = dev.mode
        BY DEF Say, IInv, TypeOK, Device
      <3> QED BY <1>1, <3>1 DEF TypeText
    <2> QED BY <1>1, <2>1, TypeTextTurn DEF Handled
  <1>2. CASE CarriageReturn
    BY <1>2, CarriageReturnTurn
  <1>3. CASE LineFeed
    BY <1>3, LineFeedTurn
  <1>4. CASE CtrlC \/ CtrlZ \/ CtrlD
    BY <1>4, KeysTurn
  <1>5. CASE Read
    BY <1>5, ReadTurn
  <1>6. CASE Respond
    BY <1>6, RespondTurn
  <1>7. CASE TypeLine
    BY <1>7, TypedTurn
  <1>8. CASE PressKey
    BY <1>8, PressedTurn
  <1>9. CASE UNCHANGED vars
    <2>1. UNCHANGED <<Way, dev, chunk, net, atRead, open, turn, seen, lastLine>>
      BY <1>9 DEF vars, Way
    <2> QED BY <2>1 DEF TurnInv, Idle, Typing, Answered, Closed
  <1> QED
    BY <1>1, <1>2, <1>3, <1>4, <1>5, <1>6, <1>7, <1>8, <1>9 DEF Next, Server

(* The client starts with its turn. *)
LEMMA InitTurn == Init => TurnInv
  <1> SUFFICES ASSUME Init PROVE TurnInv
    OBVIOUS
  <1>1. dev.mode = FirstMode(has) /\ dev.pending = None /\ dev.input = "" /\ dev.output = <<>>
    BY DEF Init
  <1>2. FirstMode(has) # "Reloading"
    BY DEF FirstMode
  <1>3. Idle
    BY <1>1, <1>2 DEF Init, Idle
  <1> QED BY <1>1, <1>3 DEF Init, TurnInv, Waits

(* The turns are kept throughout. *)
LEMMA TurnInvariant == ASSUME Mannered PROVE Spec => []TurnInv
  <1>1. IInv /\ TurnInv /\ [Next]_vars => TurnInv'
    BY NextTurn
  <1> QED BY <1>1, Invariant, InitTurn, PTL DEF Spec

(* Each line of a mannered client is handled as what it was typed for,     *)
(* whatever the device is set up with and however reads cut the bytes.     *)
THEOREM LinesAreMeant == ASSUME Mannered PROVE Spec => []LinesMeetTheirQuestion
  <1>1. TurnInv => LinesMeetTheirQuestion
    BY DEF TurnInv, LinesMeetTheirQuestion
  <1> QED BY <1>1, TurnInvariant, PTL

(* With nothing under way the client has its turn, and its screen ends in  *)
(* what the device waits for.                                              *)
THEOREM ScreenTellsTruth == ASSUME Mannered PROVE Spec => []ScreenIsTrue
  <1>1. TurnInv => ScreenIsTrue
    <2> SUFFICES ASSUME TurnInv, open, net = <<>>, atRead
                 PROVE  turn /\ seen = Asking(dev)
      BY DEF ScreenIsTrue
    <2>1. Way = <<>>
      BY DEF TurnInv, Way
    <2>2. ~Typing
      <3>1. PICK w : w = Way
        OBVIOUS
      <3>2. Len(w) = 0
        BY <2>1, <3>1
      <3>3. ~UnderWay(dev, w)
        <4>1. ~EndsLine(w, 0) /\ ~EndsLine(w, 1)
          BY <3>2, EndsLineLemma
        <4>2. Len(w) # 1
          BY <3>2
        <4> QED BY <4>1, <4>2, Zenon DEF UnderWay
      <3> QED BY <3>1, <3>3 DEF Typing
    <2> QED BY <2>2 DEF TurnInv, Idle, Answered, Closed
  <1> QED BY <1>1, TurnInvariant, PTL

(* A device goes down only for a mannered client that asked for it.        *)
THEOREM ReloadsAreMeant == ASSUME Mannered PROVE Spec => ReloadIsMeant
  <1>1. IInv /\ TurnInv /\ [Next]_vars =>
          [ dev.mode # "Reloading" /\ dev'.mode = "Reloading" =>
              \/ Head(chunk).key = "ctrl_d" \/ dev.input = "exit"
              \/ Head(chunk).for \in {"reloadConfirm", "installActivateConfirm"} ]_vars
    BY NextTurn
  <1> QED BY <1>1, Invariant, TurnInvariant, PTL DEF Spec, ReloadIsMeant
=============================================================================
