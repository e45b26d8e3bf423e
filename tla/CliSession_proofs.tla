-------------------------- MODULE CliSession_proofs --------------------------
(***************************************************************************)
(* Theorems about CliSession, for every template, every set of scripts and *)
(* every number of commands.                                               *)
(***************************************************************************)
EXTENDS CliSession, StreamLemmas, FiniteSetTheorems, SequenceTheorems, TLAPS

-----------------------------------------------------------------------------
(* What is left when a prefix has been drained. *)
LEMMA DrainLemma ==
    ASSUME NEW S, NEW s \in Seq(S), NEW k \in 0 .. Len(s)
    PROVE  /\ DrainFront(s, k) \in Seq(S)
           /\ Len(DrainFront(s, k)) = Len(s) - k
           /\ \A i \in 1 .. (Len(s) - k) : DrainFront(s, k)[i] = s[k + i]
  BY DropLemma DEF DrainFront

(* A rule never leads out of the template. *)
LEMMA StateAfterLemma ==
    ASSUME NEW state \in State, NEW i \in DOMAIN Template[state]
    PROVE  StateAfter(state, Template[state][i]) \in State
  <1>1. Template[state][i] \in RuleType(Kind, State)
    BY SessionAssumption
  <1>2. Template[state][i].next \in State \cup {Stay}
    BY <1>1 DEF RuleType
  <1>3. QED
    BY <1>2 DEF StateAfter

-----------------------------------------------------------------------------
(* Type correctness: whatever the template and the device do. *)
LEMMA TypeInit == Init => TypeOK
  <1> SUFFICES ASSUME Init PROVE TypeOK
    OBVIOUS
  <1>1. NoCmd \in CmdId
    BY SessionAssumption DEF NoCmd, CmdId
  <1>2. [cmd |-> NoCmd, kind |-> Prompt] \in Token
    BY <1>1, SessionAssumption DEF Token
  <1>3. toHost \in Seq(Token)
    BY <1>2, SessionAssumption DEF Init
  <1>4. /\ <<>> \in Seq(Token) /\ <<>> \in Seq(Line) /\ <<>> \in Seq(Kind)
        /\ <<>> \in Seq(Result)
    OBVIOUS
  <1>5. pc = "idle" /\ cmd = NoCmd /\ devCmd = NoCmd
    BY DEF Init, NoCmd
  <1>6. QED
    BY <1>1, <1>3, <1>4, <1>5, SessionAssumption DEF Init, TypeOK

(* Every action, and a stutter, keeps the types.                           *)
LEMMA TypeStep == TypeOK /\ [Next]_vars => TypeOK'
  <1> SUFFICES ASSUME TypeOK, [Next]_vars PROVE TypeOK'
    OBVIOUS
  <1> USE DEF TypeOK
  <1>0. cmd \in CmdId /\ MaxCmds \in Nat /\ NoCmd \in CmdId
    BY SessionAssumption DEF CmdId, NoCmd
  <1>1. ASSUME NEW outcome \in {"ok", "timeout", "error"}, NEW out \in Seq(Token),
               Return(outcome, out)
        PROVE  pc' \in {"idle", "run"} /\ buffer' \in Seq(Token) /\ results' \in Seq(Result)
    <2>1. [cmd |-> cmd, outcome |-> outcome, out |-> out] \in Result
      BY <1>0 DEF Result
    <2>2. QED
      BY <1>1, <2>1, AppendLemma DEF Return
  <1>e. <<>> \in Seq(Token)
    OBVIOUS
  <1>2. CASE RunCmd
    <2>1. cmd + 1 \in CmdId
      BY <1>2, <1>0 DEF RunCmd, CmdId
    <2>2. [type |-> "cmd", cmd |-> cmd + 1] \in Line
      BY <2>1 DEF Line
    <2>3. QED
      BY <1>2, <2>1, <2>2, AppendLemma, SessionAssumption DEF RunCmd, devVars, history
  <1>3. CASE RunCmdFails
    <2>1. cmd + 1 \in CmdId
      BY <1>3, <1>0 DEF RunCmdFails, CmdId
    <2>2. [cmd |-> cmd + 1, outcome |-> "error", out |-> <<>>] \in Result
      BY <2>1 DEF Result
    <2>3. QED
      BY <1>3, <2>1, <2>2, AppendLemma, SessionAssumption DEF RunCmdFails, devVars
  <1>4. CASE FeedDone
    <2>1. PICK p \in DOMAIN buffer : Return("ok", SubSeq(buffer, 1, p))
      BY <1>4 DEF FeedDone
    <2>2. SubSeq(buffer, 1, p) \in Seq(Token)
      BY <2>1, PrefixLemma
    <2>3. QED
      BY <1>4, <2>1, <2>2, <1>1 DEF FeedDone, devVars
  <1>5. CASE FeedSend
    <2>1. PICK i \in DOMAIN Template[fsm], p \in DOMAIN buffer :
            fsm' = StateAfter(fsm, Rule(i)) /\ buffer' = DrainFront(buffer, p)
      BY <1>5 DEF FeedSend
    <2>2. fsm' \in State
      BY <2>1, StateAfterLemma DEF Rule
    <2>3. buffer' \in Seq(Token)
      BY <2>1, DrainLemma
    <2>4. [type |-> "answer", cmd |-> cmd] \in Line
      BY <1>0 DEF Line
    <2>5. QED
      BY <1>5, <2>2, <2>3, <2>4, AppendLemma DEF FeedSend, devVars, history
  <1>6. CASE FeedError
    <2>1. Return("error", <<>>)
      BY <1>6 DEF FeedError
    <2>2. QED
      BY <1>6, <1>0, <1>e, <2>1, <1>1 DEF FeedError, devVars
  <1>7. CASE Receive
    <2>1. PICK k \in 0 .. Len(toHost) : /\ buffer' = buffer \o SubSeq(toHost, 1, k)
                                        /\ toHost' = DrainFront(toHost, k)
      BY <1>7 DEF Receive
    <2>2. buffer' \in Seq(Token) /\ toHost' \in Seq(Token)
      BY <2>1, PrefixLemma, ConcatLemma, DrainLemma
    <2>3. QED
      BY <1>7, <2>2 DEF Receive, devVars, history
  <1>8. CASE TransportError
    <2>1. Return("error", <<>>)
      BY <1>8 DEF TransportError
    <2>2. QED
      BY <1>8, <1>e, <2>1, <1>1 DEF TransportError, devVars
  <1>9. CASE Timeout
    <2>1. Return("timeout", <<>>)
      BY <1>9 DEF Timeout
    <2>2. QED
      BY <1>9, <1>0, <1>e, <2>1, <1>1 DEF Timeout, devVars
  <1>10. CASE DevCommand
    <2>1. Head(toDev) \in Line /\ Tail(toDev) \in Seq(Line)
      BY <1>10, TailLemma DEF DevCommand
    <2>2. Head(toDev).cmd \in CmdId
      BY <2>1 DEF Line
    <2>3. <<Prompt>> \in Seq(Kind)
      BY SessionAssumption
    <2>4. devRest' \in Seq(Kind) /\ devCmd' \in CmdId
      BY <1>10, <2>2, <2>3, <1>0, SessionAssumption DEF DevCommand
    <2>5. QED
      BY <1>10, <2>1, <2>4 DEF DevCommand, hostVars, history
  <1>11. CASE DevPrint
    <2>1. Head(devRest) \in Kind /\ Tail(devRest) \in Seq(Kind)
      BY <1>11, TailLemma DEF DevPrint
    <2>2. [cmd |-> devCmd, kind |-> Head(devRest)] \in Token
      BY <2>1 DEF Token
    <2>3. QED
      BY <1>11, <2>1, <2>2, AppendLemma DEF DevPrint, hostVars, history
  <1>12. CASE DevAnswer
    <2>1. Head(toDev) \in Line /\ Tail(toDev) \in Seq(Line)
      BY <1>12, TailLemma DEF DevAnswer
    <2>2. [asked |-> devCmd, line |-> Head(toDev)] \in Answer
      BY <2>1 DEF Answer
    <2>3. QED
      BY <1>12, <2>1, <2>2 DEF DevAnswer, hostVars
  <1>13. CASE LinkDown
    BY <1>13 DEF LinkDown, hostVars, devVars, history
  <1>14. CASE UNCHANGED vars
    BY <1>14 DEF vars, hostVars, devVars, history
  <1>15. QED
    BY <1>2, <1>3, <1>4, <1>5, <1>6, <1>7, <1>8, <1>9, <1>10, <1>11, <1>12,
       <1>13, <1>14 DEF Next, Client, Device, Finished

(* In every reachable state of run_cmd, its stream and the device, every   *)
(* variable has its type, for every template and every device.             *)
THEOREM TypeCorrect == Spec => []TypeOK
  <1>1. QED
    BY TypeInit, TypeStep, PTL DEF Spec

-----------------------------------------------------------------------------
(* In step.  A device is clean for a template when the template answers    *)
(* nothing but questions and takes nothing but the prompt for the end of a *)
(* command, as far as the lines the device can print go.                   *)
EndsOn(kind) ==
    \E s \in State : \E i \in DOMAIN Template[s] :
        Template[s][i].act = "Done" /\ kind \in Template[s][i].match

AnswersOn(kind) ==
    \E s \in State : \E i \in DOMAIN Template[s] :
        Template[s][i].act = "Send" /\ kind \in Template[s][i].match

CleanDevice ==
    /\ \A kind \in Kind : AnswersOn(kind) => kind \in Asks
    /\ \A s \in Scripts :
          /\ s # <<>> /\ s[Len(s)] = Prompt
          /\ \A i \in 1 .. Len(s) : EndsOn(s[i]) => i = Len(s)

InStep == Stale = 0 /\ abandoned = {}

(* Only commands that have returned are abandoned. *)
AbandonedInv ==
    /\ \A t \in abandoned : t <= cmd /\ (pc = "run" => t < cmd)
    /\ pc = "run" => cmd >= 1

(* In step, the buffer holds output of the current command only, and the   *)
(* only line of it that can end the command is its prompt.                 *)
BufferInv ==
    InStep /\ pc = "run" =>
        \A i \in 1 .. Len(buffer) :
            /\ buffer[i].cmd = cmd
            /\ EndsOn(buffer[i].kind) => buffer[i].kind = Prompt

RestInv ==
    /\ \A i \in 1 .. Len(devRest) : EndsOn(devRest[i]) => i = Len(devRest)
    /\ devRest # <<>> => devRest[Len(devRest)] = Prompt

(* The token is the last thing the device said: a prompt, and it is idle,  *)
(* or a question, and it waits.                                            *)
LastWord(token) ==
    /\ EndsOn(token.kind) => token.kind = Prompt /\ devRest = <<>> /\ ~ devAsking
    /\ token.kind \in Asks => devAsking

Pausing(token) == EndsOn(token.kind) \/ token.kind \in Asks

CommandSent ==
    /\ toDev = << [type |-> "cmd", cmd |-> cmd] >>
    /\ buffer = <<>> /\ toHost = <<>> /\ devRest = <<>> /\ ~ devAsking

AnswerSent ==
    /\ toDev = << [type |-> "answer", cmd |-> cmd] >>
    /\ buffer = <<>> /\ toHost = <<>> /\ devAsking /\ devCmd = cmd
    /\ RestInv

Executing ==
    /\ toDev = <<>> /\ devCmd = cmd
    /\ RestInv
    /\ \A i \in 1 .. Len(toHost) :
          /\ toHost[i].cmd = cmd /\ LastWord(toHost[i])
          /\ Pausing(toHost[i]) => i = Len(toHost)
    /\ \A i \in 1 .. Len(buffer) :
          /\ LastWord(buffer[i])
          /\ Pausing(buffer[i]) => i = Len(buffer) /\ toHost = <<>>

(* In step, the client and the device are in one of these phases. *)
StreamInv ==
    InStep /\ link = "up" =>
        /\ pc = "idle" => toHost = <<>> /\ toDev = <<>> /\ devRest = <<>> /\ ~ devAsking
        /\ pc = "run" => CommandSent \/ AnswerSent \/ Executing

(* A command that was not abandoned and is still being executed, or is on  *)
(* its way to the device, is the current one: or an earlier command was    *)
(* abandoned and nothing is claimed of it.                                 *)
Unfinished(c) ==
    \/ \E i \in 1 .. Len(toDev) : toDev[i].type = "cmd" /\ toDev[i].cmd = c
    \/ c = devCmd /\ (devAsking \/ devRest # <<>>)

CurrentInv ==
    link = "up" =>
        \A c \in CmdId \ {NoCmd} :
            Unfinished(c) /\ InStepAt(c) /\ c \notin abandoned => pc = "run" /\ c = cmd

(* A stray answer makes the device print a prompt and ask nothing. *)
StrayInv ==
    /\ devCmd = NoCmd => ~ devAsking /\ (devRest = <<>> \/ devRest = <<Prompt>>)
    /\ \A i \in 1 .. Len(toDev) : toDev[i].type = "cmd" => toDev[i].cmd # NoCmd

SessionInv ==
    /\ TypeOK /\ AbandonedInv /\ BufferInv /\ StreamInv /\ CurrentInv /\ StrayInv
    /\ OwnOutput /\ NoCrossAnswer

-----------------------------------------------------------------------------
(* What a rule that fires says about the token it fires on. *)
LEMMA FiringLemma ==
    ASSUME TypeOK, NEW i \in DOMAIN Template[fsm], NEW p \in DOMAIN buffer,
           Fires(Template, fsm, buffer, i, p)
    PROVE  /\ Rule(i).act = "Done" => EndsOn(buffer[p].kind)
           /\ Rule(i).act = "Send" => AnswersOn(buffer[p].kind)
           /\ p \in 1 .. Len(buffer) /\ buffer[p] \in Token /\ buffer[p].kind \in Kind
  <1>1. fsm \in State /\ buffer[p].kind \in Template[fsm][i].match
    BY DEF TypeOK, Fires
  <1>2. p \in 1 .. Len(buffer) /\ buffer[p] \in Token
    BY DEF TypeOK
  <1>3. QED
    BY <1>1, <1>2 DEF Rule, EndsOn, AnswersOn, Token

(* Being in step is never regained. *)
LEMMA InStepAtLemma ==
    ASSUME abandoned \subseteq abandoned', NEW c
    PROVE  InStepAt(c)' => InStepAt(c)
  BY DEF InStepAt

(* A session starts in step: nothing is in flight.                         *)
LEMMA SessionInit == Init => SessionInv
  <1> SUFFICES ASSUME Init PROVE SessionInv
    OBVIOUS
  <1>1. TypeOK
    BY TypeInit
  <1>2. AbandonedInv /\ BufferInv
    BY DEF Init, AbandonedInv, BufferInv
  <1>3. StreamInv
    <2>1. InStep => toHost = <<>>
      BY SessionAssumption DEF Init, InStep
    <2>2. QED
      BY <2>1 DEF Init, StreamInv
  <1>4. CurrentInv /\ StrayInv
    BY DEF Init, CurrentInv, StrayInv, Unfinished
  <1>5. OwnOutput /\ NoCrossAnswer
    BY DEF Init, OwnOutput, NoCrossAnswer
  <1>6. QED
    BY <1>1, <1>2, <1>3, <1>4, <1>5 DEF SessionInv

(* run_cmd sends its line into an empty stream, to an idle device.         *)
LEMMA RunCmdKeeps ==
    ASSUME SessionInv, TypeOK', RunCmd
    PROVE  SessionInv'
  <1> DEFINE line == [type |-> "cmd", cmd |-> cmd + 1]
  <1>0. /\ cmd \in Nat /\ cmd' = cmd + 1 /\ pc = "idle" /\ pc' = "run" /\ link = "up"
        /\ abandoned' = abandoned /\ link' = link /\ buffer' = <<>>
        /\ toHost' = toHost /\ devRest' = devRest /\ devAsking' = devAsking
        /\ devCmd' = devCmd /\ results' = results /\ answered' = answered
        /\ toDev' = Append(toDev, line)
    BY SessionAssumption DEF SessionInv, TypeOK, CmdId, RunCmd, devVars, history
  <1>1. AbandonedInv'
    BY <1>0, SessionAssumption DEF SessionInv, TypeOK, CmdId, AbandonedInv
  <1>2. BufferInv'
    BY <1>0 DEF BufferInv
  <1>3. StreamInv'
    <2> SUFFICES ASSUME InStep PROVE CommandSent'
      BY <1>0 DEF StreamInv, InStep
    <2>1. toHost = <<>> /\ toDev = <<>> /\ devRest = <<>> /\ ~ devAsking
      BY <1>0 DEF SessionInv, StreamInv
    <2>2. Append(<<>>, line) = <<line>>
      OBVIOUS
    <2>3. QED
      BY <1>0, <2>1, <2>2 DEF CommandSent
  <1>4. CurrentInv'
    <2> SUFFICES ASSUME NEW c \in CmdId \ {NoCmd}, Unfinished(c)', InStepAt(c), c \notin abandoned
                 PROVE  c = cmd + 1
      BY <1>0 DEF CurrentInv, InStepAt
    <2>1. Unfinished(c) => FALSE
      BY <1>0 DEF SessionInv, CurrentInv
    <2>2. PICK i \in 1 .. Len(toDev') : toDev'[i].type = "cmd" /\ toDev'[i].cmd = c
      BY <1>0, <2>1 DEF Unfinished
    <2>3. CASE i \in 1 .. Len(toDev)
      BY <1>0, <2>1, <2>2, <2>3 DEF Unfinished, SessionInv, TypeOK
    <2>4. CASE i = Len(toDev) + 1
      BY <1>0, <2>2, <2>4 DEF SessionInv, TypeOK
    <2>5. QED
      BY <1>0, <2>2, <2>3, <2>4 DEF SessionInv, TypeOK
  <1>5. StrayInv'
    <2>1. toDev \in Seq(Line)
      BY DEF SessionInv, TypeOK
    <2>2. ASSUME NEW i \in 1 .. Len(toDev'), toDev'[i].type = "cmd"
          PROVE  toDev'[i].cmd # NoCmd
      BY <1>0, <2>1, <2>2 DEF SessionInv, StrayInv, NoCmd
    <2>3. QED
      BY <1>0, <2>2 DEF SessionInv, StrayInv
  <1>6. OwnOutput' /\ NoCrossAnswer'
    BY <1>0 DEF SessionInv, OwnOutput, NoCrossAnswer, Ok, FinalToken, InStepAt
  <1>7. QED
    BY <1>1, <1>2, <1>3, <1>4, <1>5, <1>6 DEF SessionInv

(* On a dead transport run_cmd only records its error.                     *)
LEMMA RunCmdFailsKeeps ==
    ASSUME SessionInv, TypeOK', RunCmdFails
    PROVE  SessionInv'
  <1> DEFINE res == [cmd |-> cmd + 1, outcome |-> "error", out |-> <<>>]
  <1>0. /\ cmd \in Nat /\ cmd' = cmd + 1 /\ pc = "idle" /\ pc' = "idle" /\ link = "down"
        /\ abandoned' = abandoned /\ link' = link /\ toDev' = toDev
        /\ devRest' = devRest /\ devAsking' = devAsking /\ devCmd' = devCmd
        /\ answered' = answered /\ results' = Append(results, res)
    BY SessionAssumption DEF SessionInv, TypeOK, CmdId, RunCmdFails, devVars
  <1>1. AbandonedInv'
    BY <1>0, SessionAssumption DEF SessionInv, TypeOK, CmdId, AbandonedInv
  <1>2. BufferInv' /\ StreamInv' /\ CurrentInv'
    BY <1>0 DEF BufferInv, StreamInv, CurrentInv
  <1>3. StrayInv' /\ NoCrossAnswer'
    BY <1>0 DEF SessionInv, StrayInv, NoCrossAnswer, InStepAt
  <1>4. OwnOutput'
    <2>1. res \in Result
      BY <1>0, SessionAssumption DEF RunCmdFails, Result, CmdId
    <2>2. /\ \A i \in DOMAIN results' : i \in DOMAIN results \/ results'[i] = res
          /\ \A i \in DOMAIN results : results'[i] = results[i]
      BY <1>0, <2>1 DEF SessionInv, TypeOK
    <2>3. res.outcome = "error"
      OBVIOUS
    <2>4. QED
      BY <1>0, <2>2, <2>3 DEF SessionInv, OwnOutput, Ok, FinalToken, InStepAt
  <1>5. QED
    BY <1>1, <1>2, <1>3, <1>4 DEF SessionInv

(* A result that does not claim success claims nothing. *)
LEMMA FailureKeepsOwnOutput ==
    ASSUME SessionInv, NEW outcome \in {"timeout", "error"}, Return(outcome, <<>>),
           abandoned \subseteq abandoned'
    PROVE  OwnOutput'
  <1>1. results \in Seq(Result)
    BY DEF SessionInv, TypeOK
  <1>2. /\ \A i \in DOMAIN results' : i \in DOMAIN results \/ results'[i].outcome = outcome
        /\ \A i \in DOMAIN results : results'[i] = results[i]
    BY <1>1 DEF Return
  <1>3. QED
    BY <1>2, InStepAtLemma DEF SessionInv, OwnOutput, Ok, FinalToken

(* The Done rule of run_cmd fires on the prompt, the last token of the output: *)
(* what is returned is the whole of it and nothing is left in the stream.  *)
LEMMA FeedDoneKeeps ==
    ASSUME SessionInv, TypeOK', FeedDone, CleanDevice
    PROVE  SessionInv'
  <1>0. /\ cmd \in Nat /\ cmd' = cmd /\ pc = "run" /\ pc' = "idle" /\ link' = link
        /\ abandoned' = abandoned /\ toDev' = toDev /\ toHost' = toHost
        /\ devRest' = devRest /\ devAsking' = devAsking /\ devCmd' = devCmd
        /\ answered' = answered
    BY SessionAssumption DEF SessionInv, TypeOK, CmdId, FeedDone, Return, devVars
  <1>1. PICK i \in DOMAIN Template[fsm], p \in DOMAIN buffer :
            /\ Fires(Template, fsm, buffer, i, p) /\ Rule(i).act = "Done"
            /\ Return("ok", SubSeq(buffer, 1, p))
    BY DEF FeedDone
  <1>2. p \in 1 .. Len(buffer) /\ EndsOn(buffer[p].kind)
    BY <1>1, FiringLemma DEF SessionInv
  <1>3. AbandonedInv' /\ BufferInv'
    BY <1>0 DEF SessionInv, AbandonedInv, BufferInv
  <1>4. StreamInv'
    <2> SUFFICES ASSUME InStep, link = "up"
                 PROVE  toHost = <<>> /\ toDev = <<>> /\ devRest = <<>> /\ ~ devAsking
      BY <1>0 DEF StreamInv, InStep
    <2>1. buffer # <<>>
      BY <1>2
    <2>2. Executing
      BY <1>0, <2>1 DEF SessionInv, StreamInv, CommandSent, AnswerSent
    <2>3. LastWord(buffer[p]) /\ toHost = <<>> /\ toDev = <<>>
      BY <1>2, <2>2 DEF Executing, Pausing
    <2>4. QED
      BY <1>2, <2>3 DEF LastWord
  <1>5. CurrentInv'
    <2> SUFFICES ASSUME NEW c \in CmdId \ {NoCmd}, Unfinished(c), InStepAt(c),
                        c \notin abandoned, link = "up"
                 PROVE  FALSE
      BY <1>0 DEF CurrentInv, InStepAt, Unfinished
    <2>1. c = cmd
      BY DEF SessionInv, CurrentInv
    <2>2. InStep
      BY <1>0, <2>1 DEF InStepAt, InStep, SessionInv, AbandonedInv, TypeOK, CmdId
    <2>3. toDev = <<>> /\ devRest = <<>> /\ ~ devAsking
      BY <1>0, <1>4, <2>2 DEF StreamInv, InStep
    <2>4. QED
      BY <2>3 DEF Unfinished
  <1>6. StrayInv' /\ NoCrossAnswer'
    BY <1>0 DEF SessionInv, StrayInv, NoCrossAnswer, InStepAt
  <1>7. OwnOutput'
    <2> DEFINE out == SubSeq(buffer, 1, p)
               res == [cmd |-> cmd, outcome |-> "ok", out |-> out]
    <2>1. results' = Append(results, res)
      BY <1>1 DEF Return
    <2>2. /\ results \in Seq(Result) /\ buffer \in Seq(Token)
      BY DEF SessionInv, TypeOK
    <2>3. out \in Seq(Token) /\ Len(out) = p /\ \A k \in 1 .. p : out[k] = buffer[k]
      BY <1>2, <2>2, PrefixLemma
    <2>4. res \in Result
      BY <2>3 DEF Result, SessionInv, TypeOK
    <2>5. ASSUME InStepAt(cmd)
          PROVE  (\A k \in DOMAIN out : out[k].cmd = cmd) /\ out[Len(out)].kind = Prompt
      <3>1. InStep
        BY <1>0, <2>5 DEF InStepAt, InStep, SessionInv, AbandonedInv, TypeOK, CmdId
      <3>2. \A k \in 1 .. Len(buffer) : /\ buffer[k].cmd = cmd
                                        /\ EndsOn(buffer[k].kind) => buffer[k].kind = Prompt
        BY <1>0, <3>1 DEF SessionInv, BufferInv
      <3>3. DOMAIN out = 1 .. p
        BY <2>3
      <3>4. QED
        BY <1>2, <2>3, <3>2, <3>3
    <2>6. /\ \A j \in DOMAIN results' : j \in DOMAIN results \/ results'[j] = res
          /\ \A j \in DOMAIN results : results'[j] = results[j]
      BY <2>1, <2>2
    <2>7. ASSUME NEW j \in DOMAIN results', Ok(j)', InStepAt(results'[j].cmd)
          PROVE  /\ \A k \in DOMAIN results'[j].out : results'[j].out[k].cmd = results'[j].cmd
                 /\ FinalToken(j)'.kind = Prompt
      <3>1. CASE j \in DOMAIN results
        BY <2>6, <2>7, <3>1 DEF SessionInv, OwnOutput, Ok, FinalToken
      <3>2. CASE results'[j] = res
        <4>1. res.cmd = cmd /\ res.out = out
          OBVIOUS
        <4>2. InStepAt(cmd)
          BY <2>7, <3>2, <4>1
        <4>3. FinalToken(j)' = out[Len(out)]
          BY <3>2, <4>1 DEF FinalToken
        <4>4. QED
          BY <2>5, <3>2, <4>1, <4>2, <4>3
      <3>3. QED
        BY <2>6, <2>7, <3>1, <3>2
    <2>8. QED
      BY <1>0, <2>7 DEF OwnOutput, InStepAt
  <1>8. QED
    BY <1>3, <1>4, <1>5, <1>6, <1>7 DEF SessionInv

(* The Send rule of run_cmd fires on a question, the last token the device *)
(* printed: the answer goes to the device that waits for it.               *)
LEMMA FeedSendKeeps ==
    ASSUME SessionInv, TypeOK', FeedSend, CleanDevice
    PROVE  SessionInv'
  <1> DEFINE line == [type |-> "answer", cmd |-> cmd]
  <1>0. /\ cmd \in Nat /\ cmd' = cmd /\ pc = "run" /\ pc' = "run" /\ link = "up" /\ link' = link
        /\ abandoned' = abandoned /\ toHost' = toHost /\ results' = results
        /\ devRest' = devRest /\ devAsking' = devAsking /\ devCmd' = devCmd
        /\ answered' = answered /\ toDev' = Append(toDev, line)
    BY SessionAssumption DEF SessionInv, TypeOK, CmdId, FeedSend, devVars, history
  <1>1. PICK i \in DOMAIN Template[fsm], p \in DOMAIN buffer :
            /\ Fires(Template, fsm, buffer, i, p) /\ Rule(i).act = "Send"
            /\ buffer' = DrainFront(buffer, p)
    BY DEF FeedSend
  <1>2. p \in 1 .. Len(buffer) /\ buffer[p].kind \in Asks
    BY <1>1, FiringLemma DEF SessionInv, CleanDevice
  <1>3. /\ buffer \in Seq(Token) /\ buffer' \in Seq(Token) /\ Len(buffer') = Len(buffer) - p
        /\ \A k \in 1 .. Len(buffer') : buffer'[k] = buffer[p + k]
    <2>1. buffer \in Seq(Token) /\ p \in 0 .. Len(buffer)
      BY <1>2 DEF SessionInv, TypeOK
    <2>2. Len(DrainFront(buffer, p)) = Len(buffer) - p
      BY <2>1, DrainLemma
    <2>3. QED
      BY <1>1, <2>1, <2>2, DrainLemma
  <1>4. AbandonedInv'
    BY <1>0 DEF SessionInv, AbandonedInv
  <1>5. BufferInv'
    <2>1. \A k \in 1 .. Len(buffer') : p + k \in 1 .. Len(buffer)
      BY <1>2, <1>3
    <2>2. QED
      BY <1>0, <1>3, <2>1 DEF SessionInv, BufferInv, InStep
  <1>6. StreamInv'
    <2> SUFFICES ASSUME InStep PROVE AnswerSent'
      BY <1>0 DEF StreamInv, InStep
    <2>1. Executing
      BY <1>0, <1>2 DEF SessionInv, StreamInv, CommandSent, AnswerSent
    <2>2. devAsking /\ p = Len(buffer) /\ toHost = <<>> /\ toDev = <<>>
      BY <1>2, <2>1 DEF Executing, LastWord, Pausing
    <2>3. buffer' = <<>>
      BY <1>3, <2>2
    <2>4. toDev' = <<line>>
      BY <1>0, <2>2
    <2>5. QED
      BY <1>0, <2>1, <2>2, <2>3, <2>4 DEF AnswerSent, Executing, RestInv
  <1>7. CurrentInv' /\ StrayInv'
    <2>1. /\ toDev \in Seq(Line)
          /\ \A k \in 1 .. Len(toDev') : toDev'[k].type = "cmd" =>
                k \in 1 .. Len(toDev) /\ toDev'[k] = toDev[k]
      BY <1>0 DEF SessionInv, TypeOK
    <2>2. \A c : Unfinished(c)' => Unfinished(c)
      BY <1>0, <2>1 DEF Unfinished
    <2>3. QED
      BY <1>0, <2>1, <2>2 DEF SessionInv, CurrentInv, StrayInv, InStepAt
  <1>8. OwnOutput' /\ NoCrossAnswer'
    BY <1>0 DEF SessionInv, OwnOutput, NoCrossAnswer, Ok, FinalToken, InStepAt
  <1>9. QED
    BY <1>4, <1>5, <1>6, <1>7, <1>8 DEF SessionInv

(* receive() moves a prefix of the stream to the buffer.                   *)
LEMMA ReceiveKeeps ==
    ASSUME SessionInv, TypeOK', Receive
    PROVE  SessionInv'
  <1>0. /\ cmd' = cmd /\ pc = "run" /\ pc' = "run" /\ link = "up" /\ link' = link
        /\ abandoned' = abandoned /\ toDev' = toDev /\ results' = results
        /\ devRest' = devRest /\ devAsking' = devAsking /\ devCmd' = devCmd
        /\ answered' = answered
    BY DEF Receive, devVars, history
  <1>1. PICK k \in 0 .. Len(toHost) : /\ buffer' = buffer \o SubSeq(toHost, 1, k)
                                      /\ toHost' = DrainFront(toHost, k)
    BY DEF Receive
  <1>2. buffer \in Seq(Token) /\ toHost \in Seq(Token)
    BY DEF SessionInv, TypeOK
  <1> DEFINE chunk == SubSeq(toHost, 1, k)
  <1>3. chunk \in Seq(Token) /\ Len(chunk) = k /\ \A i \in 1 .. k : chunk[i] = toHost[i]
    BY <1>2, PrefixLemma
  <1>4. /\ Len(buffer') = Len(buffer) + k
        /\ \A i \in 1 .. Len(buffer) : buffer'[i] = buffer[i]
        /\ \A i \in 1 .. k : buffer'[Len(buffer) + i] = chunk[i]
    <2> HIDE DEF chunk
    <2>1. buffer' = buffer \o chunk
      BY <1>1 DEF chunk
    <2>2. QED
      BY <1>2, <1>3, <2>1, ConcatLemma
  <1>4a. \A i \in 1 .. Len(buffer') :
            \/ i \in 1 .. Len(buffer) /\ buffer'[i] = buffer[i]
            \/ \E j \in 1 .. k : i = Len(buffer) + j /\ buffer'[i] = toHost[j]
    <2> SUFFICES ASSUME NEW i \in 1 .. Len(buffer'), ~ (i \in 1 .. Len(buffer))
                 PROVE  \E j \in 1 .. k : i = Len(buffer) + j /\ buffer'[i] = toHost[j]
      BY <1>4
    <2>1. Len(buffer) \in Nat
      BY <1>2
    <2>2. i - Len(buffer) \in 1 .. k /\ i = Len(buffer) + (i - Len(buffer))
      BY <1>4, <2>1
    <2>3. QED
      BY <1>3, <1>4, <2>2
  <1>5. /\ Len(toHost') = Len(toHost) - k
        /\ \A i \in 1 .. Len(toHost') : toHost'[i] = toHost[k + i]
    BY <1>1, <1>2, DrainLemma
  <1>6. AbandonedInv' /\ CurrentInv' /\ StrayInv'
    BY <1>0 DEF SessionInv, AbandonedInv, CurrentInv, StrayInv, Unfinished, InStepAt
  <1>7. OwnOutput' /\ NoCrossAnswer'
    BY <1>0 DEF SessionInv, OwnOutput, NoCrossAnswer, Ok, FinalToken, InStepAt
  <1>8. CASE ~ InStep
    BY <1>0, <1>6, <1>7, <1>8 DEF SessionInv, BufferInv, StreamInv, InStep
  <1>9. CASE InStep /\ toHost = <<>>
    <2>1. buffer' = buffer /\ toHost' = toHost
      BY <1>1, <1>2, <1>9 DEF DrainFront
    <2>2. BufferInv' /\ StreamInv'
      BY <1>0, <2>1 DEF SessionInv, BufferInv, StreamInv, InStep, CommandSent, AnswerSent,
                        Executing, RestInv, LastWord
    <2>3. QED
      BY <1>6, <1>7, <2>2 DEF SessionInv
  <1>10. CASE InStep /\ toHost # <<>>
    <2>1. Executing
      BY <1>0, <1>10 DEF SessionInv, StreamInv, CommandSent, AnswerSent
    <2>2. \A i \in 1 .. Len(buffer) : ~ Pausing(buffer[i])
      BY <1>10, <2>1 DEF Executing
    <2>3. \A i \in 1 .. Len(toHost) :
             /\ toHost[i].cmd = cmd /\ LastWord(toHost[i])
             /\ Pausing(toHost[i]) => i = Len(toHost)
      BY <2>1 DEF Executing
    <2>5. BufferInv'
      <3> SUFFICES ASSUME NEW i \in 1 .. Len(buffer')
                   PROVE  /\ buffer'[i].cmd = cmd
                          /\ EndsOn(buffer'[i].kind) => buffer'[i].kind = Prompt
        BY <1>0 DEF BufferInv
      <3>1. CASE i \in 1 .. Len(buffer) /\ buffer'[i] = buffer[i]
        BY <1>0, <1>10, <3>1 DEF SessionInv, BufferInv
      <3>2. CASE \E j \in 1 .. k : i = Len(buffer) + j /\ buffer'[i] = toHost[j]
        BY <2>3, <3>2, <1>2 DEF LastWord
      <3>3. QED
        BY <1>4a, <3>1, <3>2
    <2>6. Executing'
      <3>1. ASSUME NEW i \in 1 .. Len(toHost')
            PROVE  /\ toHost'[i].cmd = cmd' /\ LastWord(toHost[i])'
                   /\ Pausing(toHost'[i]) => i = Len(toHost')
        <4>1. k + i \in 1 .. Len(toHost) /\ toHost'[i] = toHost[k + i]
          BY <1>2, <1>5
        <4>2. QED
          BY <1>0, <1>2, <1>5, <2>3, <4>1 DEF LastWord
      <3>2. ASSUME NEW i \in 1 .. Len(buffer')
            PROVE  /\ LastWord(buffer[i])'
                   /\ Pausing(buffer'[i]) => i = Len(buffer') /\ toHost' = <<>>
        <4>1. CASE i \in 1 .. Len(buffer) /\ buffer'[i] = buffer[i]
          BY <1>0, <2>1, <2>2, <4>1 DEF Executing, LastWord
        <4>2. CASE \E j \in 1 .. k : i = Len(buffer) + j /\ buffer'[i] = toHost[j]
          <5>1. PICK j \in 1 .. k : i = Len(buffer) + j /\ buffer'[i] = toHost[j]
            BY <4>2
          <5>2. j \in 1 .. Len(toHost)
            BY <1>2
          <5>3. ASSUME Pausing(buffer'[i]) PROVE i = Len(buffer') /\ toHost' = <<>>
            <6>1. j = Len(toHost) /\ k = Len(toHost)
              BY <1>2, <2>3, <5>1, <5>2, <5>3
            <6>2. Len(toHost') = 0 /\ toHost' \in Seq(Token)
              BY <1>1, <1>2, <1>5, <6>1, DrainLemma
            <6>3. QED
              BY <1>4, <5>1, <6>1, <6>2
          <5>4. QED
            BY <1>0, <2>3, <5>1, <5>2, <5>3 DEF LastWord
        <4>3. QED
          BY <1>4a, <4>1, <4>2
      <3>3. RestInv'
        BY <1>0, <2>1 DEF Executing, RestInv
      <3>4. QED
        BY <1>0, <2>1, <3>1, <3>2, <3>3 DEF Executing, Pausing
    <2>7. QED
      BY <1>0, <1>6, <1>7, <2>5, <2>6 DEF SessionInv, StreamInv
  <1>11. QED
    BY <1>8, <1>9, <1>10

(* Giving a command up: it is abandoned, or the transport is dead. *)
LEMMA GiveUpKeeps ==
    ASSUME SessionInv, TypeOK', pc = "run",
           NEW outcome \in {"timeout", "error"}, Return(outcome, <<>>),
           \/ abandoned' = abandoned \cup {cmd}
           \/ abandoned' = abandoned /\ link = "down",
           UNCHANGED <<cmd, toHost, toDev, devVars, link, answered>>
    PROVE  SessionInv'
  <1>0. /\ cmd \in CmdId /\ cmd \in Nat /\ cmd' = cmd /\ pc' = "idle" /\ link' = link
        /\ abandoned \subseteq abandoned' /\ toDev' = toDev /\ answered' = answered
        /\ devRest' = devRest /\ devAsking' = devAsking /\ devCmd' = devCmd
    BY SessionAssumption DEF SessionInv, TypeOK, CmdId, Return, devVars
  <1>1. AbandonedInv'
    BY <1>0 DEF SessionInv, AbandonedInv
  <1>2. BufferInv' /\ StreamInv'
    BY <1>0, SessionAssumption DEF BufferInv, StreamInv, InStep
  <1>3. CurrentInv'
    <2> SUFFICES ASSUME NEW c \in CmdId \ {NoCmd}, Unfinished(c), InStepAt(c)',
                        c \notin abandoned', link = "up"
                 PROVE  FALSE
      BY <1>0 DEF CurrentInv, Unfinished
    <2>1. InStepAt(c) /\ c \notin abandoned /\ c # cmd
      BY <1>0, InStepAtLemma
    <2>2. QED
      BY <2>1 DEF SessionInv, CurrentInv
  <1>4. StrayInv'
    BY <1>0 DEF SessionInv, StrayInv
  <1>5. NoCrossAnswer'
    BY <1>0, InStepAtLemma DEF SessionInv, NoCrossAnswer
  <1>6. OwnOutput'
    BY <1>0, FailureKeepsOwnOutput
  <1>7. QED
    BY <1>1, <1>2, <1>3, <1>4, <1>5, <1>6 DEF SessionInv

(* An idle device takes the command line that was sent.                    *)
LEMMA DevCommandKeeps ==
    ASSUME SessionInv, TypeOK', DevCommand, CleanDevice
    PROVE  SessionInv'
  <1>0. /\ UNCHANGED <<pc, cmd, fsm, buffer, toHost, devAsking, link, results, abandoned, answered>>
        /\ link = "up" /\ devRest = <<>> /\ ~ devAsking /\ toDev # <<>> /\ toDev' = Tail(toDev)
    BY DEF DevCommand, DevIdle, hostVars, history
  <1>1. /\ toDev \in Seq(Line) /\ Head(toDev) \in Line /\ Head(toDev) = toDev[1]
        /\ Len(toDev) \in Nat \ {0} /\ Len(toDev') = Len(toDev) - 1
        /\ \A i \in 1 .. Len(toDev') : toDev'[i] = toDev[i + 1]
    BY <1>0, TailLemma DEF SessionInv, TypeOK
  <1>2. /\ Head(toDev).type \in {"cmd", "answer"}
        /\ Head(toDev).type = "cmd" => /\ devCmd' = Head(toDev).cmd
                                       /\ devRest' \in Scripts
        /\ Head(toDev).type = "answer" => devCmd' = NoCmd /\ devRest' = <<Prompt>>
    BY <1>1 DEF DevCommand, Line
  <1>3. AbandonedInv' /\ BufferInv' /\ OwnOutput' /\ NoCrossAnswer'
    BY <1>0 DEF SessionInv, AbandonedInv, BufferInv, OwnOutput, NoCrossAnswer, Ok, FinalToken,
                InStepAt, InStep
  <1>4. StreamInv'
    <2> SUFFICES ASSUME InStep PROVE pc = "run" /\ Executing'
      BY <1>0 DEF StreamInv, InStep, SessionInv, TypeOK
    <2>1. pc = "run" /\ CommandSent
      BY <1>0 DEF SessionInv, StreamInv, TypeOK, Executing, AnswerSent
    <2>2. Head(toDev) = [type |-> "cmd", cmd |-> cmd] /\ toDev' = <<>>
      BY <1>0, <2>1 DEF CommandSent
    <2>3. devCmd' = cmd /\ devRest' \in Scripts
      BY <1>2, <2>2
    <2>4. RestInv'
      BY <2>3 DEF RestInv, CleanDevice
    <2>5. QED
      BY <1>0, <2>1, <2>2, <2>3, <2>4 DEF Executing, CommandSent
  <1>5. CurrentInv'
    <2> SUFFICES ASSUME NEW c \in CmdId \ {NoCmd}, Unfinished(c)', InStepAt(c), c \notin abandoned
                 PROVE  pc = "run" /\ c = cmd
      BY <1>0 DEF CurrentInv, InStepAt
    <2>1. ASSUME NEW i \in 1 .. Len(toDev), toDev[i].type = "cmd", toDev[i].cmd = c
          PROVE  pc = "run" /\ c = cmd
      BY <1>0, <2>1 DEF SessionInv, CurrentInv, Unfinished
    <2>2. CASE \E i \in 1 .. Len(toDev') : toDev'[i].type = "cmd" /\ toDev'[i].cmd = c
      <3>1. PICK i \in 1 .. Len(toDev') : toDev'[i].type = "cmd" /\ toDev'[i].cmd = c
        BY <2>2
      <3>2. i + 1 \in 1 .. Len(toDev) /\ toDev'[i] = toDev[i + 1]
        BY <1>1
      <3>3. QED
        BY <2>1, <3>1, <3>2
    <2>3. CASE c = devCmd'
      <3>1. Head(toDev).type = "cmd" /\ c = Head(toDev).cmd
        BY <1>2, <2>3
      <3>2. QED
        BY <1>1, <2>1, <3>1
    <2>4. QED
      BY <2>2, <2>3 DEF Unfinished
  <1>6. StrayInv'
    <2>1. ASSUME devCmd' = NoCmd PROVE ~ devAsking' /\ devRest' = <<Prompt>>
      <3>1. Head(toDev).type # "cmd"
        BY <1>1, <1>2, <2>1 DEF SessionInv, StrayInv
      <3>2. QED
        BY <1>0, <1>2, <3>1
    <2>2. ASSUME NEW i \in 1 .. Len(toDev'), toDev'[i].type = "cmd"
          PROVE  toDev'[i].cmd # NoCmd
      <3>1. i + 1 \in 1 .. Len(toDev) /\ toDev'[i] = toDev[i + 1]
        BY <1>1
      <3>2. QED
        BY <2>2, <3>1 DEF SessionInv, StrayInv
    <2>3. QED
      BY <2>1, <2>2 DEF StrayInv
  <1>7. QED
    BY <1>3, <1>4, <1>5, <1>6 DEF SessionInv

(* The device prints one token, in the order of its script.                *)
LEMMA DevPrintKeeps ==
    ASSUME SessionInv, TypeOK', DevPrint, CleanDevice
    PROVE  SessionInv'
  <1> DEFINE token == [cmd |-> devCmd, kind |-> Head(devRest)]
  <1>0. /\ UNCHANGED <<pc, cmd, fsm, buffer, toDev, devCmd, link, results, abandoned, answered>>
        /\ link = "up" /\ devRest # <<>> /\ ~ devAsking
        /\ toHost' = Append(toHost, token) /\ devRest' = Tail(devRest)
        /\ devAsking' = (Head(devRest) \in Asks)
    BY DEF DevPrint, hostVars, history
  <1>1. /\ devRest \in Seq(Kind) /\ Head(devRest) \in Kind /\ Head(devRest) = devRest[1]
        /\ Len(devRest) \in Nat \ {0} /\ Len(devRest') = Len(devRest) - 1
        /\ devRest' \in Seq(Kind)
        /\ \A i \in 1 .. Len(devRest') : devRest'[i] = devRest[i + 1]
    BY <1>0, TailLemma DEF SessionInv, TypeOK
  <1>2. /\ toHost \in Seq(Token) /\ Len(toHost') = Len(toHost) + 1
        /\ \A i \in 1 .. Len(toHost) : toHost'[i] = toHost[i]
        /\ toHost'[Len(toHost) + 1] = token
    <2>1. token \in Token /\ toHost \in Seq(Token)
      BY <1>1 DEF SessionInv, TypeOK, Token
    <2>2. QED
      BY <1>0, <2>1, AppendLemma
  <1>3. AbandonedInv' /\ BufferInv' /\ OwnOutput' /\ NoCrossAnswer'
    BY <1>0 DEF SessionInv, AbandonedInv, BufferInv, OwnOutput, NoCrossAnswer, Ok, FinalToken,
                InStepAt, InStep
  <1>4. StreamInv'
    <2> SUFFICES ASSUME InStep PROVE pc = "run" /\ Executing'
      BY <1>0 DEF StreamInv, InStep, SessionInv, TypeOK
    <2>1. pc = "run" /\ Executing
      BY <1>0 DEF SessionInv, StreamInv, TypeOK, CommandSent, AnswerSent
    <2>2. RestInv'
      <3>1. ASSUME NEW i \in 1 .. Len(devRest'), EndsOn(devRest'[i])
            PROVE  i = Len(devRest')
        <4>1. i + 1 \in 1 .. Len(devRest) /\ devRest'[i] = devRest[i + 1]
          BY <1>1
        <4>2. i + 1 = Len(devRest)
          BY <2>1, <3>1, <4>1 DEF Executing, RestInv
        <4>3. QED
          BY <1>1, <4>1, <4>2
      <3>2. ASSUME devRest' # <<>> PROVE devRest'[Len(devRest')] = Prompt
        <4>1. Len(devRest') >= 1
          BY <1>1, <3>2
        <4>2. devRest'[Len(devRest')] = devRest[Len(devRest)]
          BY <1>1, <4>1
        <4>3. QED
          BY <1>0, <2>1, <4>2 DEF Executing, RestInv
      <3>3. QED
        BY <3>1, <3>2 DEF RestInv, EndsOn
    <2>3. /\ \A i \in 1 .. Len(toHost) : ~ Pausing(toHost[i])
          /\ \A i \in 1 .. Len(buffer) : ~ Pausing(buffer[i])
      BY <1>0, <2>1 DEF Executing, LastWord, Pausing
    <2>4. EndsOn(token.kind) => token.kind = Prompt /\ devRest' = <<>> /\ ~ devAsking'
      <3> SUFFICES ASSUME EndsOn(Head(devRest))
                   PROVE  Head(devRest) = Prompt /\ devRest' = <<>> /\ ~ devAsking'
        OBVIOUS
      <3>1. Len(devRest) = 1
        BY <1>1, <2>1 DEF Executing, RestInv
      <3>2. Head(devRest) = Prompt
        BY <1>0, <1>1, <2>1, <3>1 DEF Executing, RestInv
      <3>3. devRest' = <<>>
        BY <1>1, <3>1
      <3>4. QED
        BY <1>0, <3>2, <3>3, SessionAssumption
    <2>5. token.kind \in Asks => devAsking'
      BY <1>0
    <2>6. ASSUME NEW i \in 1 .. Len(toHost')
          PROVE  /\ toHost'[i].cmd = cmd' /\ LastWord(toHost[i])'
                 /\ Pausing(toHost[i])' => i = Len(toHost')
      <3>1. CASE i \in 1 .. Len(toHost)
        BY <1>2, <2>1, <2>3, <3>1, <1>0 DEF Executing, LastWord, Pausing, EndsOn
      <3>2. CASE i = Len(toHost) + 1
        <4>1. toHost'[i] = token /\ i = Len(toHost')
          BY <1>2, <3>2
        <4>2. token.cmd = cmd'
          BY <1>0, <2>1 DEF Executing
        <4>3. QED
          BY <2>4, <2>5, <4>1, <4>2 DEF LastWord, EndsOn
      <3>3. QED
        BY <1>2, <3>1, <3>2
    <2>7. ASSUME NEW i \in 1 .. Len(buffer')
          PROVE  LastWord(buffer[i])' /\ ~ Pausing(buffer[i])'
      BY <1>0, <2>3 DEF LastWord, Pausing, EndsOn
    <2>8. QED
      BY <1>0, <2>1, <2>2, <2>6, <2>7 DEF Executing
  <1>5. CurrentInv'
    <2>1. \A c : Unfinished(c)' => Unfinished(c)
      BY <1>0 DEF Unfinished
    <2>2. QED
      BY <1>0, <2>1 DEF SessionInv, CurrentInv, InStepAt
  <1>6. StrayInv'
    <2>1. ASSUME devCmd = NoCmd PROVE ~ devAsking' /\ devRest' = <<>>
      <3>1. devRest = <<Prompt>>
        BY <1>0, <2>1 DEF SessionInv, StrayInv
      <3>2. QED
        <4>1. Len(<<Prompt>>) = 1 /\ <<Prompt>>[1] = Prompt
          OBVIOUS
        <4>2. Len(devRest) = 1 /\ Head(devRest) = Prompt
          BY <1>1, <3>1, <4>1
        <4>3. devRest' = <<>>
          BY <1>1, <4>2
        <4>4. QED
          BY <1>0, <4>2, <4>3, SessionAssumption
    <2>2. QED
      BY <1>0, <2>1 DEF SessionInv, StrayInv
  <1>7. QED
    BY <1>3, <1>4, <1>5, <1>6 DEF SessionInv

(* A device that waits for an answer takes the one meant for its question. *)
LEMMA DevAnswerKeeps ==
    ASSUME SessionInv, TypeOK', DevAnswer
    PROVE  SessionInv'
  <1> DEFINE answer == [asked |-> devCmd, line |-> Head(toDev)]
  <1>0. /\ UNCHANGED <<pc, cmd, fsm, buffer, toHost, devCmd, devRest, link, results, abandoned>>
        /\ link = "up" /\ devAsking /\ ~ devAsking' /\ toDev # <<>> /\ toDev' = Tail(toDev)
        /\ answered' = answered \cup {answer}
    BY DEF DevAnswer, hostVars
  <1>1. /\ Head(toDev) = toDev[1] /\ Len(toDev) \in Nat \ {0} /\ Len(toDev') = Len(toDev) - 1
        /\ \A i \in 1 .. Len(toDev') : i + 1 \in 1 .. Len(toDev) /\ toDev'[i] = toDev[i + 1]
    BY <1>0, TailLemma DEF SessionInv, TypeOK
  <1>2. AbandonedInv' /\ BufferInv' /\ OwnOutput'
    BY <1>0 DEF SessionInv, AbandonedInv, BufferInv, OwnOutput, Ok, FinalToken, InStepAt, InStep
  <1>3. ASSUME InStep
        PROVE  pc = "run" /\ AnswerSent
    BY <1>0, <1>3 DEF SessionInv, StreamInv, TypeOK, CommandSent, Executing
  <1>4. StreamInv'
    <2> SUFFICES ASSUME InStep PROVE pc = "run" /\ Executing'
      BY <1>0 DEF StreamInv, InStep, SessionInv, TypeOK
    <2>1. pc = "run" /\ AnswerSent
      BY <1>3
    <2>2. toDev' = <<>>
      BY <1>0, <2>1 DEF AnswerSent
    <2>3. QED
      BY <1>0, <2>1, <2>2 DEF Executing, AnswerSent, RestInv
  <1>5. CurrentInv'
    <2>1. \A c : Unfinished(c)' => Unfinished(c)
      BY <1>0, <1>1 DEF Unfinished
    <2>2. QED
      BY <1>0, <2>1 DEF SessionInv, CurrentInv, InStepAt
  <1>6. StrayInv'
    BY <1>0, <1>1 DEF SessionInv, StrayInv
  <1>7. NoCrossAnswer'
    <2> SUFFICES ASSUME InStepAt(devCmd), devCmd \notin abandoned
                 PROVE  Head(toDev) = [type |-> "answer", cmd |-> devCmd]
      BY <1>0 DEF SessionInv, NoCrossAnswer, InStepAt
    <2>1. devCmd \in CmdId \ {NoCmd}
      BY <1>0 DEF SessionInv, TypeOK, StrayInv
    <2>2. pc = "run" /\ devCmd = cmd
      BY <1>0, <2>1 DEF SessionInv, CurrentInv, Unfinished
    <2>3. InStep
      BY <2>2, SessionAssumption DEF InStepAt, InStep, SessionInv, AbandonedInv, TypeOK, CmdId
    <2>4. AnswerSent
      BY <1>3, <2>3
    <2>5. QED
      BY <1>1, <2>2, <2>4 DEF AnswerSent
  <1>8. QED
    BY <1>2, <1>4, <1>5, <1>6, <1>7 DEF SessionInv

(* A dead transport carries nothing, so nothing can be misread.            *)
LEMMA LinkDownKeeps ==
    ASSUME SessionInv, TypeOK', LinkDown
    PROVE  SessionInv'
  <1>0. /\ UNCHANGED <<pc, cmd, fsm, buffer, devCmd, devRest, devAsking, results, abandoned, answered>>
        /\ link' = "down" /\ toDev' = <<>>
    BY DEF LinkDown, hostVars, devVars, history
  <1>1. StrayInv'
    BY <1>0 DEF SessionInv, StrayInv
  <1>2. QED
    BY <1>0, <1>1 DEF SessionInv, AbandonedInv, BufferInv, StreamInv, CurrentInv, OwnOutput,
        NoCrossAnswer, Ok, FinalToken, InStepAt, InStep

(* A step that changes nothing keeps everything.                           *)
LEMMA StutterKeeps ==
    ASSUME SessionInv, TypeOK', UNCHANGED vars
    PROVE  SessionInv'
  <1>0. UNCHANGED <<pc, cmd, fsm, buffer, toHost, toDev, devCmd, devRest, devAsking, link,
                    results, abandoned, answered>>
    BY DEF vars, hostVars, devVars, history
  <1>1. AbandonedInv' /\ BufferInv' /\ StrayInv'
    BY <1>0 DEF SessionInv, AbandonedInv, BufferInv, StrayInv, InStep
  <1>2. StreamInv'
    BY <1>0 DEF SessionInv, StreamInv, InStep, CommandSent, AnswerSent, Executing, RestInv, LastWord
  <1>3. CurrentInv'
    BY <1>0 DEF SessionInv, CurrentInv, Unfinished, InStepAt
  <1>4. OwnOutput' /\ NoCrossAnswer'
    BY <1>0 DEF SessionInv, OwnOutput, NoCrossAnswer, Ok, FinalToken, InStepAt
  <1>5. QED
    BY <1>1, <1>2, <1>3, <1>4 DEF SessionInv

(* Every step keeps what a session in step relies on.                      *)
LEMMA SessionStep ==
    ASSUME CleanDevice
    PROVE  SessionInv /\ [Next]_vars => SessionInv'
  <1> SUFFICES ASSUME SessionInv, [Next]_vars PROVE SessionInv'
    OBVIOUS
  <1>0. TypeOK'
    BY TypeStep DEF SessionInv
  <1>1. CASE RunCmd
    BY <1>0, <1>1, RunCmdKeeps
  <1>2. CASE RunCmdFails
    BY <1>0, <1>2, RunCmdFailsKeeps
  <1>3. CASE FeedDone
    BY <1>0, <1>3, FeedDoneKeeps
  <1>4. CASE FeedSend
    BY <1>0, <1>4, FeedSendKeeps
  <1>5. CASE FeedError
    <2>1. /\ pc = "run" /\ Return("error", <<>>) /\ abandoned' = abandoned \cup {cmd}
          /\ UNCHANGED <<cmd, toHost, toDev, devVars, link, answered>>
      BY <1>5 DEF FeedError
    <2>2. QED
      BY <1>0, <2>1, GiveUpKeeps
  <1>6. CASE Receive
    BY <1>0, <1>6, ReceiveKeeps
  <1>7. CASE TransportError
    <2>1. /\ pc = "run" /\ Return("error", <<>>) /\ abandoned' = abandoned /\ link = "down"
          /\ UNCHANGED <<cmd, toHost, toDev, devVars, link, answered>>
      BY <1>7 DEF TransportError
    <2>2. QED
      BY <1>0, <2>1, GiveUpKeeps
  <1>8. CASE Timeout
    <2>1. /\ pc = "run" /\ Return("timeout", <<>>) /\ abandoned' = abandoned \cup {cmd}
          /\ UNCHANGED <<cmd, toHost, toDev, devVars, link, answered>>
      BY <1>8 DEF Timeout
    <2>2. QED
      BY <1>0, <2>1, GiveUpKeeps
  <1>9. CASE DevCommand
    BY <1>0, <1>9, DevCommandKeeps
  <1>10. CASE DevPrint
    BY <1>0, <1>10, DevPrintKeeps
  <1>11. CASE DevAnswer
    BY <1>0, <1>11, DevAnswerKeeps
  <1>12. CASE LinkDown
    BY <1>0, <1>12, LinkDownKeeps
  <1>13. CASE UNCHANGED vars
    BY <1>0, <1>13, StutterKeeps
  <1>14. QED
    BY <1>1, <1>2, <1>3, <1>4, <1>5, <1>6, <1>7, <1>8, <1>9, <1>10, <1>11, <1>12, <1>13
       DEF Next, Client, Device, Finished

(* On a clean device a session keeps its promises for as long as no        *)
(* command was abandoned, whatever the chunking, the delays, the number of *)
(* commands and the point at which the transport fails: a command returns  *)
(* its own output, questions get the answers meant for them, and nothing   *)
(* is in flight between commands.                                          *)
THEOREM SessionInStep ==
    ASSUME CleanDevice
    PROVE  Spec => [](OwnOutput /\ NoCrossAnswer /\ QuietWhenIdle)
  <1>1. SessionInv /\ [Next]_vars => SessionInv'
    BY SessionStep
  <1>2. SessionInv => OwnOutput /\ NoCrossAnswer /\ QuietWhenIdle
    <2> SUFFICES ASSUME SessionInv PROVE QuietWhenIdle
      BY DEF SessionInv
    <2>1. ASSUME pc = "idle", InStepAt(cmd + 1) PROVE InStep
      BY <2>1, SessionAssumption DEF InStepAt, InStep, SessionInv, AbandonedInv, TypeOK, CmdId
    <2>2. QED
      BY <2>1 DEF SessionInv, StreamInv, QuietWhenIdle, DevIdle
  <1>3. QED
    BY <1>1, <1>2, SessionInit, PTL DEF Spec

(* On such a device, and as long as no command was given up, nothing is in *)
(* flight between two commands: the remainder of the buffer that run_cmd   *)
(* drops when it is done is empty.                                         *)
THEOREM NothingIsLeftBehind ==
    ASSUME CleanDevice
    PROVE  Spec => []QuietWhenIdle
  <1>1. OwnOutput /\ NoCrossAnswer /\ QuietWhenIdle => QuietWhenIdle
    OBVIOUS
  <1>2. QED
    BY SessionInStep, <1>1, PTL

(* On such a device, and as long as no earlier command was given up, the   *)
(* answer to a question is the one that its own run_cmd made for it.       *)
THEOREM AnswersMeetTheirQuestions ==
    ASSUME CleanDevice
    PROVE  Spec => []NoCrossAnswer
  <1>1. OwnOutput /\ NoCrossAnswer /\ QuietWhenIdle => NoCrossAnswer
    OBVIOUS
  <1>2. QED
    BY SessionInStep, <1>1, PTL

-----------------------------------------------------------------------------
(* No mutual wait.  A line of output wakes a template that has a rule for  *)
(* it in every state.  A template attends to a device when every question  *)
(* and the prompt do, and a rule that goes on goes on to another state.    *)
Wakes(kind) ==
    \A s \in State : \E i \in DOMAIN Template[s] :
        Template[s][i].act # "Continue" /\ kind \in Template[s][i].match

Attentive ==
    /\ Wakes(Prompt)
    /\ \A s \in Scripts :
          /\ s # <<>> /\ s[Len(s)] = Prompt
          /\ \A i \in 1 .. Len(s) : s[i] \in Asks => Wakes(s[i])
    /\ \A s \in State : \A i \in DOMAIN Template[s] :
          Template[s][i].act = "Next" => StateAfter(s, Template[s][i]) # s

(* What the device still prints ends with a prompt, and a question is not  *)
(* the end of it.                                                          *)
PromptedInv ==
    /\ devRest # <<>> => devRest[Len(devRest)] = Prompt
    /\ \A i \in 1 .. Len(devRest) : devRest[i] \in Asks => Wakes(devRest[i])
    /\ devAsking => devRest # <<>>

Awaited(tokens) == \E i \in 1 .. Len(tokens) : Wakes(tokens[i].kind)

(* While a command runs, there is a line for the device, or something it   *)
(* has to print, or a line of output on its way that the template acts on: *)
(* also after timeouts, when that line may be an earlier command's.        *)
WaitInv ==
    /\ TypeOK /\ PromptedInv
    /\ pc = "run" /\ link = "up" =>
         \/ toDev # <<>>
         \/ devRest # <<>> /\ ~ devAsking
         \/ Awaited(buffer) \/ Awaited(toHost)

(* A template that is given such a line does not wait.                     *)
LEMMA AwaitedWakes ==
    ASSUME TypeOK, Attentive, Awaited(buffer)
    PROVE  ~ FeedNone(fsm)
  <1>1. PICK q \in 1 .. Len(buffer) : Wakes(buffer[q].kind)
    BY DEF Awaited
  <1>2. fsm \in State /\ q \in DOMAIN buffer
    BY DEF TypeOK
  <1>3. PICK i \in DOMAIN Template[fsm] :
            Template[fsm][i].act # "Continue" /\ buffer[q].kind \in Template[fsm][i].match
    BY <1>1, <1>2 DEF Wakes
  <1>4. ~ NoRuleFires(Template, fsm, buffer)
    BY <1>2, <1>3 DEF NoRuleFires, Stops
  <1>5. \A j \in DOMAIN Template[fsm] : Rule(j).act = "Next" => fsm # StateAfter(fsm, Rule(j))
    BY <1>2 DEF Attentive, Rule
  <1> QED BY <1>4, <1>5 DEF FeedNone

(* Received or not, such a line is on its way.                             *)
LEMMA ReceiveAwaited ==
    ASSUME buffer \in Seq(Token), toHost \in Seq(Token), Receive, Awaited(buffer) \/ Awaited(toHost)
    PROVE  Awaited(buffer') \/ Awaited(toHost')
  <1>1. PICK k \in 0 .. Len(toHost) : /\ buffer' = buffer \o SubSeq(toHost, 1, k)
                                      /\ toHost' = DrainFront(toHost, k)
    BY DEF Receive
  <1> DEFINE chunk == SubSeq(toHost, 1, k)  b == Len(buffer)  h == Len(toHost)
  <1>2. chunk \in Seq(Token) /\ Len(chunk) = k /\ \A i \in 1 .. k : chunk[i] = toHost[i]
    BY PrefixLemma
  <1>3. /\ Len(toHost') = h - k /\ \A i \in 1 .. (h - k) : toHost'[i] = toHost[k + i]
    BY <1>1, DrainLemma
  <1> HIDE DEF chunk
  <1>4. /\ Len(buffer') = b + k
        /\ \A i \in 1 .. b : buffer'[i] = buffer[i]
        /\ \A i \in 1 .. k : buffer'[b + i] = chunk[i]
    BY <1>1, <1>2, ConcatLemma DEF chunk
  <1>5. b \in Nat /\ h \in Nat /\ k \in 0 .. h
    OBVIOUS
  <1>6. CASE Awaited(buffer)
    <2>1. PICK i \in 1 .. b : Wakes(buffer[i].kind)
      BY <1>6 DEF Awaited
    <2>2. i \in 1 .. Len(buffer') /\ buffer'[i] = buffer[i]
      BY <1>4, <1>5
    <2> QED BY <2>1, <2>2 DEF Awaited
  <1>7. CASE Awaited(toHost)
    <2>1. PICK i \in 1 .. h : Wakes(toHost[i].kind)
      BY <1>7 DEF Awaited
    <2>2. CASE i <= k
      <3>1. i \in 1 .. k /\ b + i \in 1 .. Len(buffer')
        BY <1>4, <1>5, <2>2
      <3>2. buffer'[b + i] = toHost[i]
        BY <1>2, <1>4, <3>1
      <3> QED BY <2>1, <3>1, <3>2 DEF Awaited
    <2>3. CASE ~ (i <= k)
      <3>1. i - k \in 1 .. (h - k) /\ k + (i - k) = i
        BY <1>5, <2>3
      <3>2. i - k \in 1 .. Len(toHost') /\ toHost'[i - k] = toHost[i]
        BY <1>3, <3>1
      <3> QED BY <2>1, <3>2 DEF Awaited
    <2> QED BY <2>2, <2>3
  <1> QED BY <1>6, <1>7

(* Every step leaves such a line, or the command has returned.             *)
LEMMA WaitStep ==
    ASSUME WaitInv, Attentive, [Next]_vars
    PROVE  WaitInv'
  <1>1. TypeOK /\ TypeOK'
    BY TypeStep DEF WaitInv
  <1>2. /\ buffer \in Seq(Token) /\ toHost \in Seq(Token) /\ toDev \in Seq(Line) /\ devRest \in Seq(Kind)
        /\ PromptedInv
    BY <1>1 DEF TypeOK, WaitInv
  (* What run_cmd does when it has returned, or sends a line. *)
  <1>3. ASSUME UNCHANGED devVars, pc' # "run" \/ link' # "up" \/ toDev' # <<>> PROVE WaitInv'
    BY <1>1, <1>2, <1>3 DEF WaitInv, PromptedInv, devVars
  <1>4. CASE RunCmd \/ FeedSend
    <2>1. PICK line : toDev' = Append(toDev, line)
      BY <1>4 DEF RunCmd, FeedSend
    <2>2. toDev' # <<>>
      BY <1>2, <2>1
    <2> QED BY <1>3, <1>4, <2>2 DEF RunCmd, FeedSend
  <1>5. CASE RunCmdFails \/ FeedDone \/ FeedError \/ TransportError \/ Timeout \/ LinkDown
    BY <1>3, <1>5 DEF RunCmdFails, FeedDone, FeedError, TransportError, Timeout, LinkDown, Return
  <1>6. CASE Receive
    <2>1. UNCHANGED <<pc, link, toDev, devRest, devAsking>>
      BY <1>6 DEF Receive, devVars
    <2>2. Awaited(buffer) \/ Awaited(toHost) => Awaited(buffer') \/ Awaited(toHost')
      BY <1>2, <1>6, ReceiveAwaited
    <2> HIDE DEF Awaited
    <2>3. PromptedInv'
      BY <1>2, <2>1 DEF PromptedInv
    <2>4. (Awaited(buffer)' <=> Awaited(buffer')) /\ (Awaited(toHost)' <=> Awaited(toHost'))
      BY DEF Awaited
    <2> QED BY <1>1, <2>1, <2>2, <2>3, <2>4 DEF WaitInv
  <1>7. CASE DevCommand
    <2>1. ~ devAsking /\ devAsking' = devAsking /\ (devRest' = <<Prompt>> \/ devRest' \in Scripts)
      BY <1>7 DEF DevCommand, DevIdle
    <2>2. CASE devRest' = <<Prompt>>
      BY <1>1, <2>1, <2>2 DEF Attentive, WaitInv, PromptedInv
    <2>3. CASE devRest' \in Scripts
      BY <1>1, <2>1, <2>3 DEF Attentive, WaitInv, PromptedInv
    <2> QED BY <2>1, <2>2, <2>3
  <1>8. CASE DevPrint
    <2> DEFINE token == [cmd |-> devCmd, kind |-> Head(devRest)]
    <2>1. /\ devRest # <<>> /\ toHost' = Append(toHost, token) /\ devRest' = Tail(devRest)
          /\ devAsking' = (Head(devRest) \in Asks)
      BY <1>8 DEF DevPrint
    <2>2. /\ Head(devRest) = devRest[1] /\ Head(devRest) \in Kind /\ Len(devRest) \in Nat \ {0}
          /\ devRest' \in Seq(Kind) /\ Len(devRest') = Len(devRest) - 1
          /\ \A i \in 1 .. Len(devRest') : devRest'[i] = devRest[i + 1]
      BY <1>2, <2>1, TailLemma
    <2>3. token.kind = Head(devRest) /\ token \in Token
      BY <1>1, <2>2 DEF Token, TypeOK
    <2> HIDE DEF token
    <2>4. Len(toHost') = Len(toHost) + 1 /\ toHost'[Len(toHost) + 1] = token /\ Len(toHost) \in Nat
      BY <1>2, <2>1, <2>3, AppendLemma
    <2>5. Len(toHost) + 1 \in 1 .. Len(toHost')
      BY <2>4
    <2>6. Wakes(Head(devRest)) => Awaited(toHost)'
      BY <2>3, <2>4, <2>5 DEF Awaited
    <2>7. CASE devRest' = <<>>
      <3>1. Len(devRest) = 1
        BY <2>2, <2>7
      <3>2. Head(devRest) = Prompt
        BY <1>2, <2>1, <2>2, <3>1 DEF PromptedInv
      <3>3. Awaited(toHost)' /\ ~ devAsking'
        BY <2>1, <2>6, <3>2, SessionAssumption DEF Attentive
      <3>4. PromptedInv'
        BY <2>7, <3>3 DEF PromptedInv
      <3> QED BY <1>1, <3>3, <3>4 DEF WaitInv
    <2>8. CASE devRest' # <<>>
      <3>1. Len(devRest') \in Nat \ {0}
        BY <2>2, <2>8
      <3>2. \A i \in 1 .. Len(devRest') : i + 1 \in 1 .. Len(devRest)
        BY <2>2
      <3>3. Len(devRest') \in 1 .. Len(devRest') /\ Len(devRest') + 1 = Len(devRest)
        BY <2>2, <3>1
      <3>4. devRest'[Len(devRest')] = Prompt
        BY <1>2, <2>1, <2>2, <3>3 DEF PromptedInv
      <3>5. \A i \in 1 .. Len(devRest') : devRest'[i] \in Asks => Wakes(devRest'[i])
        BY <1>2, <2>2, <3>2 DEF PromptedInv
      <3>6. devAsking' => Awaited(toHost)'
        <4>1. 1 \in 1 .. Len(devRest)
          BY <2>2
        <4> QED BY <1>2, <2>1, <2>2, <2>6, <4>1 DEF PromptedInv
      <3>7. PromptedInv'
        BY <2>8, <3>4, <3>5 DEF PromptedInv
      <3> QED BY <1>1, <2>8, <3>6, <3>7 DEF WaitInv
    <2> QED BY <2>7, <2>8
  <1>9. CASE DevAnswer
    BY <1>1, <1>2, <1>9 DEF DevAnswer, WaitInv, PromptedInv
  <1>10. CASE UNCHANGED vars
    BY <1>1, <1>10 DEF WaitInv, PromptedInv, Awaited, vars, hostVars, devVars
  <1> QED BY <1>4, <1>5, <1>6, <1>7, <1>8, <1>9, <1>10 DEF Next, Client, Device, Finished

(* run_cmd and the device never wait for each other, for any number of     *)
(* commands and after any timeouts, when the template has a rule for every *)
(* question the device may ask.                                            *)
THEOREM NoCommandHangs ==
    ASSUME Attentive
    PROVE  Spec => []NoMutualWait
  <1>1. Init => WaitInv
    <2> SUFFICES ASSUME Init PROVE WaitInv
      OBVIOUS
    <2>1. TypeOK
      BY TypeInit
    <2> QED BY <2>1 DEF Init, WaitInv, PromptedInv
  <1>2. WaitInv /\ [Next]_vars => WaitInv'
    BY WaitStep
  <1>3. WaitInv => NoMutualWait
    <2> SUFFICES ASSUME WaitInv, HostBlocked, DevBlocked PROVE FALSE
      BY DEF NoMutualWait
    <2>1. TypeOK /\ ~ Awaited(toHost)
      BY DEF WaitInv, HostBlocked, Awaited
    <2>2. ~ Awaited(buffer)
      BY <2>1, AwaitedWakes DEF HostBlocked
    <2> QED BY <2>1, <2>2 DEF WaitInv, HostBlocked, DevBlocked, PromptedInv
  <1> QED BY <1>1, <1>2, <1>3, PTL DEF Spec

-----------------------------------------------------------------------------
(* What a caller may rely on.  To show that the session implements its     *)
(* calls and replies, the lines on their way to the client are numbered by *)
(* three functions on the positions of the stream: done[i] is at least the *)
(* number of calls the lines up to i have ended, asks[i] is at least the   *)
(* number of questions after i, and tag[i] is at least the tag of every    *)
(* end of a command up to i.                                               *)
Stream == buffer \o toHost

Counting(s, done, asks, tag) ==
    /\ done \in [0 .. Len(s) -> Nat]
    /\ asks \in [0 .. Len(s) -> Nat]
    /\ tag \in [0 .. Len(s) -> Nat]
    /\ \A i, j \in 0 .. Len(s) : i <= j =>
          done[i] <= done[j] /\ asks[j] <= asks[i] /\ tag[i] <= tag[j]
    /\ \A i, j \in 0 .. Len(s) : i < j =>
          /\ EndsOn(s[j].kind) => done[i] < done[j]
          /\ s[j].kind \in Asks => asks[j] < asks[i]
          /\ EndsOn(s[j].kind) /\ s[j].cmd # NoCmd =>
                /\ tag[i] < s[j].cmd /\ s[j].cmd <= tag[j]
                /\ done[j] <= s[j].cmd + Stale

Busy  == IF devRest # <<>> THEN 1 ELSE 0
Taken == IF devAsking THEN 1 ELSE 0

(* What the device has still to do, when d calls are ended, q questions    *)
(* are asked and h is the highest tag in the stream.  An answer to no      *)
(* question ends a call too many, so a command comes no later than its     *)
(* place in the line.                                                      *)
Ahead(d, q, h) ==
    /\ devRest # <<>> /\ devCmd # NoCmd => d + 1 <= devCmd + Stale /\ h < devCmd
    /\ \A j \in 1 .. Len(toDev) : toDev[j].type = "cmd" =>
          /\ d + Busy + j <= toDev[j].cmd + Stale + Taken
          /\ h < toDev[j].cmd /\ devCmd < toDev[j].cmd /\ toDev[j].cmd <= cmd
          /\ \A i \in 1 .. (j - 1) : toDev[i].type = "cmd" => toDev[i].cmd < toDev[j].cmd
    /\ d + Busy + Len(toDev) + q <= cmd + Stale + Taken
    /\ h <= cmd /\ devCmd <= cmd

GivenUp == {i \in DOMAIN results : ~ Ok(i)}

(* What has been replied, when d calls were ended before the stream and h  *)
(* is the highest tag before it.                                           *)
Behind(d, h) ==
    /\ Len(results) <= d + Cardinality(GivenUp)
    /\ \A i \in DOMAIN results : Ok(i) => FinalToken(i).cmd \in 0 .. h

CountInv ==
    \E done, asks, tag :
        /\ Counting(Stream, done, asks, tag)
        /\ Ahead(done[Len(Stream)], asks[0], tag[Len(Stream)])
        /\ Behind(done[0], tag[0])

(* Calls are replied to one by one, and a call that was abandoned was not  *)
(* answered.                                                               *)
CallInv ==
    /\ Len(results) = IF pc = "run" THEN cmd - 1 ELSE cmd
    /\ abandoned \subseteq GivenUp
    /\ pc = "idle" => buffer = <<>>
    /\ \A i \in 1 .. Len(devRest) : EndsOn(devRest[i]) => i = Len(devRest)

RpcInv == SessionInv /\ CallInv /\ CountInv

(* The numbers of a stream that loses a prefix, or whose end is lost.      *)
LEMMA WindowCounts ==
    ASSUME NEW s \in Seq(Token), NEW t \in Seq(Token), NEW k \in 0 .. Len(s),
           Len(t) <= Len(s) - k, \A i \in 1 .. Len(t) : t[i] = s[k + i],
           NEW done, NEW asks, NEW tag, Counting(s, done, asks, tag)
    PROVE  \E done1, asks1, tag1 :
              /\ Counting(t, done1, asks1, tag1)
              /\ done1[0] = done[k] /\ asks1[0] = asks[k] /\ tag1[0] = tag[k]
              /\ done1[Len(t)] = done[k + Len(t)] /\ tag1[Len(t)] = tag[k + Len(t)]
  <1> DEFINE n == Len(t)
             d1 == [i \in 0 .. n |-> done[k + i]]
             a1 == [i \in 0 .. n |-> asks[k + i]]
             t1 == [i \in 0 .. n |-> tag[k + i]]
  <1>0. n \in Nat /\ \A i \in 0 .. n : k + i \in 0 .. Len(s)
    OBVIOUS
  <1>1. d1 \in [0 .. n -> Nat] /\ a1 \in [0 .. n -> Nat] /\ t1 \in [0 .. n -> Nat]
    BY <1>0 DEF Counting
  <1>2. /\ \A i \in 0 .. n : d1[i] = done[k + i] /\ a1[i] = asks[k + i] /\ t1[i] = tag[k + i]
        /\ 0 \in 0 .. n /\ n \in 0 .. n /\ k + 0 = k
    BY <1>0
  <1> HIDE DEF d1, a1, t1
  <1>3. ASSUME NEW i \in 0 .. n, NEW j \in 0 .. n, i <= j
        PROVE  d1[i] <= d1[j] /\ a1[j] <= a1[i] /\ t1[i] <= t1[j]
    <2>1. k + i <= k + j
      BY <1>3
    <2> QED BY <1>0, <1>2, <2>1 DEF Counting
  <1>4. ASSUME NEW i \in 0 .. n, NEW j \in 0 .. n, i < j
        PROVE  /\ EndsOn(t[j].kind) => d1[i] < d1[j]
               /\ t[j].kind \in Asks => a1[j] < a1[i]
               /\ EndsOn(t[j].kind) /\ t[j].cmd # NoCmd =>
                     /\ t1[i] < t[j].cmd /\ t[j].cmd <= t1[j]
                     /\ d1[j] <= t[j].cmd + Stale
    <2>1. k + i < k + j /\ j \in 1 .. n
      BY <1>4
    <2>2. t[j] = s[k + j]
      BY <2>1
    <2> HIDE DEF n
    <2> QED BY <1>0, <1>2, <2>1, <2>2 DEF Counting
  <1>5. Counting(t, d1, a1, t1)
    BY <1>1, <1>3, <1>4 DEF Counting
  <1> QED BY <1>2, <1>5

(* The numbers of a stream with one more line at its end.                  *)
LEMMA AppendCounts ==
    ASSUME NEW s \in Seq(Token), NEW e \in Token, NEW t \in Seq(Token),
           Len(t) = Len(s) + 1, \A i \in 1 .. Len(s) : t[i] = s[i], t[Len(s) + 1] = e,
           NEW done, NEW asks, NEW tag, Counting(s, done, asks, tag),
           EndsOn(e.kind) /\ e.cmd # NoCmd =>
               done[Len(s)] + 1 <= e.cmd + Stale /\ tag[Len(s)] < e.cmd,
           NEW ends \in {0, 1}, ends = 0 <=> ~ EndsOn(e.kind),
           NEW more \in {0, 1}, more = 0 <=> e.kind \notin Asks
    PROVE  \E done1, asks1, tag1 :
              /\ Counting(t, done1, asks1, tag1)
              /\ done1[0] = done[0] /\ asks1[0] = asks[0] + more /\ tag1[0] = tag[0]
              /\ done1[Len(t)] = done[Len(s)] + ends
              /\ tag1[Len(t)] = IF EndsOn(e.kind) /\ e.cmd # NoCmd THEN e.cmd ELSE tag[Len(s)]
  <1> DEFINE n == Len(s)
             top == IF EndsOn(e.kind) /\ e.cmd # NoCmd THEN e.cmd ELSE tag[n]
             d1 == [i \in 0 .. n + 1 |-> IF i = n + 1 THEN done[n] + ends ELSE done[i]]
             a1 == [i \in 0 .. n + 1 |-> IF i = n + 1 THEN asks[n] ELSE asks[i] + more]
             t1 == [i \in 0 .. n + 1 |-> IF i = n + 1 THEN top ELSE tag[i]]
  <1>0. n \in Nat /\ n \in 0 .. n /\ Len(t) = n + 1 /\ 0 \in 0 .. n /\ e.cmd \in Nat /\ Stale \in Nat
    BY SessionAssumption DEF Token, CmdId
  <1>1. /\ \A i \in 0 .. n : done[i] \in Nat /\ asks[i] \in Nat /\ tag[i] \in Nat
        /\ top \in Nat /\ tag[n] <= top
    <2>1. \A i \in 0 .. n : done[i] \in Nat /\ asks[i] \in Nat /\ tag[i] \in Nat
      BY <1>0 DEF Counting
    <2>2. EndsOn(e.kind) /\ e.cmd # NoCmd => tag[n] < e.cmd
      OBVIOUS
    <2> HIDE DEF n
    <2>3. tag[n] \in Nat
      BY <1>0, <2>1
    <2> QED BY <1>0, <2>1, <2>2, <2>3
  <1>2. /\ d1 \in [0 .. n + 1 -> Nat] /\ a1 \in [0 .. n + 1 -> Nat] /\ t1 \in [0 .. n + 1 -> Nat]
        /\ \A i \in 0 .. n : d1[i] = done[i] /\ a1[i] = asks[i] + more /\ t1[i] = tag[i]
        /\ d1[n + 1] = done[n] + ends /\ a1[n + 1] = asks[n] /\ t1[n + 1] = top
    <2> HIDE DEF top
    <2>1. \A i \in 0 .. n + 1 : i # n + 1 => i \in 0 .. n
      BY <1>0
    <2> QED BY <1>0, <1>1, <2>1
  <1>3. top = IF EndsOn(e.kind) /\ e.cmd # NoCmd THEN e.cmd ELSE tag[n]
    OBVIOUS
  <1> HIDE DEF d1, a1, t1, top, n
  <1>4. \A i \in 0 .. n + 1 : i = n + 1 \/ i \in 0 .. n
    BY <1>0
  <1>5. \A i \in 0 .. n : done[i] <= done[n] /\ asks[n] <= asks[i] /\ tag[i] <= tag[n]
    <2>1. \A i \in 0 .. n : i <= n
      BY <1>0
    <2> QED BY <1>0, <2>1 DEF Counting, n
  <1>6. ASSUME NEW i \in 0 .. n + 1, NEW j \in 0 .. n + 1, i <= j
        PROVE  d1[i] <= d1[j] /\ a1[j] <= a1[i] /\ t1[i] <= t1[j]
    <2>1. CASE j \in 0 .. n
      <3>1. i \in 0 .. n
        BY <1>0, <1>6, <2>1
      <3>2. done[i] <= done[j] /\ asks[j] <= asks[i] /\ tag[i] <= tag[j]
        BY <1>6, <2>1, <3>1 DEF Counting, n
      <3> QED BY <1>1, <1>2, <2>1, <3>1, <3>2
    <2>2. CASE j = n + 1 /\ i \in 0 .. n
      <3>1. /\ d1[i] = done[i] /\ a1[i] = asks[i] + more /\ t1[i] = tag[i]
            /\ d1[j] = done[n] + ends /\ a1[j] = asks[n] /\ t1[j] = top
        BY <1>2, <2>2
      <3>2. /\ done[i] <= done[n] /\ asks[n] <= asks[i] /\ tag[i] <= tag[n] /\ tag[n] <= top
            /\ done[i] \in Nat /\ done[n] \in Nat /\ asks[i] \in Nat /\ asks[n] \in Nat
            /\ tag[i] \in Nat /\ tag[n] \in Nat /\ top \in Nat
        BY <1>0, <1>1, <1>5, <2>2
      <3>3. ends \in Nat /\ more \in Nat
        OBVIOUS
      <3>4. /\ \A x, y, z \in Nat : x <= y => x <= y + z
            /\ \A x, y, z \in Nat : x <= y /\ y <= z => x <= z
        OBVIOUS
      <3>5. d1[i] <= d1[j]
        BY <3>1, <3>2, <3>3, <3>4
      <3>6. a1[j] <= a1[i]
        BY <3>1, <3>2, <3>3, <3>4
      <3>7. t1[i] <= t1[j]
        BY <3>1, <3>2, <3>3, <3>4
      <3> QED BY <3>5, <3>6, <3>7
    <2>3. CASE j = n + 1 /\ i = n + 1
      <3>1. d1[i] \in Nat /\ a1[i] \in Nat /\ t1[i] \in Nat
        BY <1>2
      <3> QED BY <3>1, <2>3
    <2> QED BY <1>4, <2>1, <2>2, <2>3
  <1>7. ASSUME NEW i \in 0 .. n + 1, NEW j \in 0 .. n + 1, i < j
        PROVE  /\ EndsOn(t[j].kind) => d1[i] < d1[j]
               /\ t[j].kind \in Asks => a1[j] < a1[i]
               /\ EndsOn(t[j].kind) /\ t[j].cmd # NoCmd =>
                     /\ t1[i] < t[j].cmd /\ t[j].cmd <= t1[j]
                     /\ d1[j] <= t[j].cmd + Stale
    <2>0. i \in 0 .. n
      BY <1>0, <1>7
    <2>1. CASE j \in 0 .. n
      <3>1. j \in 1 .. n /\ t[j] = s[j]
        BY <1>0, <1>7, <2>1 DEF n
      <3>2. /\ EndsOn(s[j].kind) => done[i] < done[j]
            /\ s[j].kind \in Asks => asks[j] < asks[i]
            /\ EndsOn(s[j].kind) /\ s[j].cmd # NoCmd =>
                  /\ tag[i] < s[j].cmd /\ s[j].cmd <= tag[j]
                  /\ done[j] <= s[j].cmd + Stale
        BY <1>7, <2>0, <2>1 DEF Counting, n
      <3> QED BY <1>1, <1>2, <2>0, <2>1, <3>1, <3>2, SMTT(40)
    <2>2. CASE j = n + 1
      <3>1. t[j] = e
        BY <2>2 DEF n
      <3>0. /\ d1[i] = done[i] /\ a1[i] = asks[i] + more /\ t1[i] = tag[i]
            /\ d1[j] = done[n] + ends /\ a1[j] = asks[n] /\ t1[j] = top
            /\ done[i] <= done[n] /\ asks[n] <= asks[i] /\ tag[i] <= tag[n]
            /\ done[i] \in Nat /\ done[n] \in Nat /\ asks[i] \in Nat /\ asks[n] \in Nat
            /\ tag[i] \in Nat /\ tag[n] \in Nat
        BY <1>0, <1>1, <1>2, <1>5, <2>0, <2>2
      <3>2. EndsOn(e.kind) => d1[i] < d1[j]
        <4>1. EndsOn(e.kind) => ends = 1
          OBVIOUS
        <4> QED BY <1>0, <3>0, <4>1
      <3>3. e.kind \in Asks => a1[j] < a1[i]
        <4>1. e.kind \in Asks => more = 1
          OBVIOUS
        <4> QED BY <1>0, <3>0, <4>1
      <3>4. EndsOn(e.kind) /\ e.cmd # NoCmd =>
                /\ t1[i] < e.cmd /\ e.cmd <= t1[j]
                /\ d1[j] <= e.cmd + Stale
        <4> SUFFICES ASSUME EndsOn(e.kind), e.cmd # NoCmd
                     PROVE  t1[i] < e.cmd /\ e.cmd <= t1[j] /\ d1[j] <= e.cmd + Stale
          OBVIOUS
        <4>1. ends = 1 /\ top = e.cmd /\ done[n] + 1 <= e.cmd + Stale /\ tag[n] < e.cmd
          BY <1>3 DEF n
        <4>2. /\ \A x, y, z \in Nat : x <= y /\ y < z => x < z
              /\ \A x \in Nat : x <= x
          OBVIOUS
        <4>3. t1[i] < e.cmd
          BY <1>0, <3>0, <4>1, <4>2
        <4>4. e.cmd <= t1[j] /\ d1[j] <= e.cmd + Stale
          BY <1>0, <3>0, <4>1, <4>2
        <4> QED BY <4>3, <4>4
      <3> QED BY <3>1, <3>2, <3>3, <3>4
    <2> QED BY <1>4, <2>1, <2>2
  <1>8. Counting(t, d1, a1, t1)
    BY <1>0, <1>2, <1>6, <1>7 DEF Counting
  <1>9. /\ d1[0] = done[0] /\ a1[0] = asks[0] + more /\ t1[0] = tag[0]
        /\ d1[Len(t)] = done[n] + ends /\ t1[Len(t)] = top
    BY <1>0, <1>2
  <1> QED BY <1>3, <1>8, <1>9 DEF n

(* The stream: what the client has received, then what is on its way.      *)
LEMMA StreamLemma ==
    ASSUME NEW b \in Seq(Token), NEW h \in Seq(Token)
    PROVE  /\ b \o h \in Seq(Token) /\ Len(b \o h) = Len(b) + Len(h)
           /\ Len(b) \in Nat /\ Len(h) \in Nat
           /\ \A i \in 1 .. Len(b) : (b \o h)[i] = b[i]
           /\ \A i \in 1 .. Len(h) : (b \o h)[Len(b) + i] = h[i]
  BY ConcatLemma

(* A step that leaves a window of the stream, and what it has to show: d0  *)
(* and h0 count what is before the stream, dk and hk what is before the    *)
(* window, dn and hn all of the stream and dm and hm the window's end.     *)
Recounted(k, d0, dk, dm, dn, q0, qk, h0, hk, hm, hn) ==
    /\ Ahead(dn, q0, hn) /\ Behind(d0, h0)
    /\ d0 <= dk /\ dm <= dn /\ qk <= q0 /\ h0 <= hk /\ hm <= hn /\ hk <= hn
    /\ k = 0 => d0 = dk /\ q0 = qk /\ h0 = hk
    /\ Len(Stream') = Len(Stream) - k => dm = dn /\ hm = hn
    /\ \A i \in 1 .. k :
          /\ EndsOn(Stream[i].kind) => d0 < dk
          /\ EndsOn(Stream[i].kind) /\ Stream[i].cmd # NoCmd =>
                /\ h0 < Stream[i].cmd /\ Stream[i].cmd <= hk
                /\ d0 + 1 <= Stream[i].cmd + Stale
          /\ Stream[i].kind \in Asks => qk < q0
    /\ Ahead(dm, qk, hm)' /\ Behind(dk, hk)' => CountInv'

(* The numbers of such a step.                                             *)
LEMMA Recount ==
    ASSUME TypeOK, TypeOK', CountInv, NEW k \in 0 .. Len(Stream),
           Len(Stream') <= Len(Stream) - k,
           \A i \in 1 .. Len(Stream') : Stream'[i] = Stream[k + i]
    PROVE  \E d0, dk, dm, dn, q0, qk, h0, hk, hm, hn \in Nat :
              Recounted(k, d0, dk, dm, dn, q0, qk, h0, hk, hm, hn)
  <1>1. Stream \in Seq(Token) /\ Stream' \in Seq(Token)
    BY StreamLemma DEF TypeOK, Stream
  <1>2. PICK done, asks, tag :
            /\ Counting(Stream, done, asks, tag)
            /\ Ahead(done[Len(Stream)], asks[0], tag[Len(Stream)])
            /\ Behind(done[0], tag[0])
    BY DEF CountInv
  <1>3. PICK s : s = Stream
    OBVIOUS
  <1>4. PICK t : t = Stream'
    OBVIOUS
  <1>5. /\ s \in Seq(Token) /\ t \in Seq(Token) /\ k \in 0 .. Len(s) /\ Len(t) <= Len(s) - k
        /\ \A i \in 1 .. Len(t) : t[i] = s[k + i]
        /\ Counting(s, done, asks, tag)
    BY <1>1, <1>2, <1>3, <1>4
  <1>6. PICK done1, asks1, tag1 :
              /\ Counting(t, done1, asks1, tag1)
              /\ done1[0] = done[k] /\ asks1[0] = asks[k] /\ tag1[0] = tag[k]
              /\ done1[Len(t)] = done[k + Len(t)] /\ tag1[Len(t)] = tag[k + Len(t)]
    BY <1>5, WindowCounts
  <1> DEFINE n == Len(s)
             m == k + Len(t)
  <1>7. /\ n \in 0 .. n /\ 0 \in 0 .. n /\ k \in 0 .. n /\ m \in 0 .. n /\ 0 <= k /\ k <= m /\ m <= n
        /\ k = 0 \/ 0 < k
    BY <1>5
  <1>8. /\ \A i \in 0 .. n : done[i] \in Nat /\ asks[i] \in Nat /\ tag[i] \in Nat
        /\ \A i, j \in 0 .. n : i <= j => done[i] <= done[j] /\ asks[j] <= asks[i] /\ tag[i] <= tag[j]
    BY <1>5 DEF Counting
  <1>9. /\ done[0] \in Nat /\ done[k] \in Nat /\ done[m] \in Nat /\ done[n] \in Nat
        /\ asks[0] \in Nat /\ asks[k] \in Nat
        /\ tag[0] \in Nat /\ tag[k] \in Nat /\ tag[m] \in Nat /\ tag[n] \in Nat
        /\ done[0] <= done[k] /\ done[m] <= done[n] /\ asks[k] <= asks[0]
        /\ tag[0] <= tag[k] /\ tag[m] <= tag[n] /\ tag[k] <= tag[n]
    <2> HIDE DEF n, m
    <2>1. 0 <= k /\ m <= n /\ k <= n
      BY <1>7
    <2> QED BY <1>7, <1>8, <2>1
  <1>10. ASSUME NEW i \in 1 .. k
         PROVE  /\ EndsOn(s[i].kind) => done[0] < done[k]
                /\ EndsOn(s[i].kind) /\ s[i].cmd # NoCmd =>
                      /\ tag[0] < s[i].cmd /\ s[i].cmd <= tag[k]
                      /\ done[0] + 1 <= s[i].cmd + Stale
                /\ s[i].kind \in Asks => asks[k] < asks[0]
    <2>1. i \in 0 .. n /\ 0 < i /\ i <= k /\ i \in 1 .. Len(s)
      BY <1>7
    <2>2. /\ done[i] \in Nat /\ asks[i] \in Nat /\ tag[i] \in Nat
          /\ done[i] <= done[k] /\ asks[k] <= asks[i] /\ tag[i] <= tag[k]
      BY <1>7, <1>8, <2>1
    <2>3. /\ EndsOn(s[i].kind) => done[0] < done[i]
          /\ s[i].kind \in Asks => asks[i] < asks[0]
          /\ EndsOn(s[i].kind) /\ s[i].cmd # NoCmd =>
                /\ tag[0] < s[i].cmd /\ s[i].cmd <= tag[i]
                /\ done[i] <= s[i].cmd + Stale
      BY <1>5, <1>7, <2>1 DEF Counting
    <2>4. s[i].cmd \in Nat /\ Stale \in Nat
      <3>1. s[i] \in Token
        BY <1>5, <2>1
      <3> QED BY <3>1, SessionAssumption DEF Token, CmdId
    <2>5. /\ \A x, y, z \in Nat : x < y /\ y <= z => x < z /\ x + 1 <= z
          /\ \A x, y, z \in Nat : x <= y /\ y < z => x < z
          /\ \A x, y, z \in Nat : x <= y /\ y <= z => x <= z
          /\ \A x, y \in Nat : x + y \in Nat
      OBVIOUS
    <2> HIDE DEF n
    <2>6. EndsOn(s[i].kind) /\ s[i].cmd # NoCmd => done[0] + 1 <= s[i].cmd + Stale
      <3> SUFFICES ASSUME EndsOn(s[i].kind), s[i].cmd # NoCmd
                   PROVE  done[0] + 1 <= s[i].cmd + Stale
        OBVIOUS
      <3>1. s[i].cmd + Stale \in Nat
        BY <2>4
      <3>2. done[0] < done[i] /\ done[i] <= s[i].cmd + Stale
        BY <2>3
      <3>3. \A x, y, z \in Nat : x < y /\ y <= z => x + 1 <= z
        OBVIOUS
      <3>4. done[0] \in Nat /\ done[i] \in Nat
        BY <1>9, <2>2
      <3> QED BY <3>1, <3>2, <3>3, <3>4
    <2>7. EndsOn(s[i].kind) => done[0] < done[k]
      BY <1>9, <2>2, <2>3, <2>5
    <2>8. s[i].kind \in Asks => asks[k] < asks[0]
      BY <1>9, <2>2, <2>3, <2>5
    <2>9. EndsOn(s[i].kind) /\ s[i].cmd # NoCmd => tag[0] < s[i].cmd /\ s[i].cmd <= tag[k]
      BY <1>9, <2>2, <2>3, <2>4, <2>5
    <2> QED BY <2>6, <2>7, <2>8, <2>9
  <1>11. /\ k = 0 => done[0] = done[k] /\ asks[0] = asks[k] /\ tag[0] = tag[k]
         /\ Len(t) = Len(s) - k => m = n
    BY <1>5
  <1>12. Ahead(done[m], asks[k], tag[m])' /\ Behind(done[k], tag[k])' => CountInv'
    BY <1>4, <1>6 DEF CountInv
  <1> HIDE DEF n, m
  <1>13. Ahead(done[n], asks[0], tag[n]) /\ Behind(done[0], tag[0])
    BY <1>2, <1>3 DEF n
  <1>14. PICK d0 \in Nat, dk \in Nat, dm \in Nat, dn \in Nat, q0 \in Nat, qk \in Nat,
              h0 \in Nat, hk \in Nat, hm \in Nat, hn \in Nat :
            /\ d0 = done[0] /\ dk = done[k] /\ dm = done[m] /\ dn = done[n]
            /\ q0 = asks[0] /\ qk = asks[k]
            /\ h0 = tag[0] /\ hk = tag[k] /\ hm = tag[m] /\ hn = tag[n]
    BY <1>9
  <1>15. Recounted(k, d0, dk, dm, dn, q0, qk, h0, hk, hm, hn)
    BY <1>3, <1>4, <1>9, <1>10, <1>11, <1>12, <1>13, <1>14 DEF Recounted
  <1> QED BY <1>15

(* The calls given up are finitely many, and one more reply is counted.    *)
LEMMA GivenUpLemma ==
    ASSUME TypeOK
    PROVE  IsFiniteSet(GivenUp) /\ Cardinality(GivenUp) \in Nat
  <1>1. Len(results) \in Nat /\ GivenUp \subseteq 1 .. Len(results)
    BY DEF TypeOK, GivenUp
  <1>2. IsFiniteSet(1 .. Len(results))
    BY <1>1, FS_Interval
  <1>3. IsFiniteSet(GivenUp)
    BY <1>1, <1>2, FS_Subset
  <1> QED BY <1>3, FS_CardinalityType

(* One more reply.                                                         *)
LEMMA ReplyLemma ==
    ASSUME TypeOK, NEW res \in Result, results' = Append(results, res)
    PROVE  /\ Len(results') = Len(results) + 1 /\ Len(results) \in Nat
           /\ DOMAIN results' = DOMAIN results \cup {Len(results) + 1}
           /\ results'[Len(results) + 1] = res
           /\ \A i \in DOMAIN results : results'[i] = results[i]
           /\ res.outcome = "ok" => GivenUp' = GivenUp
           /\ res.outcome # "ok" =>
                 /\ GivenUp' = GivenUp \cup {Len(results) + 1}
                 /\ Cardinality(GivenUp') = Cardinality(GivenUp) + 1
  <1>1. /\ Len(results') = Len(results) + 1 /\ Len(results) \in Nat
        /\ results'[Len(results) + 1] = res
        /\ \A i \in 1 .. Len(results) : results'[i] = results[i]
        /\ DOMAIN results = 1 .. Len(results) /\ results' \in Seq(Result)
    BY AppendLemma DEF TypeOK
  <1>2. DOMAIN results' = 1 .. (Len(results) + 1)
    BY <1>1
  <1>3. /\ DOMAIN results' = DOMAIN results \cup {Len(results) + 1}
        /\ Len(results) + 1 \notin DOMAIN results
    BY <1>1, <1>2
  <1>4. res.outcome = "ok" => GivenUp' = GivenUp
    BY <1>1, <1>3 DEF GivenUp, Ok
  <1>5. ASSUME res.outcome # "ok"
        PROVE  /\ GivenUp' = GivenUp \cup {Len(results) + 1}
               /\ Cardinality(GivenUp') = Cardinality(GivenUp) + 1
    <2>1. GivenUp' = GivenUp \cup {Len(results) + 1} /\ Len(results) + 1 \notin GivenUp
      BY <1>1, <1>3, <1>5 DEF GivenUp, Ok
    <2>2. IsFiniteSet(GivenUp)
      BY GivenUpLemma
    <2> QED BY <2>1, <2>2, FS_AddElement
  <1> QED BY <1>1, <1>3, <1>4, <1>5

-----------------------------------------------------------------------------
(* A call: its line comes after all that is ended or asked so far.         *)
LEMMA RunCmdCounts ==
    ASSUME RpcInv, TypeOK, TypeOK', RunCmd
    PROVE  CallInv' /\ CountInv'
  <1> DEFINE line == [type |-> "cmd", cmd |-> cmd + 1]
  <1>0. /\ pc = "idle" /\ pc' = "run" /\ cmd' = cmd + 1 /\ buffer = <<>> /\ buffer' = <<>>
        /\ toDev' = Append(toDev, line)
        /\ UNCHANGED <<toHost, devCmd, devRest, devAsking, link, results, abandoned>>
    BY DEF RunCmd, devVars, history, RpcInv, CallInv
  <1>1. /\ cmd \in Nat /\ devCmd \in Nat /\ Stale \in Nat /\ toDev \in Seq(Line)
        /\ \A i \in 1 .. Len(toDev) : toDev[i].cmd \in Nat
    <2>1. \A i \in 1 .. Len(toDev) : toDev[i] \in Line
      BY DEF TypeOK
    <2> QED BY <2>1, SessionAssumption, SMTT(40) DEF TypeOK, CmdId, Line
  <1>2. line \in Line
    BY <1>0, <1>1 DEF Line, TypeOK
  <1>3. /\ Len(toDev') = Len(toDev) + 1 /\ Len(toDev) \in Nat
        /\ \A i \in 1 .. Len(toDev) : toDev'[i] = toDev[i]
        /\ toDev'[Len(toDev) + 1] = line
    BY <1>0, <1>1, <1>2, AppendLemma
  <1>4. CallInv'
    <2>1. GivenUp' = GivenUp
      BY <1>0 DEF GivenUp, Ok
    <2> QED BY <1>0, <1>1, <2>1 DEF RpcInv, CallInv
  <1>5. Stream' = Stream /\ Stream \in Seq(Token)
    BY <1>0, StreamLemma DEF Stream, TypeOK
  <1>6. /\ 0 \in 0 .. Len(Stream)
        /\ Len(Stream') = Len(Stream) - 0 /\ Len(Stream') <= Len(Stream) - 0
        /\ \A i \in 1 .. Len(Stream') : Stream'[i] = Stream[0 + i]
    BY <1>5
  <1>7. PICK d0, dk, dm, dn, q0, qk, h0, hk, hm, hn \in Nat :
            Recounted(0, d0, dk, dm, dn, q0, qk, h0, hk, hm, hn)
    BY <1>6, Recount DEF RpcInv
  <1>8. /\ Ahead(dn, q0, hn) /\ Behind(d0, h0)
        /\ d0 = dk /\ q0 = qk /\ h0 = hk /\ dm = dn /\ hm = hn
        /\ Ahead(dm, qk, hm)' /\ Behind(dk, hk)' => CountInv'
    BY <1>6, <1>7 DEF Recounted
  <1>9. Behind(dk, hk)'
    BY <1>0, <1>8 DEF Behind, GivenUp, Ok, FinalToken
  <1>10. Busy' = Busy /\ Taken' = Taken /\ Busy \in {0, 1} /\ Taken \in {0, 1}
    BY <1>0 DEF Busy, Taken
  <1>11. /\ devRest # <<>> /\ devCmd # NoCmd => dn + 1 <= devCmd + Stale /\ hn < devCmd
         /\ dn + Busy + Len(toDev) + q0 <= cmd + Stale + Taken
         /\ hn <= cmd /\ devCmd <= cmd
         /\ \A j \in 1 .. Len(toDev) : toDev[j].type = "cmd" =>
               /\ dn + Busy + j <= toDev[j].cmd + Stale + Taken
               /\ hn < toDev[j].cmd /\ devCmd < toDev[j].cmd /\ toDev[j].cmd <= cmd
               /\ \A i \in 1 .. (j - 1) : toDev[i].type = "cmd" => toDev[i].cmd < toDev[j].cmd
    BY <1>8 DEF Ahead
  <1>12. ASSUME NEW j \in 1 .. Len(toDev'), toDev'[j].type = "cmd"
         PROVE  /\ dn + Busy + j <= toDev'[j].cmd + Stale + Taken
                /\ hn < toDev'[j].cmd /\ devCmd < toDev'[j].cmd /\ toDev'[j].cmd <= cmd + 1
                /\ \A i \in 1 .. (j - 1) : toDev'[i].type = "cmd" => toDev'[i].cmd < toDev'[j].cmd
    <2>1. CASE j \in 1 .. Len(toDev)
      <3>1. toDev'[j] = toDev[j] /\ \A i \in 1 .. (j - 1) : i \in 1 .. Len(toDev) /\ toDev'[i] = toDev[i]
        BY <1>3, <2>1
      <3>2. /\ dn + Busy + j <= toDev[j].cmd + Stale + Taken
            /\ hn < toDev[j].cmd /\ devCmd < toDev[j].cmd /\ toDev[j].cmd <= cmd
            /\ \A i \in 1 .. (j - 1) : toDev[i].type = "cmd" => toDev[i].cmd < toDev[j].cmd
        BY <1>11, <1>12, <2>1, <3>1
      <3>3. toDev[j].cmd <= cmd + 1
        BY <1>1, <2>1, <3>2
      <3> QED BY <3>1, <3>2, <3>3
    <2>2. CASE j = Len(toDev) + 1
      <3>1. toDev'[j].cmd = cmd + 1 /\ \A i \in 1 .. (j - 1) : i \in 1 .. Len(toDev) /\ toDev'[i] = toDev[i]
        BY <1>3, <2>2
      <3>2. dn + Busy + j <= cmd + 1 + Stale + Taken
        BY <1>1, <1>3, <1>10, <1>11, <2>2
      <3>3. hn < cmd + 1 /\ devCmd < cmd + 1
        BY <1>1, <1>11
      <3>4. \A i \in 1 .. Len(toDev) : toDev[i].type = "cmd" => toDev[i].cmd < cmd + 1
        BY <1>1, <1>11
      <3> QED BY <3>1, <3>2, <3>3, <3>4, <1>1
    <2> QED BY <1>3, <2>1, <2>2, SMTT(40)
  <1>13. dn + Busy + Len(toDev') + q0 <= cmd + 1 + Stale + Taken /\ hn <= cmd + 1 /\ devCmd <= cmd + 1
    BY <1>1, <1>3, <1>10, <1>11
  <1>14. Ahead(dm, qk, hm)'
    BY <1>0, <1>8, <1>10, <1>11, <1>12, <1>13 DEF Ahead
  <1> QED BY <1>4, <1>8, <1>9, <1>14

(* What the device has to do does not change, and the stream loses lines.  *)
LEMMA AheadKept ==
    ASSUME TypeOK, TypeOK', UNCHANGED <<toDev, devCmd, devRest, devAsking>>, cmd <= cmd',
           NEW dn \in Nat, NEW q0 \in Nat, NEW hn \in Nat, Ahead(dn, q0, hn),
           NEW dm \in Nat, NEW qk \in Nat, NEW hm \in Nat, dm <= dn, qk <= q0, hm <= hn
    PROVE  Ahead(dm, qk, hm)'
  <1>1. /\ cmd \in Nat /\ cmd' \in Nat /\ devCmd \in Nat /\ Stale \in Nat /\ Len(toDev) \in Nat
        /\ \A i \in 1 .. Len(toDev) : toDev[i].cmd \in Nat
    <2>1. \A i \in 1 .. Len(toDev) : toDev[i] \in Line
      BY DEF TypeOK
    <2>2. \A i \in 1 .. Len(toDev) : toDev[i].cmd \in Nat
      BY <2>1, SessionAssumption DEF CmdId, Line
    <2> QED BY <2>2, SessionAssumption, SMTT(40) DEF TypeOK, CmdId
  <1>2. Busy' = Busy /\ Taken' = Taken /\ Busy \in {0, 1} /\ Taken \in {0, 1}
    BY DEF Busy, Taken
  <1>3. devRest # <<>> /\ devCmd # NoCmd => dm + 1 <= devCmd + Stale /\ hm < devCmd
    BY <1>1 DEF Ahead
  <1>4. ASSUME NEW j \in 1 .. Len(toDev), toDev[j].type = "cmd"
        PROVE  /\ dm + Busy + j <= toDev[j].cmd + Stale + Taken
               /\ hm < toDev[j].cmd /\ toDev[j].cmd <= cmd'
    <2>1. dn + Busy + j <= toDev[j].cmd + Stale + Taken /\ hn < toDev[j].cmd /\ toDev[j].cmd <= cmd
      BY <1>4 DEF Ahead
    <2>2. toDev[j].cmd \in Nat /\ j \in Nat
      BY <1>1
    <2>3. \A b, t \in {0, 1} : \A c \in Nat :
              dn + b + j <= c + Stale + t => dm + b + j <= c + Stale + t
      BY <1>1, <2>2
    <2>4. \A c \in Nat : hn < c => hm < c
      OBVIOUS
    <2>5. \A c \in Nat : c <= cmd => c <= cmd'
      BY <1>1
    <2> QED BY <1>2, <2>1, <2>2, <2>3, <2>4, <2>5
  <1>5. dm + Busy + Len(toDev) + qk <= cmd' + Stale + Taken /\ hm <= cmd' /\ devCmd <= cmd'
    BY <1>1, <1>2 DEF Ahead
  <1> QED BY <1>2, <1>3, <1>4, <1>5 DEF Ahead

(* A call that cannot be sent.                                             *)
LEMMA RunCmdFailsCounts ==
    ASSUME RpcInv, TypeOK, TypeOK', RunCmdFails
    PROVE  CallInv' /\ CountInv'
  <1> DEFINE res == [cmd |-> cmd + 1, outcome |-> "error", out |-> <<>>]
  <1>0. /\ pc = "idle" /\ pc' = "idle" /\ cmd' = cmd + 1 /\ results' = Append(results, res)
        /\ UNCHANGED <<buffer, toHost, toDev, devCmd, devRest, devAsking, link, abandoned>>
        /\ cmd \in Nat /\ buffer = <<>>
    BY SessionAssumption DEF RunCmdFails, devVars, history, TypeOK, CmdId, RpcInv, CallInv
  <1>1. res \in Result
    BY <1>0 DEF Result, TypeOK
  <1>2. /\ Len(results') = Len(results) + 1 /\ Len(results) \in Nat
        /\ DOMAIN results' = DOMAIN results \cup {Len(results) + 1}
        /\ results'[Len(results) + 1] = res
        /\ \A i \in DOMAIN results : results'[i] = results[i]
        /\ GivenUp' = GivenUp \cup {Len(results) + 1}
        /\ Cardinality(GivenUp') = Cardinality(GivenUp) + 1
        /\ Cardinality(GivenUp) \in Nat
    BY <1>0, <1>1, ReplyLemma, GivenUpLemma
  <1>3. CallInv'
    BY <1>0, <1>2 DEF RpcInv, CallInv
  <1>5. Stream' = Stream /\ Stream \in Seq(Token)
    BY <1>0, StreamLemma DEF Stream, TypeOK
  <1>6. /\ 0 \in 0 .. Len(Stream)
        /\ Len(Stream') = Len(Stream) - 0 /\ Len(Stream') <= Len(Stream) - 0
        /\ \A i \in 1 .. Len(Stream') : Stream'[i] = Stream[0 + i]
    BY <1>5
  <1>7. PICK d0, dk, dm, dn, q0, qk, h0, hk, hm, hn \in Nat :
            Recounted(0, d0, dk, dm, dn, q0, qk, h0, hk, hm, hn)
    BY <1>6, Recount DEF RpcInv
  <1>8. /\ Ahead(dn, q0, hn) /\ Behind(d0, h0)
        /\ d0 = dk /\ q0 = qk /\ h0 = hk /\ dm = dn /\ hm = hn
        /\ Ahead(dm, qk, hm)' /\ Behind(dk, hk)' => CountInv'
    BY <1>6, <1>7 DEF Recounted
  <1>9. Behind(dk, hk)'
    <2>1. Len(results') <= dk + Cardinality(GivenUp')
      BY <1>2, <1>8 DEF Behind
    <2>2. \A i \in DOMAIN results' : Ok(i)' => i \in DOMAIN results /\ Ok(i) /\ FinalToken(i)' = FinalToken(i)
      BY <1>2 DEF Ok, FinalToken
    <2> QED BY <1>8, <2>1, <2>2 DEF Behind, FinalToken
  <1>10. Ahead(dm, qk, hm)'
    BY <1>0, <1>8, AheadKept
  <1> QED BY <1>3, <1>8, <1>9, <1>10

(* A call given up: what it had received is dropped.                       *)
LEMMA GiveUpCounts ==
    ASSUME RpcInv, TypeOK, TypeOK', pc = "run", NEW outcome \in {"timeout", "error"},
           Return(outcome, <<>>), abandoned' \subseteq abandoned \cup {cmd},
           UNCHANGED <<cmd, toHost, toDev, devCmd, devRest, devAsking>>
    PROVE  CallInv' /\ CountInv'
  <1> DEFINE res == [cmd |-> cmd, outcome |-> outcome, out |-> <<>>]
  <1>0. pc' = "idle" /\ results' = Append(results, res) /\ buffer' = <<>> /\ cmd \in Nat
    BY SessionAssumption DEF Return, TypeOK, CmdId
  <1>1. res \in Result
    BY DEF Result, TypeOK
  <1>2. /\ Len(results') = Len(results) + 1 /\ Len(results) \in Nat
        /\ DOMAIN results' = DOMAIN results \cup {Len(results) + 1}
        /\ results'[Len(results) + 1] = res
        /\ \A i \in DOMAIN results : results'[i] = results[i]
        /\ GivenUp' = GivenUp \cup {Len(results) + 1}
        /\ Cardinality(GivenUp') = Cardinality(GivenUp) + 1
        /\ Cardinality(GivenUp) \in Nat
    BY <1>0, <1>1, ReplyLemma, GivenUpLemma
  <1>3. CallInv'
    <2>1. Len(results) = cmd - 1 /\ cmd = Len(results) + 1
      BY <1>0, <1>2 DEF RpcInv, CallInv
    <2> QED BY <1>0, <1>2, <2>1 DEF RpcInv, CallInv
  <1> DEFINE k == Len(buffer)
  <1>4. /\ Stream \in Seq(Token) /\ Len(Stream) = k + Len(toHost) /\ k \in Nat /\ Len(toHost) \in Nat
        /\ \A i \in 1 .. Len(toHost) : Stream[k + i] = toHost[i]
    BY StreamLemma DEF Stream, TypeOK
  <1>5. Stream' = toHost
    BY <1>0 DEF Stream, TypeOK
  <1>6. /\ k \in 0 .. Len(Stream)
        /\ Len(Stream') = Len(Stream) - k /\ Len(Stream') <= Len(Stream) - k
        /\ \A i \in 1 .. Len(Stream') : Stream'[i] = Stream[k + i]
    BY <1>4, <1>5
  <1> HIDE DEF k
  <1>7. PICK d0, dk, dm, dn, q0, qk, h0, hk, hm, hn \in Nat :
            Recounted(k, d0, dk, dm, dn, q0, qk, h0, hk, hm, hn)
    BY <1>6, Recount DEF RpcInv
  <1>8. /\ Ahead(dn, q0, hn) /\ Behind(d0, h0)
        /\ d0 <= dk /\ qk <= q0 /\ h0 <= hk /\ dm = dn /\ hm = hn
        /\ Ahead(dm, qk, hm)' /\ Behind(dk, hk)' => CountInv'
    BY <1>6, <1>7 DEF Recounted
  <1>9. Behind(dk, hk)'
    <2>1. Len(results') <= dk + Cardinality(GivenUp')
      BY <1>2, <1>8 DEF Behind
    <2>2. \A i \in DOMAIN results' : Ok(i)' => i \in DOMAIN results /\ Ok(i) /\ FinalToken(i)' = FinalToken(i)
      BY <1>2 DEF Ok, FinalToken
    <2>3. \A i \in DOMAIN results : Ok(i) => FinalToken(i).cmd \in 0 .. hk
      BY <1>8 DEF Behind
    <2> QED BY <2>1, <2>2, <2>3 DEF Behind, FinalToken
  <1>10. Ahead(dm, qk, hm)'
    BY <1>8, AheadKept, SMTT(40) DEF TypeOK, CmdId
  <1> QED BY <1>3, <1>8, <1>9, <1>10

(* A reply: it ends a call that was not ended before, and its tag, if it   *)
(* has one, is higher than that of any reply before it and late by no more *)
(* calls than were given up.                                               *)
LEMMA FeedDoneCounts ==
    ASSUME RpcInv, TypeOK, TypeOK', pc = "run", NEW p \in DOMAIN buffer, EndsOn(buffer[p].kind),
           Return("ok", SubSeq(buffer, 1, p)),
           UNCHANGED <<cmd, toHost, toDev, devCmd, devRest, devAsking, abandoned>>
    PROVE  /\ CallInv' /\ CountInv'
           /\ buffer[p].cmd # NoCmd =>
                 /\ buffer[p].cmd \in 1 .. cmd
                 /\ \A i \in DOMAIN results : Ok(i) => FinalToken(i).cmd < buffer[p].cmd
                 /\ cmd - buffer[p].cmd <= Stale + Cardinality(GivenUp)
  <1> DEFINE res == [cmd |-> cmd, outcome |-> "ok", out |-> SubSeq(buffer, 1, p)]
             c == buffer[p].cmd
             k == Len(buffer)
  <1>0. pc' = "idle" /\ results' = Append(results, res) /\ buffer' = <<>>
    BY DEF Return
  <1>1. cmd \in Nat /\ Stale \in Nat /\ c \in Nat /\ k \in Nat /\ p \in 1 .. k
    <2>1. buffer[p] \in Token
      BY DEF TypeOK
    <2> QED BY <2>1, SessionAssumption DEF TypeOK, CmdId, Token
  <1>2. /\ SubSeq(buffer, 1, p) \in Seq(Token) /\ Len(SubSeq(buffer, 1, p)) = p
        /\ SubSeq(buffer, 1, p)[p] = buffer[p]
    <2>1. p \in 0 .. Len(buffer) /\ p \in 1 .. p /\ buffer \in Seq(Token)
      BY <1>1 DEF TypeOK
    <2> QED BY <2>1, PrefixLemma
  <1>3. res \in Result
    BY <1>2 DEF Result, TypeOK
  <1>4. /\ Len(results') = Len(results) + 1 /\ Len(results) \in Nat
        /\ DOMAIN results' = DOMAIN results \cup {Len(results) + 1}
        /\ results'[Len(results) + 1] = res
        /\ \A i \in DOMAIN results : results'[i] = results[i]
        /\ GivenUp' = GivenUp
        /\ Cardinality(GivenUp) \in Nat
    BY <1>0, <1>3, ReplyLemma, GivenUpLemma
  <1>5. CallInv' /\ Len(results) = cmd - 1
    BY <1>0, <1>1, <1>4 DEF RpcInv, CallInv
  <1>6. /\ Stream \in Seq(Token) /\ Len(Stream) = k + Len(toHost) /\ Len(toHost) \in Nat
        /\ \A i \in 1 .. k : Stream[i] = buffer[i]
        /\ \A i \in 1 .. Len(toHost) : Stream[k + i] = toHost[i]
    BY StreamLemma DEF Stream, TypeOK
  <1>7. Stream' = toHost
    BY <1>0 DEF Stream, TypeOK
  <1>8. /\ k \in 0 .. Len(Stream)
        /\ Len(Stream') = Len(Stream) - k /\ Len(Stream') <= Len(Stream) - k
        /\ \A i \in 1 .. Len(Stream') : Stream'[i] = Stream[k + i]
    BY <1>1, <1>6, <1>7
  <1>9. Stream[p] = buffer[p]
    BY <1>1, <1>6
  <1> HIDE DEF k, res, c
  <1>10. PICK d0, dk, dm, dn, q0, qk, h0, hk, hm, hn \in Nat :
            Recounted(k, d0, dk, dm, dn, q0, qk, h0, hk, hm, hn)
    BY <1>8, Recount DEF RpcInv
  <1>11. /\ Ahead(dn, q0, hn) /\ Behind(d0, h0)
         /\ d0 < dk /\ qk <= q0 /\ h0 <= hk /\ hk <= hn /\ dm = dn /\ hm = hn
         /\ Ahead(dm, qk, hm)' /\ Behind(dk, hk)' => CountInv'
         /\ c # NoCmd => h0 < c /\ c <= hk /\ d0 + 1 <= c + Stale
    BY <1>1, <1>8, <1>9, <1>10 DEF Recounted, c
  <1>12. Len(results) <= d0 + Cardinality(GivenUp) /\ hn <= cmd
    BY <1>11 DEF Behind, Ahead
  <1>13. c \in 0 .. hk
    BY <1>1, <1>11 DEF NoCmd
  <1>14. Behind(dk, hk)'
    <2>1. Len(results') <= dk + Cardinality(GivenUp')
      BY <1>4, <1>11, <1>12
    <2>2. ASSUME NEW i \in DOMAIN results', Ok(i)'
          PROVE  FinalToken(i)'.cmd \in 0 .. hk
      <3>1. CASE i \in DOMAIN results
        <4>1. Ok(i) /\ FinalToken(i)' = FinalToken(i)
          BY <1>4, <2>2, <3>1 DEF Ok, FinalToken
        <4> QED BY <1>11, <3>1, <4>1 DEF Behind
      <3>2. CASE i = Len(results) + 1
        <4>1. FinalToken(i)' = buffer[p]
          <5>1. res.out = SubSeq(buffer, 1, p)
            BY DEF res
          <5>2. results'[i] = res
            BY <1>4, <3>2
          <5>3. FinalToken(i)' = res.out[Len(res.out)]
            BY <5>2 DEF FinalToken
          <5> QED BY <1>2, <5>1, <5>3
        <4> QED BY <1>13, <4>1 DEF c
      <3> QED BY <1>4, <3>1, <3>2
    <2> QED BY <2>1, <2>2 DEF Behind
  <1>15. Ahead(dm, qk, hm)'
    BY <1>1, <1>11, AheadKept
  <1>16. c # NoCmd =>
             /\ c \in 1 .. cmd
             /\ \A i \in DOMAIN results : Ok(i) => FinalToken(i).cmd < c
             /\ cmd - c <= Stale + Cardinality(GivenUp)
    <2> SUFFICES ASSUME c # NoCmd
                 PROVE  /\ c \in 1 .. cmd
                        /\ \A i \in DOMAIN results : Ok(i) => FinalToken(i).cmd < c
                        /\ cmd - c <= Stale + Cardinality(GivenUp)
      OBVIOUS
    <2>1. h0 < c /\ c <= hk /\ d0 + 1 <= c + Stale
      BY <1>11
    <2>2. c \in 1 .. cmd
      BY <1>1, <1>11, <1>12, <2>1
    <2>3. \A i \in DOMAIN results : Ok(i) => FinalToken(i).cmd < c
      BY <1>1, <1>11, <2>1 DEF Behind
    <2>4. cmd - c <= Stale + Cardinality(GivenUp)
      BY <1>1, <1>4, <1>5, <1>12, <2>1
    <2> QED BY <2>2, <2>3, <2>4
  <1> QED BY <1>5, <1>11, <1>14, <1>15, <1>16 DEF c

(* A chunk received moves lines within the stream only.                    *)
LEMMA ReceiveCounts ==
    ASSUME RpcInv, TypeOK, TypeOK', Receive
    PROVE  CallInv' /\ CountInv'
  <1>0. /\ pc = "run" /\ pc' = "run"
        /\ UNCHANGED <<cmd, toDev, devCmd, devRest, devAsking, results, abandoned>>
    BY DEF Receive, devVars, history
  <1>1. PICK c \in 0 .. Len(toHost) : /\ buffer' = buffer \o SubSeq(toHost, 1, c)
                                      /\ toHost' = DrainFront(toHost, c)
    BY DEF Receive
  <1>2. CallInv'
    <2>1. GivenUp' = GivenUp
      BY <1>0 DEF GivenUp, Ok
    <2> QED BY <1>0, <2>1 DEF RpcInv, CallInv
  <1> DEFINE b == Len(buffer)  h == Len(toHost)  chunk == SubSeq(toHost, 1, c)
  <1>3. b \in Nat /\ h \in Nat /\ c \in 0 .. h /\ buffer \in Seq(Token) /\ toHost \in Seq(Token)
        /\ buffer' \in Seq(Token) /\ toHost' \in Seq(Token)
    BY DEF TypeOK
  <1>4. /\ chunk \in Seq(Token) /\ Len(chunk) = c /\ \A i \in 1 .. c : chunk[i] = toHost[i]
        /\ Len(toHost') = h - c /\ \A i \in 1 .. (h - c) : toHost'[i] = toHost[c + i]
    BY <1>1, <1>3, PrefixLemma, DrainLemma, ZenonT(40)
  <1>5. buffer' = buffer \o chunk
    BY <1>1
  <1> HIDE DEF chunk
  <1>6. /\ Len(buffer') = b + c
        /\ \A i \in 1 .. b : buffer'[i] = buffer[i]
        /\ \A i \in 1 .. c : buffer'[b + i] = chunk[i]
    <2>1. /\ Len(buffer \o chunk) = Len(buffer) + Len(chunk)
          /\ \A i \in 1 .. Len(buffer) : (buffer \o chunk)[i] = buffer[i]
          /\ \A i \in 1 .. Len(chunk) : (buffer \o chunk)[Len(buffer) + i] = chunk[i]
      <3>1. buffer \in Seq(Token) /\ chunk \in Seq(Token)
        BY <1>3, <1>4
      <3> QED BY ONLY <3>1, ConcatLemma
    <2> QED BY <1>4, <1>5, <2>1
  <1>7. /\ Stream \in Seq(Token) /\ Len(Stream) = b + h
        /\ \A i \in 1 .. b : Stream[i] = buffer[i]
        /\ \A i \in 1 .. h : Stream[b + i] = toHost[i]
    BY <1>3, StreamLemma DEF Stream
  <1>8. /\ Len(Stream') = (b + c) + (h - c)
        /\ \A i \in 1 .. (b + c) : Stream'[i] = buffer'[i]
        /\ \A i \in 1 .. (h - c) : Stream'[(b + c) + i] = toHost'[i]
    <2>1. /\ Len(Stream') = Len(buffer') + Len(toHost')
          /\ \A i \in 1 .. Len(buffer') : Stream'[i] = buffer'[i]
          /\ \A i \in 1 .. Len(toHost') : Stream'[Len(buffer') + i] = toHost'[i]
      BY <1>3, StreamLemma DEF Stream
    <2>2. Len(buffer') = b + c /\ Len(toHost') = h - c
      BY <1>4, <1>6
    <2> QED BY <2>1, <2>2
  <1>9. Len(Stream') = Len(Stream)
    BY <1>3, <1>7, <1>8
  <1>10. ASSUME NEW i \in 1 .. Len(Stream')
         PROVE  Stream'[i] = Stream[0 + i]
    <2>1. CASE i \in 1 .. b
      BY <1>3, <1>6, <1>7, <1>8, <2>1
    <2>2. CASE i - b \in 1 .. c
      <3>1. i = b + (i - b) /\ i \in 1 .. (b + c) /\ i - b \in 1 .. h
        BY <1>3, <2>2
      <3>2. Stream'[i] = buffer'[b + (i - b)] /\ buffer'[b + (i - b)] = chunk[i - b]
        BY <1>6, <1>8, <2>2, <3>1
      <3>3. chunk[i - b] = toHost[i - b] /\ Stream[b + (i - b)] = toHost[i - b]
        BY <1>4, <1>7, <2>2, <3>1
      <3> QED BY <3>1, <3>2, <3>3
    <2>3. CASE i - (b + c) \in 1 .. (h - c)
      <3>1. i = (b + c) + (i - (b + c)) /\ i = b + (c + (i - (b + c))) /\ c + (i - (b + c)) \in 1 .. h
        BY <1>3, <2>3
      <3>2. Stream'[(b + c) + (i - (b + c))] = toHost'[i - (b + c)]
        BY <1>8, <2>3
      <3>3. toHost'[i - (b + c)] = toHost[c + (i - (b + c))]
        BY <1>4, <2>3
      <3>4. Stream[b + (c + (i - (b + c)))] = toHost[c + (i - (b + c))]
        BY <1>7, <3>1
      <3> QED BY <3>1, <3>2, <3>3, <3>4
    <2>4. i \in 1 .. b \/ i - b \in 1 .. c \/ i - (b + c) \in 1 .. (h - c)
      BY <1>3, <1>8
    <2> QED BY <2>1, <2>2, <2>3, <2>4
  <1>11. /\ 0 \in 0 .. Len(Stream)
         /\ Len(Stream') = Len(Stream) - 0 /\ Len(Stream') <= Len(Stream) - 0
    BY <1>7, <1>9
  <1>12. PICK d0, dk, dm, dn, q0, qk, h0, hk, hm, hn \in Nat :
            Recounted(0, d0, dk, dm, dn, q0, qk, h0, hk, hm, hn)
    BY <1>10, <1>11, Recount DEF RpcInv
  <1>13. /\ Ahead(dn, q0, hn) /\ Behind(d0, h0)
         /\ d0 = dk /\ q0 = qk /\ h0 = hk /\ dm = dn /\ hm = hn
         /\ Ahead(dm, qk, hm)' /\ Behind(dk, hk)' => CountInv'
    BY <1>11, <1>12 DEF Recounted
  <1>14. Behind(dk, hk)'
    BY <1>0, <1>13 DEF Behind, GivenUp, Ok, FinalToken
  <1>15. Ahead(dm, qk, hm)'
    <2>1. cmd <= cmd'
      BY <1>0 DEF TypeOK, CmdId
    <2> QED BY <1>0, <1>13, <2>1, AheadKept
  <1> QED BY <1>2, <1>13, <1>14, <1>15

(* What Ahead says of the numbers of the lines for the device.             *)
LEMMA LineTags ==
    ASSUME TypeOK
    PROVE  /\ cmd \in Nat /\ devCmd \in Nat /\ Stale \in Nat
           /\ toDev \in Seq(Line) /\ Len(toDev) \in Nat
           /\ Busy \in {0, 1} /\ Taken \in {0, 1}
           /\ \A i \in 1 .. Len(toDev) : toDev[i].cmd \in Nat
  <1>1. \A i \in 1 .. Len(toDev) : toDev[i] \in Line
    BY DEF TypeOK
  <1>2. \A i \in 1 .. Len(toDev) : toDev[i].cmd \in Nat
    BY <1>1, SessionAssumption DEF CmdId, Line
  <1> QED BY <1>2, SessionAssumption DEF TypeOK, CmdId, Busy, Taken

(* An answer: the question it answers is drained with it.                  *)
LEMMA FeedSendCounts ==
    ASSUME RpcInv, TypeOK, TypeOK', pc = "run", pc' = "run",
           NEW p \in DOMAIN buffer, buffer[p].kind \in Asks, buffer' = DrainFront(buffer, p),
           toDev' = Append(toDev, [type |-> "answer", cmd |-> cmd]),
           UNCHANGED <<cmd, toHost, devCmd, devRest, devAsking, results, abandoned>>
    PROVE  CallInv' /\ CountInv'
  <1> DEFINE line == [type |-> "answer", cmd |-> cmd]
             b == Len(buffer)  h == Len(toHost)
  <1>1. line \in Line
    BY DEF Line, TypeOK
  <1>2. /\ Len(toDev') = Len(toDev) + 1 /\ Len(toDev) \in Nat
        /\ \A i \in 1 .. Len(toDev) : toDev'[i] = toDev[i]
        /\ toDev'[Len(toDev) + 1] = line
    BY <1>1, LineTags, AppendLemma
  <1>3. CallInv'
    <2>1. GivenUp' = GivenUp
      BY DEF GivenUp, Ok
    <2> QED BY <2>1 DEF RpcInv, CallInv
  <1>4. /\ b \in Nat /\ h \in Nat /\ p \in 1 .. b /\ buffer \in Seq(Token) /\ toHost \in Seq(Token)
        /\ buffer' \in Seq(Token)
    BY DEF TypeOK
  <1>5. Len(buffer') = b - p /\ \A i \in 1 .. (b - p) : buffer'[i] = buffer[p + i]
    <2>1. p \in 0 .. Len(buffer)
      BY <1>4
    <2> QED BY <1>4, <2>1, DrainLemma
  <1>6. /\ Stream \in Seq(Token) /\ Len(Stream) = b + h
        /\ \A i \in 1 .. b : Stream[i] = buffer[i]
        /\ \A i \in 1 .. h : Stream[b + i] = toHost[i]
    BY <1>4, StreamLemma DEF Stream
  <1>7. /\ Len(Stream') = (b - p) + h
        /\ \A i \in 1 .. (b - p) : Stream'[i] = buffer'[i]
        /\ \A i \in 1 .. h : Stream'[(b - p) + i] = toHost[i]
    <2>1. /\ Len(Stream') = Len(buffer') + Len(toHost)
          /\ \A i \in 1 .. Len(buffer') : Stream'[i] = buffer'[i]
          /\ \A i \in 1 .. Len(toHost) : Stream'[Len(buffer') + i] = toHost[i]
      BY <1>4, StreamLemma DEF Stream
    <2> QED BY <1>5, <2>1
  <1>8. ASSUME NEW i \in 1 .. Len(Stream')
        PROVE  Stream'[i] = Stream[p + i]
    <2>1. CASE i \in 1 .. (b - p)
      <3>1. p + i \in 1 .. b
        BY <1>4, <2>1
      <3> QED BY <1>5, <1>6, <1>7, <2>1, <3>1
    <2>2. CASE i - (b - p) \in 1 .. h
      <3>1. i = (b - p) + (i - (b - p)) /\ p + i = b + (i - (b - p))
        BY <1>4, <2>2
      <3>2. Stream'[(b - p) + (i - (b - p))] = toHost[i - (b - p)]
        BY <1>7, <2>2
      <3>3. Stream[b + (i - (b - p))] = toHost[i - (b - p)]
        BY <1>6, <2>2
      <3> QED BY <3>1, <3>2, <3>3
    <2>3. i \in 1 .. (b - p) \/ i - (b - p) \in 1 .. h
      BY <1>4, <1>7
    <2> QED BY <2>1, <2>2, <2>3
  <1>9. /\ p \in 0 .. Len(Stream) /\ p \in 1 .. p /\ Stream[p] = buffer[p]
        /\ Len(Stream') = Len(Stream) - p /\ Len(Stream') <= Len(Stream) - p
    BY <1>4, <1>6, <1>7
  <1> HIDE DEF b, h, line
  <1>10. PICK d0, dk, dm, dn, q0, qk, h0, hk, hm, hn \in Nat :
            Recounted(p, d0, dk, dm, dn, q0, qk, h0, hk, hm, hn)
    BY <1>8, <1>9, Recount DEF RpcInv
  <1>11. /\ Ahead(dn, q0, hn) /\ Behind(d0, h0)
         /\ d0 <= dk /\ qk < q0 /\ h0 <= hk /\ dm = dn /\ hm = hn
         /\ Ahead(dm, qk, hm)' /\ Behind(dk, hk)' => CountInv'
    BY <1>9, <1>10 DEF Recounted
  <1>12. Behind(dk, hk)'
    <2>1. GivenUp' = GivenUp /\ Cardinality(GivenUp) \in Nat /\ Len(results) \in Nat
      BY GivenUpLemma DEF GivenUp, Ok, TypeOK
    <2>2. Len(results) <= dk + Cardinality(GivenUp)
      BY <1>11, <2>1 DEF Behind
    <2>3. \A i \in DOMAIN results : Ok(i) => FinalToken(i).cmd \in 0 .. hk
      BY <1>11 DEF Behind
    <2> QED BY <2>1, <2>2, <2>3 DEF Behind, Ok, FinalToken
  <1>13. /\ devRest # <<>> /\ devCmd # NoCmd => dn + 1 <= devCmd + Stale /\ hn < devCmd
         /\ dn + Busy + Len(toDev) + q0 <= cmd + Stale + Taken
         /\ hn <= cmd /\ devCmd <= cmd
         /\ \A j \in 1 .. Len(toDev) : toDev[j].type = "cmd" =>
               /\ dn + Busy + j <= toDev[j].cmd + Stale + Taken
               /\ hn < toDev[j].cmd /\ devCmd < toDev[j].cmd /\ toDev[j].cmd <= cmd
               /\ \A i \in 1 .. (j - 1) : toDev[i].type = "cmd" => toDev[i].cmd < toDev[j].cmd
    BY <1>11 DEF Ahead
  <1>14. ASSUME NEW j \in 1 .. Len(toDev'), toDev'[j].type = "cmd"
         PROVE  /\ dn + Busy + j <= toDev'[j].cmd + Stale + Taken
                /\ hn < toDev'[j].cmd /\ devCmd < toDev'[j].cmd /\ toDev'[j].cmd <= cmd
                /\ \A i \in 1 .. (j - 1) : toDev'[i].type = "cmd" => toDev'[i].cmd < toDev'[j].cmd
    <2>1. j # Len(toDev) + 1
      BY <1>2, <1>14 DEF line
    <2>2. j \in 1 .. Len(toDev)
      BY <1>2, <2>1
    <2>3. toDev'[j] = toDev[j] /\ \A i \in 1 .. (j - 1) : i \in 1 .. Len(toDev) /\ toDev'[i] = toDev[i]
      BY <1>2, <2>2
    <2> QED BY <1>13, <1>14, <2>2, <2>3
  <1>15. dn + Busy + Len(toDev') + qk <= cmd + Stale + Taken
    <2>1. cmd \in Nat /\ Stale \in Nat /\ Busy \in {0, 1} /\ Taken \in {0, 1}
      BY LineTags
    <2>2. Len(toDev') = Len(toDev) + 1 /\ Len(toDev) \in Nat
      BY <1>2
    <2>3. dn + Busy + Len(toDev) + q0 <= cmd + Stale + Taken /\ qk < q0
      BY <1>11, <1>13
    <2> QED BY <2>1, <2>2, <2>3
  <1>16. Busy' = Busy /\ Taken' = Taken
    BY DEF Busy, Taken
  <1>17. Ahead(dm, qk, hm)'
    BY <1>11, <1>13, <1>14, <1>15, <1>16 DEF Ahead
  <1> QED BY <1>3, <1>11, <1>12, <1>17

(* The device takes a line for a command, or for nothing.                  *)
LEMMA DevCommandCounts ==
    ASSUME RpcInv, TypeOK, TypeOK', DevCommand, CleanDevice
    PROVE  CallInv' /\ CountInv'
  <1>0. /\ devRest = <<>> /\ ~ devAsking /\ devAsking' = devAsking /\ toDev # <<>>
        /\ toDev' = Tail(toDev)
        /\ UNCHANGED <<pc, cmd, buffer, toHost, results, abandoned>>
    BY DEF DevCommand, DevIdle, hostVars, history
  <1>1. /\ Head(toDev) = toDev[1] /\ Len(toDev) \in Nat \ {0} /\ Len(toDev') = Len(toDev) - 1
        /\ \A i \in 1 .. (Len(toDev) - 1) : toDev'[i] = toDev[i + 1]
    BY <1>0, LineTags, TailLemma
  <1>2. /\ \/ toDev[1].type = "cmd" /\ devCmd' = toDev[1].cmd /\ devRest' \in Scripts
           \/ toDev[1].type = "answer" /\ devCmd' = NoCmd /\ devRest' = <<Prompt>>
    BY <1>1 DEF DevCommand
  <1>3. devRest' # <<>> /\ \A i \in 1 .. Len(devRest') : EndsOn(devRest'[i]) => i = Len(devRest')
    <2>1. <<Prompt>> # <<>> /\ Len(<<Prompt>>) = 1
      OBVIOUS
    <2>2. CASE devRest' \in Scripts
      BY <2>2 DEF CleanDevice
    <2>3. CASE devRest' = <<Prompt>>
      <3>1. \A i \in 1 .. Len(devRest') : i = Len(devRest')
        BY <2>1, <2>3
      <3> QED BY <2>1, <2>3, <3>1
    <2> QED BY <1>2, <2>2, <2>3
  <1>4. CallInv'
    <2>1. GivenUp' = GivenUp
      BY <1>0 DEF GivenUp, Ok
    <2> QED BY <1>0, <1>3, <2>1 DEF RpcInv, CallInv, EndsOn
  <1>5. Stream' = Stream /\ Stream \in Seq(Token)
    BY <1>0, StreamLemma DEF Stream, TypeOK
  <1>6. /\ 0 \in 0 .. Len(Stream)
        /\ Len(Stream') = Len(Stream) - 0 /\ Len(Stream') <= Len(Stream) - 0
        /\ \A i \in 1 .. Len(Stream') : Stream'[i] = Stream[0 + i]
    BY <1>5
  <1>7. PICK d0, dk, dm, dn, q0, qk, h0, hk, hm, hn \in Nat :
            Recounted(0, d0, dk, dm, dn, q0, qk, h0, hk, hm, hn)
    BY <1>6, Recount DEF RpcInv
  <1>8. /\ Ahead(dn, q0, hn) /\ Behind(d0, h0)
        /\ d0 = dk /\ q0 = qk /\ h0 = hk /\ dm = dn /\ hm = hn
        /\ Ahead(dm, qk, hm)' /\ Behind(dk, hk)' => CountInv'
    BY <1>6, <1>7 DEF Recounted
  <1>9. Behind(dk, hk)'
    BY <1>0, <1>8 DEF Behind, GivenUp, Ok, FinalToken
  <1>10. Busy = 0 /\ Busy' = 1 /\ Taken = 0 /\ Taken' = 0
    BY <1>0, <1>3 DEF Busy, Taken
  <1>11. /\ dn + Len(toDev) + q0 <= cmd + Stale
         /\ hn <= cmd
         /\ \A j \in 1 .. Len(toDev) : toDev[j].type = "cmd" =>
               /\ dn + j <= toDev[j].cmd + Stale
               /\ hn < toDev[j].cmd /\ devCmd < toDev[j].cmd /\ toDev[j].cmd <= cmd
               /\ \A i \in 1 .. (j - 1) : toDev[i].type = "cmd" => toDev[i].cmd < toDev[j].cmd
    <2>1. dn + Busy + Len(toDev) + q0 <= cmd + Stale + Taken /\ hn <= cmd
      BY <1>8 DEF Ahead
    <2>2. dn + Len(toDev) + q0 <= cmd + Stale
      BY <1>10, <2>1, LineTags
    <2>3. ASSUME NEW j \in 1 .. Len(toDev), toDev[j].type = "cmd"
          PROVE  dn + j <= toDev[j].cmd + Stale
      <3>1. dn + Busy + j <= toDev[j].cmd + Stale + Taken /\ toDev[j].cmd \in Nat /\ Stale \in Nat
        BY <1>8, <2>3, LineTags DEF Ahead
      <3> QED BY <1>10, <3>1
    <2>4. \A j \in 1 .. Len(toDev) : toDev[j].type = "cmd" =>
               /\ hn < toDev[j].cmd /\ devCmd < toDev[j].cmd /\ toDev[j].cmd <= cmd
               /\ \A i \in 1 .. (j - 1) : toDev[i].type = "cmd" => toDev[i].cmd < toDev[j].cmd
      BY <1>8 DEF Ahead
    <2> QED BY <2>1, <2>2, <2>3, <2>4
  <1>12. devCmd' # NoCmd => dn + 1 <= devCmd' + Stale /\ hn < devCmd'
    BY <1>1, <1>2, <1>11
  <1>13. devCmd' <= cmd
    BY <1>1, <1>2, <1>11, LineTags DEF NoCmd
  <1>14. ASSUME NEW j \in 1 .. Len(toDev'), toDev'[j].type = "cmd"
         PROVE  /\ dn + 1 + j <= toDev'[j].cmd + Stale + 0
                /\ hn < toDev'[j].cmd /\ devCmd' < toDev'[j].cmd /\ toDev'[j].cmd <= cmd
                /\ \A i \in 1 .. (j - 1) : toDev'[i].type = "cmd" => toDev'[i].cmd < toDev'[j].cmd
    <2>1. j + 1 \in 1 .. Len(toDev) /\ toDev'[j] = toDev[j + 1] /\ 1 \in 1 .. ((j + 1) - 1)
      BY <1>1
    <2>2. /\ dn + (j + 1) <= toDev[j + 1].cmd + Stale
          /\ hn < toDev[j + 1].cmd /\ devCmd < toDev[j + 1].cmd /\ toDev[j + 1].cmd <= cmd
          /\ \A i \in 1 .. ((j + 1) - 1) : toDev[i].type = "cmd" => toDev[i].cmd < toDev[j + 1].cmd
      BY <1>11, <1>14, <2>1
    <2>3. devCmd' < toDev[j + 1].cmd
      <3>1. CASE devCmd' = toDev[1].cmd /\ toDev[1].type = "cmd"
        BY <2>1, <2>2, <3>1
      <3>2. CASE devCmd' = NoCmd
        <4>1. devCmd \in Nat /\ toDev[j + 1].cmd \in Nat
          BY <2>1, LineTags
        <4>2. 0 < toDev[j + 1].cmd
          BY <2>2, <4>1
        <4> QED BY <3>2, <4>2 DEF NoCmd
      <3> QED BY <1>2, <3>1, <3>2
    <2>4. \A i \in 1 .. (j - 1) : i + 1 \in 1 .. ((j + 1) - 1) /\ toDev'[i] = toDev[i + 1]
      BY <1>1
    <2>5. toDev[j + 1].cmd \in Nat /\ Stale \in Nat
      BY <2>1, LineTags
    <2>6. dn + 1 + j <= toDev[j + 1].cmd + Stale + 0
      BY <2>2, <2>5
    <2> QED BY <2>1, <2>2, <2>3, <2>4, <2>6
  <1>15. dn + 1 + Len(toDev') + q0 <= cmd + Stale + 0
    BY <1>1, <1>11, LineTags
  <1>16. Ahead(dm, qk, hm)'
    BY <1>0, <1>8, <1>10, <1>11, <1>12, <1>13, <1>14, <1>15 DEF Ahead
  <1> QED BY <1>4, <1>8, <1>9, <1>16

(* The device prints a line: the end of a call at most, and its last line  *)
(* then, or a question, and then it takes one line more.                   *)
LEMMA DevPrintCounts ==
    ASSUME RpcInv, TypeOK, TypeOK', DevPrint
    PROVE  CallInv' /\ CountInv'
  <1> DEFINE e == [cmd |-> devCmd, kind |-> Head(devRest)]
             n == Len(Stream)
             ends == IF EndsOn(e.kind) THEN 1 ELSE 0
             more == IF e.kind \in Asks THEN 1 ELSE 0
  <1>0. /\ devRest # <<>> /\ ~ devAsking /\ toHost' = Append(toHost, e) /\ devRest' = Tail(devRest)
        /\ devAsking' = (e.kind \in Asks)
        /\ UNCHANGED <<pc, cmd, buffer, toDev, devCmd, results, abandoned>>
    BY DEF DevPrint, hostVars, history
  <1>1. /\ devRest \in Seq(Kind) /\ Head(devRest) \in Kind /\ Head(devRest) = devRest[1]
        /\ Len(devRest) \in Nat \ {0} /\ Len(devRest') = Len(devRest) - 1
        /\ \A i \in 1 .. (Len(devRest) - 1) : devRest'[i] = devRest[i + 1]
    BY <1>0, TailLemma DEF TypeOK
  <1>2. CallInv'
    <2>1. GivenUp' = GivenUp
      BY <1>0 DEF GivenUp, Ok
    <2>2. ASSUME NEW i \in 1 .. Len(devRest'), EndsOn(devRest'[i])
          PROVE  i = Len(devRest')
      <3>1. i + 1 \in 1 .. Len(devRest) /\ devRest'[i] = devRest[i + 1]
        BY <1>1
      <3>2. i + 1 = Len(devRest)
        BY <2>2, <3>1 DEF RpcInv, CallInv
      <3> QED BY <1>1, <3>1, <3>2
    <2>3. \A i \in 1 .. Len(devRest') : EndsOn(devRest'[i]) => i = Len(devRest')
      BY <2>2
    <2> QED BY <1>0, <2>1, <2>3 DEF RpcInv, CallInv, EndsOn
  <1>3. e \in Token /\ e.cmd = devCmd
    BY <1>1 DEF Token, TypeOK
  <1> HIDE DEF e
  <1>4. /\ Len(toHost') = Len(toHost) + 1 /\ toHost' \in Seq(Token)
        /\ \A i \in 1 .. Len(toHost) : toHost'[i] = toHost[i]
        /\ toHost'[Len(toHost) + 1] = e
        /\ toHost \in Seq(Token) /\ buffer \in Seq(Token)
    BY <1>0, <1>3, AppendLemma DEF TypeOK
  <1>5. /\ Stream \in Seq(Token) /\ n = Len(buffer) + Len(toHost)
        /\ Len(buffer) \in Nat /\ Len(toHost) \in Nat
        /\ \A i \in 1 .. Len(buffer) : Stream[i] = buffer[i]
        /\ \A i \in 1 .. Len(toHost) : Stream[Len(buffer) + i] = toHost[i]
    BY <1>4, StreamLemma DEF Stream
  <1>6. /\ Stream' \in Seq(Token) /\ Len(Stream') = Len(buffer) + Len(toHost')
        /\ \A i \in 1 .. Len(buffer) : Stream'[i] = buffer[i]
        /\ \A i \in 1 .. Len(toHost') : Stream'[Len(buffer) + i] = toHost'[i]
    BY <1>0, <1>4, StreamLemma DEF Stream
  <1>7. Len(Stream') = n + 1 /\ Stream'[n + 1] = e
    <2>1. Len(toHost) + 1 \in 1 .. Len(toHost') /\ n + 1 = Len(buffer) + (Len(toHost) + 1)
      BY <1>4, <1>5
    <2> QED BY <1>4, <1>5, <1>6, <2>1
  <1>8. ASSUME NEW i \in 1 .. n PROVE Stream'[i] = Stream[i]
    <2>1. CASE i \in 1 .. Len(buffer)
      BY <1>5, <1>6, <2>1
    <2>2. CASE i - Len(buffer) \in 1 .. Len(toHost)
      <3>1. PICK j : j = i - Len(buffer)
        OBVIOUS
      <3>2. i = Len(buffer) + j /\ j \in 1 .. Len(toHost) /\ j \in 1 .. Len(toHost')
        BY <1>4, <1>5, <2>2, <3>1
      <3>3. Stream[Len(buffer) + j] = toHost[j]
        BY <1>5, <3>2
      <3>4. Stream'[Len(buffer) + j] = toHost'[j]
        BY <1>6, <3>2
      <3>5. toHost'[j] = toHost[j]
        BY <1>4, <3>2
      <3> QED BY <3>2, <3>3, <3>4, <3>5
    <2> QED BY <1>5, <2>1, <2>2
  <1>9. PICK done, asks, tag :
            /\ Counting(Stream, done, asks, tag)
            /\ Ahead(done[n], asks[0], tag[n])
            /\ Behind(done[0], tag[0])
    BY DEF RpcInv, CountInv
  <1>10. /\ ends \in {0, 1} /\ (ends = 0 <=> ~ EndsOn(e.kind))
         /\ more \in {0, 1} /\ (more = 0 <=> e.kind \notin Asks)
    OBVIOUS
  <1>11. Busy = 1 /\ Taken = 0 /\ Taken' = more /\ Busy' \in {0, 1}
    BY <1>0 DEF Busy, Taken
  <1>12. EndsOn(e.kind) => devRest' = <<>>
    <2> SUFFICES ASSUME EndsOn(devRest[1]) PROVE devRest' = <<>>
      BY <1>1 DEF e
    <2>1. 1 \in 1 .. Len(devRest)
      BY <1>1
    <2>2. Len(devRest) = 1
      BY <2>1 DEF RpcInv, CallInv
    <2> QED BY <1>0, <1>1, <2>2
  <1>13. Busy' + ends <= 1 /\ (devRest' # <<>> => ends = 0)
    BY <1>10, <1>11, <1>12 DEF Busy
  <1> HIDE DEF n, ends, more
  <1>14. EndsOn(e.kind) /\ e.cmd # NoCmd => done[n] + 1 <= e.cmd + Stale /\ tag[n] < e.cmd
    BY <1>0, <1>3, <1>9 DEF Ahead
  <1>15. PICK done1, asks1, tag1 :
              /\ Counting(Stream', done1, asks1, tag1)
              /\ done1[0] = done[0] /\ asks1[0] = asks[0] + more /\ tag1[0] = tag[0]
              /\ done1[Len(Stream')] = done[n] + ends
              /\ tag1[Len(Stream')] = IF EndsOn(e.kind) /\ e.cmd # NoCmd THEN e.cmd ELSE tag[n]
    <2>1. PICK s, t : s = Stream /\ t = Stream'
      OBVIOUS
    <2>2. /\ s \in Seq(Token) /\ t \in Seq(Token) /\ Len(t) = Len(s) + 1
          /\ \A i \in 1 .. Len(s) : t[i] = s[i]
          /\ t[Len(s) + 1] = e /\ Counting(s, done, asks, tag)
          /\ EndsOn(e.kind) /\ e.cmd # NoCmd =>
               done[Len(s)] + 1 <= e.cmd + Stale /\ tag[Len(s)] < e.cmd
      BY <1>5, <1>6, <1>7, <1>8, <1>9, <1>14, <2>1 DEF n
    <2>3. \E done1, asks1, tag1 :
              /\ Counting(t, done1, asks1, tag1)
              /\ done1[0] = done[0] /\ asks1[0] = asks[0] + more /\ tag1[0] = tag[0]
              /\ done1[Len(t)] = done[Len(s)] + ends
              /\ tag1[Len(t)] = IF EndsOn(e.kind) /\ e.cmd # NoCmd THEN e.cmd ELSE tag[Len(s)]
      BY ONLY <2>2, <1>3, <1>10, AppendCounts
    <2> QED BY <2>1, <2>3 DEF n
  <1>16. PICK d \in Nat, q \in Nat, h \in Nat : d = done[n] /\ q = asks[0] /\ h = tag[n]
    <2>1. n \in 0 .. n /\ 0 \in 0 .. n
      BY <1>5
    <2>2. done[n] \in Nat /\ asks[0] \in Nat /\ tag[n] \in Nat
      BY <1>9, <2>1 DEF Counting, n
    <2> QED BY <2>2
  <1>17. PICK d1, q1, h1 : /\ d1 = d + ends /\ q1 = q + more
                           /\ h1 = IF EndsOn(e.kind) /\ e.cmd # NoCmd THEN devCmd ELSE h
    OBVIOUS
  <1>18. Ahead(d, q, h)
    BY <1>9, <1>16
  <1>19. /\ devCmd # NoCmd => d + 1 <= devCmd + Stale /\ h < devCmd
         /\ d + 1 + Len(toDev) + q <= cmd + Stale + 0
         /\ h <= cmd /\ devCmd <= cmd
         /\ \A j \in 1 .. Len(toDev) : toDev[j].type = "cmd" =>
               /\ d + 1 + j <= toDev[j].cmd + Stale + 0
               /\ h < toDev[j].cmd /\ devCmd < toDev[j].cmd /\ toDev[j].cmd <= cmd
               /\ \A i \in 1 .. (j - 1) : toDev[i].type = "cmd" => toDev[i].cmd < toDev[j].cmd
    BY <1>0, <1>11, <1>18 DEF Ahead
  <1>20. devRest' # <<>> /\ devCmd # NoCmd => d1 + 1 <= devCmd + Stale /\ h1 < devCmd
    <2> SUFFICES ASSUME devRest' # <<>>, devCmd # NoCmd PROVE d1 + 1 <= devCmd + Stale /\ h1 < devCmd
      OBVIOUS
    <2>1. ends = 0 /\ ~ EndsOn(e.kind)
      BY <1>10, <1>13
    <2>2. d1 = d /\ h1 = h
      BY <1>17, <2>1
    <2> QED BY <1>19, <2>2
  <1>21. ASSUME NEW j \in 1 .. Len(toDev), toDev[j].type = "cmd"
         PROVE  d1 + Busy' + j <= toDev[j].cmd + Stale + more /\ h1 < toDev[j].cmd
    <2>1. /\ d + 1 + j <= toDev[j].cmd + Stale + 0
          /\ h < toDev[j].cmd /\ devCmd < toDev[j].cmd
      BY <1>19, <1>21
    <2>2. toDev[j].cmd \in Nat /\ Stale \in Nat
      BY LineTags
    <2>3. d1 + Busy' + j <= toDev[j].cmd + Stale + more
      <3>1. \A x, b, m \in {0, 1} : \A c \in Nat :
                b + x <= 1 /\ d + 1 + j <= c + Stale + 0 => (d + x) + b + j <= c + Stale + m
        BY <2>2
      <3> QED BY <1>10, <1>11, <1>13, <1>17, <2>1, <2>2, <3>1
    <2>4. h1 < toDev[j].cmd
      BY <1>17, <2>1
    <2> QED BY <2>3, <2>4
  <1>22. d1 + Busy' + Len(toDev) + q1 <= cmd + Stale + more
    <2>1. cmd \in Nat /\ Stale \in Nat /\ Len(toDev) \in Nat
      BY LineTags
    <2>2. d + 1 + Len(toDev) + q <= cmd + Stale + 0
      BY <1>19
    <2>3. \A x, b, m \in {0, 1} : \A n1 \in Nat :
              b + x <= 1 /\ d + 1 + n1 + q <= cmd + Stale + 0
                => (d + x) + b + n1 + (q + m) <= cmd + Stale + m
      BY <2>1
    <2> QED BY <1>10, <1>11, <1>13, <1>17, <2>1, <2>2, <2>3
  <1>23. h1 <= cmd
    BY <1>17, <1>19
  <1>24. Ahead(d1, q1, h1)'
    BY <1>0, <1>11, <1>19, <1>20, <1>21, <1>22, <1>23 DEF Ahead
  <1>25. Behind(done[0], tag[0])'
    BY <1>0, <1>9 DEF Behind, GivenUp, Ok, FinalToken
  <1>26. d1 = done1[Len(Stream')] /\ q1 = asks1[0] /\ h1 = tag1[Len(Stream')]
    BY <1>3, <1>15, <1>16, <1>17
  <1>27. CountInv'
    BY <1>15, <1>24, <1>25, <1>26 DEF CountInv
  <1> QED BY <1>2, <1>27

(* The device takes the next line for the answer to its question.          *)
LEMMA DevAnswerCounts ==
    ASSUME RpcInv, TypeOK, TypeOK', DevAnswer
    PROVE  CallInv' /\ CountInv'
  <1>0. /\ devAsking /\ ~ devAsking' /\ toDev # <<>> /\ toDev' = Tail(toDev)
        /\ UNCHANGED <<pc, cmd, buffer, toHost, devCmd, devRest, results, abandoned>>
    BY DEF DevAnswer, hostVars
  <1>1. /\ Len(toDev) \in Nat \ {0} /\ Len(toDev') = Len(toDev) - 1
        /\ \A i \in 1 .. (Len(toDev) - 1) : toDev'[i] = toDev[i + 1]
    BY <1>0, LineTags, TailLemma
  <1>4. CallInv'
    <2>1. GivenUp' = GivenUp
      BY <1>0 DEF GivenUp, Ok
    <2> QED BY <1>0, <2>1 DEF RpcInv, CallInv
  <1>5. Stream' = Stream /\ Stream \in Seq(Token)
    BY <1>0, StreamLemma DEF Stream, TypeOK
  <1>6. /\ 0 \in 0 .. Len(Stream)
        /\ Len(Stream') = Len(Stream) - 0 /\ Len(Stream') <= Len(Stream) - 0
        /\ \A i \in 1 .. Len(Stream') : Stream'[i] = Stream[0 + i]
    BY <1>5
  <1>7. PICK d0, dk, dm, dn, q0, qk, h0, hk, hm, hn \in Nat :
            Recounted(0, d0, dk, dm, dn, q0, qk, h0, hk, hm, hn)
    BY <1>6, Recount DEF RpcInv
  <1>8. /\ Ahead(dn, q0, hn) /\ Behind(d0, h0)
        /\ d0 = dk /\ q0 = qk /\ h0 = hk /\ dm = dn /\ hm = hn
        /\ Ahead(dm, qk, hm)' /\ Behind(dk, hk)' => CountInv'
    BY <1>6, <1>7 DEF Recounted
  <1>9. Behind(dk, hk)'
    BY <1>0, <1>8 DEF Behind, GivenUp, Ok, FinalToken
  <1>10. Busy' = Busy /\ Taken = 1 /\ Taken' = 0
    BY <1>0 DEF Busy, Taken
  <1>11. /\ devRest # <<>> /\ devCmd # NoCmd => dn + 1 <= devCmd + Stale /\ hn < devCmd
         /\ dn + Busy + Len(toDev) + q0 <= cmd + Stale + 1
         /\ hn <= cmd /\ devCmd <= cmd
         /\ \A j \in 1 .. Len(toDev) : toDev[j].type = "cmd" =>
               /\ dn + Busy + j <= toDev[j].cmd + Stale + 1
               /\ hn < toDev[j].cmd /\ devCmd < toDev[j].cmd /\ toDev[j].cmd <= cmd
               /\ \A i \in 1 .. (j - 1) : toDev[i].type = "cmd" => toDev[i].cmd < toDev[j].cmd
    BY <1>8, <1>10 DEF Ahead
  <1>12. ASSUME NEW j \in 1 .. Len(toDev'), toDev'[j].type = "cmd"
         PROVE  /\ dn + Busy + j <= toDev'[j].cmd + Stale + 0
                /\ hn < toDev'[j].cmd /\ devCmd < toDev'[j].cmd /\ toDev'[j].cmd <= cmd
                /\ \A i \in 1 .. (j - 1) : toDev'[i].type = "cmd" => toDev'[i].cmd < toDev'[j].cmd
    <2>1. j + 1 \in 1 .. Len(toDev) /\ toDev'[j] = toDev[j + 1]
      BY <1>1
    <2>2. /\ dn + Busy + (j + 1) <= toDev[j + 1].cmd + Stale + 1
          /\ hn < toDev[j + 1].cmd /\ devCmd < toDev[j + 1].cmd /\ toDev[j + 1].cmd <= cmd
          /\ \A i \in 1 .. ((j + 1) - 1) : toDev[i].type = "cmd" => toDev[i].cmd < toDev[j + 1].cmd
      BY <1>11, <1>12, <2>1
    <2>3. toDev[j + 1].cmd \in Nat /\ Stale \in Nat /\ Busy \in {0, 1}
      BY <2>1, LineTags
    <2>4. dn + Busy + j <= toDev[j + 1].cmd + Stale + 0
      BY <2>2, <2>3, SMTT(40)
    <2>5. \A i \in 1 .. (j - 1) : i + 1 \in 1 .. ((j + 1) - 1) /\ toDev'[i] = toDev[i + 1]
      BY <1>1
    <2> QED BY <2>1, <2>2, <2>4, <2>5
  <1>13. dn + Busy + Len(toDev') + q0 <= cmd + Stale + 0
    <2>1. cmd \in Nat /\ Stale \in Nat /\ Busy \in {0, 1}
      BY LineTags
    <2> QED BY <1>1, <1>11, <2>1
  <1>14. Ahead(dm, qk, hm)'
    BY <1>0, <1>8, <1>10, <1>11, <1>12, <1>13 DEF Ahead
  <1> QED BY <1>4, <1>8, <1>9, <1>14

(* What was in flight on a transport that fails is lost on both sides.     *)
LEMMA LinkDownCounts ==
    ASSUME RpcInv, TypeOK, TypeOK', LinkDown
    PROVE  CallInv' /\ CountInv'
  <1>0. /\ toHost' = <<>> /\ toDev' = <<>>
        /\ UNCHANGED <<pc, cmd, buffer, devCmd, devRest, devAsking, results, abandoned>>
    BY DEF LinkDown, hostVars, devVars, history
  <1>1. CallInv'
    <2>1. GivenUp' = GivenUp
      BY <1>0 DEF GivenUp, Ok
    <2> QED BY <1>0, <2>1 DEF RpcInv, CallInv
  <1>2. Stream' = buffer
    BY <1>0 DEF Stream, TypeOK
  <1>3. /\ Len(Stream) = Len(buffer) + Len(toHost) /\ Len(buffer) \in Nat /\ Len(toHost) \in Nat
        /\ \A i \in 1 .. Len(buffer) : Stream[i] = buffer[i]
    BY StreamLemma DEF Stream, TypeOK
  <1>4. /\ 0 \in 0 .. Len(Stream) /\ Len(Stream') <= Len(Stream) - 0
        /\ \A i \in 1 .. Len(Stream') : Stream'[i] = Stream[0 + i]
    BY <1>2, <1>3
  <1>5. PICK d0, dk, dm, dn, q0, qk, h0, hk, hm, hn \in Nat :
            Recounted(0, d0, dk, dm, dn, q0, qk, h0, hk, hm, hn)
    BY <1>4, Recount DEF RpcInv
  <1>6. /\ Ahead(dn, q0, hn) /\ Behind(d0, h0)
        /\ d0 = dk /\ q0 = qk /\ h0 = hk /\ dm <= dn /\ hm <= hn
        /\ Ahead(dm, qk, hm)' /\ Behind(dk, hk)' => CountInv'
    BY <1>5 DEF Recounted
  <1>7. Behind(dk, hk)'
    BY <1>0, <1>6 DEF Behind, GivenUp, Ok, FinalToken
  <1>8. /\ Busy' = Busy /\ Taken' = Taken /\ Len(toDev') = 0
        /\ cmd \in Nat /\ devCmd \in Nat /\ Stale \in Nat /\ Len(toDev) \in Nat
        /\ Busy \in {0, 1} /\ Taken \in {0, 1}
    BY <1>0, LineTags DEF Busy, Taken
  <1>9. /\ devRest # <<>> /\ devCmd # NoCmd => dn + 1 <= devCmd + Stale /\ hn < devCmd
        /\ dn + Busy + Len(toDev) + q0 <= cmd + Stale + Taken
        /\ hn <= cmd /\ devCmd <= cmd
    BY <1>6 DEF Ahead
  <1>10. /\ devRest # <<>> /\ devCmd # NoCmd => dm + 1 <= devCmd + Stale /\ hm < devCmd
         /\ dm + Busy + 0 + qk <= cmd + Stale + Taken
         /\ hm <= cmd
    BY <1>6, <1>8, <1>9
  <1>11. Ahead(dm, qk, hm)'
    <2>1. \A j \in 1 .. Len(toDev') : FALSE
      BY <1>8
    <2> QED BY <1>0, <1>8, <1>9, <1>10, <2>1 DEF Ahead
  <1> QED BY <1>1, <1>6, <1>7, <1>11

(* A step that changes nothing keeps the numbers.                          *)
LEMMA StutterCounts ==
    ASSUME RpcInv, UNCHANGED vars
    PROVE  CallInv' /\ CountInv'
  <1>0. UNCHANGED <<pc, cmd, buffer, toHost, toDev, devCmd, devRest, devAsking, results, abandoned>>
    BY DEF vars, hostVars, devVars, history
  <1>1. CallInv'
    BY <1>0 DEF RpcInv, CallInv, GivenUp, Ok
  <1>2. CountInv'
    <2>1. PICK done, asks, tag :
              /\ Counting(Stream, done, asks, tag)
              /\ Ahead(done[Len(Stream)], asks[0], tag[Len(Stream)])
              /\ Behind(done[0], tag[0])
      BY DEF RpcInv, CountInv
    <2>2. Stream' = Stream
      BY <1>0 DEF Stream
    <2>3. PICK d, q, h : d = done[Len(Stream)] /\ q = asks[0] /\ h = tag[Len(Stream)]
      OBVIOUS
    <2>4. Ahead(d, q, h)'
      BY <1>0, <2>1, <2>3 DEF Ahead, Busy, Taken
    <2>5. Behind(done[0], tag[0])'
      BY <1>0, <2>1 DEF Behind, GivenUp, Ok, FinalToken
    <2> QED BY <2>1, <2>2, <2>3, <2>4, <2>5 DEF CountInv
  <1> QED BY <1>1, <1>2

-----------------------------------------------------------------------------
(* The session as calls and replies: no step makes more than one of them.  *)
Reply(i) == [outcome |-> results[i].outcome,
             from |-> IF Ok(i) THEN FinalToken(i).cmd ELSE NoReply]
Replies == [i \in DOMAIN results |-> Reply(i)]

(* What appending to a sequence is, element by element.                    *)
Appended(f, n, e) == [i \in 1 .. (n + 1) |-> IF i = n + 1 THEN e ELSE f[i]]

(* ... and that it is that.                                                *)
LEMMA AppendedLemma ==
    ASSUME NEW S, NEW n \in Nat, NEW f \in [1 .. n -> S], NEW e
    PROVE  Append(f, e) = Appended(f, n, e)
  <1>1. f \in Seq(S) /\ Len(f) = n
    BY ElementsLemma
  <1> DEFINE g == [i \in 1 .. (n + 1) |-> IF i = n + 1 THEN e ELSE f[i]]
             T == S \cup {e}
  <1>2. f \in Seq(T) /\ e \in T
    BY <1>1
  <1> HIDE DEF T
  <1>3. /\ Append(f, e) \in Seq(T) /\ Len(Append(f, e)) = n + 1
        /\ \A i \in 1 .. n : Append(f, e)[i] = f[i]
        /\ Append(f, e)[n + 1] = e
    BY <1>1, <1>2, AppendLemma
  <1>4. \A i \in 1 .. n : f[i] \in T
    BY <1>1, <1>2
  <1>5. g \in [1 .. (n + 1) -> T]
    BY <1>2, <1>4
  <1>6. /\ g \in Seq(T) /\ Len(g) = n + 1
        /\ \A i \in 1 .. n : g[i] = f[i]
        /\ g[n + 1] = e
    BY <1>5, ElementsLemma
  <1> HIDE DEF g
  <1>7. \A i \in 1 .. (n + 1) : Append(f, e)[i] = g[i]
    BY <1>3, <1>6
  <1>8. Append(f, e) = g
    BY <1>3, <1>6, <1>7, SeqEqual
  <1> QED BY <1>8 DEF g, Appended

(* A result recorded is a reply made.                                      *)
LEMMA RepliesLemma ==
    ASSUME TypeOK, NEW res \in Result, results' = Append(results, res),
           NEW from, from = IF res.outcome = "ok" THEN res.out[Len(res.out)].cmd ELSE NoReply
    PROVE  Replies' = Append(Replies, [outcome |-> res.outcome, from |-> from])
  <1>0. PICK n \in Nat : n = Len(results)
    BY DEF TypeOK
  <1>1. /\ Len(results') = n + 1
        /\ DOMAIN results' = DOMAIN results \cup {n + 1}
        /\ results'[n + 1] = res
        /\ \A i \in DOMAIN results : results'[i] = results[i]
    BY <1>0, ReplyLemma
  <1>2. DOMAIN results = 1 .. n /\ DOMAIN results' = 1 .. (n + 1)
    BY <1>0, <1>1 DEF TypeOK
  <1>3. Replies = [i \in 1 .. n |-> Reply(i)] /\ Replies' = [i \in 1 .. (n + 1) |-> Reply(i)']
    BY <1>2 DEF Replies
  <1> DEFINE new == [outcome |-> res.outcome, from |-> from]
  <1>4. Reply(n + 1)' = new
    BY <1>1 DEF Reply, Ok, FinalToken, NoReply
  <1>5. \A i \in 1 .. n : Reply(i)' = Reply(i)
    BY <1>1, <1>2 DEF Reply, Ok, FinalToken, NoReply
  <1> HIDE DEF new
  <1>6. PICK S : Replies \in [1 .. n -> S]
    <2>1. Replies \in [1 .. n -> {Reply(i) : i \in 1 .. n}]
      BY <1>3
    <2> QED BY <2>1
  <1>7. Append(Replies, new) = [i \in 1 .. (n + 1) |-> IF i = n + 1 THEN new ELSE Replies[i]]
    <2>1. PICK f, e : f = Replies /\ e = new
      OBVIOUS
    <2>2. f \in [1 .. n -> S] /\ n \in Nat
      BY <1>6, <2>1
    <2>3. Append(f, e) = Appended(f, n, e)
      BY ONLY <2>2, AppendedLemma
    <2> QED BY <2>1, <2>3 DEF Appended
  <1>8. \A i \in 1 .. (n + 1) : i = n + 1 \/ i \in 1 .. n
    OBVIOUS
  <1>9. ASSUME NEW i \in 1 .. (n + 1)
        PROVE  Reply(i)' = IF i = n + 1 THEN new ELSE Replies[i]
    <2>1. CASE i = n + 1
      BY <1>4, <2>1
    <2>2. CASE i # n + 1
      BY <1>3, <1>5, <1>8, <2>2
    <2> QED BY <2>1, <2>2
  <1>10. Replies' = [i \in 1 .. (n + 1) |-> IF i = n + 1 THEN new ELSE Replies[i]]
    BY <1>3, <1>9
  <1> QED BY <1>7, <1>10 DEF new

(* The sizes CommandRpc speaks of are sizes.                               *)
LEMMA RpcCardinality == \A S : Rpc!Cardinality(S) = Cardinality(S)
  BY DEF Rpc!Cardinality, Cardinality, Rpc!IsFiniteSet, IsFiniteSet

(* The calls given up, and the tags delivered, are those of the replies.   *)
LEMMA RpcReplies ==
    /\ Rpc!GivenUp = GivenUp
    /\ \A d \in Rpc!Delivered : \E i \in DOMAIN results : Ok(i) /\ d = FinalToken(i).cmd
  <1>1. Rpc!GivenUp = GivenUp
    BY DEF Rpc!GivenUp, GivenUp, Ok
  <1>2. ASSUME NEW d \in Rpc!Delivered
        PROVE  \E i \in DOMAIN results : Ok(i) /\ d = FinalToken(i).cmd
    <2>1. PICK i \in DOMAIN results \ Rpc!GivenUp :
              d = [outcome |-> results[i].outcome,
                   from |-> IF Ok(i) THEN FinalToken(i).cmd ELSE NoReply].from
      BY <1>2 DEF Rpc!Delivered
    <2>2. Ok(i)
      BY <1>1, <2>1 DEF GivenUp
    <2> QED BY <2>1, <2>2
  <1> QED BY <1>1, <1>2

(* A reply that comes in time, or late by no more than what was given up.  *)
LEMMA ReplyOkLemma ==
    ASSUME SessionInv, RpcInv, pc = "run", pc' = "idle", UNCHANGED cmd,
           NEW p \in DOMAIN buffer,
           results' = Append(results, [cmd |-> cmd, outcome |-> "ok", out |-> SubSeq(buffer, 1, p)]),
           buffer[p].cmd # NoCmd =>
                 /\ buffer[p].cmd \in 1 .. cmd
                 /\ \A i \in DOMAIN results : Ok(i) => FinalToken(i).cmd < buffer[p].cmd
                 /\ cmd - buffer[p].cmd <= Stale + Cardinality(GivenUp)
    PROVE  Rpc!ReplyOk
  <1> DEFINE res == [cmd |-> cmd, outcome |-> "ok", out |-> SubSeq(buffer, 1, p)]
             c == buffer[p].cmd
  <1>1. /\ TypeOK /\ buffer \in Seq(Token) /\ p \in 1 .. Len(buffer) /\ p \in 0 .. Len(buffer)
        /\ p \in 1 .. p
    <2>1. TypeOK /\ buffer \in Seq(Token)
      BY DEF SessionInv, TypeOK
    <2> QED BY <2>1
  <1>2. /\ SubSeq(buffer, 1, p) \in Seq(Token) /\ Len(SubSeq(buffer, 1, p)) = p
        /\ SubSeq(buffer, 1, p)[p] = buffer[p]
    BY <1>1, PrefixLemma
  <1>3. res \in Result
    BY <1>1, <1>2 DEF Result, TypeOK
  <1>4. Replies' = Append(Replies, [outcome |-> "ok", from |-> c])
    <2>1. res.outcome = "ok" /\ res.out[Len(res.out)].cmd = c
      BY <1>2
    <2> QED BY <1>1, <1>3, <2>1, RepliesLemma
  <1>5. PICK m : m = c
    OBVIOUS
  <1>6. ASSUME c = NoCmd PROVE Rpc!Slips > 0
    <2>1. Cardinality(GivenUp) \in Nat /\ IsFiniteSet(GivenUp) /\ Stale \in Nat
      BY <1>1, GivenUpLemma, SessionAssumption
    <2> SUFFICES ASSUME Stale = 0, Cardinality(GivenUp) = 0 PROVE FALSE
      BY <2>1, RpcReplies, RpcCardinality DEF Rpc!Slips
    <2>2. abandoned = {}
      BY <2>1, FS_EmptySet DEF RpcInv, CallInv
    <2>3. c = cmd
      BY <1>1, <2>2 DEF SessionInv, BufferInv, InStep
    <2> QED BY <1>6, <2>3, SessionAssumption DEF SessionInv, AbandonedInv, NoCmd
  <1>7. ASSUME c # NoCmd
        PROVE  /\ c \in 1 .. cmd
               /\ \A d \in Rpc!Delivered : d < c
               /\ cmd - c <= Rpc!Slips
    BY <1>7, RpcReplies, RpcCardinality DEF Rpc!Slips
  <1>a. (pc = "run")' = FALSE
    <2>1. pc' # "run"
      OBVIOUS
    <2> QED BY <2>1
  <1>8. CASE c = NoCmd
    <2>1. Rpc!Replied("ok", 0)
      BY <1>4, <1>8 DEF Rpc!Replied, Replies, Reply, NoCmd
    <2> QED BY <1>6, <1>8, <1>a, <2>1 DEF Rpc!ReplyOk
  <1>9. CASE c # NoCmd
    <2>1. Rpc!Replied("ok", m)
      BY <1>4, <1>5 DEF Rpc!Replied, Replies, Reply
    <2>2. /\ m \in 1 .. cmd
          /\ \A d \in Rpc!Delivered : d < m
          /\ cmd - m <= Rpc!Slips
      BY <1>5, <1>7, <1>9
    <2> QED BY <1>a, <2>1, <2>2 DEF Rpc!ReplyOk
  <1> QED BY <1>8, <1>9

(* A call given up, or never sent, is replied to with its failure.         *)
LEMMA FailureReplied ==
    ASSUME TypeOK, NEW c \in CmdId, NEW outcome \in {"timeout", "error"},
           results' = Append(results, [cmd |-> c, outcome |-> outcome, out |-> <<>>])
    PROVE  Rpc!Replied(outcome, Rpc!NoReply)
  <1> DEFINE res == [cmd |-> c, outcome |-> outcome, out |-> <<>>]
  <1>1. res \in Result /\ res.outcome # "ok" /\ res.outcome = outcome
    BY DEF Result
  <1>2. Replies' = Append(Replies, [outcome |-> outcome, from |-> NoReply])
    BY <1>1, RepliesLemma
  <1> QED BY <1>2 DEF Rpc!Replied, Rpc!NoReply, Replies, Reply, NoReply

(* At first nothing was called and nothing replied; the prompts that login *)
(* left in the stream are answers to no call.                              *)
LEMMA RpcInitially == Init => RpcInv /\ Rpc!Init
  <1> SUFFICES ASSUME Init PROVE RpcInv /\ Rpc!Init
    OBVIOUS
  <1>1. SessionInv /\ TypeOK
    BY SessionInit, TypeInit
  <1>2. CallInv
    BY DEF Init, CallInv, GivenUp
  <1>3. /\ Stream \in Seq(Token) /\ Len(Stream) = Stale /\ Stale \in Nat
        /\ \A i \in 1 .. Stale : Stream[i].cmd = NoCmd /\ Stream[i].kind \notin Asks
    <2>1. /\ toHost \in Seq(Token) /\ Len(toHost) = Stale /\ Stale \in Nat
          /\ \A i \in 1 .. Stale : toHost[i] = [cmd |-> NoCmd, kind |-> Prompt]
      BY <1>1, SessionAssumption DEF Init, TypeOK
    <2>2. Stream = toHost
      BY <2>1 DEF Init, Stream
    <2> QED BY <2>1, <2>2, SessionAssumption
  <1> DEFINE done == [i \in 0 .. Stale |-> i]
             none == [i \in 0 .. Stale |-> 0]
  <1>4. Counting(Stream, done, none, none)
    <2>1. \A i \in 0 .. Stale : done[i] = i /\ none[i] = 0
      OBVIOUS
    <2>2. done \in [0 .. Stale -> Nat] /\ none \in [0 .. Stale -> Nat]
      BY <1>3
    <2> HIDE DEF done, none
    <2>3. \A i, j \in 0 .. Stale : i < j => j \in 1 .. Stale
      BY <1>3
    <2> QED BY <1>3, <2>1, <2>2, <2>3 DEF Counting
  <1>5. Ahead(done[Len(Stream)], none[0], none[Len(Stream)])
    <2>1. Busy = 0 /\ Taken = 0 /\ Len(toDev) = 0 /\ devRest = <<>> /\ cmd = 0 /\ devCmd = 0
      BY DEF Init, Busy, Taken, NoCmd
    <2>2. done[Len(Stream)] = Stale /\ none[0] = 0 /\ none[Len(Stream)] = 0
      BY <1>3
    <2> HIDE DEF done, none
    <2> QED BY <1>3, <2>1, <2>2 DEF Ahead
  <1>6. Behind(done[0], none[0])
    <2>1. results = <<>> /\ done[0] = 0
      BY <1>3 DEF Init
    <2>2. Cardinality(GivenUp) \in Nat
      BY <1>1, GivenUpLemma
    <2> QED BY <2>1, <2>2 DEF Behind
  <1>7. CountInv
    BY <1>4, <1>5, <1>6 DEF CountInv
  <1>8. Rpc!Init
    <2>1. results = <<>> /\ DOMAIN results = 1 .. 0
      BY DEF Init
    <2>2. Replies = <<>>
      BY <2>1 DEF Replies
    <2> QED BY <2>2 DEF Init, Rpc!Init, Replies, Reply
  <1> QED BY <1>1, <1>2, <1>7, <1>8 DEF RpcInv

(* Every step keeps the numbers, and is a step of the calls and replies.   *)
LEMMA RpcStep ==
    ASSUME RpcInv, CleanDevice, [Next]_vars
    PROVE  RpcInv' /\ [Rpc!Next]_(Rpc!vars)
  <1>1. SessionInv /\ SessionInv' /\ TypeOK /\ TypeOK'
    BY SessionStep DEF RpcInv, SessionInv
  <1> SUFFICES CallInv' /\ CountInv' /\ [Rpc!Next]_(Rpc!vars)
    BY <1>1 DEF RpcInv
  <1>2. MaxCmds \in Nat /\ cmd \in CmdId
    BY <1>1, SessionAssumption DEF TypeOK
  (* A step that neither calls nor replies. *)
  <1>3. ASSUME UNCHANGED <<pc, cmd, results>> PROVE UNCHANGED Rpc!vars
    BY <1>3 DEF Rpc!vars, Ok, FinalToken
  (* The three ways to give up. *)
  <1>4. ASSUME pc = "run", NEW outcome \in {"timeout", "error"}, Return(outcome, <<>>),
               abandoned' \subseteq abandoned \cup {cmd},
               UNCHANGED <<cmd, toHost, toDev, devVars>>
        PROVE  CallInv' /\ CountInv' /\ Rpc!GiveUp
    <2>1. CallInv' /\ CountInv'
      BY <1>1, <1>4, GiveUpCounts DEF devVars
    <2>2. Rpc!Replied(outcome, Rpc!NoReply)
      BY <1>1, <1>2, <1>4, FailureReplied DEF Return
    <2>3. (pc = "run")' = FALSE
      <3>1. pc' # "run"
        BY <1>4 DEF Return
      <3> QED BY <3>1
    <2> QED BY <1>4, <2>1, <2>2, <2>3 DEF Rpc!GiveUp
  <1>5. CASE RunCmd
    <2>1. CallInv' /\ CountInv'
      BY <1>1, <1>5, RunCmdCounts
    <2>2. Rpc!Call
      <3>1. pc # "run" /\ pc' = "run" /\ cmd < MaxCmds /\ cmd' = cmd + 1 /\ results' = results
        BY <1>5 DEF RunCmd, history
      <3>2. (pc = "run") = FALSE /\ (pc = "run")' = TRUE
        BY <3>1
      <3> QED BY <3>1, <3>2 DEF Rpc!Call, Ok, FinalToken
    <2> QED BY <2>1, <2>2 DEF Rpc!Next
  <1>6. CASE RunCmdFails
    <2>1. CallInv' /\ CountInv'
      BY <1>1, <1>6, RunCmdFailsCounts
    <2>2. Rpc!CallFails
      <3>1. /\ pc # "run" /\ pc' = pc /\ cmd < MaxCmds /\ cmd' = cmd + 1
            /\ results' = Append(results, [cmd |-> cmd + 1, outcome |-> "error", out |-> <<>>])
        BY <1>6 DEF RunCmdFails
      <3>2. cmd + 1 \in CmdId
        BY <1>2, <3>1 DEF CmdId
      <3>3. Rpc!Replied("error", Rpc!NoReply)
        BY <1>1, <3>1, <3>2, FailureReplied
      <3>4. (pc = "run")' = (pc = "run")
        BY <3>1
      <3> QED BY <3>1, <3>3, <3>4 DEF Rpc!CallFails
    <2> QED BY <2>1, <2>2 DEF Rpc!Next
  <1>7. CASE FeedDone
    <2>1. PICK i \in DOMAIN Template[fsm], p \in DOMAIN buffer :
              /\ Fires(Template, fsm, buffer, i, p) /\ Rule(i).act = "Done"
              /\ Return("ok", SubSeq(buffer, 1, p))
      BY <1>7 DEF FeedDone
    <2>2. EndsOn(buffer[p].kind)
      BY <1>1, <2>1, FiringLemma
    <2>3. pc = "run" /\ UNCHANGED <<cmd, toHost, toDev, devCmd, devRest, devAsking, abandoned>>
      BY <1>7 DEF FeedDone, devVars
    <2>4. /\ CallInv' /\ CountInv'
          /\ buffer[p].cmd # NoCmd =>
                /\ buffer[p].cmd \in 1 .. cmd
                /\ \A j \in DOMAIN results : Ok(j) => FinalToken(j).cmd < buffer[p].cmd
                /\ cmd - buffer[p].cmd <= Stale + Cardinality(GivenUp)
      BY <1>1, <2>1, <2>2, <2>3, FeedDoneCounts
    <2>5. Rpc!ReplyOk
      BY <1>1, <2>1, <2>3, <2>4, ReplyOkLemma DEF Return
    <2> QED BY <2>4, <2>5 DEF Rpc!Next
  <1>8. CASE FeedSend
    <2>1. PICK i \in DOMAIN Template[fsm], p \in DOMAIN buffer :
              /\ Fires(Template, fsm, buffer, i, p) /\ Rule(i).act = "Send"
              /\ buffer' = DrainFront(buffer, p)
      BY <1>8 DEF FeedSend
    <2>2. buffer[p].kind \in Asks
      BY <1>1, <2>1, FiringLemma DEF CleanDevice
    <2>3. /\ pc = "run" /\ pc' = "run" /\ toDev' = Append(toDev, [type |-> "answer", cmd |-> cmd])
          /\ UNCHANGED <<cmd, toHost, devCmd, devRest, devAsking, results, abandoned>>
      BY <1>8 DEF FeedSend, devVars, history
    <2>4. CallInv' /\ CountInv'
      BY <1>1, <2>1, <2>2, <2>3, FeedSendCounts
    <2> QED BY <1>3, <2>3, <2>4
  <1>9. CASE FeedError
    <2>1. /\ pc = "run" /\ Return("error", <<>>) /\ abandoned' = abandoned \cup {cmd}
          /\ UNCHANGED <<cmd, toHost, toDev, devVars>>
      BY <1>9 DEF FeedError
    <2> QED BY <1>4, <2>1 DEF Rpc!Next
  <1>10. CASE Receive
    <2>1. CallInv' /\ CountInv'
      BY <1>1, <1>10, ReceiveCounts
    <2> QED BY <1>3, <1>10, <2>1 DEF Receive, history
  <1>11. CASE TransportError
    <2>1. /\ pc = "run" /\ Return("error", <<>>) /\ abandoned' = abandoned
          /\ UNCHANGED <<cmd, toHost, toDev, devVars>>
      BY <1>11 DEF TransportError
    <2> QED BY <1>4, <2>1 DEF Rpc!Next
  <1>12. CASE Timeout
    <2>1. /\ pc = "run" /\ Return("timeout", <<>>) /\ abandoned' = abandoned \cup {cmd}
          /\ UNCHANGED <<cmd, toHost, toDev, devVars>>
      BY <1>12 DEF Timeout
    <2> QED BY <1>4, <2>1 DEF Rpc!Next
  <1>13. CASE DevCommand
    <2>1. CallInv' /\ CountInv'
      BY <1>1, <1>13, DevCommandCounts
    <2> QED BY <1>3, <1>13, <2>1 DEF DevCommand, hostVars, history
  <1>14. CASE DevPrint
    <2>1. CallInv' /\ CountInv'
      BY <1>1, <1>14, DevPrintCounts
    <2> QED BY <1>3, <1>14, <2>1 DEF DevPrint, hostVars, history
  <1>15. CASE DevAnswer
    <2>1. CallInv' /\ CountInv'
      BY <1>1, <1>15, DevAnswerCounts
    <2> QED BY <1>3, <1>15, <2>1 DEF DevAnswer, hostVars
  <1>16. CASE LinkDown
    <2>1. CallInv' /\ CountInv'
      BY <1>1, <1>16, LinkDownCounts
    <2> QED BY <1>3, <1>16, <2>1 DEF LinkDown, hostVars, history
  <1>17. CASE UNCHANGED vars
    <2>1. CallInv' /\ CountInv'
      BY <1>17, StutterCounts
    <2> QED BY <1>3, <1>17, <2>1 DEF vars, hostVars, history
  <1> QED BY <1>5, <1>6, <1>7, <1>8, <1>9, <1>10, <1>11, <1>12, <1>13, <1>14, <1>15, <1>16, <1>17
             DEF Next, Client, Device, Finished

(* On such a device run_cmd keeps what CommandRpc promises its caller,     *)
(* whatever the template, the delays and the failures, and however many    *)
(* commands were given up before: each call is replied to once, the answer *)
(* to a call comes after those to earlier calls, and it is late by at most *)
(* one call for every call given up and every prompt login left behind.    *)
THEOREM SessionImplementsRpc ==
    ASSUME CleanDevice
    PROVE  Spec => RpcSpec
  <1>1. Init => RpcInv /\ Rpc!Init
    BY RpcInitially
  <1>2. RpcInv /\ [Next]_vars => RpcInv' /\ [Rpc!Next]_(Rpc!vars)
    BY RpcStep
  <1> QED BY <1>1, <1>2, PTL DEF Spec, RpcSpec, Rpc!Spec
=============================================================================
