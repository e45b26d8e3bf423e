----------------------------- MODULE CliSession ------------------------------
(***************************************************************************)
(* A GenericCliConn running commands on a device over one byte stream.     *)
(*                                                                         *)
(* run_cmd() and run_cmd_with_template() send a command line, then loop:   *)
(* check the deadline, feed() the buffer to a fresh template engine, and   *)
(* send an answer, finish, fail, or receive another chunk.  Nothing in the *)
(* stream says which command a line of output belongs to; the tokens here  *)
(* carry that tag only so that properties can speak about it.              *)
(*                                                                         *)
(* The device (external, known from how the code uses it) reads lines in   *)
(* order.  A command line makes it print one of Scripts; after a token of  *)
(* a kind in Asks it waits for a line and takes whatever line comes next   *)
(* as the answer; an answer that comes when it asked nothing is an empty   *)
(* command and costs one more prompt.                                      *)
(***************************************************************************)
EXTENDS Naturals, Sequences, FiniteSets, TextFsmFeed

CONSTANTS
    Kind,        \* classes of output lines
    Asks,        \* the kinds after which the device waits for a line
    Prompt,      \* the kind of the prompt a device prints when it is idle
    Scripts,     \* what a command can print, prompt included
    Template,    \* the template of the connection: state -> rules
    Start,       \* its initial state
    MaxCmds,     \* bound: commands run in one session
    Stale,       \* prompts still in flight when the session is handed over
    MayTimeout,  \* may the device be slower than cmd_timeout?
    MayDrop      \* may the transport fail?

State == DOMAIN Template

ASSUME SessionAssumption ==
    /\ Asks \subseteq Kind /\ Prompt \in Kind \ Asks
    /\ Scripts \subseteq Seq(Kind)
    /\ \A s \in State : Template[s] \in Seq(RuleType(Kind, State))
    /\ Start \in State
    /\ MaxCmds \in Nat /\ Stale \in Nat
    /\ MayTimeout \in BOOLEAN /\ MayDrop \in BOOLEAN

VARIABLES
    pc,        \* "idle", or "run": inside run_cmd
    cmd,       \* the number of commands run, the last of them the current one
    fsm,       \* curr_state of the template engine of this run_cmd
    buffer,    \* what this run_cmd has received and not drained
    toHost,    \* output on its way to the client
    toDev,     \* lines on their way to the device
    devCmd,    \* the command the device is executing, or executed last
    devRest,   \* what the device still has to print
    devAsking, \* the device waits for an answer
    link,      \* "up" or "down": the transport
    results,   \* history: what each run_cmd returned
    abandoned, \* history: the commands given up before their prompt was read
    answered   \* history: which line the device took for which question

hostVars == <<pc, cmd, fsm, buffer>>
devVars  == <<devCmd, devRest, devAsking>>
history  == <<results, abandoned, answered>>
vars     == <<hostVars, toHost, toDev, devVars, link, history>>

NoCmd == 0   \* the tag of output that no command asked for
CmdId == 0 .. MaxCmds
Token == [cmd : CmdId, kind : Kind]
Line  == [type : {"cmd", "answer"}, cmd : CmdId]
Result == [cmd : CmdId, outcome : {"ok", "timeout", "error"}, out : Seq(Token)]
Answer == [asked : CmdId, line : Line]

-----------------------------------------------------------------------------
Init ==
    /\ pc = "idle" /\ cmd = 0 /\ fsm = Start /\ buffer = <<>>
    /\ toHost = [i \in 1 .. Stale |-> [cmd |-> NoCmd, kind |-> Prompt]]
    /\ toDev = <<>>
    /\ devCmd = NoCmd /\ devRest = <<>> /\ devAsking = FALSE
    /\ link = "up"
    /\ results = <<>> /\ abandoned = {} /\ answered = {}

Return(outcome, out) ==
    /\ pc' = "idle"
    /\ buffer' = <<>>
    /\ results' = Append(results, [cmd |-> cmd, outcome |-> outcome, out |-> out])

-----------------------------------------------------------------------------
(* The client. *)

(* run_cmd(cmd): a fresh engine, then the command line goes out. *)
RunCmd ==
    /\ pc = "idle" /\ cmd < MaxCmds /\ link = "up"
    /\ pc' = "run" /\ cmd' = cmd + 1 /\ fsm' = Start /\ buffer' = <<>>
    /\ toDev' = Append(toDev, [type |-> "cmd", cmd |-> cmd + 1])
    /\ UNCHANGED <<toHost, devVars, link, history>>

(* run_cmd(cmd) on a dead transport: send() fails. *)
RunCmdFails ==
    /\ pc = "idle" /\ cmd < MaxCmds /\ link = "down"
    /\ cmd' = cmd + 1 /\ fsm' = Start
    /\ results' = Append(results, [cmd |-> cmd + 1, outcome |-> "error", out |-> <<>>])
    /\ UNCHANGED <<pc, buffer, toHost, toDev, devVars, link, abandoned, answered>>

Rule(i) == Template[fsm][i]

(* InteractiveAction::Done: the output is everything up to and including   *)
(* the match; whatever the buffer holds beyond it is dropped.              *)
FeedDone ==
    /\ pc = "run"
    /\ \E i \in DOMAIN Template[fsm], p \in DOMAIN buffer :
          /\ Fires(Template, fsm, buffer, i, p) /\ Rule(i).act = "Done"
          /\ Return("ok", SubSeq(buffer, 1, p))
    /\ UNCHANGED <<cmd, fsm, toHost, toDev, devVars, link, abandoned, answered>>

(* Mutant: the newline after an answer is sent twice. *)
FeedSendTwoLines ==
    /\ pc = "run" /\ link = "up"
    /\ \E i \in DOMAIN Template[fsm], p \in DOMAIN buffer :
          /\ Fires(Template, fsm, buffer, i, p) /\ Rule(i).act = "Send"
          /\ fsm' = StateAfter(fsm, Rule(i))
          /\ buffer' = DrainFront(buffer, p)
    /\ toDev' = toDev \o [n \in 1 .. 2 |-> [type |-> "answer", cmd |-> cmd]]
    /\ UNCHANGED <<pc, cmd, toHost, devVars, link, history>>

(* InteractiveAction::Send: drain what was matched, send the answer. *)
FeedSend ==
    /\ pc = "run" /\ link = "up"
    /\ \E i \in DOMAIN Template[fsm], p \in DOMAIN buffer :
          /\ Fires(Template, fsm, buffer, i, p) /\ Rule(i).act = "Send"
          /\ fsm' = StateAfter(fsm, Rule(i))
          /\ buffer' = DrainFront(buffer, p)
    /\ toDev' = Append(toDev, [type |-> "answer", cmd |-> cmd])
    /\ UNCHANGED <<pc, cmd, toHost, devVars, link, history>>

(* InteractiveAction::Error: the template gives up, the rest of the output *)
(* of the command stays in the stream.                                     *)
FeedError ==
    /\ pc = "run"
    /\ \E i \in DOMAIN Template[fsm], p \in DOMAIN buffer :
          Fires(Template, fsm, buffer, i, p) /\ Rule(i).act = "Error"
    /\ Return("error", <<>>)
    /\ abandoned' = abandoned \cup {cmd}
    /\ UNCHANGED <<cmd, fsm, toHost, toDev, devVars, link, answered>>

(* feed() returned None: no rule, or one that only moves to another state  *)
(* (run_cmd does not drain what that rule consumed).                       *)
FeedNone(next) ==
    \/ NoRuleFires(Template, fsm, buffer) /\ next = fsm
    \/ \E i \in DOMAIN Template[fsm], p \in DOMAIN buffer :
          /\ Fires(Template, fsm, buffer, i, p) /\ Rule(i).act = "Next"
          /\ next = StateAfter(fsm, Rule(i))

(* ... then receive(): a chunk of any size; an empty one after 5 seconds. *)
Receive ==
    /\ pc = "run" /\ link = "up"
    /\ \E next \in State : FeedNone(next) /\ fsm' = next
    /\ \E k \in 0 .. Len(toHost) :
          /\ buffer' = buffer \o SubSeq(toHost, 1, k)
          /\ toHost' = DrainFront(toHost, k)
    /\ UNCHANGED <<pc, cmd, toDev, devVars, link, history>>

(* A send() or receive() on a dead transport returns its error. *)
TransportError ==
    /\ pc = "run" /\ link = "down"
    /\ \/ \E next \in State : FeedNone(next)
       \/ \E i \in DOMAIN Template[fsm], p \in DOMAIN buffer :
             Fires(Template, fsm, buffer, i, p) /\ Rule(i).act = "Send"
    /\ Return("error", <<>>)
    /\ UNCHANGED <<cmd, fsm, toHost, toDev, devVars, link, abandoned, answered>>

(* Mutant: run_cmd sends the command again when the deadline passes. *)
TimeoutResends ==
    /\ MayTimeout
    /\ pc = "run" /\ link = "up" /\ toDev = <<>>
    /\ buffer' = <<>>
    /\ toDev' = Append(toDev, [type |-> "cmd", cmd |-> cmd])
    /\ UNCHANGED <<pc, cmd, fsm, toHost, devVars, link, history>>

(* The deadline check at the top of the loop, before feed(): the bytes     *)
(* received so far leave with the error, the stream itself is not touched. *)
Timeout ==
    /\ MayTimeout
    /\ pc = "run"
    /\ Return("timeout", <<>>)
    /\ abandoned' = abandoned \cup {cmd}
    /\ UNCHANGED <<cmd, fsm, toHost, toDev, devVars, link, answered>>

-----------------------------------------------------------------------------
(* The device. *)

DevIdle == devRest = <<>> /\ ~ devAsking

(* The next line reaches a device that waits for a command. *)
DevCommand ==
    /\ link = "up" /\ DevIdle /\ toDev # <<>>
    /\ toDev' = Tail(toDev)
    /\ \/ /\ Head(toDev).type = "cmd"
          /\ devCmd' = Head(toDev).cmd
          /\ \E s \in Scripts : devRest' = s
       \/ /\ Head(toDev).type = "answer"
          /\ devCmd' = NoCmd
          /\ devRest' = <<Prompt>>
    /\ UNCHANGED <<hostVars, toHost, devAsking, link, history>>

DevPrint ==
    /\ link = "up" /\ devRest # <<>> /\ ~ devAsking
    /\ toHost' = Append(toHost, [cmd |-> devCmd, kind |-> Head(devRest)])
    /\ devRest' = Tail(devRest)
    /\ devAsking' = (Head(devRest) \in Asks)
    /\ UNCHANGED <<hostVars, toDev, devCmd, link, history>>

(* The next line reaches a device that waits for an answer. *)
DevAnswer ==
    /\ link = "up" /\ devAsking /\ toDev # <<>>
    /\ toDev' = Tail(toDev)
    /\ devAsking' = FALSE
    /\ answered' = answered \cup {[asked |-> devCmd, line |-> Head(toDev)]}
    /\ UNCHANGED <<hostVars, toHost, devCmd, devRest, link, results, abandoned>>

(* The transport fails for good; what was in flight is lost. *)
LinkDown ==
    /\ MayDrop /\ link = "up"
    /\ link' = "down" /\ toHost' = <<>> /\ toDev' = <<>>
    /\ UNCHANGED <<hostVars, devVars, history>>

-----------------------------------------------------------------------------
Client == RunCmd \/ RunCmdFails \/ FeedDone \/ FeedSend \/ FeedError
             \/ Receive \/ TransportError \/ Timeout

Device == DevCommand \/ DevPrint \/ DevAnswer

(* The session is over: stutter, so that TLC reports only real deadlocks. *)
Finished ==
    /\ pc = "idle" /\ cmd = MaxCmds
    /\ UNCHANGED vars

Next == Client \/ Device \/ LinkDown \/ Finished

Spec == Init /\ [][Next]_vars

(* The loop of run_cmd always runs on: its receive() waits for 5 seconds   *)
(* at most.  The device reads its input and prints what it has to print.   *)
LoopFairness ==
    /\ WF_vars(FeedDone) /\ WF_vars(FeedSend) /\ WF_vars(FeedError)
    /\ WF_vars(Receive) /\ WF_vars(TransportError)
DeviceFairness == WF_vars(Device)

FairSpec == Spec /\ LoopFairness /\ DeviceFairness

-----------------------------------------------------------------------------
TypeOK ==
    /\ pc \in {"idle", "run"} /\ cmd \in CmdId /\ fsm \in State
    /\ buffer \in Seq(Token) /\ toHost \in Seq(Token) /\ toDev \in Seq(Line)
    /\ devCmd \in CmdId /\ devRest \in Seq(Kind) /\ devAsking \in BOOLEAN
    /\ link \in {"up", "down"}
    /\ results \in Seq(Result) /\ abandoned \in SUBSET CmdId
    /\ answered \in SUBSET Answer
-----------------------------------------------------------------------------
(* No run_cmd before command c was abandoned, and login left nothing behind:*)
(* the client and the device agree on where in the stream they are.        *)
InStepAt(c) == Stale = 0 /\ \A t \in abandoned : t >= c

Ok(i) == results[i].outcome = "ok"

(* The prompt that completed run_cmd number i. *)
FinalToken(i) == results[i].out[Len(results[i].out)]

(* A command returns its own output, closed by its own prompt, as long as  *)
(* no command before it timed out: nothing but the order of the bytes ties *)
(* what run_cmd returns to the command it sent.                            *)
OwnOutput ==
    \A i \in DOMAIN results : Ok(i) /\ InStepAt(results[i].cmd) =>
        /\ \A k \in DOMAIN results[i].out : results[i].out[k].cmd = results[i].cmd
        /\ FinalToken(i).kind = Prompt

(* Between commands of a session in step nothing is in flight and the      *)
(* device is idle: the buffer remainder run_cmd drops at Done is empty.    *)
QuietWhenIdle ==
    pc = "idle" /\ InStepAt(cmd + 1) /\ link = "up" =>
        toHost = <<>> /\ toDev = <<>> /\ DevIdle

(* A question is answered by an answer of the run_cmd that asked for it,   *)
(* never by the next command line or by an answer meant for another one.   *)
NoCrossAnswer ==
    \A a \in answered : InStepAt(a.asked) =>
        \/ a.line = [type |-> "answer", cmd |-> a.asked]
        \/ a.asked \in abandoned

(* The client waits for output it will act on while the device waits for a *)
(* line: then only the deadline ends the wait.                             *)
HostBlocked ==
    /\ pc = "run" /\ link = "up" /\ toHost = <<>>
    /\ FeedNone(fsm)
DevBlocked == toDev = <<>> /\ (devAsking \/ devRest = <<>>)

(* run_cmd and the device never wait for each other. *)
NoMutualWait == ~ (HostBlocked /\ DevBlocked)

(* Every run_cmd returns, on a device that keeps printing and reading, and *)
(* does not need its deadline for it.                                      *)
RunCmdReturns == pc = "run" ~> pc = "idle"

(* What a caller may rely on: the calls and replies of CommandRpc. *)
NoReply == MaxCmds + 1
Rpc == INSTANCE CommandRpc WITH
    MaxCalls <- MaxCmds,
    Slack    <- Stale,
    calls    <- cmd,
    open     <- pc = "run",
    replies  <- [i \in DOMAIN results |->
                   [outcome |-> results[i].outcome,
                    from |-> IF Ok(i) THEN FinalToken(i).cmd ELSE NoReply]]
RpcSpec == Rpc!Spec
=============================================================================
