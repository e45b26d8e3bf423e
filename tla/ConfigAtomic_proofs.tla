------------------------- MODULE ConfigAtomic_proofs -------------------------
(***************************************************************************)
(* Theorems about ConfigAtomic, for every number of copy attempts and      *)
(* every interleaving of late replies, reloads and lost devices: what is   *)
(* applied was verified; on a session that is in step, no HTTP server is   *)
(* left running, and Ok means that the configuration is in force; and a    *)
(* guarded change is never made, and never cuts the device off, without a  *)
(* reload that will undo it.                                               *)
(***************************************************************************)
EXTENDS ConfigAtomic, StreamLemmas, TLAPS

-----------------------------------------------------------------------------
(* A reply taken from the stream leaves a suffix of the replies.           *)
LEMMA RepliedLemma ==
    ASSUME TypeOK, NEW out, Replied(out)
    PROVE  /\ replies' \in Seq(Reply) /\ waiting /\ waiting' = FALSE
           /\ 1 \in DOMAIN replies /\ replies[1].out = out
           /\ \E k \in 1 .. Len(replies) :
                 /\ Len(replies') = Len(replies) - k
                 /\ \A i \in DOMAIN replies' : k + i \in DOMAIN replies /\ replies'[i] = replies[k + i]
  <1>1. PICK k \in 1 .. Len(replies) : replies' = SubSeq(replies, k + 1, Len(replies))
    BY DEF Replied
  <1>2. replies \in Seq(Reply) /\ k \in 0 .. Len(replies) /\ Len(replies) \in Nat
    BY DEF TypeOK
  <1>3. /\ replies' \in Seq(Reply) /\ Len(replies') = Len(replies) - k
        /\ \A i \in 1 .. (Len(replies) - k) : replies'[i] = replies[k + i]
    BY <1>1, <1>2, DropLemma
  <1>4. \A i \in DOMAIN replies' : k + i \in DOMAIN replies /\ replies'[i] = replies[k + i]
    BY <1>2, <1>3
  <1>5. 1 \in DOMAIN replies /\ replies[1].out = out
    BY <1>2 DEF Replied
  <1>6. QED
    BY <1>3, <1>4, <1>5 DEF Replied

(* The replies, with the answer of a command behind them or without.       *)
LEMMA AnswersLemma ==
    ASSUME TypeOK, NEW cmd \in CmdStep, NEW out \in Out, Answers(cmd, out)
    PROVE  /\ replies' \in Seq(Reply)
           /\ \/ link # "up" /\ replies' = replies
              \/ /\ link = "up" /\ Len(replies') = Len(replies) + 1
                 /\ replies'[Len(replies) + 1] = [cmd |-> cmd, out |-> out]
                 /\ \A i \in 1 .. Len(replies) : replies'[i] = replies[i]
  <1>1. [cmd |-> cmd, out |-> out] \in Reply
    BY DEF Reply
  <1>2. replies \in Seq(Reply)
    BY DEF TypeOK
  <1>3. QED
    BY <1>1, <1>2, AppendLemma DEF Answers

(* A command executed leaves the queue, the others move up.                *)
LEMMA ExecutesLemma ==
    ASSUME TypeOK, NEW cmd, Executes(cmd)
    PROVE  /\ cmds' \in Seq(Line) /\ cmds[1] \in Line /\ cmds[1] = Head(cmds)
           /\ 1 \in DOMAIN cmds /\ cmds[1].cmd = cmd /\ link # "down"
           /\ Len(cmds') = Len(cmds) - 1
           /\ \A i \in DOMAIN cmds' : i + 1 \in DOMAIN cmds /\ cmds'[i] = cmds[i + 1]
  <1>1. cmds \in Seq(Line) /\ cmds # <<>> /\ cmds' = Tail(cmds)
    BY DEF TypeOK, Executes
  <1>2. /\ cmds' \in Seq(Line) /\ Len(cmds') = Len(cmds) - 1 /\ Len(cmds) \in Nat \ {0}
        /\ \A i \in 1 .. (Len(cmds) - 1) : cmds'[i] = cmds[i + 1]
        /\ Head(cmds) \in Line /\ Head(cmds) = cmds[1]
    BY <1>1, TailLemma
  <1>3. \A i \in DOMAIN cmds' : i + 1 \in DOMAIN cmds /\ cmds'[i] = cmds[i + 1]
    BY <1>2
  <1>4. QED
    BY <1>1, <1>2, <1>3 DEF Executes

(* A command sent goes to the end of the queue, unless the device is gone. *)
LEMMA SendLemma ==
    ASSUME TypeOK, SendCommand
    PROVE  /\ cmds' \in Seq(Line)
           /\ \/ link = "cut" /\ cmds' = cmds
              \/ /\ link = "up" /\ Len(cmds') = Len(cmds) + 1
                 /\ cmds'[Len(cmds) + 1].cmd = pc
                 /\ \A i \in 1 .. Len(cmds) : cmds'[i] = cmds[i]
  <1>1. [cmd |-> pc, call |-> calls] \in Line /\ cmds \in Seq(Line)
    BY DEF TypeOK, SendCommand, Line
  <1>2. link \in {"up", "cut"}
    BY DEF TypeOK, SendCommand
  <1>3. QED
    BY <1>1, <1>2, AppendLemma DEF SendCommand

(* A command that took the next line for an answer: two lines are gone,    *)
(* and there are one or two replies more, none of them an MD5.             *)
LEMMA MisledLemma ==
    ASSUME TypeOK, DevMisled
    PROVE  /\ cmds' \in Seq(Line) /\ replies' \in Seq(Reply)
           /\ Len(cmds) > 1 /\ Len(cmds') = Len(cmds) - 2
           /\ \A i \in DOMAIN cmds' : i + 2 \in DOMAIN cmds /\ cmds'[i] = cmds[i + 2]
           /\ \A i \in 1 .. Len(replies) : replies'[i] = replies[i]
           /\ Len(replies') >= Len(replies) /\ Len(replies') <= Len(replies) + 2
           /\ \A i \in DOMAIN replies' : i \in DOMAIN replies \/ replies'[i].out # "match"
           /\ link = "cut" => replies' = replies
  <1>1. cmds \in Seq(Line) /\ replies \in Seq(Reply) /\ Len(cmds) \in Nat /\ Len(cmds) > 1
    BY DEF TypeOK, DevMisled
  <1>2. /\ cmds' \in Seq(Line) /\ Len(cmds') = Len(cmds) - 2
        /\ \A i \in 1 .. (Len(cmds) - 2) : cmds'[i] = cmds[2 + i]
    <2>1. 2 \in 0 .. Len(cmds) /\ cmds' = SubSeq(cmds, 2 + 1, Len(cmds))
      BY <1>1 DEF DevMisled
    <2>2. QED
      BY <1>1, <2>1, DropLemma
  <1>3. \A i \in DOMAIN cmds' : i + 2 \in DOMAIN cmds /\ cmds'[i] = cmds[i + 2]
    BY <1>1, <1>2
  <1> DEFINE r == [cmd |-> Head(cmds).cmd, out |-> "error"]
  <1>4. r \in Reply /\ Stray \in Reply /\ r.out # "match" /\ Stray.out # "match"
    BY DEF DevMisled, Reply, Stray, CmdStep, Out
  <1>5. \/ link = "up" /\ replies' = Append(replies, r)
        \/ link = "up" /\ replies' = replies \o <<r, Stray>>
        \/ link # "up" /\ replies' = replies
    BY DEF DevMisled
  <1> HIDE DEF r
  <1>6. CASE link = "up" /\ replies' = Append(replies, r)
    <2>1. /\ replies' \in Seq(Reply) /\ Len(replies') = Len(replies) + 1
          /\ \A i \in 1 .. Len(replies) : replies'[i] = replies[i]
          /\ replies'[Len(replies) + 1] = r
      BY <1>1, <1>4, <1>6, AppendLemma
    <2>2. \A i \in DOMAIN replies' : i \in DOMAIN replies \/ i = Len(replies) + 1
      BY <1>1, <2>1
    <2>3. \A i \in DOMAIN replies' : i \in DOMAIN replies \/ replies'[i].out # "match"
      BY <1>4, <2>1, <2>2
    <2>4. /\ Len(replies') >= Len(replies) /\ Len(replies') <= Len(replies) + 2
          /\ link = "cut" => replies' = replies
      BY <1>1, <1>6, <2>1
    <2>5. QED
      BY <1>1, <1>2, <1>3, <2>1, <2>3, <2>4
  <1>7. CASE link = "up" /\ replies' = replies \o <<r, Stray>>
    <2>1. <<r, Stray>> \in Seq(Reply) /\ Len(<<r, Stray>>) = 2
          /\ <<r, Stray>>[1] = r /\ <<r, Stray>>[2] = Stray
      BY <1>4
    <2>2. /\ replies' \in Seq(Reply) /\ Len(replies') = Len(replies) + 2
          /\ \A i \in 1 .. Len(replies) : replies'[i] = replies[i]
          /\ \A i \in 1 .. 2 : replies'[Len(replies) + i] = <<r, Stray>>[i]
      BY <1>1, <1>7, <2>1, ConcatLemma
    <2>3. replies'[Len(replies) + 1] = r /\ replies'[Len(replies) + 2] = Stray
      BY <2>1, <2>2
    <2>4. \A i \in DOMAIN replies' : i \in DOMAIN replies \/ i = Len(replies) + 1 \/ i = Len(replies) + 2
      BY <1>1, <2>2
    <2>5. \A i \in DOMAIN replies' : i \in DOMAIN replies \/ replies'[i].out # "match"
      BY <1>4, <2>3, <2>4
    <2>6. /\ Len(replies') >= Len(replies) /\ Len(replies') <= Len(replies) + 2
          /\ link = "cut" => replies' = replies
      BY <1>1, <1>7, <2>2
    <2>7. QED
      BY <1>1, <1>2, <1>3, <2>2, <2>5, <2>6
  <1>8. CASE link # "up" /\ replies' = replies
    BY <1>1, <1>2, <1>3, <1>8
  <1>9. QED
    BY <1>5, <1>6, <1>7, <1>8

-----------------------------------------------------------------------------
(* The initial state has the right types.                                  *)
LEMMA TypeInit == Init => TypeOK
  <1>1. Stray \in Reply /\ <<>> \in Seq(Line)
    BY DEF Stray, Reply, Out
  <1> SUFFICES ASSUME Init PROVE TypeOK
    OBVIOUS
  <1>2. replies \in Seq(Reply)
    BY <1>1, ConfigAssumption DEF Init
  <1>3. http \in [1 .. MaxCalls -> {"off", "serving", "dropped", "unreached"}]
    BY DEF Init
  <1>4. 0 \in 0 .. MaxAttempts /\ 0 \in 0 .. MaxCalls
    BY ConfigAssumption
  <1>5. QED
    BY <1>1, <1>2, <1>3, <1>4 DEF Init, TypeOK, Step

(* Every action, and a stutter, keeps the types.                           *)
LEMMA TypeStep == TypeOK /\ [Next]_vars => TypeOK'
  <1> SUFFICES ASSUME TypeOK, [Next]_vars PROVE TypeOK'
    OBVIOUS
  <1>0. /\ MaxCalls \in Nat /\ MaxAttempts \in Nat \ {0} /\ Safety \subseteq BOOLEAN
        /\ pc \in Step \cup {"idle"} /\ calls \in 0 .. MaxCalls /\ attempt \in 0 .. MaxAttempts
    BY ConfigAssumption DEF TypeOK
  <1>1. CASE Call
    BY <1>0, <1>1 DEF Call, TypeOK, Step, CmdStep, stream, device
  <1>2. CASE SendCommand
    BY <1>2, SendLemma DEF SendCommand, TypeOK, device
  <1>3. ASSUME NEW out, Replied(out) PROVE replies' \in Seq(Reply) /\ waiting' = FALSE
    BY <1>3, RepliedLemma
  <1>4. ASSUME Failed PROVE replies' \in Seq(Reply) /\ waiting' = FALSE
    BY <1>4 DEF Failed, TypeOK
  <1>5. CASE Scheduled \/ Copied \/ Verified \/ Applied
    <2>0. \E out : Replied(out)
      BY <1>5 DEF Scheduled, Copied, Verified, Applied
    <2>1. replies' \in Seq(Reply) /\ waiting' = FALSE
      BY <1>3, <2>0
    <2>2. /\ pc' \in Step /\ UNCHANGED <<attempt, safety, calls, outcome>>
          /\ UNCHANGED <<http, link, cmds, flash, running, timer>>
      BY <1>5 DEF Scheduled, Copied, Verified, Applied, GoTo, Step, CmdStep, device
    <2>3. QED
      BY <2>1, <2>2 DEF TypeOK
  <1>6. CASE Deleted \/ Cancelled
    BY <1>0, <1>3, <1>6, ZenonT(40) DEF Deleted, Cancelled, GoTo, Return, TypeOK, Step, CmdStep, device
  <1>7. CASE Setup \/ SetupFails \/ Backoff \/ AwaitServer
    BY <1>0, <1>7 DEF Setup, SetupFails, Backoff, AwaitServer, GoTo, Return, TypeOK, Step, CmdStep, device, stream
  <1>a. http' = http \/ Abort => http' \in [1 .. MaxCalls -> {"off", "serving", "dropped", "unreached"}]
    BY DEF Abort, TypeOK
  <1>8. CASE CopyAgain \/ CopyGivesUp
    <2>1. replies' \in Seq(Reply) /\ waiting' = FALSE
      BY <1>3, <1>4, <1>8 DEF CopyAgain, CopyGivesUp, CopyFailed
    <2>2. attempt' \in 0 .. MaxAttempts
      BY <1>0, <1>8 DEF CopyAgain, CopyGivesUp, Return
    <2>3. QED
      BY <1>0, <1>a, <2>1, <2>2, <1>8, ZenonT(40) DEF CopyAgain, CopyGivesUp, Return, TypeOK, Step, CmdStep, device
  <1>9. CASE VerifyRejected \/ VerifyFails
    BY <1>0, <1>3, <1>4, <1>9 DEF VerifyRejected, VerifyFails, Return, Abort, TypeOK, CmdStep, device
  <1>10. CASE DoneRequested \/ CommandFails
    <2>0. (\E out : Replied(out)) \/ Failed
      BY <1>10 DEF DoneRequested, CommandFails
    <2>1. replies' \in Seq(Reply) /\ waiting' = FALSE
      BY <1>3, <1>4, <2>0
    <2>2. /\ UNCHANGED <<attempt, safety, calls, http, link, cmds, flash, running, timer>>
          /\ pc' \in Step \cup {"idle"} /\ outcome' \in CmdStep \cup {outcome}
      <3>1. CASE DoneRequested
        BY <3>1 DEF DoneRequested, GoTo, Step, device
      <3>2. CASE CommandFails
        BY <3>2 DEF CommandFails, Return, CmdStep, device
      <3>3. QED
        BY <1>10, <3>1, <3>2
    <2>3. QED
      BY <2>1, <2>2 DEF TypeOK
  <1>11. ASSUME NEW cmd \in CmdStep, NEW out \in Out, Executes(cmd), Answers(cmd, out)
         PROVE  cmds' \in Seq(Line) /\ replies' \in Seq(Reply)
    BY <1>11, ExecutesLemma, AnswersLemma
  <1>12. CASE DevReloadIn \/ DevCopy \/ DevDone \/ DevDelete \/ DevCancel
    BY <1>11, <1>12 DEF DevReloadIn, DevCopy, DevDone, DevDelete, DevCancel, TypeOK, CmdStep, Out, host, device
  <1>13. CASE DevVerify
    <2>1. \E out \in Out : Answers("verify", out)
      BY <1>13 DEF DevVerify, Out
    <2>2. QED
      BY <1>11, <1>13, <2>1 DEF DevVerify, TypeOK, CmdStep, host, device
  <1>14. CASE DevApply
    <2>1. cmds' \in Seq(Line)
      BY <1>14, ExecutesLemma DEF DevApply
    <2>2. replies' \in Seq(Reply)
      BY <1>11, <1>14 DEF DevApply, TypeOK, CmdStep, Out
    <2>3. QED
      BY <1>14, <2>1, <2>2 DEF DevApply, TypeOK, host
  <1>15. CASE DevMisled
    BY <1>15, MisledLemma, ZenonT(40) DEF DevMisled, TypeOK, host, device
  <1>16. CASE DevReloads
    BY <1>16 DEF DevReloads, TypeOK, host
  <1>17. CASE UNCHANGED vars
    BY <1>17 DEF vars, host, stream, device, TypeOK
  <1>18. QED
    BY <1>1, <1>2, <1>5, <1>6, <1>7, <1>8, <1>9, <1>10, <1>12, <1>13, <1>14, <1>15, <1>16,
       <1>17 DEF Next, HostStep, DevStep, Finished

(* In every reachable state of config_atomic, the stream and the device,   *)
(* every variable has its type.                                            *)
THEOREM TypeCorrect == Spec => []TypeOK
  <1>1. QED
    BY TypeInit, TypeStep, PTL DEF Spec

-----------------------------------------------------------------------------
(* One call of config_atomic: why only a verified file is applied.         *)

Over == pc = "idle" /\ calls = MaxCalls

Has(c) == \E i \in DOMAIN cmds : cmds[i].cmd = c

Before(a, b) ==
    \A i, j \in DOMAIN cmds : cmds[i].cmd = a /\ cmds[j].cmd = b => i < j

HasMatch == \E i \in DOMAIN replies : replies[i].out = "match"

VerifyOnce ==
    \A i, j \in DOMAIN cmds :
        cmds[i].cmd = "verify" /\ cmds[j].cmd = "verify" => i = j

(* While verify is queued, every copy is ahead of it, and there is one.    *)
VerifyQueued ==
    Has("verify") =>
        /\ (pc = "verify" /\ waiting) \/ Over
        /\ ~ HasMatch /\ ~ Has("delete") /\ ~ Has("apply")
        /\ Before("copy", "verify") /\ VerifyOnce

(* The file that was verified is not touched before it is applied.         *)
GoodFile == flash = "good" /\ ~ Has("copy")

MatchOnce ==
    \A i, j \in DOMAIN replies :
        replies[i].out = "match" /\ replies[j].out = "match" => i = j

MatchOnItsWay ==
    HasMatch => ((pc = "verify" /\ waiting) \/ Over) /\ GoodFile /\ ~ Has("delete")

ReadyToApply == pc \in {"done", "await", "apply"} => GoodFile /\ ~ Has("delete")

ApplyQueued ==
    /\ Has("apply") => GoodFile /\ Before("apply", "delete")
    /\ Has("apply") \/ Has("delete") => pc \in {"apply", "delete", "cancel"} \/ Over

InCall == pc # "idle" => calls = MaxCalls

VerifyInv ==
    /\ TypeOK /\ InCall /\ VerifyQueued /\ MatchOnce /\ MatchOnItsWay /\ ReadyToApply /\ ApplyQueued
    /\ AppliedIsVerified

(* The queue after commands left it at the front.                          *)
LEMMA ShrinkLemma ==
    ASSUME TypeOK, TypeOK', NEW d \in Nat,
           \A i \in DOMAIN cmds' : i + d \in DOMAIN cmds /\ cmds'[i] = cmds[i + d]
    PROVE  /\ \A c : Has(c)' => Has(c)
           /\ \A a, b : Before(a, b) => Before(a, b)'
           /\ VerifyOnce => VerifyOnce'
  <1>1. \A i \in DOMAIN cmds' : i \in Nat
    BY DEF TypeOK
  <1>2. \A i \in DOMAIN cmds : i \in Nat
    BY DEF TypeOK
  <1>3. ASSUME NEW c, Has(c)' PROVE Has(c)
    <2>1. PICK i \in DOMAIN cmds' : cmds'[i].cmd = c
      BY <1>3 DEF Has
    <2>2. QED
      BY <2>1 DEF Has
  <1>4. ASSUME NEW a, NEW b, Before(a, b) PROVE Before(a, b)'
    <2> SUFFICES ASSUME NEW i \in DOMAIN cmds', NEW j \in DOMAIN cmds',
                        cmds'[i].cmd = a, cmds'[j].cmd = b
                 PROVE  i < j
      BY DEF Before
    <2>1. i + d < j + d
      BY <1>4 DEF Before
    <2>2. QED
      BY <2>1, <1>1
  <1>5. ASSUME VerifyOnce, NEW i \in DOMAIN cmds', NEW j \in DOMAIN cmds',
               cmds'[i].cmd = "verify", cmds'[j].cmd = "verify"
        PROVE  i = j
    <2>1. i + d = j + d
      BY <1>5 DEF VerifyOnce
    <2>2. QED
      BY <2>1, <1>1
  <1>6. QED
    BY <1>3, <1>4, <1>5 DEF VerifyOnce

(* The queue after a command was sent.                                     *)
LEMMA GrowLemma ==
    ASSUME TypeOK, TypeOK', NEW x,
           Len(cmds') = Len(cmds) + 1, cmds'[Len(cmds) + 1].cmd = x,
           \A i \in 1 .. Len(cmds) : cmds'[i] = cmds[i]
    PROVE  /\ \A c : Has(c)' => Has(c) \/ c = x
           /\ \A a, b : Before(a, b) /\ (a = x => ~ Has(b) /\ b # x) => Before(a, b)'
           /\ ~ Has("verify") \/ (x # "verify" /\ VerifyOnce) => VerifyOnce'
  <1>1. /\ DOMAIN cmds = 1 .. Len(cmds) /\ Len(cmds) \in Nat
        /\ DOMAIN cmds' = 1 .. (Len(cmds) + 1)
    BY DEF TypeOK
  <1>2. \A i \in DOMAIN cmds' : (i \in DOMAIN cmds /\ cmds'[i] = cmds[i]) \/ i = Len(cmds) + 1
    BY <1>1
  <1>3. ASSUME NEW c, Has(c)' PROVE Has(c) \/ c = x
    <2>1. PICK i \in DOMAIN cmds' : cmds'[i].cmd = c
      BY <1>3 DEF Has
    <2>2. QED
      BY <1>2, <2>1 DEF Has
  <1>4. ASSUME NEW a, NEW b, Before(a, b), a = x => ~ Has(b) /\ b # x
        PROVE  Before(a, b)'
    <2> SUFFICES ASSUME NEW i \in DOMAIN cmds', NEW j \in DOMAIN cmds',
                        cmds'[i].cmd = a, cmds'[j].cmd = b
                 PROVE  i < j
      BY DEF Before
    <2>1. CASE i = Len(cmds) + 1
      BY <1>2, <1>4, <2>1 DEF Has
    <2>2. CASE i \in DOMAIN cmds /\ cmds'[i] = cmds[i]
      BY <1>1, <1>2, <1>4, <2>2 DEF Before
    <2>3. QED
      BY <1>2, <2>1, <2>2
  <1>5. ASSUME ~ Has("verify") \/ (x # "verify" /\ VerifyOnce),
               NEW i \in DOMAIN cmds', NEW j \in DOMAIN cmds',
               cmds'[i].cmd = "verify", cmds'[j].cmd = "verify"
        PROVE  i = j
    BY <1>2, <1>5 DEF Has, VerifyOnce
  <1>6. QED
    BY <1>3, <1>4, <1>5 DEF VerifyOnce

(* A reply that was taken is gone, with those dropped behind it.           *)
LEMMA TakenLemma ==
    ASSUME TypeOK, MatchOnce, NEW out, Replied(out)
    PROVE  /\ HasMatch' => HasMatch
           /\ MatchOnce'
           /\ out = "match" => HasMatch /\ ~ HasMatch'
  <1>1. PICK k \in 1 .. Len(replies) :
           /\ Len(replies') = Len(replies) - k
           /\ \A i \in DOMAIN replies' : k + i \in DOMAIN replies /\ replies'[i] = replies[k + i]
    BY RepliedLemma
  <1>a. replies \in Seq(Reply) /\ Len(replies) \in Nat
    BY DEF TypeOK
  <1>b. replies' \in Seq(Reply) /\ 1 \in DOMAIN replies /\ replies[1].out = out
    BY RepliedLemma
  <1>2. /\ replies' \in Seq(Reply) /\ replies \in Seq(Reply) /\ k \in Nat \ {0}
        /\ 1 \in DOMAIN replies /\ replies[1].out = out
    BY <1>1, <1>a, <1>b
  <1>3. \A i \in DOMAIN replies' : i \in Nat \ {0}
    BY <1>2
  <1>4. HasMatch' => HasMatch
    BY <1>1 DEF HasMatch
  <1>5. MatchOnce'
    <2> SUFFICES ASSUME NEW i \in DOMAIN replies', NEW j \in DOMAIN replies',
                        replies'[i].out = "match", replies'[j].out = "match"
                 PROVE  i = j
      BY DEF MatchOnce
    <2>1. k + i = k + j
      BY <1>1 DEF MatchOnce
    <2>2. QED
      BY <1>2, <1>3, <2>1
  <1>6. ASSUME out = "match" PROVE HasMatch /\ ~ HasMatch'
    <2>1. HasMatch
      BY <1>2, <1>6 DEF HasMatch
    <2>2. ASSUME NEW i \in DOMAIN replies', replies'[i].out = "match" PROVE FALSE
      <3>1. k + i = 1
        BY <1>1, <1>2, <1>6, <2>2 DEF MatchOnce
      <3>2. QED
        BY <1>2, <1>3, <3>1
    <2>3. QED
      BY <2>1, <2>2 DEF HasMatch
  <1>7. QED
    BY <1>4, <1>5, <1>6

(* A step of config_atomic that sends nothing.                             *)
LEMMA HostMoves ==
    ASSUME VerifyInv, TypeOK', UNCHANGED <<cmds, flash, running>>,
           pc' # "idle" => calls' = MaxCalls,
           HasMatch' => HasMatch, MatchOnce',
           (pc = "verify" /\ waiting) \/ Over =>
               (pc' = "verify" /\ waiting') \/ Over' \/ (~ Has("verify") /\ ~ HasMatch'),
           pc' \in {"done", "await", "apply"} => pc \in {"done", "await", "apply"} \/ HasMatch,
           pc \in {"apply", "delete", "cancel"} \/ Over =>
               pc' \in {"apply", "delete", "cancel"} \/ Over'
    PROVE  VerifyInv'
  <1>1. /\ \A c : Has(c)' <=> Has(c)
        /\ \A a, b : Before(a, b)' <=> Before(a, b)
        /\ VerifyOnce' <=> VerifyOnce
    BY DEF Has, Before, VerifyOnce
  <1>2. GoodFile' <=> GoodFile
    BY <1>1 DEF GoodFile
  <1>3. VerifyQueued'
    BY <1>1 DEF VerifyInv, VerifyQueued
  <1>4. MatchOnItsWay'
    BY <1>1, <1>2 DEF VerifyInv, MatchOnItsWay
  <1>5. ReadyToApply'
    BY <1>1, <1>2 DEF VerifyInv, ReadyToApply, MatchOnItsWay
  <1>6. ApplyQueued'
    BY <1>1, <1>2 DEF VerifyInv, ApplyQueued
  <1>7. QED
    BY <1>3, <1>4, <1>5, <1>6 DEF VerifyInv, InCall, AppliedIsVerified

(* A step of config_atomic itself keeps the file it verified.              *)
LEMMA VerifyHost ==
    ASSUME VerifyInv, TypeOK', HostStep \/ Call, MaxCalls = 1
    PROVE  VerifyInv'
  <1>0. /\ TypeOK /\ InCall /\ VerifyQueued /\ MatchOnce /\ MatchOnItsWay
        /\ calls \in 0 .. 1
    BY DEF VerifyInv, TypeOK
  <1>1. ASSUME UNCHANGED replies PROVE (HasMatch' => HasMatch) /\ MatchOnce'
    BY <1>0, <1>1 DEF HasMatch, MatchOnce
  <1>2. ASSUME NEW out, Replied(out) PROVE (HasMatch' => HasMatch) /\ MatchOnce'
    BY <1>0, <1>2, TakenLemma
  <1>3. ASSUME Failed PROVE (HasMatch' => HasMatch) /\ MatchOnce'
    BY <1>1, <1>3 DEF Failed
  <1>4. CASE Call
    <2>1. UNCHANGED <<cmds, flash, running, replies>> /\ calls = 0 /\ calls' = 1
      BY <1>0, <1>4 DEF Call, stream, device
    <2>2. pc = "idle" /\ pc' \in {"reload", "setup"}
      BY <1>4 DEF Call
    <2>3. QED
      BY <1>1, <2>1, <2>2, HostMoves DEF Over
  <1>5. CASE Setup \/ SetupFails \/ Backoff \/ AwaitServer
    <2>1. UNCHANGED <<cmds, flash, running, replies, calls>>
      BY <1>5 DEF Setup, SetupFails, Backoff, AwaitServer, GoTo, Return, stream, device
    <2>2. \/ pc \in {"setup", "backoff"} /\ pc' \in {"idle", "copy"}
          \/ pc = "await" /\ pc' = "apply"
      BY <1>5 DEF Setup, SetupFails, Backoff, AwaitServer, GoTo, Return
    <2>3. QED
      BY <1>0, <1>1, <2>1, <2>2, HostMoves DEF Over, InCall
  <1>6. CASE Scheduled \/ Copied \/ CopyAgain \/ CopyGivesUp
    <2>0. (\E out : Replied(out)) \/ Failed
      BY <1>6 DEF Scheduled, Copied, CopyAgain, CopyGivesUp, CopyFailed
    <2>1. (HasMatch' => HasMatch) /\ MatchOnce'
      BY <1>2, <1>3, <2>0
    <2>2. UNCHANGED <<cmds, flash, running, calls>>
      BY <1>6 DEF Scheduled, Copied, CopyAgain, CopyGivesUp, GoTo, Return, device
    <2>3. /\ pc \in {"reload", "copy"} /\ pc' \in {"setup", "verify", "backoff", "idle"}
      BY <1>6 DEF Scheduled, Copied, CopyAgain, CopyGivesUp, GoTo, Return
    <2>4. QED
      BY <1>0, <2>1, <2>2, <2>3, HostMoves DEF Over, InCall
  <1>7. CASE Verified
    <2>1. Replied("match") /\ UNCHANGED <<cmds, flash, running, calls>>
      BY <1>7 DEF Verified, GoTo, device
    <2>2. HasMatch /\ ~ HasMatch' /\ MatchOnce'
      BY <1>0, <2>1, TakenLemma
    <2>3. ~ Has("verify")
      BY <1>0, <2>2 DEF VerifyQueued
    <2>4. pc = "verify" /\ pc' = "done"
      BY <1>7 DEF Verified, GoTo
    <2>5. QED
      BY <1>0, <2>1, <2>2, <2>3, <2>4, HostMoves DEF Over, InCall
  <1>8. CASE VerifyRejected \/ VerifyFails
    <2>0. (\E out : Replied(out)) \/ Failed
      BY <1>8 DEF VerifyRejected, VerifyFails
    <2>1. (HasMatch' => HasMatch) /\ MatchOnce'
      BY <1>2, <1>3, <2>0
    <2>2. UNCHANGED <<cmds, flash, running, calls>>
      BY <1>8 DEF VerifyRejected, VerifyFails, Return, device
    <2>3. pc = "verify" /\ pc' = "idle"
      BY <1>8 DEF VerifyRejected, VerifyFails, Return
    <2>4. Over'
      BY <1>0, <2>2, <2>3 DEF Over, InCall
    <2>5. QED
      BY <1>0, <2>1, <2>2, <2>3, <2>4, HostMoves
  <1>9. CASE DoneRequested \/ Applied \/ Deleted \/ Cancelled \/ CommandFails
    <2>0. (\E out : Replied(out)) \/ Failed
      BY <1>9 DEF DoneRequested, Applied, Deleted, Cancelled, CommandFails
    <2>1. (HasMatch' => HasMatch) /\ MatchOnce'
      BY <1>2, <1>3, <2>0
    <2>2. UNCHANGED <<cmds, flash, running, calls>>
      BY <1>9 DEF DoneRequested, Applied, Deleted, Cancelled, CommandFails, GoTo, Return, device
    <2>3. \/ pc = "done" /\ pc' = "await"
          \/ pc \in {"reload", "apply", "delete", "cancel"} /\ pc' \in {"delete", "cancel", "idle"}
      BY <1>9 DEF DoneRequested, Applied, Deleted, Cancelled, CommandFails, GoTo, Return
    <2>4. pc' = "idle" => Over'
      BY <1>0, <2>2, <2>3 DEF Over, InCall
    <2>5. QED
      BY <1>0, <2>1, <2>2, <2>3, <2>4, HostMoves DEF Over, InCall
  <1>10. CASE SendCommand
    <2>1. /\ UNCHANGED <<pc, calls, replies, flash, running>>
          /\ pc \in CmdStep /\ ~ waiting /\ waiting' /\ ~ Over
      BY <1>10 DEF SendCommand, device, Over, CmdStep
    <2>2. ~ Has("verify") /\ ~ HasMatch /\ ~ HasMatch' /\ MatchOnce'
      BY <1>0, <1>1, <2>1 DEF VerifyQueued, MatchOnItsWay
    <2>3. CASE cmds' = cmds
      BY <1>0, <2>1, <2>2, <2>3, HostMoves DEF InCall, Over
    <2>4. CASE /\ Len(cmds') = Len(cmds) + 1 /\ cmds'[Len(cmds) + 1].cmd = pc
               /\ \A i \in 1 .. Len(cmds) : cmds'[i] = cmds[i]
      <3>1. /\ \A c : Has(c)' => Has(c) \/ c = pc
            /\ \A a, b : Before(a, b) /\ (a = pc => ~ Has(b) /\ b # pc) => Before(a, b)'
            /\ VerifyOnce'
        BY <1>0, <2>2, <2>4, GrowLemma
      <3>2. VerifyQueued'
        <4> SUFFICES ASSUME Has("verify")' PROVE VerifyQueued'
          BY DEF VerifyQueued
        <4>1. pc = "verify"
          BY <2>2, <3>1
        <4>2. ~ Has("apply") /\ ~ Has("delete")
          BY <2>1, <4>1 DEF VerifyInv, ApplyQueued
        <4>3. Before("copy", "verify")
          BY <2>2 DEF Before, Has
        <4>4. Before("copy", "verify")' /\ ~ Has("apply")' /\ ~ Has("delete")'
          BY <3>1, <4>1, <4>2, <4>3
        <4>5. QED
          BY <2>1, <2>2, <3>1, <4>1, <4>4 DEF VerifyQueued
      <3>3. MatchOnItsWay'
        BY <2>2 DEF MatchOnItsWay
      <3>4. ReadyToApply'
        BY <2>1, <3>1 DEF VerifyInv, ReadyToApply, GoodFile
      <3>5. ApplyQueued'
        <4>1. ASSUME Has("apply")' PROVE GoodFile' /\ Before("apply", "delete")'
          <5>1. CASE pc = "apply"
            <6>1. GoodFile /\ ~ Has("delete")
              BY <5>1 DEF VerifyInv, ReadyToApply
            <6>2. Before("apply", "delete")
              BY <6>1 DEF Before, Has
            <6>3. QED
              BY <2>1, <3>1, <5>1, <6>1, <6>2 DEF GoodFile
          <5>2. CASE pc # "apply"
            <6>1. Has("apply")
              BY <3>1, <4>1, <5>2
            <6>2. GoodFile /\ Before("apply", "delete") /\ pc \in {"delete", "cancel"}
              BY <2>1, <5>2, <6>1 DEF VerifyInv, ApplyQueued
            <6>3. QED
              BY <2>1, <3>1, <5>2, <6>2 DEF GoodFile
          <5>3. QED
            BY <5>1, <5>2
        <4>2. ASSUME Has("apply")' \/ Has("delete")' PROVE pc' \in {"apply", "delete", "cancel"}
          BY <2>1, <3>1, <4>2 DEF VerifyInv, ApplyQueued
        <4>3. QED
          BY <4>1, <4>2 DEF ApplyQueued
      <3>6. QED
        BY <2>1, <2>2, <3>2, <3>3, <3>4, <3>5 DEF VerifyInv, InCall, AppliedIsVerified
    <2>5. QED
      BY <1>0, <1>10, <2>3, <2>4, SendLemma
  <1>11. QED
    BY <1>4, <1>5, <1>6, <1>7, <1>8, <1>9, <1>10 DEF HostStep

(* A step of the device keeps it, too: what it executes was sent in that   *)
(* order.                                                                  *)
LEMMA VerifyDevice ==
    ASSUME VerifyInv, TypeOK', DevStep \/ DevReloads
    PROVE  VerifyInv'
  <1>0. /\ TypeOK /\ InCall /\ VerifyQueued /\ MatchOnce /\ MatchOnItsWay
        /\ ReadyToApply /\ ApplyQueued /\ AppliedIsVerified
        /\ cmds \in Seq(Line) /\ replies \in Seq(Reply)
    BY DEF VerifyInv, TypeOK
  <1>1. UNCHANGED <<pc, waiting, calls>> /\ (Over' <=> Over)
    BY DEF DevStep, DevReloadIn, DevCopy, DevVerify, DevDone, DevApply, DevDelete, DevCancel,
           DevMisled, DevReloads, host, Over
  <1>2. InCall'
    BY <1>0, <1>1 DEF InCall
  (* What a command that leaves the queue, and a reply that is no match, do. *)
  <1>3. ASSUME /\ \A c : Has(c)' => Has(c)
               /\ \A a, b : Before(a, b) => Before(a, b)'
               /\ VerifyOnce => VerifyOnce'
               /\ HasMatch' => HasMatch
               /\ MatchOnce' /\ running' # "bad"
               /\ GoodFile => GoodFile' \/ (~ HasMatch /\ ~ Has("apply")'
                                               /\ pc \notin {"done", "await", "apply"})
        PROVE  VerifyInv'
    <2>1. VerifyQueued'
      BY <1>0, <1>1, <1>3 DEF VerifyQueued
    <2>2. MatchOnItsWay'
      BY <1>0, <1>1, <1>3 DEF MatchOnItsWay
    <2>3. ReadyToApply'
      BY <1>0, <1>1, <1>3 DEF ReadyToApply
    <2>4. ApplyQueued'
      BY <1>0, <1>1, <1>3 DEF ApplyQueued
    <2>5. QED
      BY <1>2, <1>3, <2>1, <2>2, <2>3, <2>4 DEF VerifyInv, AppliedIsVerified
  <1>4. ASSUME NEW cmd, Executes(cmd)
        PROVE  /\ Has(cmd)
               /\ \A c : Has(c)' => Has(c)
               /\ \A a, b : Before(a, b) => Before(a, b)'
               /\ VerifyOnce => VerifyOnce'
               /\ \A b : Before(b, cmd) => ~ Has(b) \/ b = cmd
               /\ cmd = "verify" /\ VerifyOnce => ~ Has("verify")'
    <2>1. /\ 1 \in DOMAIN cmds /\ cmds[1].cmd = cmd /\ 1 \in Nat
          /\ \A i \in DOMAIN cmds' : i + 1 \in DOMAIN cmds /\ cmds'[i] = cmds[i + 1]
      BY <1>0, <1>4, ExecutesLemma
    <2>2. /\ \A c : Has(c)' => Has(c)
          /\ \A a, b : Before(a, b) => Before(a, b)'
          /\ VerifyOnce => VerifyOnce'
      BY <1>0, <2>1, ShrinkLemma
    <2>3. Has(cmd)
      BY <2>1 DEF Has
    <2>4. \A i \in DOMAIN cmds : i \in Nat \ {0}
      BY <1>0
    <2>5. ASSUME NEW b, Before(b, cmd), Has(b) PROVE b = cmd
      <3>1. PICK i \in DOMAIN cmds : cmds[i].cmd = b
        BY <2>5 DEF Has
      <3>2. i < 1
        BY <2>1, <2>5, <3>1 DEF Before
      <3>3. QED
        BY <2>4, <3>2
    <2>6. ASSUME cmd = "verify", VerifyOnce, Has("verify")' PROVE FALSE
      <3>1. PICK i \in DOMAIN cmds' : cmds'[i].cmd = "verify"
        BY <2>6 DEF Has
      <3>2. i + 1 = 1
        BY <2>1, <2>6, <3>1 DEF VerifyOnce
      <3>3. i \in Nat \ {0}
        BY DEF TypeOK
      <3>4. QED
        BY <3>2, <3>3
    <2>7. QED
      BY <2>2, <2>3, <2>5, <2>6
  <1>5. ASSUME NEW cmd \in CmdStep, NEW out \in Out \ {"match"}, Answers(cmd, out)
        PROVE  (HasMatch' => HasMatch) /\ MatchOnce'
    <2>0. /\ replies' \in Seq(Reply)
          /\ \/ replies' = replies
             \/ /\ Len(replies') = Len(replies) + 1
                /\ replies'[Len(replies) + 1] = [cmd |-> cmd, out |-> out]
                /\ \A i \in 1 .. Len(replies) : replies'[i] = replies[i]
      <3>1. out \in Out
        OBVIOUS
      <3>2. QED
        BY <1>0, <1>5, <3>1, AnswersLemma
    <2>1. \/ replies' = replies
          \/ /\ replies' \in Seq(Reply) /\ Len(replies') = Len(replies) + 1
             /\ replies'[Len(replies) + 1].out = out
             /\ \A i \in 1 .. Len(replies) : replies'[i] = replies[i]
      BY <2>0
    <2>2. CASE replies' = replies
      BY <1>0, <2>2 DEF HasMatch, MatchOnce
    <2>3. CASE replies' # replies
      <3>1. \A i \in DOMAIN replies' : i \in DOMAIN replies \/ i = Len(replies) + 1
        BY <1>0, <2>1, <2>3
      <3>2. \A i \in DOMAIN replies : replies'[i] = replies[i]
        BY <1>0, <2>1, <2>3
      <3>3. \A i \in DOMAIN replies' :
                replies'[i].out = "match" => i \in DOMAIN replies /\ replies[i].out = "match"
        BY <1>5, <2>1, <2>3, <3>1, <3>2
      <3>4. QED
        BY <1>0, <3>3 DEF HasMatch, MatchOnce
    <2>4. QED
      BY <2>2, <2>3
  <1>6. CASE DevReloadIn \/ DevDone \/ DevCancel
    <2>1. PICK cmd \in {"reload", "done", "cancel"} :
             /\ Executes(cmd) /\ UNCHANGED <<flash, running>>
             /\ \E out \in {"plain", "error"} : Answers(cmd, out)
      BY <1>6 DEF DevReloadIn, DevDone, DevCancel, device
    <2>2. (HasMatch' => HasMatch) /\ MatchOnce'
      BY <1>5, <2>1 DEF CmdStep, Out
    <2>3. /\ \A c : Has(c)' => Has(c)
          /\ \A a, b : Before(a, b) => Before(a, b)'
          /\ VerifyOnce => VerifyOnce'
      BY <1>4, <2>1
    <2>4. GoodFile => GoodFile'
      BY <2>1, <2>3 DEF GoodFile
    <2>5. QED
      BY <1>0, <1>3, <2>1, <2>2, <2>3, <2>4 DEF AppliedIsVerified
  <1>7. CASE DevCopy
    <2>1. /\ Executes("copy") /\ UNCHANGED running
          /\ \E out \in {"plain", "error"} : Answers("copy", out)
      BY <1>7 DEF DevCopy
    <2>2. (HasMatch' => HasMatch) /\ MatchOnce'
      BY <1>5, <2>1 DEF CmdStep, Out
    <2>3. /\ \A c : Has(c)' => Has(c)
          /\ \A a, b : Before(a, b) => Before(a, b)'
          /\ VerifyOnce => VerifyOnce'
          /\ Has("copy")
      BY <1>4, <2>1
    <2>4. QED
      BY <1>0, <1>3, <2>1, <2>2, <2>3 DEF AppliedIsVerified, GoodFile
  <1>8. CASE DevDelete
    <2>1. /\ Executes("delete") /\ UNCHANGED running /\ Answers("delete", "plain")
      BY <1>8 DEF DevDelete
    <2>2. (HasMatch' => HasMatch) /\ MatchOnce'
      BY <1>5, <2>1 DEF CmdStep, Out
    <2>3. /\ \A c : Has(c)' => Has(c)
          /\ \A a, b : Before(a, b) => Before(a, b)'
          /\ VerifyOnce => VerifyOnce'
          /\ Has("delete")
      BY <1>4, <2>1
    <2>4. ~ Has("apply")'
      <3>1. SUFFICES ASSUME Has("apply") PROVE FALSE
        BY <2>3
      <3>2. Before("apply", "delete")
        BY <1>0, <3>1 DEF ApplyQueued
      <3>3. QED
        BY <1>4, <2>1, <3>1, <3>2
    <2>5. ~ HasMatch /\ pc \notin {"done", "await", "apply"}
      BY <1>0, <2>3 DEF MatchOnItsWay, ReadyToApply
    <2>6. QED
      BY <1>0, <1>3, <2>1, <2>2, <2>3, <2>4, <2>5 DEF AppliedIsVerified
  <1>9. CASE DevApply
    <2>1. Executes("apply") /\ UNCHANGED flash
      BY <1>9 DEF DevApply
    <2>2. /\ \A c : Has(c)' => Has(c)
          /\ \A a, b : Before(a, b) => Before(a, b)'
          /\ VerifyOnce => VerifyOnce'
          /\ Has("apply")
      BY <1>4, <2>1
    <2>3. GoodFile /\ GoodFile'
      BY <1>0, <2>1, <2>2 DEF ApplyQueued, GoodFile
    <2>4. running' # "bad"
      BY <1>0, <1>9, <2>3 DEF DevApply, GoodFile, AppliedIsVerified
    <2>5. (HasMatch' => HasMatch) /\ MatchOnce'
      <3>1. CASE UNCHANGED replies
        BY <1>0, <3>1 DEF HasMatch, MatchOnce
      <3>2. CASE \E out \in {"plain", "error"} : Answers("apply", out)
        BY <1>5, <3>2 DEF CmdStep, Out
      <3>3. QED
        BY <1>9, <3>1, <3>2 DEF DevApply
    <2>6. QED
      BY <1>3, <2>2, <2>3, <2>4, <2>5
  <1>10. CASE DevMisled
    <2>1. UNCHANGED <<flash, running>>
      BY <1>10 DEF DevMisled, device
    <2>2. /\ replies' \in Seq(Reply)
          /\ \A i \in DOMAIN cmds' : i + 2 \in DOMAIN cmds /\ cmds'[i] = cmds[i + 2]
          /\ \A i \in 1 .. Len(replies) : replies'[i] = replies[i]
          /\ \A i \in DOMAIN replies' : i \in DOMAIN replies \/ replies'[i].out # "match"
      BY <1>0, <1>10, MisledLemma
    <2>3. /\ \A c : Has(c)' => Has(c)
          /\ \A a, b : Before(a, b) => Before(a, b)'
          /\ VerifyOnce => VerifyOnce'
      <3>1. 2 \in Nat
        OBVIOUS
      <3>2. QED
        BY <1>0, <2>2, <3>1, ShrinkLemma
    <2>4. \A i \in DOMAIN replies' :
              replies'[i].out = "match" => i \in DOMAIN replies /\ replies[i].out = "match"
      <3>1. \A i \in DOMAIN replies : replies'[i] = replies[i]
        BY <1>0, <2>2
      <3>2. QED
        BY <2>2, <3>1
    <2>5. (HasMatch' => HasMatch) /\ MatchOnce'
      BY <1>0, <2>4 DEF HasMatch, MatchOnce
    <2>6. GoodFile => GoodFile'
      BY <2>1, <2>3 DEF GoodFile
    <2>7. QED
      BY <1>0, <1>3, <2>1, <2>3, <2>5, <2>6 DEF AppliedIsVerified
  <1>11. CASE DevReloads
    <2>1. cmds' = <<>> /\ replies' = <<>> /\ running' = "old" /\ UNCHANGED flash
      BY <1>11 DEF DevReloads
    <2>2. DOMAIN cmds' = {} /\ DOMAIN replies' = {}
      BY <2>1
    <2>3. /\ \A c : ~ Has(c)'
          /\ \A a, b : Before(a, b)'
          /\ VerifyOnce' /\ ~ HasMatch' /\ MatchOnce'
      BY <2>2 DEF Has, Before, VerifyOnce, HasMatch, MatchOnce
    <2>4. GoodFile => GoodFile'
      BY <2>1, <2>3 DEF GoodFile
    <2>5. QED
      BY <1>3, <2>1, <2>3, <2>4
  <1>12. CASE DevVerify
    <2>1. /\ Executes("verify") /\ UNCHANGED <<flash, running>>
          /\ \/ \E out \in {"mismatch", "error"} : Answers("verify", out)
             \/ flash = "good" /\ Answers("verify", "match")
      BY <1>12, <1>0 DEF DevVerify, device, TypeOK
    <2>2. /\ \A c : Has(c)' => Has(c)
          /\ \A a, b : Before(a, b) => Before(a, b)'
          /\ VerifyOnce => VerifyOnce'
          /\ Has("verify")
          /\ \A b : Before(b, "verify") => ~ Has(b) \/ b = "verify"
          /\ VerifyOnce => ~ Has("verify")'
      BY <1>4, <2>1
    <2>3. /\ (pc = "verify" /\ waiting) \/ Over
          /\ ~ HasMatch /\ ~ Has("delete") /\ ~ Has("apply")
          /\ ~ Has("copy") /\ ~ Has("verify")'
      BY <1>0, <2>2 DEF VerifyQueued
    <2>4. CASE \E out \in {"mismatch", "error"} : Answers("verify", out)
      <3>1. (HasMatch' => HasMatch) /\ MatchOnce'
        BY <1>5, <2>4 DEF CmdStep, Out
      <3>2. GoodFile => GoodFile'
        BY <2>1, <2>2 DEF GoodFile
      <3>3. QED
        BY <1>0, <1>3, <2>1, <2>2, <3>1, <3>2 DEF AppliedIsVerified
    <2>5. CASE flash = "good" /\ Answers("verify", "match")
      <3>1. GoodFile'
        BY <2>1, <2>2, <2>3, <2>5 DEF GoodFile
      <3>2. /\ replies' \in Seq(Reply)
            /\ \/ replies' = replies
               \/ /\ Len(replies') = Len(replies) + 1
                  /\ \A i \in 1 .. Len(replies) : replies'[i] = replies[i]
        BY <1>0, <2>5, AnswersLemma DEF CmdStep, Out
      <3>3. \A i \in DOMAIN replies' :
                (i \in DOMAIN replies /\ replies'[i] = replies[i]) \/ i = Len(replies) + 1
        BY <1>0, <3>2
      <3>4. MatchOnce'
        BY <2>3, <3>3 DEF MatchOnce, HasMatch
      <3>5. MatchOnItsWay'
        BY <1>1, <2>2, <2>3, <3>1 DEF MatchOnItsWay
      <3>6. VerifyQueued' /\ ApplyQueued'
        BY <2>2, <2>3 DEF VerifyQueued, ApplyQueued
      <3>7. ReadyToApply'
        BY <2>2, <2>3, <3>1 DEF ReadyToApply
      <3>8. QED
        BY <1>0, <1>2, <2>1, <3>4, <3>5, <3>6, <3>7 DEF VerifyInv, AppliedIsVerified
    <2>6. QED
      BY <2>1, <2>4, <2>5
  <1>13. QED
    BY <1>6, <1>7, <1>8, <1>9, <1>10, <1>11, <1>12 DEF DevStep

(* It holds at first ...                                                   *)
LEMMA VerifyInit == Init => VerifyInv
  <1> SUFFICES ASSUME Init PROVE VerifyInv
    OBVIOUS
  <1>1. TypeOK
    BY TypeInit
  <1>2. /\ pc = "idle" /\ running = "old" /\ cmds = <<>>
        /\ replies = [i \in 1 .. Stale |-> Stray]
    BY DEF Init
  <1>3. DOMAIN cmds = {} /\ \A i \in DOMAIN replies : replies[i].out # "match"
    BY <1>2 DEF Stray
  <1>4. QED
    BY <1>1, <1>2, <1>3 DEF VerifyInv, InCall, VerifyQueued, MatchOnce, MatchOnItsWay,
       ReadyToApply, ApplyQueued, AppliedIsVerified, Has, HasMatch

(* ... and every step keeps it, when one call is made.                     *)
LEMMA VerifyStep ==
    ASSUME MaxCalls = 1, VerifyInv, [Next]_vars
    PROVE  VerifyInv'
  <1>1. TypeOK'
    BY TypeStep DEF VerifyInv
  <1>2. CASE Call \/ HostStep
    BY <1>1, <1>2, VerifyHost
  <1>3. CASE DevStep \/ DevReloads
    BY <1>1, <1>3, VerifyDevice
  <1>4. CASE UNCHANGED vars
    <2>1. UNCHANGED <<pc, waiting, calls, cmds, replies, flash, running>>
      BY <1>4 DEF vars, host, stream, device
    <2>2. HasMatch' <=> HasMatch
      BY <2>1 DEF HasMatch
    <2>3. MatchOnce'
      BY <2>1 DEF VerifyInv, MatchOnce
    <2>4. QED
      BY <1>1, <2>1, <2>2, <2>3, HostMoves DEF VerifyInv, InCall, Over
  <1>5. QED
    BY <1>2, <1>3, <1>4 DEF Next, Finished

(* No file but one whose MD5 was verified is applied: as long as one call  *)
(* of config_atomic is made on a session, whatever is late, lost, retried  *)
(* or left over from login.                                                *)
THEOREM OnlyVerifiedIsApplied ==
    ASSUME MaxCalls = 1
    PROVE  Spec => []AppliedIsVerified
  <1>1. VerifyInv /\ [Next]_vars => VerifyInv'
    BY VerifyStep
  <1>2. VerifyInv => AppliedIsVerified
    BY DEF VerifyInv
  <1>3. QED
    BY VerifyInit, <1>1, <1>2, PTL DEF Spec

-----------------------------------------------------------------------------
(* Any number of calls, however late the replies: the HTTP servers.        *)

DoneSent(c) == \E i \in DOMAIN cmds : cmds[i] = [cmd |-> "done", call |-> c]

(* The call of server c is over, or has sent its request for /done.        *)
Beyond(c) ==
    \/ c # calls
    \/ pc \notin {"copy", "backoff", "verify", "done"}
    \/ pc = "done" /\ waiting

ServersStarted == \A c \in 1 .. MaxCalls : http[c] = "serving" => c <= calls

DoneOnItsWay ==
    link = "up" => \A c \in 1 .. MaxCalls : http[c] = "serving" /\ Beyond(c) => DoneSent(c)

ServerInv ==
    /\ TypeOK
    /\ pc # "idle" => calls \in 1 .. MaxCalls
    /\ ServersStarted /\ DoneOnItsWay

(* A server that starts or stops only disturbs what is known of itself.    *)
LEMMA ServerKept ==
    ASSUME ServerInv, link' = "up" => link = "up", calls' = calls,
           \A c \in 1 .. MaxCalls : http'[c] = "serving" =>
               /\ http[c] = "serving"
               /\ Beyond(c)' => Beyond(c)
               /\ DoneSent(c) => DoneSent(c)'
    PROVE  ServersStarted' /\ DoneOnItsWay'
  BY DEF ServerInv, ServersStarted, DoneOnItsWay

(* The device takes a command from the queue that is no request for /done. *)
LEMMA DoneStaysSent ==
    ASSUME TypeOK, NEW cmd \in CmdStep, Executes(cmd), NEW c, cmd # "done" \/ Head(cmds).call # c
    PROVE  DoneSent(c) => DoneSent(c)'
  <1> DEFINE line == [cmd |-> "done", call |-> c]
  <1>1. /\ cmds \in Seq(Line) /\ cmds # <<>> /\ Head(cmds).cmd = cmd
        /\ Len(cmds') = Len(cmds) - 1
        /\ \A i \in 1 .. (Len(cmds) - 1) : cmds'[i] = cmds[i + 1]
        /\ Head(cmds) = cmds[1] /\ cmds' \in Seq(Line)
    BY TailLemma DEF Executes, TypeOK
  <1>2. cmds[1] # line
    BY <1>1
  <1> SUFFICES ASSUME NEW i \in DOMAIN cmds, cmds[i] = line PROVE DoneSent(c)'
    BY DEF DoneSent
  <1>3. i # 1
    BY <1>2
  <1> HIDE DEF line
  <1>4. i - 1 \in DOMAIN cmds' /\ cmds'[i - 1] = cmds[i]
    BY <1>1, <1>3
  <1> QED BY <1>4 DEF DoneSent, line

(* Two lines are gone: the first was no request for /done.                 *)
LEMMA DoneSentMisled ==
    ASSUME TypeOK, DevMisled, NEW c, cmds[2].cmd # "done" \/ cmds[2].call # c
    PROVE  DoneSent(c) => DoneSent(c)'
  <1> DEFINE line == [cmd |-> "done", call |-> c]
  <1>1. /\ cmds \in Seq(Line) /\ Len(cmds) \in Nat /\ Len(cmds) > 1
        /\ Head(cmds) = cmds[1] /\ Head(cmds).cmd # "done"
    BY DEF DevMisled, TypeOK
  <1>2. /\ Len(cmds') = Len(cmds) - 2 /\ cmds' \in Seq(Line)
        /\ \A i \in 1 .. (Len(cmds) - 2) : cmds'[i] = cmds[2 + i]
    <2>1. 2 \in 0 .. Len(cmds) /\ cmds' = SubSeq(cmds, 2 + 1, Len(cmds))
      BY <1>1 DEF DevMisled
    <2> QED BY <1>1, <2>1, DropLemma
  <1>3. cmds[1] # line /\ cmds[2] # line
    BY <1>1
  <1> SUFFICES ASSUME NEW i \in DOMAIN cmds, cmds[i] = line PROVE DoneSent(c)'
    BY DEF DoneSent
  <1>4. i # 1 /\ i # 2
    BY <1>3
  <1> HIDE DEF line
  <1>5. i - 2 \in DOMAIN cmds' /\ cmds'[i - 2] = cmds[i]
    BY <1>1, <1>2, <1>4
  <1> QED BY <1>5 DEF DoneSent, line

(* What is on its way is still so behind a command that is sent; and the   *)
(* request for /done is on its way once it was sent.                       *)
LEMMA DoneSentSent ==
    ASSUME TypeOK, SendCommand, link = "up"
    PROVE  /\ \A c : DoneSent(c) => DoneSent(c)'
           /\ pc = "done" => DoneSent(calls)'
  <1> DEFINE line == [cmd |-> pc, call |-> calls]
  <1>1. line \in Line /\ cmds \in Seq(Line) /\ cmds' = Append(cmds, line)
    BY DEF TypeOK, SendCommand, Line
  <1>2. /\ Len(cmds') = Len(cmds) + 1 /\ cmds' \in Seq(Line) /\ Len(cmds) \in Nat
        /\ \A i \in 1 .. Len(cmds) : cmds'[i] = cmds[i]
        /\ cmds'[Len(cmds) + 1] = line
    BY <1>1, AppendLemma
  <1>3. \A i \in DOMAIN cmds : i \in DOMAIN cmds' /\ cmds'[i] = cmds[i]
    BY <1>1, <1>2
  <1>4. Len(cmds) + 1 \in DOMAIN cmds'
    BY <1>2
  <1>5. \A c : DoneSent(c) => DoneSent(c)'
    BY <1>3 DEF DoneSent
  <1>6. pc = "done" => line = [cmd |-> "done", call |-> calls]
    OBVIOUS
  <1>7. calls' = calls
    BY DEF SendCommand
  <1> HIDE DEF line
  <1>8. pc = "done" => DoneSent(calls)'
    BY <1>2, <1>4, <1>6, <1>7 DEF DoneSent
  <1> QED BY <1>5, <1>8

(* The steps of config_atomic: each way out of a call accounts for its     *)
(* server.                                                                 *)
LEMMA ServerHost ==
    ASSUME ServerInv, HostStep
    PROVE  (pc' # "idle" => calls' \in 1 .. MaxCalls) /\ ServersStarted' /\ DoneOnItsWay'
  <1>0. /\ TypeOK /\ http \in [1 .. MaxCalls -> {"off", "serving", "dropped", "unreached"}]
        /\ pc # "idle" => calls \in 1 .. MaxCalls
    BY DEF ServerInv, TypeOK
  <1>1. calls' = calls /\ pc # "idle" /\ link' = link
    BY DEF HostStep, SendCommand, Scheduled, Setup, SetupFails, Copied, CopyAgain, Backoff,
           CopyGivesUp, Verified, VerifyRejected, VerifyFails, DoneRequested, AwaitServer,
           Applied, Deleted, Cancelled, CommandFails, GoTo, Return, stream, CmdStep
  <1> SUFFICES ServersStarted' /\ DoneOnItsWay'
    BY <1>0, <1>1
  <1>2. ASSUME cmds' = cmds,
               \A c \in 1 .. MaxCalls : http'[c] = "serving" =>
                   http[c] = "serving" /\ (Beyond(c)' => Beyond(c))
        PROVE  ServersStarted' /\ DoneOnItsWay'
    BY <1>1, <1>2, ServerKept DEF DoneSent
  <1>3. CASE Setup
    <2>1. /\ pc' = "copy" /\ http' = [http EXCEPT ![calls] = "serving"] /\ cmds' = cmds
          /\ pc = "setup"
      BY <1>3 DEF Setup, stream
    <2>2. ServersStarted'
      BY <1>0, <1>1, <2>1 DEF ServersStarted, ServerInv
    <2>3. ASSUME link' = "up", NEW c \in 1 .. MaxCalls, http'[c] = "serving", Beyond(c)'
          PROVE  DoneSent(c)'
      <3>1. c # calls
        BY <1>1, <2>1, <2>3 DEF Beyond
      <3>2. http[c] = "serving" /\ Beyond(c)
        BY <1>0, <2>1, <2>3, <3>1 DEF Beyond
      <3> QED BY <1>1, <2>1, <2>3, <3>2 DEF ServerInv, DoneOnItsWay, DoneSent
    <2> QED BY <2>2, <2>3 DEF DoneOnItsWay
  <1>4. CASE SendCommand
    <2>1. UNCHANGED <<pc, http>> /\ waiting' = TRUE
      BY <1>4 DEF SendCommand
    <2>2. ServersStarted'
      BY <1>1, <2>1 DEF ServersStarted, ServerInv
    <2>3. ASSUME link' = "up", NEW c \in 1 .. MaxCalls, http'[c] = "serving", Beyond(c)'
          PROVE  DoneSent(c)'
      <3>1. CASE Beyond(c)
        BY <1>0, <1>1, <1>4, <2>1, <2>3, <3>1, DoneSentSent DEF ServerInv, DoneOnItsWay
      <3>2. CASE ~ Beyond(c)
        BY <1>0, <1>1, <1>4, <2>1, <2>3, <3>2, DoneSentSent DEF Beyond
      <3> QED BY <3>1, <3>2
    <2> QED BY <2>2, <2>3 DEF DoneOnItsWay
  <1>5. CASE SetupFails \/ Backoff \/ AwaitServer
    BY <1>1, <1>2, <1>5 DEF SetupFails, Backoff, AwaitServer, GoTo, Return, stream, Beyond
  <1>6. CASE Scheduled \/ Applied \/ Deleted \/ Cancelled \/ CommandFails
    <2>1. pc \in {"reload", "apply", "delete", "cancel"} /\ UNCHANGED <<cmds, http>>
      BY <1>6 DEF Scheduled, Applied, Deleted, Cancelled, CommandFails
    <2> QED BY <1>2, <2>1 DEF Beyond
  <1>7. CASE Copied \/ CopyAgain \/ Verified
    <2>1. pc' \in {"verify", "backoff", "done"} /\ UNCHANGED <<cmds, http>> /\ waiting' = FALSE
      BY <1>7 DEF Copied, CopyAgain, CopyFailed, Verified, GoTo, Replied, Failed
    <2>2. \A c \in 1 .. MaxCalls : Beyond(c)' => Beyond(c)
      BY <1>1, <2>1 DEF Beyond
    <2> QED BY <1>2, <2>1, <2>2
  <1>8. CASE CopyGivesUp \/ VerifyRejected \/ VerifyFails
    <2>1. /\ cmds' = cmds
          /\ \E s \in {"off", "dropped"} : http' = [http EXCEPT ![calls] = s]
      BY <1>8 DEF CopyGivesUp, VerifyRejected, VerifyFails, Abort
    <2>2. \A c \in 1 .. MaxCalls : http'[c] = "serving" => http[c] = "serving" /\ c # calls
      BY <1>0, <2>1
    <2> QED BY <1>2, <2>1, <2>2 DEF Beyond
  <1>9. CASE DoneRequested
    <2>1. pc = "done" /\ UNCHANGED <<cmds, http>> /\ (waiting \/ link = "down")
      BY <1>9 DEF DoneRequested, Replied, Failed
    <2>2. CASE waiting
      BY <1>2, <2>1, <2>2 DEF Beyond
    <2>3. CASE link = "down"
      BY <1>1, <2>1, <2>3 DEF ServersStarted, DoneOnItsWay, ServerInv
    <2> QED BY <2>1, <2>2, <2>3
  <1> QED
    BY <1>3, <1>4, <1>5, <1>6, <1>7, <1>8, <1>9 DEF HostStep

(* The steps of the device: a request for /done leaves the queue with its  *)
(* server.                                                                 *)
LEMMA ServerDevice ==
    ASSUME ServerInv, DevStep
    PROVE  (pc' # "idle" => calls' \in 1 .. MaxCalls) /\ ServersStarted' /\ DoneOnItsWay'
  <1>0. /\ TypeOK /\ http \in [1 .. MaxCalls -> {"off", "serving", "dropped", "unreached"}]
        /\ pc # "idle" => calls \in 1 .. MaxCalls
    BY DEF ServerInv, TypeOK
  <1>1. UNCHANGED <<calls, pc, waiting>> /\ (link' = "up" => link = "up")
    BY DEF DevStep, DevReloadIn, DevCopy, DevVerify, DevDone, DevApply, DevDelete, DevCancel,
           DevMisled, host
  <1>2. \A c : Beyond(c)' => Beyond(c)
    BY <1>1 DEF Beyond
  <1>3. CASE DevDone
    <2>1. /\ Executes("done")
          /\ \E s \in {"off", "unreached"} : http' = [http EXCEPT ![Head(cmds).call] = s]
      BY <1>3 DEF DevDone
    <2>2. \A c \in 1 .. MaxCalls : http'[c] = "serving" => http[c] = "serving" /\ Head(cmds).call # c
      BY <1>0, <2>1
    <2>3. \A c \in 1 .. MaxCalls : http'[c] = "serving" => (DoneSent(c) => DoneSent(c)')
      BY <1>0, <2>1, <2>2, DoneStaysSent DEF CmdStep
    <2> QED BY <1>0, <1>1, <1>2, <2>2, <2>3, ServerKept
  <1>4. CASE DevReloadIn \/ DevCopy \/ DevVerify \/ DevApply \/ DevDelete \/ DevCancel
    <2>1. http' = http /\ \E cmd \in CmdStep \ {"done"} : Executes(cmd)
      BY <1>4 DEF DevReloadIn, DevCopy, DevVerify, DevApply, DevDelete, DevCancel, CmdStep
    <2>2. \A c : DoneSent(c) => DoneSent(c)'
      BY <1>0, <2>1, DoneStaysSent
    <2> QED BY <1>0, <1>1, <1>2, <2>1, <2>2, ServerKept
  <1>5. CASE DevMisled
    <2>1. http' = IF cmds[2].cmd = "done" THEN [http EXCEPT ![cmds[2].call] = "unreached"] ELSE http
      BY <1>5 DEF DevMisled
    <2>2. \A c \in 1 .. MaxCalls : http'[c] = "serving" =>
              http[c] = "serving" /\ (cmds[2].cmd # "done" \/ cmds[2].call # c)
      BY <1>0, <2>1
    <2>3. \A c \in 1 .. MaxCalls : http'[c] = "serving" => (DoneSent(c) => DoneSent(c)')
      BY <1>0, <1>5, <2>2, DoneSentMisled
    <2> QED BY <1>0, <1>1, <1>2, <2>2, <2>3, ServerKept
  <1> QED BY <1>3, <1>4, <1>5 DEF DevStep

(* However late the replies, whichever step fails and whatever the device  *)
(* refuses: while the session lives, a server that outlives its call has   *)
(* its /done on the way, was dropped by the error return of verify, or had *)
(* its /done not fetched.  For any number of calls and every constant.     *)
THEOREM NoServerLeft == Spec => []ServersStop
  <1>1. Init => ServerInv
    <2> SUFFICES ASSUME Init PROVE ServerInv
      OBVIOUS
    <2>1. TypeOK /\ pc = "idle" /\ \A c \in 1 .. MaxCalls : http[c] = "off"
      BY TypeInit DEF Init
    <2> QED BY <2>1 DEF ServerInv, ServersStarted, DoneOnItsWay
  <1>2. ServerInv /\ [Next]_vars => ServerInv'
    <2> SUFFICES ASSUME ServerInv, [Next]_vars PROVE ServerInv'
      OBVIOUS
    <2>1. TypeOK' /\ TypeOK
      BY TypeStep DEF ServerInv
    <2>2. CASE Call
      <3>1. /\ pc = "idle" /\ calls < MaxCalls /\ calls' = calls + 1
            /\ UNCHANGED <<http, link, cmds, waiting>>
        BY <2>2 DEF Call, stream
      <3>2. calls \in Nat /\ calls' \in 1 .. MaxCalls
        BY <2>1, <3>1, ConfigAssumption DEF TypeOK
      <3>3. \A c \in 1 .. MaxCalls : Beyond(c)
        BY <3>1 DEF Beyond
      <3>4. ServersStarted'
        BY <3>1, <3>2 DEF ServersStarted, ServerInv
      <3>5. DoneOnItsWay'
        BY <3>1, <3>3 DEF DoneOnItsWay, DoneSent, ServerInv
      <3> QED BY <2>1, <3>2, <3>4, <3>5 DEF ServerInv
    <2>3. CASE HostStep \/ DevStep
      BY <2>1, <2>3, ServerHost, ServerDevice DEF ServerInv
    <2>4. CASE DevReloads
      BY <2>1, <2>4 DEF DevReloads, host, ServerInv, ServersStarted, DoneOnItsWay
    <2>5. CASE UNCHANGED vars
      BY <2>1, <2>5 DEF vars, host, stream, ServerInv, ServersStarted, DoneOnItsWay, Beyond, DoneSent
    <2> QED BY <2>2, <2>3, <2>4, <2>5 DEF Next, Finished
  <1>3. ServerInv => ServersStop
    BY DEF ServerInv, ServersStop, DoneOnItsWay, Beyond, DoneSent
  <1> QED BY <1>1, <1>2, <1>3, PTL DEF Spec

-----------------------------------------------------------------------------
(* Any number of calls, on a clean session whose device answers in time:   *)
(* then a command is sent only when the one before it has been answered.   *)

Asked    == cmds = <<[cmd |-> pc, call |-> calls]>> /\ replies = <<>>
Answered == cmds = <<>> /\ Len(replies) = 1
Quiet    == cmds = <<>> /\ replies = <<>>

Lockstep ==
    /\ waiting => pc \in CmdStep
    /\ IF link = "up" /\ waiting THEN Asked \/ Answered ELSE Quiet

(* A reply that is taken was the only one, and answers the last command.   *)
LEMMA TakeOne ==
    ASSUME TypeOK, Lockstep, NEW out, Replied(out)
    PROVE  /\ link = "up" /\ waiting /\ cmds = <<>> /\ replies # <<>>
           /\ waiting' = FALSE /\ replies' = <<>> /\ Head(replies).out = out
  <1>1. /\ replies' \in Seq(Reply) /\ waiting /\ waiting' = FALSE
        /\ \E k \in 1 .. Len(replies) : Len(replies') = Len(replies) - k
    BY RepliedLemma
  <1>2. replies # <<>> /\ Head(replies).out = out
    BY DEF Replied
  <1>3. link = "up" /\ cmds = <<>> /\ Len(replies) = 1
    BY <1>1, <1>2 DEF Lockstep, Quiet, Asked, Answered
  <1>4. Len(replies') = 0
    BY <1>1, <1>3
  <1>5. replies' = <<>>
    BY <1>1, <1>4
  <1> QED BY <1>1, <1>2, <1>3, <1>5

(* A command fails only when the session is gone.                          *)
LEMMA FailOne ==
    ASSUME MayTimeout = FALSE, TypeOK, Lockstep, Failed
    PROVE  link # "up" /\ cmds = <<>> /\ waiting' = FALSE /\ replies' = <<>>
  BY DEF Failed, Lockstep, Quiet

(* The command that is executed is that of the current step.               *)
LEMMA ExecuteOne ==
    ASSUME TypeOK, Lockstep, NEW cmd, Executes(cmd)
    PROVE  /\ link = "up" /\ waiting /\ pc = cmd /\ pc \in CmdStep /\ replies = <<>>
           /\ cmds' = <<>> /\ Head(cmds).call = calls
  <1>1. cmds # <<>> /\ Head(cmds).cmd = cmd /\ cmds' = Tail(cmds)
    BY DEF Executes
  <1>2. link = "up" /\ waiting /\ Asked
    BY <1>1 DEF Lockstep, Quiet, Answered
  <1> DEFINE line == [cmd |-> pc, call |-> calls]
  <1>3. cmds = <<line>> /\ replies = <<>>
    BY <1>2 DEF Asked
  <1> HIDE DEF line
  <1>4. Head(cmds) = line /\ Tail(cmds) = <<>>
    BY <1>3
  <1>5. line.cmd = pc /\ line.call = calls
    BY DEF line
  <1> QED BY <1>1, <1>2, <1>3, <1>4, <1>5 DEF Lockstep

(* The answer to it is the only reply.                                     *)
LEMMA AnswerOne ==
    ASSUME replies = <<>>, link = "up", NEW cmd, NEW out, Answers(cmd, out)
    PROVE  replies' = <<[cmd |-> cmd, out |-> out]>> /\ Len(replies') = 1 /\ Head(replies').out = out
  <1> DEFINE reply == [cmd |-> cmd, out |-> out]
  <1>1. replies' = Append(<<>>, reply)
    BY DEF Answers
  <1>2. reply.out = out
    OBVIOUS
  <1> HIDE DEF reply
  <1>3. replies' = <<reply>> /\ Len(replies') = 1 /\ Head(replies') = reply
    BY <1>1
  <1> QED BY <1>2, <1>3 DEF reply

(* The steps of config_atomic that take a reply, or the lack of one.       *)
Taking ==
    \/ Scheduled \/ Copied \/ CopyAgain \/ CopyGivesUp \/ Verified \/ VerifyRejected
    \/ VerifyFails \/ DoneRequested \/ Applied \/ Deleted \/ Cancelled \/ CommandFails

(* What they do to the stream.                                             *)
LEMMA TakingLemma ==
    ASSUME MayTimeout = FALSE, TypeOK, Lockstep, Taking
    PROVE  /\ cmds' = <<>> /\ cmds = <<>> /\ waiting' = FALSE /\ replies' = <<>>
           /\ link' = link /\ pc \in CmdStep /\ UNCHANGED <<flash, running, timer, calls, safety>>
           /\ \/ link = "up" /\ waiting /\ replies # <<>> /\ \E out : Replied(out)
              \/ link # "up" /\ Failed
  <1>1. \/ \E out : Replied(out)
        \/ Failed
    BY DEF Taking, Scheduled, Copied, CopyAgain, CopyGivesUp, CopyFailed, Verified, VerifyRejected,
           VerifyFails, DoneRequested, Applied, Deleted, Cancelled, CommandFails
  <1>2. /\ cmds' = cmds /\ link' = link /\ pc \in CmdStep
        /\ UNCHANGED <<flash, running, timer, calls, safety>>
    BY DEF Taking, Scheduled, Copied, CopyAgain, CopyGivesUp, Verified, VerifyRejected, GoTo, Return,
           VerifyFails, DoneRequested, Applied, Deleted, Cancelled, CommandFails, device, CmdStep
  <1> QED BY <1>1, <1>2, TakeOne, FailOne

(* The device answers a command, or is cut off by the one it applies.      *)
DevAnswers ==
    \E cmd, out : Executes(cmd) /\ Answers(cmd, out) /\ UNCHANGED <<pc, waiting, link>>

DevCut == Executes("apply") /\ link' = "cut" /\ UNCHANGED <<pc, waiting, replies>>

(* The device is never asked two things at once.                           *)
LEMMA DevLemma ==
    ASSUME TypeOK, Lockstep, DevStep
    PROVE  (DevAnswers \/ DevCut) /\ ~ DevMisled
  <1>1. ~ DevMisled
    <2> SUFFICES ASSUME DevMisled PROVE FALSE
      OBVIOUS
    <2>1. Len(cmds) > 1
      BY DEF DevMisled
    <2> DEFINE line == [cmd |-> pc, call |-> calls]
    <2>2. cmds = <<>> \/ cmds = <<line>>
      BY DEF Lockstep, Asked, Answered, Quiet
    <2> HIDE DEF line
    <2>3. Len(<<line>>) = 1 /\ Len(<<>>) = 0
      OBVIOUS
    <2>4. Len(cmds) \in {0, 1}
      BY <2>2, <2>3, Zenon
    <2>5. \A n \in {0, 1} : ~ (n > 1)
      OBVIOUS
    <2> QED BY <2>1, <2>4, <2>5, Zenon
  <1>2. CASE DevReloadIn \/ DevCopy \/ DevVerify \/ DevDone \/ DevDelete \/ DevCancel
    BY <1>1, <1>2 DEF DevReloadIn, DevCopy, DevVerify, DevDone, DevDelete, DevCancel, DevAnswers, host
  <1>3. CASE DevApply
    BY <1>1, <1>3 DEF DevApply, DevAnswers, DevCut, host
  <1> QED BY <1>1, <1>2, <1>3 DEF DevStep

(* Commands and replies stay in step.                                      *)
LEMMA LockstepHolds ==
    ASSUME MayTimeout = FALSE, TypeOK, Lockstep, [Next]_vars
    PROVE  Lockstep'
  <1>1. CASE Taking
    BY <1>1, TakingLemma DEF Lockstep, Quiet
  <1>2. CASE SendCommand
    <2>1. /\ waiting' = TRUE /\ UNCHANGED <<pc, calls, link, replies>> /\ pc \in CmdStep /\ ~ waiting
          /\ link # "down"
          /\ cmds' = IF link = "up" THEN Append(cmds, [cmd |-> pc, call |-> calls]) ELSE cmds
      BY <1>2 DEF SendCommand
    <2>2. Quiet
      BY <2>1 DEF Lockstep
    <2>3. CASE link = "up"
      <3> DEFINE line == [cmd |-> pc, call |-> calls]
      <3>1. cmds' = Append(<<>>, line)
        BY <2>1, <2>2, <2>3 DEF Quiet
      <3> HIDE DEF line
      <3>2. cmds' = <<line>>
        BY <3>1
      <3>3. Asked'
        BY <2>1, <2>2, <3>2 DEF Asked, Quiet, line
      <3> QED BY <2>1, <2>3, <3>3 DEF Lockstep
    <2>4. CASE link # "up"
      BY <2>1, <2>2, <2>4 DEF Lockstep, Quiet
    <2> QED BY <2>3, <2>4
  <1>3. CASE Call \/ Setup \/ SetupFails \/ Backoff \/ AwaitServer
    <2>1. /\ UNCHANGED <<waiting, link, cmds, replies>>
          /\ pc \notin CmdStep
      BY <1>3 DEF Call, Setup, SetupFails, Backoff, AwaitServer, stream, CmdStep
    <2>2. ~ waiting /\ Quiet
      BY <2>1 DEF Lockstep
    <2> QED BY <2>1, <2>2 DEF Lockstep, Quiet
  <1>4. ASSUME NEW cmd, NEW out, Executes(cmd), Answers(cmd, out), UNCHANGED <<pc, waiting, link>>
        PROVE  Lockstep'
    <2>1. /\ link = "up" /\ waiting /\ replies = <<>> /\ cmds' = <<>> /\ pc \in CmdStep
      BY <1>4, ExecuteOne
    <2>2. Len(replies') = 1
      BY <1>4, <2>1, AnswerOne
    <2> QED BY <1>4, <2>1, <2>2 DEF Lockstep, Answered
  <1>5. CASE DevAnswers
    <2>1. PICK cmd, out : Executes(cmd) /\ Answers(cmd, out) /\ UNCHANGED <<pc, waiting, link>>
      BY <1>5 DEF DevAnswers
    <2> QED BY <1>4, <2>1
  <1>6. CASE DevCut
    <2>1. Executes("apply") /\ link' = "cut" /\ UNCHANGED <<pc, waiting, replies>>
      BY <1>6 DEF DevCut
    <2>2. replies = <<>> /\ cmds' = <<>> /\ pc \in CmdStep
      BY <2>1, ExecuteOne
    <2> QED BY <2>1, <2>2 DEF Lockstep, Quiet
  <1>7. CASE DevReloads
    <2>1. link' = "down" /\ cmds' = <<>> /\ replies' = <<>> /\ UNCHANGED <<pc, waiting>>
      BY <1>7 DEF DevReloads, host
    <2> QED BY <2>1 DEF Lockstep, Quiet
  <1>8. CASE UNCHANGED vars
    BY <1>8 DEF vars, host, stream, Lockstep, Asked, Answered, Quiet
  <1> QED
    BY <1>1, <1>2, <1>3, <1>5, <1>6, <1>7, <1>8, DevLemma DEF Next, HostStep, Taking, Finished

(* A session that is handed over clean starts in step.                     *)
LEMMA CleanInit ==
    ASSUME Stale = 0, Init
    PROVE  TypeOK /\ Lockstep
  <1>1. /\ pc = "idle" /\ waiting = FALSE /\ cmds = <<>> /\ replies = [i \in 1 .. Stale |-> Stray]
    BY DEF Init
  <1>2. TypeOK
    BY TypeInit
  <1>3. replies = <<>>
    <2>1. Len(replies) = 0 /\ replies \in Seq(Reply)
      BY <1>1, <1>2 DEF TypeOK
    <2> QED BY <2>1
  <1> QED BY <1>1, <1>2, <1>3 DEF Lockstep, Quiet

-----------------------------------------------------------------------------
(* What each command that was answered has brought about: on a device that *)
(* does not refuse to apply a file, and with all calls guarded or none.    *)
Progress ==
    /\ pc = "verify" /\ replies # <<>> /\ Head(replies).out = "match" => flash = "good"
    /\ pc \in {"done", "await", "apply"} => flash = "good"
    /\ pc = "apply" /\ replies # <<>> => running = "new"
    /\ pc \in {"delete", "cancel"} /\ link = "up" => running = "new"
    /\ pc = "cancel" /\ replies # <<>> => timer = "off"
    /\ pc # "idle" => safety \in Safety
    /\ pc = "reload" => safety = TRUE
    /\ timer = "armed" => safety = TRUE /\ TRUE \in Safety
    /\ outcome = "ok" => pc = "idle" /\ running = "new" /\ timer = "off"

(* What the device does to flash, the running configuration and the timer. *)
LEMMA ProgressDevice ==
    ASSUME MayRejectApply = FALSE, TypeOK, Lockstep, Progress, DevStep
    PROVE  Progress'
  <1>0. UNCHANGED <<pc, safety, outcome>> /\ link = "up" /\ replies = <<>> /\ pc \in CmdStep /\ outcome # "ok"
    <2>1. UNCHANGED <<pc, safety, outcome>>
      BY DEF DevStep, DevReloadIn, DevCopy, DevVerify, DevDone, DevApply, DevDelete, DevCancel,
             DevMisled, host
    <2>2. \E cmd : Executes(cmd)
      BY DevLemma DEF DevAnswers, DevCut
    <2> QED BY <2>1, <2>2, ExecuteOne DEF Progress, CmdStep
  <1>1. CASE DevReloadIn
    <2>1. pc = "reload" /\ UNCHANGED <<flash, running>>
      BY <1>1, ExecuteOne DEF DevReloadIn
    <2> QED BY <1>0, <2>1 DEF Progress
  <1>2. CASE DevCopy
    <2>1. pc = "copy" /\ UNCHANGED <<running, timer>>
      BY <1>2, ExecuteOne DEF DevCopy
    <2> QED BY <1>0, <2>1 DEF Progress
  <1>3. CASE DevVerify
    <2>1. pc = "verify" /\ UNCHANGED <<flash, running, timer, link>>
      BY <1>3, ExecuteOne DEF DevVerify, device
    <2>2. CASE flash = "good"
      BY <1>0, <2>1, <2>2 DEF Progress
    <2>3. CASE flash # "good"
      <3>1. PICK out \in {"mismatch", "error"} : Answers("verify", out)
        BY <1>3, <2>3 DEF DevVerify, TypeOK
      <3>2. Head(replies').out = out
        BY <1>0, <3>1, AnswerOne
      <3> QED BY <1>0, <2>1, <3>1, <3>2 DEF Progress
    <2> QED BY <2>2, <2>3
  <1>4. CASE DevDone
    <2>1. pc = "done" /\ UNCHANGED <<flash, running, timer, link>>
      BY <1>4, ExecuteOne DEF DevDone, device
    <2> QED BY <1>0, <2>1 DEF Progress
  <1>5. CASE DevApply
    <2>1. pc = "apply" /\ UNCHANGED <<flash, timer>>
      BY <1>5, ExecuteOne DEF DevApply
    <2>2. flash = "good"
      BY <2>1 DEF Progress
    <2>3. running' = "new"
      BY <1>5, <2>2 DEF DevApply
    <2> QED BY <1>0, <2>1, <2>2, <2>3 DEF Progress
  <1>6. CASE DevDelete
    <2>1. pc = "delete" /\ UNCHANGED <<running, timer, link>>
      BY <1>6, ExecuteOne DEF DevDelete
    <2> QED BY <1>0, <2>1 DEF Progress
  <1>7. CASE DevCancel
    <2>1. pc = "cancel" /\ UNCHANGED <<flash, running, link>> /\ timer' = "off"
      BY <1>7, ExecuteOne DEF DevCancel
    <2> QED BY <1>0, <2>1 DEF Progress
  <1> QED
    BY <1>1, <1>2, <1>3, <1>4, <1>5, <1>6, <1>7, DevLemma DEF DevStep

(* A step of config_atomic goes on from what it was answered.              *)
LEMMA ProgressTaking ==
    ASSUME MayTimeout = FALSE, TypeOK, Lockstep, Progress, Taking
    PROVE  Progress'
  <1>1. /\ replies' = <<>> /\ link' = link /\ pc \in CmdStep
        /\ UNCHANGED <<flash, running, timer, safety>>
        /\ \/ link = "up" /\ replies # <<>>
           \/ link # "up" /\ Failed
    BY TakingLemma
  <1>2. outcome # "ok"
    BY <1>1 DEF Progress, CmdStep
  <1>3. ASSUME NEW out, Replied(out) PROVE link = "up" /\ replies # <<>> /\ Head(replies).out = out
    BY <1>3, TakeOne
  <1>4. CASE Scheduled
    BY <1>1, <1>2, <1>4 DEF Scheduled, GoTo, Progress
  <1>5. CASE Copied \/ CopyAgain
    BY <1>1, <1>2, <1>5 DEF Copied, CopyAgain, GoTo, Progress
  <1>6. CASE CopyGivesUp \/ VerifyRejected \/ VerifyFails
    BY <1>1, <1>2, <1>6 DEF CopyGivesUp, VerifyRejected, VerifyFails, Return, Progress
  <1>7. CASE Verified
    BY <1>1, <1>2, <1>3, <1>7 DEF Verified, GoTo, Progress
  <1>8. CASE DoneRequested
    BY <1>1, <1>2, <1>8 DEF DoneRequested, GoTo, Progress
  <1>9. CASE Applied
    BY <1>1, <1>2, <1>3, <1>9 DEF Applied, GoTo, Progress
  <1>10. CASE Deleted
    BY <1>1, <1>2, <1>3, <1>10 DEF Deleted, GoTo, Return, Progress, TypeOK
  <1>11. CASE Cancelled
    BY <1>1, <1>2, <1>3, <1>11 DEF Cancelled, Return, Progress
  <1>12. CASE CommandFails
    BY <1>1, <1>2, <1>12 DEF CommandFails, Return, Progress
  <1> QED
    BY <1>4, <1>5, <1>6, <1>7, <1>8, <1>9, <1>10, <1>11, <1>12 DEF Taking


(* Every step keeps it.                                                    *)
LEMMA ProgressHolds ==
    ASSUME MayTimeout = FALSE, MayRejectApply = FALSE, ~ BOOLEAN \subseteq Safety,
           TypeOK, Lockstep, Progress, [Next]_vars
    PROVE  Progress'
  <1>1. CASE Taking
    BY <1>1, ProgressTaking
  <1>2. CASE DevStep
    BY <1>2, ProgressDevice
  <1>3. CASE Call
    <2>1. /\ pc' = IF safety' THEN "reload" ELSE "setup"
          /\ safety' \in Safety /\ outcome' = "none" /\ timer' = timer
      BY <1>3 DEF Call, device
    <2>2. timer = "armed" => safety' = TRUE
      BY <2>1, ConfigAssumption DEF Progress
    <2>3. safety' \in BOOLEAN
      BY <2>1, ConfigAssumption
    <2>4. pc' = "reload" => safety' = TRUE
      BY <2>1, <2>3
    <2> QED BY <2>1, <2>2, <2>4 DEF Progress
  <1>4. CASE SendCommand
    <2>1. /\ UNCHANGED <<pc, safety, outcome, link, replies, flash, running, timer>>
      BY <1>4 DEF SendCommand, device
    <2> QED BY <2>1 DEF Progress
  <1>5. CASE Setup \/ SetupFails \/ Backoff
    BY <1>5 DEF Setup, SetupFails, Backoff, GoTo, Return, stream, device, Progress
  <1>6. CASE AwaitServer
    <2>1. /\ pc = "await" /\ pc' = "apply" /\ UNCHANGED <<safety, outcome, replies, flash, timer>>
      BY <1>6 DEF AwaitServer, GoTo, stream, device
    <2>2. replies = <<>>
      BY <2>1 DEF Lockstep, Quiet, CmdStep
    <2> QED BY <2>1, <2>2 DEF Progress
  <1>7. CASE DevReloads
    <2>1. /\ timer = "armed" /\ link' = "down" /\ replies' = <<>> /\ UNCHANGED <<pc, safety, outcome, flash>>
      BY <1>7 DEF DevReloads, host
    <2> QED BY <2>1 DEF Progress
  <1>8. CASE UNCHANGED vars
    BY <1>8 DEF vars, host, stream, device, Progress
  <1> QED
    BY <1>1, <1>2, <1>3, <1>4, <1>5, <1>6, <1>7, <1>8 DEF Next, HostStep, Taking, Finished

(* Ok means that the configuration is in force, and that no reload which   *)
(* would undo it is scheduled any more: for any number of calls, all of    *)
(* them with DelayedReload or none, when replies are in time and the       *)
(* device does not refuse a verified file; even if it refuses the reload,  *)
(* downloads break, the configuration cuts the device off, or the          *)
(* scheduled reload comes in the middle.                                   *)
THEOREM OkIsApplied ==
    ASSUME MayTimeout = FALSE, Stale = 0, MayRejectApply = FALSE, ~ BOOLEAN \subseteq Safety
    PROVE  Spec => []OkMeansApplied
  <1>1. Init => TypeOK /\ Lockstep /\ Progress
    BY CleanInit DEF Init, Progress
  <1>2. TypeOK /\ Lockstep /\ Progress /\ [Next]_vars => (TypeOK /\ Lockstep /\ Progress)'
    BY TypeStep, LockstepHolds, ProgressHolds
  <1>3. TypeOK /\ Lockstep /\ Progress => OkMeansApplied
    BY DEF Progress, OkMeansApplied
  <1> QED BY <1>1, <1>2, <1>3, PTL DEF Spec

-----------------------------------------------------------------------------
(* One call with DelayedReload, on a session that was handed over clean    *)
(* and a device that accepts "reload in": a change is never made, and      *)
(* never cuts the device off, without a reload that will undo it.          *)

(* The reload is scheduled, or it was carried out. *)
Armed == timer = "armed" \/ link = "down"

(* What is under way, in both directions. *)
Pending == Len(cmds) + Len(replies)

Fresh ==
    calls = 0 =>
        /\ pc = "idle" /\ ~ waiting /\ link = "up" /\ timer = "off"
        /\ cmds = <<>> /\ Len(replies) = 0

(* "reload in" is the first thing sent, so its reply is its own.           *)
ReloadFirst ==
    pc = "reload" =>
        /\ Pending <= 1 /\ (~ waiting => Pending = 0)
        /\ waiting => cmds # <<>> \/ Armed
        /\ \A c \in CmdStep \ {"reload"} : ~ Has(c)

(* Verify is the last command before its reply, and a match the last reply: *)
(* when it is taken, nothing is under way.                                 *)
VerifyLast == \A i \in DOMAIN cmds : cmds[i].cmd = "verify" => i = Len(cmds)
MatchLast  == \A i \in DOMAIN replies :
                  replies[i].out = "match" => i = Len(replies) /\ cmds = <<>>
ApplyOnce  == \A i, j \in DOMAIN cmds :
                  cmds[i].cmd = "apply" /\ cmds[j].cmd = "apply" => i = j
Ordered == VerifyLast /\ MatchLast /\ ApplyOnce

(* From then on at most the request for /done can be late.                 *)
Done  == pc = "done" => Pending <= 1 /\ (~ waiting => Pending = 0)
Apply == pc = "await" \/ (pc = "apply" /\ ~ waiting) => Pending <= 1 /\ ~ Has("apply")
Applying ==
    pc = "apply" /\ waiting => /\ Has("apply") => Pending <= 2
                               /\ link = "cut" => Len(replies) <= 1
Deleting ==
    pc = "delete" => /\ Has("apply") => cmds[1].cmd = "apply"
                     /\ Has("apply") \/ link = "cut" => replies = <<>>
InStep == Done /\ Apply /\ Applying /\ Deleting

(* So the reload is cancelled only after the change was made, on a device  *)
(* that still answers.                                                     *)
CancelLast ==
    /\ Has("cancel") => pc = "cancel" \/ Over
    /\ Has("cancel") \/ pc = "cancel" => ~ Has("apply") /\ link # "cut"

Guarded == {"setup", "copy", "backoff", "verify", "done", "await", "apply", "delete"}
TimerRuns ==
    safety => /\ pc \in Guarded => Armed
              /\ Has("apply") \/ link = "cut" => Armed

GuardInv ==
    VerifyInv /\ Fresh /\ (safety => ReloadFirst) /\ Ordered /\ InStep /\ CancelLast /\ TimerRuns

-----------------------------------------------------------------------------
(* The replies behind one that was taken.                                  *)
LEMMA TakenInOrder ==
    ASSUME TypeOK, MatchLast, UNCHANGED cmds, NEW out, Replied(out)
    PROVE  /\ MatchLast' /\ waiting /\ ~ waiting' /\ replies # <<>>
           /\ Len(replies') \in Nat /\ Len(replies') < Len(replies)
           /\ out = "match" => Pending' = 0
  <1>1. PICK k \in 1 .. Len(replies) :
           /\ Len(replies') = Len(replies) - k
           /\ \A i \in DOMAIN replies' : k + i \in DOMAIN replies /\ replies'[i] = replies[k + i]
    BY RepliedLemma
  <1>2. /\ replies' \in Seq(Reply) /\ waiting /\ waiting' = FALSE
        /\ 1 \in DOMAIN replies /\ replies[1].out = out
    BY RepliedLemma
  <1>3. replies \in Seq(Reply) /\ Len(replies) \in Nat /\ Len(replies') \in Nat
        /\ cmds \in Seq(Line)
    BY <1>2 DEF TypeOK
  <1>4. MatchLast'
    <2> SUFFICES ASSUME NEW i \in DOMAIN replies', replies'[i].out = "match"
                 PROVE  i = Len(replies') /\ cmds = <<>>
      BY DEF MatchLast
    <2>1. k + i = Len(replies) /\ cmds = <<>>
      BY <1>1 DEF MatchLast
    <2>2. i \in Nat
      BY <1>2
    <2>3. QED
      BY <1>1, <1>3, <2>1, <2>2
  <1>5. ASSUME out = "match" PROVE Pending' = 0
    <2>1. 1 = Len(replies) /\ cmds = <<>>
      BY <1>2, <1>5 DEF MatchLast
    <2>b. Len(replies) = 1
      BY <2>1
    <2>2. Len(replies') < Len(replies)
      BY <1>1, <1>3
    <2>a. Len(replies') = 0
      BY <1>3, <2>b, <2>2
    <2>3. cmds' = <<>>
      BY <2>1
    <2>4. QED
      BY <2>a, <2>3 DEF Pending
  <1>6. QED
    BY <1>1, <1>2, <1>3, <1>4, <1>5

(* The queue after the command at its front was executed, or taken.        *)
LEMMA QueueShrinks ==
    ASSUME TypeOK, TypeOK', VerifyLast, ApplyOnce, NEW d \in Nat \ {0},
           Len(cmds') = Len(cmds) - d,
           \A i \in DOMAIN cmds' : i + d \in DOMAIN cmds /\ cmds'[i] = cmds[i + d]
    PROVE  /\ VerifyLast' /\ ApplyOnce'
           /\ \A c : Has(c)' => Has(c)
           /\ 1 \in DOMAIN cmds /\ cmds[1].cmd = "apply" => ~ Has("apply")'
  <1>1. /\ \A i \in DOMAIN cmds' : i \in Nat \ {0}
        /\ Len(cmds) \in Nat /\ Len(cmds') \in Nat
    BY DEF TypeOK
  <1>2. ASSUME NEW i \in DOMAIN cmds', cmds'[i].cmd = "verify" PROVE i = Len(cmds')
    <2>1. i + d = Len(cmds)
      BY <1>2 DEF VerifyLast
    <2>2. QED
      BY <1>1, <2>1
  <1>3. ASSUME NEW i \in DOMAIN cmds', NEW j \in DOMAIN cmds',
               cmds'[i].cmd = "apply", cmds'[j].cmd = "apply"
        PROVE  i = j
    <2>1. i + d = j + d
      BY <1>3 DEF ApplyOnce
    <2>2. QED
      BY <1>1, <2>1
  <1>4. \A c : Has(c)' => Has(c)
    BY ShrinkLemma
  <1>5. ASSUME 1 \in DOMAIN cmds, cmds[1].cmd = "apply",
               NEW i \in DOMAIN cmds', cmds'[i].cmd = "apply"
        PROVE  FALSE
    <2>1. i + d = 1
      BY <1>5 DEF ApplyOnce
    <2>2. QED
      BY <1>1, <2>1
  <1>6. QED
    BY <1>2, <1>3, <1>4, <1>5 DEF VerifyLast, ApplyOnce, Has

-----------------------------------------------------------------------------
(* The device executes a command, or has it take the next one's line.      *)
LEMMA DeviceMoves ==
    ASSUME TypeOK, TypeOK', Ordered, DevStep, MayRejectReload = FALSE
    PROVE  /\ UNCHANGED <<pc, waiting, calls, safety>>
           /\ Ordered' /\ \A c : Has(c)' => Has(c)
           /\ Len(cmds) \in Nat /\ Len(cmds') \in Nat /\ Len(replies) \in Nat /\ Len(replies') \in Nat
           /\ Len(cmds') < Len(cmds) /\ Pending' <= Pending
           /\ 1 \in DOMAIN cmds /\ Has(cmds[1].cmd) /\ cmds[1].cmd \in CmdStep
           /\ cmds[1].cmd = "apply" => ~ Has("apply")'
           /\ link' = "cut" => (link = "cut" \/ Has("apply")) /\ Len(replies') = Len(replies)
           /\ link # "down" /\ link' # "down"
           /\ \/ timer' = timer /\ ~ (cmds[1].cmd = "reload" /\ Len(cmds) = 1)
              \/ timer' = "armed"
              \/ cmds[1].cmd = "cancel"
  <1>1. /\ cmds \in Seq(Line) /\ cmds' \in Seq(Line) /\ replies \in Seq(Reply) /\ replies' \in Seq(Reply)
        /\ link \in {"up", "cut", "down"} /\ link' \in {"up", "cut", "down"}
    BY DEF TypeOK
  <1>2. Len(cmds) \in Nat /\ Len(cmds') \in Nat /\ Len(replies) \in Nat /\ Len(replies') \in Nat
    BY <1>1
  <1>3. UNCHANGED <<pc, waiting, calls, safety>>
    BY DEF DevStep, DevReloadIn, DevCopy, DevVerify, DevDone, DevApply, DevDelete, DevCancel,
           DevMisled, host
  (* A command that is executed. *)
  <1>4. ASSUME NEW cmd \in CmdStep, Executes(cmd)
        PROVE  /\ cmds[1].cmd = cmd /\ 1 \in DOMAIN cmds /\ Has(cmd) /\ link # "down"
               /\ Len(cmds') = Len(cmds) - 1 /\ VerifyLast' /\ ApplyOnce'
               /\ \A c : Has(c)' => Has(c)
               /\ cmd = "apply" => ~ Has("apply")'
               /\ cmd = "verify" => cmds' = <<>>
    <2>1. /\ 1 \in DOMAIN cmds /\ cmds[1].cmd = cmd /\ link # "down"
          /\ Len(cmds') = Len(cmds) - 1
          /\ \A i \in DOMAIN cmds' : i + 1 \in DOMAIN cmds /\ cmds'[i] = cmds[i + 1]
      BY <1>4, ExecutesLemma
    <2>2. /\ VerifyLast' /\ ApplyOnce'
          /\ \A c : Has(c)' => Has(c)
          /\ 1 \in DOMAIN cmds /\ cmds[1].cmd = "apply" => ~ Has("apply")'
      <3>1. 1 \in Nat \ {0}
        OBVIOUS
      <3>2. QED
        BY <2>1, <3>1, QueueShrinks DEF Ordered
    <2>3. ASSUME cmd = "verify" PROVE cmds' = <<>>
      <3>1. 1 = Len(cmds)
        BY <2>1, <2>3 DEF Ordered, VerifyLast
      <3>a. Len(cmds') = Len(cmds) - 1
        BY <2>1
      <3>b. Len(cmds) = 1
        BY <3>1
      <3>2. Len(cmds') = 0
        BY <1>2, <3>a, <3>b
      <3>3. QED
        BY <1>1, <3>2
    <2>4. Has(cmd)
      BY <2>1 DEF Has
    <2>5. QED
      BY <2>1, <2>2, <2>3, <2>4
  (* Its answer. *)
  <1>5. ASSUME NEW cmd \in CmdStep, NEW out \in Out, Executes(cmd),
               Answers(cmd, out), out = "match" => cmd = "verify"
        PROVE  /\ MatchLast' /\ Len(replies') <= Len(replies) + 1
               /\ link = "cut" => replies' = replies
    <2>1. cmds # <<>>
      BY <1>5 DEF Executes
    <2>2. \A i \in DOMAIN replies : replies[i].out # "match"
      BY <2>1 DEF Ordered, MatchLast
    <2>3. \/ link # "up" /\ replies' = replies
          \/ /\ link = "up" /\ Len(replies') = Len(replies) + 1
             /\ replies'[Len(replies) + 1].out = out
             /\ \A i \in 1 .. Len(replies) : replies'[i] = replies[i]
      <3>1. \/ link # "up" /\ replies' = replies
            \/ /\ link = "up" /\ Len(replies') = Len(replies) + 1
               /\ replies'[Len(replies) + 1] = [cmd |-> cmd, out |-> out]
               /\ \A i \in 1 .. Len(replies) : replies'[i] = replies[i]
        BY <1>5, AnswersLemma
      <3>2. QED
        BY <3>1
    <2>4. CASE link # "up" /\ replies' = replies
      BY <1>2, <2>2, <2>4 DEF MatchLast
    <2>5. CASE link = "up" /\ Len(replies') = Len(replies) + 1
      <3>1. \A i \in DOMAIN replies' : i \in DOMAIN replies \/ i = Len(replies')
        BY <1>1, <2>5
      <3>2. \A i \in DOMAIN replies : replies'[i].out # "match"
        BY <1>1, <2>2, <2>3, <2>5
      <3>3. ASSUME NEW i \in DOMAIN replies', replies'[i].out = "match"
            PROVE  i = Len(replies') /\ cmds' = <<>>
        <4>1. i = Len(replies')
          BY <3>1, <3>2, <3>3
        <4>2. out = "match"
          BY <2>3, <2>5, <3>3, <4>1
        <4>3. QED
          BY <1>4, <1>5, <4>1, <4>2
      <3>4. QED
        BY <1>2, <2>5, <3>3 DEF MatchLast
    <2>6. QED
      BY <2>3, <2>4, <2>5
  <1>6. ASSUME NEW cmd \in CmdStep, NEW out \in Out, Executes(cmd),
               Answers(cmd, out), out = "match" => cmd = "verify", link' = link,
               \/ timer' = timer /\ cmd # "reload"
               \/ timer' = "armed"
               \/ cmd = "cancel"
        PROVE  /\ Ordered' /\ \A c : Has(c)' => Has(c)
               /\ Len(cmds') < Len(cmds) /\ Pending' <= Pending
               /\ 1 \in DOMAIN cmds /\ Has(cmds[1].cmd) /\ cmds[1].cmd \in CmdStep
               /\ cmds[1].cmd = "apply" => ~ Has("apply")'
               /\ link' = "cut" => (link = "cut" \/ Has("apply")) /\ Len(replies') = Len(replies)
               /\ link # "down" /\ link' # "down"
               /\ \/ timer' = timer /\ cmds[1].cmd # "reload"
                  \/ timer' = "armed"
                  \/ cmds[1].cmd = "cancel"
    <2>1. /\ cmds[1].cmd = cmd /\ 1 \in DOMAIN cmds /\ Has(cmd) /\ link # "down"
          /\ Len(cmds') = Len(cmds) - 1 /\ VerifyLast' /\ ApplyOnce'
          /\ \A c : Has(c)' => Has(c)
          /\ cmd = "apply" => ~ Has("apply")'
      BY <1>4, <1>6
    <2>2. /\ MatchLast' /\ Len(replies') <= Len(replies) + 1
          /\ link = "cut" => replies' = replies
      BY <1>5, <1>6
    <2>3. Len(cmds') = Len(cmds) - 1 /\ Len(replies') <= Len(replies) + 1
      BY <2>1, <2>2
    <2>4. Len(cmds') < Len(cmds) /\ Pending' <= Pending
      BY <1>2, <2>3 DEF Pending
    <2>5. QED
      BY <1>6, <2>1, <2>2, <2>4 DEF Ordered
  <1>7. CASE DevReloadIn \/ DevCopy \/ DevDone \/ DevDelete \/ DevCancel
    <2>1. PICK cmd \in {"reload", "copy", "done", "delete", "cancel"} :
             /\ Executes(cmd) /\ link' = link
             /\ \E out \in {"plain", "error"} : Answers(cmd, out)
             /\ \/ timer' = timer /\ cmd # "reload"
                \/ timer' = "armed"
                \/ cmd = "cancel"
      BY <1>7 DEF DevReloadIn, DevCopy, DevDone, DevDelete, DevCancel, device
    <2>2. cmd \in CmdStep /\ {"plain", "error"} \subseteq Out \ {"match"}
      BY DEF CmdStep, Out
    <2>3. PICK out \in Out : Answers(cmd, out) /\ (out = "match" => cmd = "verify")
      BY <2>1, <2>2
    <2>4. QED
      BY <1>2, <1>3, <1>6, <2>1, <2>2, <2>3
  <1>8. CASE DevVerify
    <2>1. Executes("verify") /\ link' = link /\ timer' = timer /\ \E out \in Out : Answers("verify", out)
      BY <1>8 DEF DevVerify, Out, device
    <2>2. "verify" \in CmdStep
      BY DEF CmdStep
    <2>3. QED
      BY <1>2, <1>3, <1>6, <2>1, <2>2
  <1>9. CASE DevApply
    <2>1. /\ Executes("apply") /\ timer' = timer /\ "apply" \in CmdStep
          /\ \/ link' = link /\ \E out \in {"plain", "error"} : Answers("apply", out)
             \/ link' = "cut" /\ UNCHANGED replies
      BY <1>9 DEF DevApply, CmdStep
    <2>2. CASE link' = link /\ \E out \in {"plain", "error"} : Answers("apply", out)
      <3>1. PICK out \in Out : Answers("apply", out) /\ out # "match"
        BY <2>2 DEF Out
      <3>2. QED
        BY <1>2, <1>3, <1>6, <2>1, <2>2, <3>1
    <2>3. CASE link' = "cut" /\ UNCHANGED replies
      <3>1. /\ cmds[1].cmd = "apply" /\ 1 \in DOMAIN cmds /\ Has("apply") /\ link # "down"
            /\ Len(cmds') = Len(cmds) - 1 /\ VerifyLast' /\ ApplyOnce'
            /\ \A c : Has(c)' => Has(c)
            /\ ~ Has("apply")'
        BY <1>4, <2>1
      <3>2. Len(cmds') = Len(cmds) - 1
        BY <3>1
      <3>3. Len(cmds') < Len(cmds) /\ Pending' <= Pending
        BY <1>2, <2>3, <3>2 DEF Pending
      <3>4. MatchLast'
        <4>1. cmds # <<>>
          BY <2>1 DEF Executes
        <4>2. QED
          BY <2>3, <4>1 DEF Ordered, MatchLast
      <3>5. QED
        BY <1>2, <1>3, <2>1, <2>3, <3>1, <3>3, <3>4 DEF Ordered
    <2>4. QED
      BY <2>1, <2>2, <2>3
  <1>10. CASE DevMisled
    <2>1. /\ Len(cmds) > 1 /\ Len(cmds') = Len(cmds) - 2
          /\ \A i \in DOMAIN cmds' : i + 2 \in DOMAIN cmds /\ cmds'[i] = cmds[i + 2]
          /\ \A i \in 1 .. Len(replies) : replies'[i] = replies[i]
          /\ Len(replies') <= Len(replies) + 2
          /\ \A i \in DOMAIN replies' : i \in DOMAIN replies \/ replies'[i].out # "match"
          /\ link = "cut" => replies' = replies
      BY <1>10, MisledLemma
    <2>2. Len(cmds) > 1 /\ Len(cmds') = Len(cmds) - 2 /\ Len(replies') <= Len(replies) + 2
      BY <2>1
    <2>3. Len(cmds') < Len(cmds) /\ Pending' <= Pending /\ Len(cmds) # 1
      BY <1>2, <2>2 DEF Pending
    <2>4. 1 \in DOMAIN cmds /\ cmds # <<>> /\ Has(cmds[1].cmd) /\ cmds[1].cmd \in CmdStep
      <3>1. 1 \in DOMAIN cmds /\ cmds # <<>>
        BY <1>1, <1>2, <2>2
      <3>2. cmds[1] \in Line
        BY <1>1, <3>1
      <3>3. QED
        BY <3>1, <3>2 DEF Has, Line
    <2>5. /\ VerifyLast' /\ ApplyOnce'
          /\ \A c : Has(c)' => Has(c)
          /\ cmds[1].cmd = "apply" => ~ Has("apply")'
      <3>1. 2 \in Nat \ {0}
        OBVIOUS
      <3>2. QED
        BY <2>1, <2>4, <3>1, QueueShrinks DEF Ordered
    <2>6. MatchLast'
      <3>1. \A i \in DOMAIN replies : replies[i].out # "match"
        BY <2>4 DEF Ordered, MatchLast
      <3>2. \A i \in DOMAIN replies : replies'[i] = replies[i]
        BY <1>1, <2>1, SMTT(40)
      <3>3. \A i \in DOMAIN replies' : replies'[i].out # "match"
        BY <2>1, <3>1, <3>2
      <3>4. QED
        BY <3>3 DEF MatchLast
    <2>7. link # "down" /\ link' = link /\ timer' = timer
      BY <1>10 DEF DevMisled, device
    <2>8. QED
      BY <1>2, <1>3, <2>1, <2>3, <2>4, <2>5, <2>6, <2>7 DEF Ordered
  <1>11. QED
    BY <1>7, <1>8, <1>9, <1>10 DEF DevStep

(* Sending a command.                                                      *)
LEMMA GuardSend ==
    ASSUME GuardInv, VerifyInv', SendCommand
    PROVE  GuardInv'
  <1>0. /\ TypeOK /\ TypeOK' /\ InCall /\ VerifyQueued /\ MatchOnItsWay /\ ApplyQueued
        /\ Fresh /\ (safety => ReloadFirst) /\ Ordered /\ InStep /\ CancelLast /\ TimerRuns
    BY DEF GuardInv, VerifyInv
  <1>1. /\ UNCHANGED <<pc, calls, safety, replies, link, timer>>
        /\ pc \in CmdStep /\ pc # "idle" /\ ~ waiting /\ waiting' /\ link \in {"up", "cut"}
    BY <1>0 DEF SendCommand, device, CmdStep, TypeOK
  <1>2. /\ ~ Over /\ ~ Has("verify") /\ ~ HasMatch
    BY <1>0, <1>1 DEF Over, VerifyQueued, MatchOnItsWay
  <1>3. \/ link = "cut" /\ cmds' = cmds
        \/ /\ link = "up" /\ Len(cmds') = Len(cmds) + 1
           /\ cmds'[Len(cmds) + 1].cmd = pc
           /\ \A i \in 1 .. Len(cmds) : cmds'[i] = cmds[i]
    BY <1>0, SendLemma DEF SendCommand
  <1>4. Len(cmds) \in Nat /\ Len(replies) \in Nat /\ Len(cmds') \in Nat
    BY <1>0 DEF TypeOK
  <1>5. \A i \in DOMAIN cmds' :
            (i \in DOMAIN cmds /\ cmds'[i] = cmds[i]) \/ (i = Len(cmds') /\ cmds'[i].cmd = pc)
    <2>1. DOMAIN cmds = 1 .. Len(cmds) /\ DOMAIN cmds' = 1 .. Len(cmds')
      BY <1>0 DEF TypeOK
    <2>2. CASE cmds' = cmds
      BY <2>2
    <2>3. CASE Len(cmds') = Len(cmds) + 1
      <3>1. \A i \in DOMAIN cmds' : i \in DOMAIN cmds \/ i = Len(cmds) + 1
        BY <1>4, <2>1, <2>3
      <3>2. QED
        BY <1>3, <1>4, <2>1, <2>3, <3>1
    <2>4. QED
      BY <1>3, <2>2, <2>3
  <1>6. \A c : Has(c)' => Has(c) \/ c = pc
    BY <1>5 DEF Has
  <1>7. Pending \in Nat /\ Pending' \in Nat /\ Pending' <= Pending + 1
    <2>1. Len(cmds') <= Len(cmds) + 1
      <3>1. CASE cmds' = cmds
        BY <1>4, <3>1
      <3>2. CASE Len(cmds') = Len(cmds) + 1
        BY <1>4, <3>2
      <3>3. QED
        BY <1>3, <3>1, <3>2
    <2>2. Len(replies') = Len(replies)
      BY <1>1
    <2>3. QED
      BY <1>4, <2>1, <2>2 DEF Pending
  <1>8. Fresh'
    BY <1>0, <1>1 DEF Fresh
  <1>9. safety => Armed' = Armed /\ (link = "cut" => Armed)
    BY <1>0, <1>1 DEF TimerRuns, Armed
  <1>10. ASSUME safety PROVE ReloadFirst'
    <2> SUFFICES ASSUME pc = "reload" PROVE ReloadFirst'
      BY <1>1 DEF ReloadFirst
    <2>1. Pending = 0 /\ \A c \in CmdStep \ {"reload"} : ~ Has(c)
      BY <1>0, <1>1, <1>10 DEF ReloadFirst
    <2>2. Pending' <= 1
      BY <1>7, <2>1
    <2>3. cmds' # <<>> \/ Armed'
      <3>1. CASE link = "cut"
        BY <1>1, <1>9, <1>10, <3>1 DEF Armed
      <3>2. CASE Len(cmds') = Len(cmds) + 1
        BY <1>4, <3>2
      <3>3. QED
        BY <1>3, <3>1, <3>2
    <2>4. QED
      BY <1>1, <1>6, <2>1, <2>2, <2>3 DEF ReloadFirst
  <1>11. Ordered'
    <2>1. VerifyLast'
      BY <1>2, <1>5 DEF VerifyLast, Has
    <2>2. MatchLast'
      BY <1>1, <1>2 DEF MatchLast, HasMatch
    <2>3. ApplyOnce'
      <3>1. CASE pc = "apply"
        <4>1. ~ Has("apply")
          BY <1>0, <1>1, <3>1 DEF InStep, Apply
        <4>2. QED
          BY <1>5, <4>1 DEF ApplyOnce, Has
      <3>2. CASE pc # "apply"
        BY <1>0, <1>5, <3>2 DEF ApplyOnce, Ordered
      <3>3. QED
        BY <3>1, <3>2
    <2>4. QED
      BY <2>1, <2>2, <2>3 DEF Ordered
  <1>12. InStep'
    <2>1. Done'
      <3>1. pc = "done" => Pending = 0
        BY <1>0, <1>1 DEF InStep, Done
      <3>2. QED
        BY <1>1, <1>7, <3>1 DEF Done
    <2>2. Apply'
      BY <1>1 DEF Apply, CmdStep
    <2>3. Applying'
      <3>1. pc = "apply" => Pending <= 1
        BY <1>0, <1>1 DEF InStep, Apply
      <3>2. pc = "apply" => Pending' <= 2 /\ Len(replies) <= 1
        BY <1>4, <1>7, <3>1 DEF Pending
      <3>3. QED
        BY <1>1, <3>2 DEF Applying
    <2>4. Deleting'
      <3> SUFFICES ASSUME pc = "delete" PROVE Deleting'
        BY <1>1 DEF Deleting
      <3>1. Has("apply")' => Has("apply")
        BY <1>6
      <3>2. /\ Has("apply") => cmds[1].cmd = "apply"
            /\ Has("apply") \/ link = "cut" => replies = <<>>
        BY <1>0 DEF InStep, Deleting
      <3>3. Has("apply") => 1 \in DOMAIN cmds
        BY <1>0, <1>4 DEF Has, TypeOK
      <3>4. 1 \in DOMAIN cmds => cmds'[1] = cmds[1]
        BY <1>0, <1>3, <1>4 DEF TypeOK
      <3>5. QED
        BY <1>1, <3>1, <3>2, <3>3, <3>4 DEF Deleting
    <2>5. QED
      BY <2>1, <2>2, <2>3, <2>4 DEF InStep
  <1>13. CancelLast'
    BY <1>0, <1>1, <1>2, <1>6 DEF CancelLast
  <1>14. TimerRuns'
    <2>1. safety => (pc \in Guarded \/ Has("apply") \/ link = "cut" => Armed)
      BY <1>0 DEF TimerRuns
    <2>2. Armed' = Armed /\ "apply" \in Guarded
      BY <1>1 DEF Armed, Guarded
    <2>3. QED
      BY <1>1, <1>6, <2>1, <2>2 DEF TimerRuns
  <1>15. QED
    BY <1>1, <1>8, <1>10, <1>11, <1>12, <1>13, <1>14 DEF GuardInv

(* A step of the device.                                                   *)
LEMMA GuardDevice ==
    ASSUME GuardInv, VerifyInv', DevStep, MayRejectReload = FALSE
    PROVE  GuardInv'
  <1>0. /\ TypeOK /\ TypeOK' /\ Fresh /\ (safety => ReloadFirst) /\ Ordered /\ InStep
        /\ CancelLast /\ TimerRuns
    BY DEF GuardInv, VerifyInv
  <1>1. /\ UNCHANGED <<pc, waiting, calls, safety>>
        /\ Ordered' /\ \A c : Has(c)' => Has(c)
        /\ Len(cmds) \in Nat /\ Len(cmds') \in Nat /\ Len(replies) \in Nat /\ Len(replies') \in Nat
        /\ Len(cmds') < Len(cmds) /\ Pending' <= Pending
        /\ 1 \in DOMAIN cmds /\ Has(cmds[1].cmd) /\ cmds[1].cmd \in CmdStep
        /\ cmds[1].cmd = "apply" => ~ Has("apply")'
        /\ link' = "cut" => (link = "cut" \/ Has("apply")) /\ Len(replies') = Len(replies)
        /\ link # "down" /\ link' # "down"
        /\ \/ timer' = timer /\ ~ (cmds[1].cmd = "reload" /\ Len(cmds) = 1)
           \/ timer' = "armed"
           \/ cmds[1].cmd = "cancel"
    BY <1>0, DeviceMoves
  <1>a. /\ Len(cmds) \in Nat /\ Len(cmds') \in Nat /\ Len(replies) \in Nat /\ Len(replies') \in Nat
        /\ Len(cmds') < Len(cmds) /\ Pending' <= Pending
    BY <1>1
  <1>2. Pending \in Nat /\ Pending' \in Nat /\ Len(cmds) >= 1
    BY <1>a DEF Pending
  <1>3. Fresh'
    <2>1. cmds # <<>>
      BY <1>2
    <2>2. QED
      BY <1>0, <1>1, <2>1 DEF Fresh
  <1>4. ASSUME safety PROVE ReloadFirst'
    <2> SUFFICES ASSUME pc = "reload" PROVE ReloadFirst'
      BY <1>1 DEF ReloadFirst
    <2>1. /\ Pending <= 1 /\ (~ waiting => Pending = 0)
          /\ \A c \in CmdStep \ {"reload"} : ~ Has(c)
      BY <1>0, <1>4 DEF ReloadFirst
    <2>2. Pending' <= 1 /\ (~ waiting => Pending' = 0) /\ Len(cmds) = 1
      <3>1. Pending <= 1 /\ (~ waiting => Pending = 0)
        BY <2>1
      <3>2. QED
        BY <1>a, <1>2, <3>1 DEF Pending
    <2>3. cmds[1].cmd = "reload"
      BY <1>1, <2>1
    <2>4. timer' = "armed"
      BY <1>1, <2>2, <2>3
    <2>5. QED
      BY <1>1, <2>1, <2>2, <2>4 DEF ReloadFirst, Armed
  <1>5. InStep'
    <2>1. Done'
      <3>1. pc = "done" => Pending <= 1 /\ (~ waiting => Pending = 0)
        BY <1>0 DEF InStep, Done
      <3>2. pc = "done" => Pending' <= 1 /\ (~ waiting => Pending' = 0)
        BY <1>a, <1>2, <3>1
      <3>3. QED
        BY <1>1, <3>2 DEF Done
    <2>2. Apply'
      <3>1. pc = "await" \/ (pc = "apply" /\ ~ waiting) => Pending <= 1 /\ ~ Has("apply")
        BY <1>0 DEF InStep, Apply
      <3>2. Pending <= 1 => Pending' <= 1
        BY <1>a, <1>2
      <3>3. QED
        BY <1>1, <3>1, <3>2 DEF Apply
    <2>3. Applying'
      <3> SUFFICES ASSUME pc = "apply", waiting PROVE Applying'
        BY <1>1 DEF Applying
      <3>1. /\ Has("apply") => Pending <= 2
            /\ link = "cut" => Len(replies) <= 1
        BY <1>0 DEF InStep, Applying
      <3>2. Pending <= 2 => Pending' <= 2 /\ Len(replies) <= 1
        BY <1>a, <1>2 DEF Pending
      <3>3. QED
        BY <1>1, <3>1, <3>2 DEF Applying
    <2>4. Deleting'
      <3> SUFFICES ASSUME pc = "delete" PROVE Deleting'
        BY <1>1 DEF Deleting
      <3>1. /\ Has("apply") => cmds[1].cmd = "apply"
            /\ Has("apply") \/ link = "cut" => replies = <<>>
        BY <1>0 DEF InStep, Deleting
      <3>2. ~ Has("apply")'
        BY <1>1, <3>1
      <3>3. ASSUME link' = "cut" PROVE replies' = <<>>
        <4>1. Len(replies') = Len(replies) /\ replies = <<>>
          BY <1>1, <3>1, <3>3
        <4>a. Len(replies) = 0
          BY <4>1
        <4>2. Len(replies') = 0
          BY <4>1, <4>a
        <4>3. replies' \in Seq(Reply)
          BY <1>0 DEF TypeOK
        <4>4. QED
          BY <4>2, <4>3
      <3>4. QED
        BY <3>2, <3>3 DEF Deleting
    <2>5. QED
      BY <2>1, <2>2, <2>3, <2>4 DEF InStep
  <1>6. CancelLast'
    <2>1. Over' <=> Over
      BY <1>1 DEF Over
    <2>2. QED
      BY <1>0, <1>1, <2>1 DEF CancelLast
  <1>7. TimerRuns'
    <2> SUFFICES ASSUME safety, pc \in Guarded \/ Has("apply") \/ link = "cut"
                 PROVE  Armed'
      BY <1>1 DEF TimerRuns
    <2>1. timer = "armed"
      BY <1>0, <1>1 DEF TimerRuns, Armed
    <2>2. cmds[1].cmd # "cancel"
      <3> SUFFICES ASSUME Has("cancel") PROVE FALSE
        BY <1>1
      <3>1. pc \in {"cancel", "idle"} /\ ~ Has("apply") /\ link # "cut"
        BY <1>0 DEF CancelLast, Over
      <3>2. QED
        BY <3>1 DEF Guarded
    <2>3. QED
      BY <1>1, <2>1, <2>2 DEF Armed
  <1>8. QED
    BY <1>1, <1>3, <1>4, <1>5, <1>6, <1>7 DEF GuardInv

(* What a step of config_atomic that sends nothing has to ensure.           *)
LEMMA GuardMoves ==
    ASSUME GuardInv, VerifyInv', UNCHANGED <<cmds, link, timer, safety, calls>>,
           pc # "idle", pc' # "reload", pc' = "cancel" => pc = "delete" /\ replies # <<>>,
           MatchLast', Len(replies') <= Len(replies),
           safety => (pc' \in Guarded => pc \in Guarded \/ Armed),
           Done', Apply', Applying', Deleting',
           pc = "cancel" => pc' = "idle"
    PROVE  GuardInv'
  <1>0. /\ TypeOK /\ InCall /\ InCall' /\ Fresh /\ Ordered /\ InStep /\ CancelLast /\ TimerRuns
    BY DEF GuardInv, VerifyInv
  <1>1. /\ \A c : Has(c)' <=> Has(c)
        /\ Armed' <=> Armed
    BY DEF Has, Armed
  <1>2. Fresh' /\ ReloadFirst'
    BY <1>0 DEF Fresh, ReloadFirst
  <1>3. Ordered'
    BY <1>0 DEF Ordered, VerifyLast, ApplyOnce
  <1>4. CancelLast'
    <2>1. Has("cancel") => pc = "cancel" /\ Over'
      BY <1>0 DEF CancelLast, Over, InCall
    <2>2. pc' = "cancel" => ~ Has("apply") /\ link # "cut"
      BY <1>0 DEF InStep, Deleting
    <2>3. Has("cancel") => ~ Has("apply") /\ link # "cut"
      BY <1>0 DEF CancelLast
    <2>4. QED
      BY <1>1, <2>1, <2>2, <2>3 DEF CancelLast
  <1>5. TimerRuns'
    BY <1>0, <1>1 DEF TimerRuns
  <1>6. QED
    BY <1>2, <1>3, <1>4, <1>5 DEF GuardInv, InStep

(* The other steps of config_atomic.                                       *)
LEMMA GuardHost ==
    ASSUME GuardInv, VerifyInv', HostStep \/ Call, MaxCalls = 1
    PROVE  GuardInv'
  <1>0. /\ TypeOK /\ TypeOK' /\ InCall /\ InCall' /\ ApplyQueued /\ Fresh /\ (safety => ReloadFirst)
        /\ Ordered /\ MatchLast /\ InStep /\ CancelLast /\ TimerRuns
    BY DEF GuardInv, VerifyInv, Ordered
  <1>1. Len(cmds) \in Nat /\ Len(replies) \in Nat /\ Len(replies') \in Nat
    BY <1>0 DEF TypeOK
  (* A reply taken, a command given up, or neither. *)
  <1>2. ASSUME UNCHANGED cmds, NEW out, Replied(out)
        PROVE  /\ MatchLast' /\ waiting /\ ~ waiting' /\ replies # <<>>
               /\ Len(replies') < Len(replies) /\ Pending' < Pending
               /\ out = "match" => Pending' = 0
    <2>1. /\ MatchLast' /\ waiting /\ ~ waiting' /\ replies # <<>>
          /\ Len(replies') < Len(replies)
          /\ out = "match" => Pending' = 0
      BY <1>0, <1>2, TakenInOrder
    <2>2. Len(replies') < Len(replies) /\ Len(cmds') = Len(cmds)
      BY <1>2, <2>1
    <2>3. Pending' < Pending
      BY <1>1, <2>2 DEF Pending
    <2>4. QED
      BY <2>1, <2>3
  <1>3. ASSUME UNCHANGED <<cmds, replies>>
        PROVE  MatchLast' /\ Len(replies') <= Len(replies) /\ Pending' = Pending
    BY <1>0, <1>1, <1>3 DEF MatchLast, Pending
  <1>4. Pending \in Nat /\ (UNCHANGED cmds => Pending' \in Nat)
    BY <1>1 DEF Pending
  <1>5. CASE Call
    <2>1. /\ calls = 0 /\ calls' # 0 /\ pc = "idle"
          /\ UNCHANGED <<waiting, link, cmds, replies, timer>>
          /\ pc' = IF safety' THEN "reload" ELSE "setup"
      <3>1. calls = 0 /\ calls' = calls + 1 /\ pc = "idle"
        BY <1>0, <1>5 DEF Call, TypeOK
      <3>2. UNCHANGED <<waiting, link, cmds, replies, timer>>
        BY <1>5 DEF Call, stream, device
      <3>3. pc' = IF safety' THEN "reload" ELSE "setup"
        BY <1>5 DEF Call
      <3>4. QED
        BY <3>1, <3>2, <3>3
    <2>2. ~ waiting /\ cmds' = <<>> /\ Len(replies) = 0 /\ link' = "up"
      BY <1>0, <2>1 DEF Fresh
    <2>a. DOMAIN cmds' = {} /\ Len(cmds) = 0
      BY <2>1, <2>2
    <2>3. (\A c : ~ Has(c)') /\ Pending' = 0
      <3>1. Pending = 0
        BY <2>2, <2>a DEF Pending
      <3>2. Pending' = Pending
        BY <2>1 DEF Pending
      <3>3. QED
        BY <2>a, <3>1, <3>2 DEF Has
    <2>4. Ordered'
      <3>1. VerifyLast' /\ ApplyOnce'
        BY <2>a DEF VerifyLast, ApplyOnce
      <3>2. MatchLast'
        BY <1>3, <2>1
      <3>3. QED
        BY <3>1, <3>2 DEF Ordered
    <2>5. Fresh' /\ ReloadFirst'
      BY <2>1, <2>2, <2>3 DEF Fresh, ReloadFirst
    <2>6. InStep'
      BY <2>1 DEF InStep, Done, Apply, Applying, Deleting
    <2>7. CancelLast'
      BY <2>1, <2>3 DEF CancelLast
    <2>8. TimerRuns'
      BY <2>1, <2>2, <2>3 DEF TimerRuns, Guarded
    <2>9. QED
      BY <2>4, <2>5, <2>6, <2>7, <2>8 DEF GuardInv
  <1>6. CASE SendCommand
    BY <1>6, GuardSend
  <1>7. CASE Setup \/ SetupFails \/ Backoff \/ AwaitServer
    <2>1. UNCHANGED <<waiting, cmds, link, timer, safety, calls, replies>>
      BY <1>7 DEF Setup, SetupFails, Backoff, AwaitServer, GoTo, Return, stream, device
    <2>2. \/ pc \in {"setup", "backoff"} /\ pc' \in {"copy", "idle"}
          \/ pc = "await" /\ pc' = "apply"
      BY <1>7 DEF Setup, SetupFails, Backoff, AwaitServer, GoTo, Return
    <2>3. MatchLast' /\ Len(replies') <= Len(replies)
      BY <1>3, <2>1
    <2>4. Done' /\ Deleting'
      BY <2>2 DEF Done, Deleting
    <2>5. pc = "await" => Pending <= 1 /\ ~ Has("apply") /\ Len(replies) <= 1
      <3>1. pc = "await" => Pending <= 1 /\ ~ Has("apply")
        BY <1>0 DEF InStep, Apply
      <3>2. Pending <= 1 => Len(replies) <= 1
        BY <1>1 DEF Pending
      <3>3. QED
        BY <3>1, <3>2
    <2>6. (Has("apply")' <=> Has("apply")) /\ Pending' = Pending
      BY <2>1 DEF Has, Pending
    <2>7. Apply' /\ Applying'
      BY <2>1, <2>2, <2>5, <2>6 DEF Apply, Applying
    <2>8. pc \in Guarded
      BY <2>2 DEF Guarded
    <2>9. QED
      BY <2>1, <2>2, <2>3, <2>4, <2>7, <2>8, GuardMoves
  <1>8. CASE Scheduled
    <2>1. PICK out \in Out : Replied(out)
      BY <1>8 DEF Scheduled
    <2>2. UNCHANGED <<cmds, link, timer, safety, calls>> /\ pc = "reload" /\ pc' = "setup"
      BY <1>8 DEF Scheduled, GoTo, device
    <2>3. MatchLast' /\ waiting /\ replies # <<>> /\ Len(replies') <= Len(replies)
      <3>1. MatchLast' /\ waiting /\ replies # <<>> /\ Len(replies') < Len(replies)
        BY <1>2, <2>1, <2>2
      <3>2. QED
        BY <1>1, <3>1
    <2>4. ASSUME safety PROVE Armed
      <3>1. Pending <= 1 /\ (cmds # <<>> \/ Armed)
        BY <1>0, <2>2, <2>3, <2>4 DEF ReloadFirst
      <3>2. Len(replies) # 0
        BY <1>0, <2>3 DEF TypeOK
      <3>3. Len(cmds) = 0
        BY <1>1, <3>1, <3>2 DEF Pending
      <3>4. cmds = <<>>
        BY <1>0, <3>3 DEF TypeOK
      <3>5. QED
        BY <3>1, <3>4
    <2>5. Done' /\ Apply' /\ Applying' /\ Deleting'
      BY <2>2 DEF Done, Apply, Applying, Deleting
    <2>6. QED
      BY <2>2, <2>3, <2>4, <2>5, GuardMoves
  <1>9. CASE \/ Copied \/ CopyAgain \/ CopyGivesUp \/ VerifyRejected \/ VerifyFails
             \/ CommandFails \/ Cancelled
    <2>1. (\E out : Replied(out)) \/ Failed
      BY <1>9 DEF Copied, CopyAgain, CopyGivesUp, CopyFailed, VerifyRejected, VerifyFails,
                  CommandFails, Cancelled
    <2>2. UNCHANGED <<cmds, link, timer, safety, calls>>
      BY <1>9 DEF Copied, CopyAgain, CopyGivesUp, VerifyRejected, VerifyFails, CommandFails,
                  Cancelled, GoTo, Return, device
    <2>3. /\ pc \in CmdStep /\ pc' \in {"verify", "backoff", "idle"}
          /\ pc' # "idle" => pc = "copy"
      BY <1>9 DEF Copied, CopyAgain, CopyGivesUp, VerifyRejected, VerifyFails, CommandFails,
                  Cancelled, GoTo, Return, CmdStep
    <2>4. MatchLast' /\ Len(replies') <= Len(replies)
      <3>1. ASSUME NEW out, Replied(out) PROVE MatchLast' /\ Len(replies') < Len(replies)
        BY <1>2, <2>2, <3>1
      <3>2. ASSUME Failed PROVE MatchLast' /\ Len(replies') <= Len(replies)
        BY <1>3, <2>2, <3>2 DEF Failed
      <3>3. QED
        BY <1>1, <2>1, <3>1, <3>2
    <2>5. Done' /\ Apply' /\ Applying' /\ Deleting'
      BY <2>3 DEF Done, Apply, Applying, Deleting
    <2>6. pc # "idle" /\ (pc' \in Guarded => pc \in Guarded)
      BY <2>3 DEF CmdStep, Guarded
    <2>7. pc' # "reload" /\ pc' # "cancel" /\ (pc = "cancel" => pc' = "idle")
      BY <2>3
    <2>8. QED
      BY <2>2, <2>4, <2>5, <2>6, <2>7, GuardMoves
  <1>10. CASE Verified
    <2>1. Replied("match") /\ UNCHANGED <<cmds, link, timer, safety, calls>>
      BY <1>10 DEF Verified, GoTo, device
    <2>2. pc = "verify" /\ pc' = "done"
      BY <1>10 DEF Verified, GoTo
    <2>3. MatchLast' /\ Pending' = 0 /\ Len(replies') < Len(replies)
      BY <1>2, <2>1
    <2>4. Done' /\ Apply' /\ Applying' /\ Deleting'
      <3>1. Done'
        BY <2>3 DEF Done
      <3>2. QED
        BY <2>2, <3>1 DEF Apply, Applying, Deleting
    <2>5. Len(replies') <= Len(replies) /\ pc \in Guarded
      BY <1>1, <2>2, <2>3 DEF Guarded
    <2>6. QED
      BY <2>1, <2>2, <2>3, <2>4, <2>5, GuardMoves
  <1>11. CASE DoneRequested
    <2>1. UNCHANGED <<cmds, link, timer, safety, calls>> /\ pc = "done" /\ pc' = "await"
      BY <1>11 DEF DoneRequested, GoTo, device
    <2>2. MatchLast' /\ Len(replies') <= Len(replies) /\ Pending' <= Pending
      <3>1. ASSUME NEW out, Replied(out)
            PROVE  MatchLast' /\ Len(replies') < Len(replies) /\ Pending' < Pending
        BY <1>2, <2>1, <3>1
      <3>2. ASSUME Failed
            PROVE  MatchLast' /\ Len(replies') <= Len(replies) /\ Pending' = Pending
        BY <1>3, <2>1, <3>2 DEF Failed
      <3>3. QED
        BY <1>1, <1>4, <1>11, <2>1, <3>1, <3>2 DEF DoneRequested
    <2>3. Pending <= 1 /\ ~ Has("apply")
      BY <1>0, <2>1 DEF InStep, Done, ApplyQueued, Over
    <2>4. Pending' <= 1 /\ ~ Has("apply")'
      <3>1. Pending' <= 1
        BY <1>4, <2>1, <2>2, <2>3
      <3>2. QED
        BY <2>1, <2>3, <3>1 DEF Has
    <2>5. Done' /\ Apply' /\ Applying' /\ Deleting'
      BY <2>1, <2>4 DEF Done, Apply, Applying, Deleting
    <2>6. pc \in Guarded
      BY <2>1 DEF Guarded
    <2>7. QED
      BY <2>1, <2>2, <2>5, <2>6, GuardMoves
  <1>12. CASE Applied
    <2>1. PICK out \in Out : Replied(out)
      BY <1>12 DEF Applied
    <2>2. UNCHANGED <<cmds, link, timer, safety, calls>> /\ pc = "apply" /\ pc' = "delete"
      BY <1>12 DEF Applied, GoTo, device
    <2>3. MatchLast' /\ waiting /\ replies # <<>> /\ Len(replies') < Len(replies)
      BY <1>2, <2>1, <2>2
    <2>4. Len(replies) # 0
      BY <1>0, <2>3 DEF TypeOK
    <2>5. Len(replies) <= 1 => replies' = <<>>
      <3>1. Len(replies) <= 1 => Len(replies') = 0
        BY <1>1, <2>3
      <3>2. replies' \in Seq(Reply)
        BY <1>0 DEF TypeOK
      <3>3. QED
        BY <3>1, <3>2
    <2>6. ASSUME Has("apply") PROVE cmds[1].cmd = "apply" /\ Len(replies) <= 1
      <3>1. PICK i \in DOMAIN cmds : cmds[i].cmd = "apply"
        BY <2>6 DEF Has
      <3>2. Pending <= 2
        BY <1>0, <2>2, <2>3, <2>6 DEF InStep, Applying
      <3>3. i \in 1 .. Len(cmds)
        BY <1>0 DEF TypeOK
      <3>4. i = 1 /\ Len(replies) <= 1
        BY <1>1, <2>4, <3>2, <3>3 DEF Pending
      <3>5. QED
        BY <3>1, <3>4
    <2>7. link = "cut" => Len(replies) <= 1
      BY <1>0, <2>2, <2>3 DEF InStep, Applying
    <2>8. Has("apply")' <=> Has("apply")
      BY <2>2 DEF Has
    <2>9. Done' /\ Apply' /\ Applying' /\ Deleting'
      BY <2>2, <2>5, <2>6, <2>7, <2>8 DEF Done, Apply, Applying, Deleting
    <2>10. Len(replies') <= Len(replies) /\ pc \in Guarded
      BY <1>1, <2>2, <2>3 DEF Guarded
    <2>11. QED
      BY <2>2, <2>3, <2>9, <2>10, GuardMoves
  <1>13. CASE Deleted
    <2>1. PICK out \in Out : Replied(out)
      BY <1>13 DEF Deleted
    <2>2. /\ UNCHANGED <<cmds, link, timer, safety, calls>>
          /\ pc = "delete" /\ pc' \in {"cancel", "idle"}
      BY <1>13 DEF Deleted, GoTo, Return, device
    <2>3. MatchLast' /\ replies # <<>> /\ Len(replies') < Len(replies)
      BY <1>2, <2>1, <2>2
    <2>4. Done' /\ Apply' /\ Applying' /\ Deleting'
      BY <2>2 DEF Done, Apply, Applying, Deleting
    <2>5. Len(replies') <= Len(replies) /\ pc' \notin Guarded
      BY <1>1, <2>2, <2>3 DEF Guarded
    <2>6. QED
      BY <2>2, <2>3, <2>4, <2>5, GuardMoves
  <1>14. QED
    BY <1>5, <1>6, <1>7, <1>8, <1>9, <1>10, <1>11, <1>12, <1>13 DEF HostStep

(* The reload is carried out: nothing is under way any more.               *)
LEMMA GuardReloads ==
    ASSUME GuardInv, VerifyInv', DevReloads
    PROVE  GuardInv'
  <1>0. /\ TypeOK /\ TypeOK' /\ Fresh /\ CancelLast
    BY DEF GuardInv, VerifyInv
  <1>1. /\ UNCHANGED <<pc, waiting, calls, safety>> /\ timer = "armed"
        /\ link' = "down" /\ cmds' = <<>> /\ replies' = <<>>
    BY DEF DevReloads, host
  <1>2. DOMAIN cmds' = {} /\ DOMAIN replies' = {} /\ Len(cmds') = 0 /\ Len(replies') = 0
    BY <1>1
  <1>3. Pending' = 0 /\ (\A c : ~ Has(c)') /\ Armed'
    BY <1>1, <1>2 DEF Pending, Has, Armed
  <1>4. Fresh' /\ ReloadFirst'
    BY <1>0, <1>1, <1>3 DEF Fresh, ReloadFirst
  <1>5. Ordered'
    BY <1>2 DEF Ordered, VerifyLast, MatchLast, ApplyOnce
  <1>6. InStep'
    <2>1. Pending' <= 1 /\ Len(replies') <= 1
      BY <1>2, <1>3
    <2>2. QED
      BY <1>1, <1>3, <2>1 DEF InStep, Done, Apply, Applying, Deleting
  <1>7. CancelLast' /\ TimerRuns'
    BY <1>1, <1>3 DEF CancelLast, TimerRuns
  <1>8. QED
    BY <1>4, <1>5, <1>6, <1>7 DEF GuardInv

(* It holds when a session is handed over clean ...                        *)
LEMMA GuardInit ==
    ASSUME Stale = 0, Init
    PROVE  GuardInv
  <1>1. VerifyInv /\ TypeOK
    BY VerifyInit, TypeInit
  <1>2. /\ pc = "idle" /\ ~ waiting /\ link = "up" /\ timer = "off" /\ cmds = <<>>
        /\ replies = [i \in 1 .. Stale |-> Stray]
    BY DEF Init
  <1>3. DOMAIN replies = {} /\ DOMAIN cmds = {}
    BY <1>2
  <1>4. Len(replies) = 0
    BY <1>1, <1>3 DEF TypeOK
  <1>5. \A c : ~ Has(c)
    BY <1>3 DEF Has
  <1>6. QED
    BY <1>1, <1>2, <1>3, <1>4, <1>5 DEF GuardInv, Fresh, ReloadFirst, Ordered, VerifyLast,
       MatchLast, ApplyOnce, InStep, Done, Apply, Applying, Deleting, CancelLast, TimerRuns, Guarded

(* ... and every step keeps it.                                            *)
LEMMA GuardStep ==
    ASSUME MaxCalls = 1, MayRejectReload = FALSE, GuardInv, [Next]_vars
    PROVE  GuardInv'
  <1>1. VerifyInv'
    BY VerifyStep DEF GuardInv
  <1>2. CASE Call \/ HostStep
    BY <1>1, <1>2, GuardHost
  <1>3. CASE DevStep
    BY <1>1, <1>3, GuardDevice
  <1>4. CASE DevReloads
    BY <1>1, <1>4, GuardReloads
  <1>5. CASE UNCHANGED vars
    <2>1. UNCHANGED <<pc, waiting, calls, safety, link, cmds, replies, timer>>
      BY <1>5 DEF vars, host, stream, device
    <2>2. (\A c : Has(c)' <=> Has(c)) /\ Pending' = Pending
      BY <2>1 DEF Has, Pending
    <2>3. Ordered'
      BY <2>1 DEF GuardInv, Ordered, VerifyLast, MatchLast, ApplyOnce
    <2>4. Fresh' /\ (safety' => ReloadFirst')
      BY <2>1, <2>2 DEF GuardInv, Fresh, ReloadFirst, Armed
    <2>5. InStep'
      BY <2>1, <2>2 DEF GuardInv, InStep, Done, Apply, Applying, Deleting
    <2>6. CancelLast' /\ TimerRuns'
      BY <2>1, <2>2 DEF GuardInv, CancelLast, TimerRuns, Armed, Over
    <2>7. QED
      BY <1>1, <2>3, <2>4, <2>5, <2>6 DEF GuardInv
  <1>6. QED
    BY <1>2, <1>3, <1>4, <1>5 DEF Next, Finished

-----------------------------------------------------------------------------
(* A device that the new configuration cut off has its reload scheduled,   *)
(* when config_atomic() was called once, with DelayedReload, on a clean    *)
(* session, and the device accepts "reload in".                            *)
THEOREM ChangeIsReverted ==
    ASSUME MaxCalls = 1, Stale = 0, MayRejectReload = FALSE
    PROVE  Spec => []NeverStranded
  <1>1. Init => GuardInv
    BY GuardInit
  <1>2. GuardInv /\ [Next]_vars => GuardInv'
    BY GuardStep
  <1>3. GuardInv => NeverStranded
    BY DEF GuardInv, TimerRuns, Armed, NeverStranded
  <1>4. QED
    BY <1>1, <1>2, <1>3, PTL DEF Spec

(* What a step does to the running configuration, the scheduled reload and *)
(* the reachability of the device is a step of GuardedChange, or nothing.  *)
LEMMA GuardedStep ==
    ASSUME GuardInv, [Next]_vars, safety
    PROVE  [Guard!Next]_(Guard!vars)
  <1>0. /\ TypeOK /\ ApplyQueued /\ TimerRuns /\ CancelLast
    BY DEF GuardInv, VerifyInv
  <1>1. ASSUME UNCHANGED <<running, timer, link>>
        PROVE  UNCHANGED Guard!vars
    BY <1>1 DEF Guard!vars
  <1>2. CASE Call \/ HostStep
    <2>1. UNCHANGED <<running, timer, link>>
      BY <1>2 DEF Call, HostStep, SendCommand, Scheduled, Setup, SetupFails, Copied, CopyAgain,
                  Backoff, CopyGivesUp, Verified, VerifyRejected, VerifyFails, DoneRequested,
                  AwaitServer, Applied, Deleted, Cancelled, CommandFails, stream, device
    <2>2. QED
      BY <1>1, <2>1
  <1>3. CASE DevCopy \/ DevVerify \/ DevDone \/ DevDelete \/ DevMisled
    <2>1. UNCHANGED <<running, timer, link>>
      BY <1>3 DEF DevCopy, DevVerify, DevDone, DevDelete, DevMisled, device
    <2>2. QED
      BY <1>1, <2>1
  <1>4. CASE DevReloadIn
    <2>1. UNCHANGED <<running, link>> /\ (timer' = "armed" \/ timer' = timer)
      BY <1>4 DEF DevReloadIn
    <2>2. CASE timer' = timer
      BY <1>1, <2>1, <2>2
    <2>3. CASE timer' = "armed"
      BY <2>1, <2>3, Zenon DEF Guard!Next, Guard!Schedule
    <2>4. QED
      BY <2>1, <2>2, <2>3
  <1>5. CASE DevApply
    <2>1. Executes("apply") /\ timer' = timer
      BY <1>5 DEF DevApply
    <2>2. Has("apply") /\ link # "down"
      <3>1. 1 \in DOMAIN cmds /\ cmds[1].cmd = "apply" /\ link # "down"
        BY <1>0, <2>1, ExecutesLemma
      <3>2. QED
        BY <3>1 DEF Has
    <2>3. flash = "good" /\ timer = "armed"
      BY <1>0, <2>2 DEF ApplyQueued, GoodFile, TimerRuns, Armed
    <2>4. CASE UNCHANGED <<running, link>>
      BY <1>1, <2>1, <2>4
    <2>5. CASE running' = "new"
      <3>1. (link' # "cut") \in BOOLEAN
        OBVIOUS
      <3>2. QED
        BY <2>1, <2>3, <2>5, <3>1, Zenon DEF Guard!Next, Guard!Change
    <2>6. QED
      BY <1>5, <2>3, <2>4, <2>5 DEF DevApply
  <1>6. CASE DevCancel
    <2>1. Executes("cancel") /\ timer' = "off" /\ UNCHANGED <<running, link>>
      BY <1>6 DEF DevCancel
    <2>2. Has("cancel")
      <3>1. 1 \in DOMAIN cmds /\ cmds[1].cmd = "cancel"
        BY <1>0, <2>1, ExecutesLemma
      <3>2. QED
        BY <3>1 DEF Has
    <2>3. link # "cut"
      BY <1>0, <2>2 DEF CancelLast
    <2>4. (timer' = "armed") = FALSE
      BY <2>1
    <2>5. QED
      BY <2>1, <2>3, <2>4, Zenon DEF Guard!Next, Guard!Cancel
  <1>7. CASE DevReloads
    <2>1. timer = "armed" /\ timer' = "off" /\ running' = "old" /\ link' = "down"
      BY <1>7 DEF DevReloads
    <2>2. (timer' = "armed") = FALSE /\ (link' # "cut") = TRUE
      BY <2>1
    <2>3. QED
      BY <2>1, <2>2, Zenon DEF Guard!Next, Guard!Revert
  <1>8. CASE UNCHANGED vars
    <2>1. UNCHANGED <<running, timer, link>>
      BY <1>8 DEF vars, stream, device
    <2>2. QED
      BY <1>1, <2>1
  <1>9. QED
    BY <1>2, <1>3, <1>4, <1>5, <1>6, <1>7, <1>8 DEF Next, Finished, DevStep

(* Such a call keeps the promise of GuardedChange: no change without a     *)
(* reload that is scheduled, and the reload is taken back only while the   *)
(* device answers.                                                         *)
THEOREM ChangeIsGuarded ==
    ASSUME MaxCalls = 1, Stale = 0, MayRejectReload = FALSE
    PROVE  Spec => GuardSpec
  <1>1. Init => GuardInv
    BY GuardInit
  <1>2. GuardInv /\ [Next]_vars => GuardInv'
    BY GuardStep
  <1>3. Init => Guard!Init
    <2> SUFFICES ASSUME Init PROVE Guard!Init
      OBVIOUS
    <2>1. running = "old" /\ (timer = "armed") = FALSE /\ (link # "cut") = TRUE
      BY DEF Init
    <2>2. QED
      BY <2>1, Zenon DEF Guard!Init
  <1>4. GuardInv /\ [Next]_vars => [safety => Guard!Next]_(Guard!vars)
    <2> SUFFICES ASSUME GuardInv, [Next]_vars, ~ UNCHANGED Guard!vars, safety
                 PROVE  Guard!Next
      OBVIOUS
    <2>1. QED
      BY GuardedStep
  <1>5. QED
    BY <1>1, <1>2, <1>3, <1>4, PTL DEF Spec, GuardSpec
=============================================================================
