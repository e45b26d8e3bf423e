---------------------------- MODULE ConfigAtomic -----------------------------
(***************************************************************************)
(* CiscoIosConn::config_atomic(): a configuration is served over HTTP, the *)
(* device copies it to flash, its MD5 is verified, the file is applied to  *)
(* the running configuration and deleted.  With DelayedReload a reload of  *)
(* the device is scheduled first and cancelled last.                       *)
(*                                                                         *)
(* Every step runs a command with run_cmd()/run_cmd_chat(), over a stream  *)
(* that CliSession models in detail: commands reach the device in order,   *)
(* replies come back in order, and a command that was given up is still    *)
(* executed and still replied to.  A run_cmd takes the first reply that is *)
(* in the stream, whatever command it belongs to, and drops the replies    *)
(* that arrived in the same chunk behind it.                               *)
(*                                                                         *)
(* The device and the network are external.                                *)
(***************************************************************************)
EXTENDS Naturals, Sequences

CONSTANTS
    MaxCalls,       \* bound: calls of config_atomic() on one connection
    MaxAttempts,    \* MAX_COPY_ATTEMPTS
    Safety,         \* the calls made: with DelayedReload (TRUE), without
    Stale,          \* prompts still in the stream when the session is handed over
    MayTimeout,     \* may a reply be later than the command timeout?
    MayCut,         \* may the configuration cut the device off?
    MayRejectReload, MayRejectApply  \* may the device refuse these commands?

ASSUME ConfigAssumption ==
    /\ MaxCalls \in Nat /\ MaxAttempts \in Nat \ {0} /\ Stale \in Nat
    /\ Safety \subseteq BOOLEAN
    /\ {MayTimeout, MayCut, MayRejectReload, MayRejectApply} \subseteq BOOLEAN

VARIABLES
    pc,        \* the step config_atomic is at, "idle" outside of it
    waiting,   \* inside run_cmd, the command of this step has been sent
    attempt,   \* copy attempts so far
    safety,    \* the current call is with DelayedReload
    calls,     \* calls made
    outcome,   \* of the last call: "ok", or the step it failed at
    http,      \* the HTTP server of each call: "off", "serving", or it runs on
               \* unowned: "dropped" with its handle, or its /done "unreached"
    link,      \* "up"; "cut": the device does not answer any more; "down"
    cmds,      \* commands sent and not executed yet
    replies,   \* replies on their way back
    flash,     \* the file on flash: "absent", "good" or "bad"
    running,   \* the running configuration: "old", "new", or from a "bad" file
    timer      \* the scheduled reload: "off" or "armed"

host   == <<pc, waiting, attempt, safety, calls, outcome>>
stream == <<link, cmds, replies>>
device == <<flash, running, timer>>
vars   == <<host, http, stream, device>>

CmdStep == {"reload", "copy", "verify", "done", "apply", "delete", "cancel"}
Step == CmdStep \cup {"setup", "backoff", "await"}
Out  == {"plain", "error", "match", "mismatch"}
Line == [cmd : CmdStep, call : 0 .. MaxCalls]
(* A reply to no command, "stray", is a prompt left over from login, or the *)
(* one an answer costs that came when nothing had been asked.              *)
Reply == [cmd : CmdStep \cup {"stray"}, out : Out]
Stray == [cmd |-> "stray", out |-> "plain"]

Init ==
    /\ pc = "idle" /\ waiting = FALSE /\ attempt = 0
    /\ safety = FALSE /\ calls = 0 /\ outcome = "none"
    /\ http = [c \in 1 .. MaxCalls |-> "off"]
    /\ link = "up" /\ cmds = <<>>
    /\ replies = [i \in 1 .. Stale |-> Stray]
    /\ flash = "absent" /\ running = "old" /\ timer = "off"

-----------------------------------------------------------------------------
(* run_cmd, as config_atomic uses it. *)

(* The command of the step goes out; a device that was cut off misses it. *)
SendCommand ==
    /\ pc \in CmdStep /\ ~ waiting /\ link # "down"
    /\ waiting' = TRUE
    /\ cmds' = IF link = "up" THEN Append(cmds, [cmd |-> pc, call |-> calls]) ELSE cmds
    /\ UNCHANGED <<pc, attempt, safety, calls, outcome, http, link, replies, device>>

(* Ok(output): the first reply; those of the same chunk behind it are lost. *)
Replied(out) ==
    /\ waiting /\ replies # <<>> /\ out = Head(replies).out
    /\ \E k \in 1 .. Len(replies) : replies' = SubSeq(replies, k + 1, Len(replies))
    /\ waiting' = FALSE

(* Err: the deadline passed, or the transport is dead. *)
Failed ==
    /\ \/ waiting /\ (MayTimeout \/ link = "cut")
       \/ pc \in CmdStep /\ link = "down"
    /\ waiting' = FALSE
    /\ UNCHANGED replies

GoTo(step) == pc' = step /\ UNCHANGED <<attempt, safety, calls, outcome>>

Return(result) ==
    /\ pc' = "idle" /\ outcome' = result
    /\ UNCHANGED <<attempt, safety, calls>>

Abort == http' = [http EXCEPT ![calls] = "off"]

-----------------------------------------------------------------------------
(* config_atomic, step by step. *)

Call ==
    /\ pc = "idle" /\ calls < MaxCalls
    /\ \E s \in Safety : safety' = s /\ pc' = IF s THEN "reload" ELSE "setup"
    /\ calls' = calls + 1 /\ outcome' = "none" /\ attempt' = 0
    /\ UNCHANGED <<waiting, http, stream, device>>

(* Mutant: a "reload in N" that failed is ignored too. *)
ScheduledOrNot ==
    /\ pc = "reload" /\ ((\E out \in Out : Replied(out)) \/ Failed)
    /\ GoTo("setup")
    /\ UNCHANGED <<http, link, cmds, device>>

(* Whatever the device said to "reload in N". *)
Scheduled ==
    /\ pc = "reload" /\ \E out \in Out : Replied(out)
    /\ GoTo("setup")
    /\ UNCHANGED <<http, link, cmds, device>>

(* The file name, the local address, the HTTP server of this call. *)
Setup ==
    /\ pc = "setup"
    /\ pc' = "copy" /\ attempt' = 1
    /\ http' = [http EXCEPT ![calls] = "serving"]
    /\ UNCHANGED <<waiting, safety, calls, outcome, stream, device>>

SetupFails ==
    /\ pc = "setup"
    /\ Return("setup")
    /\ UNCHANGED <<waiting, http, stream, device>>

Copied ==
    /\ pc = "copy" /\ \E out \in Out \ {"error"} : Replied(out)
    /\ GoTo("verify")
    /\ UNCHANGED <<http, link, cmds, device>>

CopyFailed == Replied("error") \/ Failed

(* Mutant: an attempt that could not even be sent is not counted. *)
CopyAgainUncounted ==
    /\ pc = "copy" /\ CopyFailed /\ (attempt < MaxAttempts \/ link = "down")
    /\ pc' = "backoff" /\ attempt' = IF link = "down" THEN attempt ELSE attempt + 1
    /\ UNCHANGED <<safety, calls, outcome, http, link, cmds, device>>

CopyAgain ==
    /\ pc = "copy" /\ CopyFailed /\ attempt < MaxAttempts
    /\ pc' = "backoff" /\ attempt' = attempt + 1
    /\ UNCHANGED <<safety, calls, outcome, http, link, cmds, device>>

Backoff ==
    /\ pc = "backoff"
    /\ GoTo("copy")
    /\ UNCHANGED <<waiting, http, stream, device>>

CopyGivesUp ==
    /\ pc = "copy" /\ CopyFailed /\ attempt = MaxAttempts
    /\ Return("copy") /\ Abort
    /\ UNCHANGED <<link, cmds, device>>

(* Mutant: only another MD5 is an error, not the lack of one. *)
VerifiedUnlessMismatch ==
    /\ pc = "verify" /\ \E out \in Out \ {"mismatch"} : Replied(out)
    /\ GoTo("done")
    /\ UNCHANGED <<http, link, cmds, device>>

Verified ==
    /\ pc = "verify" /\ Replied("match")
    /\ GoTo("done")
    /\ UNCHANGED <<http, link, cmds, device>>

(* Mutant: the server is not aborted. *)
VerifyRejectedNoAbort ==
    /\ pc = "verify" /\ \E out \in Out \ {"match"} : Replied(out)
    /\ Return("verify")
    /\ UNCHANGED <<http, link, cmds, device>>

(* No MD5 in the output, or another one. *)
VerifyRejected ==
    /\ pc = "verify" /\ \E out \in Out \ {"match"} : Replied(out)
    /\ Return("verify") /\ Abort
    /\ UNCHANGED <<link, cmds, device>>

(* The command itself failed: the server's handle is dropped, not aborted. *)
VerifyFails ==
    /\ pc = "verify" /\ Failed
    /\ Return("verify")
    /\ http' = [http EXCEPT ![calls] = "dropped"]
    /\ UNCHANGED <<link, cmds, device>>

(* The device is asked to fetch /done; how that went is ignored. *)
DoneRequested ==
    /\ pc = "done" /\ ((\E out \in Out : Replied(out)) \/ Failed)
    /\ GoTo("await")
    /\ UNCHANGED <<http, link, cmds, device>>

(* The server has shut down, or 5 seconds have passed and its handle is    *)
(* dropped; the call goes on either way.                                   *)
AwaitServer ==
    /\ pc = "await"
    /\ GoTo("apply")
    /\ UNCHANGED <<waiting, http, stream, device>>

(* Whatever the device said to "copy flash:... running-config". *)
Applied ==
    /\ pc = "apply" /\ \E out \in Out : Replied(out)
    /\ GoTo("delete")
    /\ UNCHANGED <<http, link, cmds, device>>

(* Mutant: the scheduled reload is not cancelled. *)
DeletedNoCancel ==
    /\ pc = "delete" /\ \E out \in Out : Replied(out)
    /\ Return("ok")
    /\ UNCHANGED <<http, link, cmds, device>>

Deleted ==
    /\ pc = "delete" /\ \E out \in Out : Replied(out)
    /\ \/ safety /\ GoTo("cancel")
       \/ ~ safety /\ Return("ok")
    /\ UNCHANGED <<http, link, cmds, device>>

Cancelled ==
    /\ pc = "cancel" /\ \E out \in Out : Replied(out)
    /\ Return("ok")
    /\ UNCHANGED <<http, link, cmds, device>>

(* The ? behind these commands. *)
CommandFails ==
    /\ pc \in {"reload", "apply", "delete", "cancel"} /\ Failed
    /\ Return(pc)
    /\ UNCHANGED <<http, link, cmds, device>>

-----------------------------------------------------------------------------
(* The device executes the commands in the order they were sent. *)

Executes(cmd) ==
    /\ link # "down" /\ cmds # <<>> /\ Head(cmds).cmd = cmd
    /\ cmds' = Tail(cmds)

Answers(cmd, out) ==
    replies' = IF link = "up" THEN Append(replies, [cmd |-> cmd, out |-> out])
                              ELSE replies

DevReloadIn ==
    /\ Executes("reload")
    /\ \/ timer' = "armed" /\ Answers("reload", "plain")
       \/ MayRejectReload /\ Answers("reload", "error") /\ UNCHANGED timer
    /\ UNCHANGED <<host, http, link, flash, running>>

(* A download may break, or end well with the wrong bytes on flash. *)
DevCopy ==
    /\ Executes("copy")
    /\ \/ /\ http[Head(cmds).call] # "off"
          /\ flash' \in {"good", "bad"} /\ Answers("copy", "plain")
       \/ flash' \in {flash, "bad"} /\ Answers("copy", "error")
    /\ UNCHANGED <<host, http, link, running, timer>>

DevVerify ==
    /\ Executes("verify")
    /\ Answers("verify", CASE flash = "good" -> "match"
                           [] flash = "bad"  -> "mismatch"
                           [] OTHER          -> "error")
    /\ UNCHANGED <<host, http, link, device>>

(* GET /<file>/done: the route fires the shutdown of the server, whatever  *)
(* becomes of the answer; or the device refuses the command, or does not   *)
(* reach the server.                                                       *)
DevDone ==
    /\ Executes("done")
    /\ \/ /\ http' = [http EXCEPT ![Head(cmds).call] = "off"]
          /\ \E out \in {"plain", "error"} : Answers("done", out)
       \/ /\ http' = [http EXCEPT ![Head(cmds).call] = "unreached"]
          /\ Answers("done", "error")
    /\ UNCHANGED <<host, link, device>>

DevApply ==
    /\ Executes("apply")
    /\ \/ /\ flash # "absent"
          /\ running' = IF flash = "good" THEN "new" ELSE "bad"
          /\ \/ Answers("apply", "plain") /\ UNCHANGED link
             \/ MayCut /\ link' = "cut" /\ UNCHANGED replies
       \/ /\ flash = "absent" \/ MayRejectApply
          /\ Answers("apply", "error") /\ UNCHANGED <<running, link>>
    /\ UNCHANGED <<host, http, flash, timer>>

DevDelete ==
    /\ Executes("delete")
    /\ flash' = "absent" /\ Answers("delete", "plain")
    /\ UNCHANGED <<host, http, link, running, timer>>

(* The device accepts it; the call would not notice if it did not. *)
DevCancel ==
    /\ Executes("cancel")
    /\ timer' = "off" /\ Answers("cancel", "plain")
    /\ UNCHANGED <<host, http, link, flash, running>>

(* A command that asks for a file name or a confirmation while its run_cmd *)
(* has already given up takes the next command line as the answer, and     *)
(* fails for it; the answer that still comes then costs one more prompt.   *)
(* A request for /done that is taken so never reaches its server.          *)
DevMisled ==
    /\ link # "down" /\ Len(cmds) > 1 /\ Head(cmds).cmd \in {"reload", "copy", "apply"}
    /\ cmds' = SubSeq(cmds, 3, Len(cmds))
    /\ http' = IF cmds[2].cmd = "done"
                 THEN [http EXCEPT ![cmds[2].call] = "unreached"] ELSE http
    /\ LET reply == [cmd |-> Head(cmds).cmd, out |-> "error"]
       IN  replies' \in IF link = "up"
                          THEN {Append(replies, reply), replies \o <<reply, Stray>>}
                          ELSE {replies}
    /\ UNCHANGED <<host, link, device>>

(* The scheduled reload: the saved configuration is back, sessions are gone. *)
DevReloads ==
    /\ timer = "armed"
    /\ timer' = "off" /\ running' = "old"
    /\ link' = "down" /\ cmds' = <<>> /\ replies' = <<>>
    /\ UNCHANGED <<host, http, flash>>

-----------------------------------------------------------------------------
HostStep ==
    \/ SendCommand \/ Scheduled \/ Setup \/ SetupFails \/ Copied \/ CopyAgain
    \/ Backoff \/ CopyGivesUp \/ Verified \/ VerifyRejected \/ VerifyFails
    \/ DoneRequested \/ AwaitServer \/ Applied \/ Deleted \/ Cancelled
    \/ CommandFails

DevStep ==
    \/ DevReloadIn \/ DevCopy \/ DevVerify \/ DevDone \/ DevApply \/ DevDelete
    \/ DevCancel \/ DevMisled

(* All calls made: stutter. *)
Finished == pc = "idle" /\ calls = MaxCalls /\ UNCHANGED vars

Next == Call \/ HostStep \/ DevStep \/ DevReloads \/ Finished

Spec == Init /\ [][Next]_vars

(* config_atomic runs on; the device executes what it was sent, and a      *)
(* reload that stays scheduled happens.                                    *)
FairSpec == Spec /\ WF_vars(HostStep) /\ WF_vars(DevStep) /\ WF_vars(DevReloads)

-----------------------------------------------------------------------------
TypeOK ==
    /\ pc \in Step \cup {"idle"} /\ waiting \in BOOLEAN
    /\ attempt \in 0 .. MaxAttempts /\ safety \in BOOLEAN
    /\ calls \in 0 .. MaxCalls
    /\ outcome \in CmdStep \cup {"none", "setup", "ok"}
    /\ http \in [1 .. MaxCalls -> {"off", "serving", "dropped", "unreached"}]
    /\ link \in {"up", "cut", "down"}
    /\ cmds \in Seq(Line) /\ replies \in Seq(Reply)
    /\ flash \in {"absent", "good", "bad"} /\ running \in {"old", "new", "bad"}
    /\ timer \in {"off", "armed"}

(* Only a file whose MD5 was verified reaches the running configuration,   *)
(* also when replies of timed-out copy attempts arrive during later steps. *)
AppliedIsVerified == running # "bad"

(* A device that the new configuration cut off has its reload scheduled. *)
NeverStranded == safety /\ link = "cut" /\ running # "old" => timer = "armed"

(* Ok means that the configuration is in force and that no reload is       *)
(* scheduled that would undo it.                                           *)
OkMeansApplied == outcome = "ok" => running = "new" /\ timer = "off"

(* While the session lives, an HTTP server that outlives the call which    *)
(* started it has its request for /done on the way to the device.  Two     *)
(* ways to leave one behind are the code's and have a state of their own:  *)
(* "dropped" by the error return of verify, and "unreached" by a /done     *)
(* that the device did not fetch.  However late the replies, no other is.  *)
ServersStop ==
    link = "up" =>
        \A c \in 1 .. MaxCalls : http[c] = "serving" /\ (c # calls \/ pc = "idle") =>
            \E i \in DOMAIN cmds : cmds[i] = [cmd |-> "done", call |-> c]

(* config_atomic returns: its retries are bounded. *)
ConfigAtomicReturns == pc # "idle" ~> pc = "idle"

(* A change that cut the device off, or that config_atomic returned an     *)
(* error for after sending it, is undone by the scheduled reload.          *)
BadChangeIsUndone ==
    safety /\ (link = "cut" \/ outcome \in {"apply", "delete"}) ~> running = "old"

(* The calls with DelayedReload keep the promise of GuardedChange. *)
Guard == INSTANCE GuardedChange WITH
    guard <- timer = "armed", reachable <- link # "cut"
GuardSpec == Guard!Init /\ [][safety => Guard!Next]_(Guard!vars)
=============================================================================
