----------------------------- MODULE CommandRpc ------------------------------
(***************************************************************************)
(* What run_cmd() promises its caller, without streams, templates or       *)
(* prompts: calls are made one at a time and each is replied to once.  A   *)
(* reply is the answer to the call itself as long as no earlier call was   *)
(* given up and login left no prompt behind.  After that it may be an      *)
(* answer to no call at all, or the answer to an earlier call: later than  *)
(* any answer delivered before, and late by at most one call for each slip.*)
(***************************************************************************)
EXTENDS Naturals, Sequences, FiniteSets

CONSTANTS MaxCalls,  \* bound: calls in one session
          Slack      \* answers to no call that precede the first one

VARIABLES calls,    \* calls made, the last of them the open one
          open,     \* a call waits for its reply
          replies   \* what was replied, and the call it is the answer to

vars == <<calls, open, replies>>

NoReply == MaxCalls + 1

Init == calls = 0 /\ open = FALSE /\ replies = <<>>

Call ==
    /\ ~ open /\ calls < MaxCalls
    /\ open' = TRUE /\ calls' = calls + 1
    /\ UNCHANGED replies

Replied(outcome, from) ==
    replies' = Append(replies, [outcome |-> outcome, from |-> from])

GivenUp == {i \in DOMAIN replies : replies[i].outcome # "ok"}
Delivered == {replies[i].from : i \in DOMAIN replies \ GivenUp}

(* How often the client and the device have fallen out of step. *)
Slips == Slack + Cardinality(GivenUp)

ReplyOk ==
    /\ open
    /\ \/ /\ Slips > 0   \* an answer to no call: to login, or to a stray line
          /\ Replied("ok", 0)
       \/ \E m \in 1 .. calls :
             /\ \A d \in Delivered : d < m
             /\ calls - m <= Slips
             /\ Replied("ok", m)
    /\ open' = FALSE /\ UNCHANGED calls

GiveUp ==
    /\ open
    /\ \E outcome \in {"timeout", "error"} : Replied(outcome, NoReply)
    /\ open' = FALSE /\ UNCHANGED calls

(* A call that cannot even be sent. *)
CallFails ==
    /\ ~ open /\ calls < MaxCalls
    /\ calls' = calls + 1
    /\ Replied("error", NoReply)
    /\ UNCHANGED open

Next == Call \/ ReplyOk \/ GiveUp \/ CallFails

Spec == Init /\ [][Next]_vars
=============================================================================
