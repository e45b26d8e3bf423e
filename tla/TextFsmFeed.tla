----------------------------- MODULE TextFsmFeed -----------------------------
(***************************************************************************)
(* TextFSMPlus in interactive mode: what one call of feed() decides about  *)
(* the bytes accumulated so far.                                           *)
(*                                                                         *)
(* A buffer is a sequence of tokens, one per line of device output (or     *)
(* unterminated prompt); a token is a record with a field kind, the class  *)
(* of text it belongs to as far as any template can tell.  A template maps *)
(* each state to its sequence of rules.  A rule matches a set of kinds: a  *)
(* line-anchored regex (compiled with (?m)) finds the first line of the    *)
(* buffer that has such a kind.  next = Stay is a rule with no next state. *)
(***************************************************************************)
EXTENDS Naturals, Sequences

Stay == "stay"

LineAction == {"Done", "Send", "Next", "Error", "Continue"}

RuleType(kinds, states) ==
    [match : SUBSET kinds, act : LineAction, next : states \cup {Stay}]

(* A rule that feed() can stop at: Continue goes on to the next rule. *)
Stops(rule, buf) ==
    /\ rule.act # "Continue"
    /\ \E q \in DOMAIN buf : buf[q].kind \in rule.match

(* Rule i of the state fires, and its leftmost match ends with token p.    *)
(* Rules are tried in order, each on the whole buffer: an earlier rule     *)
(* wins over a later one wherever in the buffer the two match.             *)
Fires(template, state, buf, i, p) ==
    /\ i \in DOMAIN template[state]
    /\ template[state][i].act # "Continue"
    /\ p \in DOMAIN buf
    /\ buf[p].kind \in template[state][i].match
    /\ \A q \in 1 .. (p - 1) : buf[q].kind \notin template[state][i].match
    /\ \A j \in 1 .. (i - 1) : ~ Stops(template[state][j], buf)

(* No rule stops: feed() returns InteractiveAction::None, consumed 0. *)
NoRuleFires(template, state, buf) ==
    \A i \in DOMAIN template[state] : ~ Stops(template[state][i], buf)

(* The state of the engine after rule was taken in it. *)
StateAfter(state, rule) == IF rule.next = Stay THEN state ELSE rule.next

(* The states set_curr_state() accepts: those of the template, and "End",  *)
(* in which there is nothing to feed.  The next state of Send is a name    *)
(* like any other, "Done" too; the Done action itself has no next state.   *)
Settable(template) == DOMAIN template \cup {"End"}

(* What is left of a buffer when its first p tokens are drained. *)
DrainFront(buf, p) == SubSeq(buf, p + 1, Len(buf))
=============================================================================
