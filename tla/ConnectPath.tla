----------------------------- MODULE ConnectPath -----------------------------
(***************************************************************************)
(* Reaching a device: ConnectionPath::connect() and connect_over() go      *)
(* through a list of hops.  A transport hop opens a byte stream, in the    *)
(* place of the one before it; an interactive hop has drive_interactive()  *)
(* talk to whatever is at the other end, as a template says, until the     *)
(* template is done.  Every interactive hop starts with an empty buffer.   *)
(*                                                                         *)
(* The other end (external but for its login, which is MockIosDevice's) is *)
(* a device with banners and a login, or a shell that leads to one.  Its   *)
(* output is a sequence of lines and prompts, by kind; a line that arrives *)
(* in several pieces is several of them.                                   *)
(***************************************************************************)
EXTENDS Naturals, Sequences, TextFsmFeed

CONSTANTS
    Paths,       \* what is connected: over (connect_over?) and hops
    Servers,     \* devices: banner, motd, enabled, and what ssh does with it
    Credentials, \* "good", "bad_user", "bad_password"
    MayTimeout,  \* may the device be slower than the interactive timeout?
    MayDrop      \* may a transport fail?

VARIABLES
    path, server, credentials,   \* what this connection is about
    pc,       \* "hop", "drive", "ok", or the error that was returned
    hop,      \* the hop that is executed, or comes next
    fsm, buffer,      \* of drive_interactive()
    stream,   \* "none", "up" or "down": the transport
    toHost, toDev,    \* what is under way in the stream
    devMode,  \* "shell", "username", "password" or "exec"
    devOut,   \* what the other end has still to print
    paging,   \* has it not been told "terminal length 0"?
    cut       \* history: the hops that were done with bytes left in their buffer

request  == <<path, server, credentials>>
hostVars == <<pc, hop, fsm, buffer>>
devVars  == <<devMode, devOut, paging>>
vars     == <<request, hostVars, stream, toHost, toDev, devVars, cut>>

Outcome == {"ok", "not_connected", "unsupported", "refused", "template",
            "timeout", "link", "panic"}

-----------------------------------------------------------------------------
(* The other end. *)

Prompt == IF server.enabled THEN "prompt" ELSE "user_prompt"
LoginPrompt == Append(server.banner, "username")
Landing     == Append(server.motd, Prompt)

(* What is at the other end of a stream that was just opened. *)
Opened(to) ==
    /\ paging' = TRUE
    /\ CASE to = "telnet" -> devMode' = "username" /\ devOut' = LoginPrompt
         [] to = "ssh"    -> devMode' = "exec"     /\ devOut' = server.banner \o Landing
         [] to = "shell"  -> devMode' = "shell"    /\ devOut' = <<"shell_prompt">>

Init ==
    /\ path \in Paths /\ server \in Servers /\ credentials \in Credentials
    /\ pc = "hop" /\ hop = 1 /\ fsm = "Start" /\ buffer = <<>>
    /\ stream = IF path.over THEN "up" ELSE "none"
    /\ toHost = <<>> /\ toDev = <<>> /\ cut = {}
    /\ devMode = "shell" /\ paging = TRUE
    /\ devOut = IF path.over THEN <<"shell_prompt">> ELSE <<>>

DevPrint ==
    /\ stream = "up" /\ devOut # <<>>
    /\ toHost' = Append(toHost, [kind |-> Head(devOut)]) /\ devOut' = Tail(devOut)
    /\ UNCHANGED <<request, hostVars, stream, toDev, devMode, paging, cut>>

(* The jump command prints two lines while it connects. *)
DevShell(line) ==
    /\ devMode = "shell"
    /\ IF line = "jump"
       THEN devMode' = "username" /\ devOut' = <<"text", "text">> \o LoginPrompt
       ELSE devOut' = <<"shell_prompt">> /\ UNCHANGED devMode
    /\ UNCHANGED paging

LoginInvalid == devMode' = "username" /\ devOut' = <<"percent", "username">>
DevUsername(line) ==
    /\ devMode = "username"
    /\ IF line = "username" /\ credentials # "bad_user"
       THEN devMode' = "password" /\ devOut' = <<"password">>
       ELSE LoginInvalid
    /\ UNCHANGED paging
DevPassword(line) ==
    /\ devMode = "password"
    /\ IF line = "password" /\ credentials = "good"
       THEN devMode' = "exec" /\ devOut' = Landing
       ELSE LoginInvalid
    /\ UNCHANGED paging

DevExec(line) ==
    /\ devMode = "exec"
    /\ IF line = "terminal length 0"
       THEN devOut' = <<Prompt>> /\ paging' = FALSE
       ELSE devOut' = <<"percent", Prompt>> /\ UNCHANGED paging
    /\ UNCHANGED devMode

DevReads ==
    /\ stream = "up" /\ devOut = <<>> /\ toDev # <<>>
    /\ toDev' = Tail(toDev)
    /\ LET line == Head(toDev)
       IN  DevShell(line) \/ DevUsername(line) \/ DevPassword(line) \/ DevExec(line)
    /\ UNCHANGED <<request, hostVars, stream, toHost, cut>>

Device == DevPrint \/ DevReads

LinkDown ==
    /\ MayDrop /\ stream = "up"
    /\ stream' = "down" /\ toHost' = <<>> /\ toDev' = <<>>
    /\ UNCHANGED <<request, hostVars, devVars, cut>>

-----------------------------------------------------------------------------
(* The hops. *)

AtHop == pc = "hop" /\ hop \in DOMAIN path.hops
Hop   == path.hops[hop]

(* A new stream takes the place of the old one, which is dropped. *)
OpenTransport ==
    /\ AtHop /\ Hop.type = "transport" /\ ~ path.over
    /\ Hop.to = "ssh" => credentials = "good"
    /\ Opened(Hop.to)
    /\ stream' = "up" /\ toHost' = <<>> /\ toDev' = <<>>
    /\ hop' = hop + 1
    /\ UNCHANGED <<request, pc, fsm, buffer, cut>>

Returns(error) ==
    /\ pc' = error
    /\ UNCHANGED <<request, hop, fsm, buffer, stream, toHost, toDev, devVars, cut>>

TransportFails ==
    /\ AtHop /\ Hop.type = "transport" /\ ~ path.over
    /\ MayDrop \/ (Hop.to = "ssh" /\ credentials # "good")
    /\ Returns("refused")

TransportOver ==
    /\ AtHop /\ Hop.type = "transport" /\ path.over
    /\ Returns("unsupported")

Drive ==
    /\ AtHop /\ Hop.type = "interactive" /\ stream # "none"
    /\ pc' = "drive" /\ fsm' = "Start" /\ buffer' = <<>>
    /\ UNCHANGED <<request, hop, stream, toHost, toDev, devVars, cut>>

NoTransport ==
    /\ pc = "hop" /\ stream = "none"
    /\ hop \in DOMAIN path.hops => Hop.type = "interactive"
    /\ Returns("not_connected")

Established ==
    /\ pc = "hop" /\ hop \notin DOMAIN path.hops /\ stream # "none"
    /\ Returns("ok")

-----------------------------------------------------------------------------
(* drive_interactive(). *)

Template == Hop.template
Fired(i, p, act) ==
    Fires(Template, fsm, buffer, i, p) /\ Template[fsm][i].act = act
Driving == pc = "drive" /\ fsm \in DOMAIN Template

(* Mutant: a second newline goes out with the text. *)
FeedSendTwoLines ==
    /\ Driving /\ stream = "up"
    /\ \E i \in DOMAIN Template[fsm], p \in DOMAIN buffer :
          /\ Fired(i, p, "Send")
          /\ fsm' = StateAfter(fsm, Template[fsm][i]) /\ fsm' \in Settable(Template)
          /\ buffer' = DrainFront(buffer, p)
          /\ toDev' = toDev \o <<Template[fsm][i].send, "">>
    /\ UNCHANGED <<request, pc, hop, stream, toHost, devVars, cut>>

(* The matched bytes are drained, then the text and a newline are sent. *)
FeedSend ==
    /\ Driving /\ stream = "up"
    /\ \E i \in DOMAIN Template[fsm], p \in DOMAIN buffer :
          /\ Fired(i, p, "Send")
          /\ fsm' = StateAfter(fsm, Template[fsm][i]) /\ fsm' \in Settable(Template)
          /\ buffer' = DrainFront(buffer, p)
          /\ toDev' = Append(toDev, Template[fsm][i].send)
    /\ UNCHANGED <<request, pc, hop, stream, toHost, devVars, cut>>

(* What the buffer holds beyond the match goes with it. *)
FeedDone ==
    /\ Driving
    /\ \E i \in DOMAIN Template[fsm], p \in DOMAIN buffer :
          /\ Fired(i, p, "Done")
          /\ cut' = IF p < Len(buffer) THEN cut \cup {hop} ELSE cut
    /\ pc' = "hop" /\ hop' = hop + 1 /\ buffer' = <<>>
    /\ UNCHANGED <<request, fsm, stream, toHost, toDev, devVars>>

FeedError ==
    /\ Driving
    /\ \E i \in DOMAIN Template[fsm], p \in DOMAIN buffer : Fired(i, p, "Error")
    /\ Returns("template")

(* set_curr_state() panics in the feed() that matched, before anything is  *)
(* drained or sent, when the rule goes on to a state it does not know; in  *)
(* "End" the next feed() does.                                             *)
FeedPanics ==
    /\ \/ pc = "drive" /\ fsm \notin DOMAIN Template
       \/ /\ Driving
          /\ \E i \in DOMAIN Template[fsm], p \in DOMAIN buffer :
                /\ Fired(i, p, "Send") \/ Fired(i, p, "Next")
                /\ StateAfter(fsm, Template[fsm][i]) \notin Settable(Template)
    /\ Returns("panic")

(* No rule, or one that only goes on to another state: what it consumed is *)
(* drained before more is received.                                        *)
FeedNone(next, p) ==
    \/ NoRuleFires(Template, fsm, buffer) /\ next = fsm /\ p = 0
    \/ \E i \in DOMAIN Template[fsm] :
          Fired(i, p, "Next") /\ next = StateAfter(fsm, Template[fsm][i])
Waits == \E next \in Settable(Template), p \in 0 .. Len(buffer) : FeedNone(next, p)

(* Mutant: a rule that goes on to another state clears the buffer. *)
ReceiveClears ==
    /\ Driving /\ stream = "up"
    /\ \E next \in Settable(Template), p \in 0 .. Len(buffer), k \in 0 .. Len(toHost) :
          /\ FeedNone(next, p)
          /\ fsm' = next
          /\ buffer' = (IF p > 0 THEN <<>> ELSE buffer) \o SubSeq(toHost, 1, k)
          /\ toHost' = DrainFront(toHost, k)
    /\ UNCHANGED <<request, pc, hop, stream, toDev, devVars, cut>>

(* A chunk of any size; after 5 seconds without one, nothing. *)
Receive ==
    /\ Driving /\ stream = "up"
    /\ \E next \in Settable(Template), p \in 0 .. Len(buffer), k \in 0 .. Len(toHost) :
          /\ FeedNone(next, p)
          /\ fsm' = next
          /\ buffer' = DrainFront(buffer, p) \o SubSeq(toHost, 1, k)
          /\ toHost' = DrainFront(toHost, k)
    /\ UNCHANGED <<request, pc, hop, stream, toDev, devVars, cut>>

TransportError ==
    /\ Driving /\ stream = "down"
    /\ \/ Waits
       \/ \E i \in DOMAIN Template[fsm], p \in DOMAIN buffer :
             /\ Fired(i, p, "Send")
             /\ StateAfter(fsm, Template[fsm][i]) \in Settable(Template)
    /\ Returns("link")

Timeout == MayTimeout /\ pc = "drive" /\ Returns("timeout")

Client == OpenTransport \/ TransportFails \/ TransportOver \/ Drive \/ NoTransport
             \/ Established \/ FeedSend \/ FeedDone \/ FeedError \/ FeedPanics
             \/ Receive \/ TransportError \/ Timeout

Next == Client \/ Device \/ LinkDown
Spec == Init /\ [][Next]_vars

-----------------------------------------------------------------------------
TypeOK ==
    /\ pc \in {"hop", "drive"} \cup Outcome
    /\ hop \in 1 .. Len(path.hops) + 1 /\ cut \subseteq DOMAIN path.hops
    /\ pc = "drive" => fsm \in Settable(Template)
    /\ stream \in {"none", "up", "down"}
    /\ devMode \in {"shell", "username", "password", "exec"}

Marked(lines) == \E i \in DOMAIN lines : lines[i] = "hash"

(* The path ends with one of the login templates. *)
LogsIn ==
    LET last == path.hops[Len(path.hops)]
    IN  /\ path.hops # <<>>
        /\ last.type = "interactive" /\ "TermLen" \in DOMAIN last.template

(* A connection that was established is logged in, and its pager is off,   *)
(* unless a line of a banner looked like a prompt to "^.*#".               *)
ConnectedIsLoggedIn ==
    pc = "ok" /\ LogsIn /\ ~ Marked(server.banner) =>
        devMode = "exec" /\ (~ Marked(server.motd) => ~ paging)

(* Then all that the device had to say was read, so that the output of the *)
(* first command is its own: what the sessions of CliSession begin with.   *)
HandOverIsClean ==
    pc = "ok" /\ LogsIn /\ stream = "up"
        /\ ~ Marked(server.banner) /\ ~ Marked(server.motd) =>
            /\ toHost = <<>> /\ toDev = <<>> /\ devOut = <<>>
            /\ Len(path.hops) \notin cut

(* The template waits for the device, and the device for a line: nothing   *)
(* but the timeout ends this.  It happens to a user name the device does   *)
(* not know, to an SSH user who is not enabled, after a banner that looked *)
(* like a prompt, and when a prompt was lost between two hops.             *)
MutualWait ==
    /\ Driving /\ stream = "up" /\ NoRuleFires(Template, fsm, buffer)
    /\ toHost = <<>> /\ toDev = <<>> /\ devOut = <<>>
NoMutualWait ==
    MutualWait =>
        \/ credentials = "bad_user" /\ devMode = "username"
        \/ ~ server.enabled /\ devMode = "exec" /\ "WaitPrompt" \notin DOMAIN Template
        \/ Marked(server.banner) \/ cut # {}

(* A login that fails with the error of the template was refused: for its  *)
(* password, or so it looked from a line that begins with % and came       *)
(* before the prompt.                                                      *)
ErrorIsRefusal ==
    pc = "template" =>
        credentials = "bad_password" \/ \E i \in DOMAIN server.motd : server.motd[i] = "percent"

(* No path makes the engine panic: "Done is a terminal state indicating    *)
(* successful completion", also as the next state of a Send.               *)
NoPanic == pc # "panic"
=============================================================================
