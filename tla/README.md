# TLA+ models of ayclic

ayclic drives the command line of Cisco IOS devices over telnet and SSH, parses
what they print, and comes with a simulated switch. This directory holds TLA+
models of it, TLC configurations that check them on small instances, and TLAPS
proofs of results that hold for every instance. Paths below are relative to the
repository; `MockIosDevice` is in `mockios/src/lib.rs`.

## The system

Three crates: `aytextfsmplus` (template engine), `ayclic` (connections and
commands), `mockios` (a simulated switch, used by tests and as a server).

| component | code | state | operations | interacts with |
|---|---|---|---|---|
| Connection path | `ayclic/src/path.rs`, `generic_conn.rs` `connect_over` | hops, `drive_interactive` buffer and engine | open a transport, log in, hop on | raw transports; the engine; hands a session to the command loop |
| Template engine, interactive mode | `aytextfsmplus/src/lib.rs` `feed()` | current state | try rules on the buffer; Done, Send, Next, Error, Continue | called once per loop turn of `run_cmd` and `drive_interactive` |
| Template engine, record parsing | `aytextfsmplus/src/lib.rs` `parse_file()`, `parse_line()` | state, current record, filldown record, records | match a line, capture, record, clear | callers that parse output |
| Templates and prompt actions | `ayclic/src/templates.rs`, `conn.rs`, `transport.rs` | none | build templates from prompt lists | give the engine its rules |
| Command loop | `ayclic/src/generic_conn.rs` `run_cmd`, `run_cmd_with_template` | buffer, engine, deadline | send, feed, drain, receive, give up | the raw transport; the device behind it |
| Raw transports | `ayclic/src/raw_transport.rs` | russh / telnet session | send, receive with timeout, close | the network |
| Legacy transport | `ayclic/src/transport.rs` | buffer | `receive_until_match` and friends | used by `CiscoIosConn` when built directly |
| config_atomic | `ayclic/src/conn.rs` | copy attempts, HTTP server, safety reload | reload in, copy, verify, done, apply, delete, cancel | runs commands; serves the file; the device |
| CLI table, substitution | `aytextfsmplus/src/*.rs` | none | match index rows, substitute | callers that parse output |
| Mock CLI session | `mockios/src/lib.rs`, `cmd_tree_exec.rs`, `cmd_tree_conf.rs` | mode, pending question, input, output | `send` byte by byte, `receive` | the server loop |
| Mock command trees | `cmd_tree.rs`, `cmd_tree_exec.rs`, `cmd_tree_conf.rs` | seven trees of about 550 nodes, constant | parse, help, complete, with and without `no` | the session parses lines with them; their handlers change the device |
| Mock device state | `device_state.rs`, the handlers of `cmd_tree_conf.rs`, the views of `cmd_tree_exec.rs` | interfaces, VLANs, routes, lists, users, services | configure, undo, copy a file, derive, show | handlers write it, `show` reads it |
| Mock line editor | `mockios/src/lib.rs` `send` | line, cursor, history, escape state | editing keys, recall, submit | the client's terminal |
| Mock servers | `mockios/src/main.rs` | one device per connection | accept, read-send-receive-write | the device |

Nothing in the byte stream says which command a line of output answers. That
is the hard part of the client: a prompt seen too early, a command given up on
a deadline, or a chunk cut at a bad place puts the client and the device out of
step, and from then on every reply belongs to the wrong call. The connection
path has to hand over a session that is in step to begin with. `config_atomic`
builds on it a sequence of steps that has to be safe although each reply may be
late, the device may go away in the middle, and a reload is running against it.
On the device's side, a line is interpreted by what is pending when it is
handled; by four functions (parse, help, completion, and each with `no`) that
walk the same trees separately; and then once more by the handler, which reads
the raw line again. What the device then shows is computed by some twenty
functions that each have their own idea of what a port, a link or a VLAN is.

What makes each part correct:

* connection path: a connection that is handed out is logged in, its pager is
  off, and everything the device said was read; what a login waits for happens;
* command loop: a command returns its own output; an answer goes to the
  question it was made for; client and device never wait for each other; when
  commands were given up, the damage is bounded;
* record parsing: the records are what the rules that matched captured, in the
  words of the table of record actions, whatever the options of the values;
* config_atomic: only a verified file is applied; Ok means it is in force; a
  change that cut the device off is undone; the HTTP server stops, but for the
  ways it is known to be left behind; it returns;
* mock CLI: a line is taken for what it was typed for; privilege and reload
  are never an accident; every line is answered;
* command trees: help tells what parsing will do; every command can be typed;
  completion keeps the meaning of a line; no command leaves its mode by accident;
* device state: configuring is editing a text line by line; what it shows of
  an interface rebuilds it; the views agree with one another;
* line editor: no index leaves line or history; the terminal shows the line.

`PROJECT.json` lists the hazards behind these, each at its line.

## The modules

| module | what it models |
|---|---|
| `TextFsmFeed` | which rule of a template fires on a buffer and what is consumed, as operators |
| `IosTemplates` | `CISCO_IOS_PROMPT`, the two login templates, `build_chat_template`, `ios_prompt_actions`, the reload prompts, the hops of `CiscoIosConn`, over classes of output lines |
| `CliSession` | `run_cmd` against a device over a byte stream |
| `CommandRpc` | abstract: calls and replies, and how far they may be out of step |
| `ConnectPath` | `connect()`, `connect_over()`, `drive_interactive()` against devices that ask for a login and hosts to jump from |
| `TextFsmRecords` | `parse_file()` and `parse_line()`: captures, value options, record actions |
| `ConfigAtomic` | `config_atomic`, its HTTP server, and the device it changes |
| `GuardedChange` | abstract: a change made only while a reload is scheduled |
| `MockIosCli` | a client typing at a `MockIosDevice` behind its server |
| `CommandNode` | a node of a tree, word matching, parse, help, completion, as operators |
| `ExecTree`, `ConfTree` | the nodes of `cmd_tree_exec.rs` and `cmd_tree_conf.rs` |
| `Dispatching` | which tree a mode parses with, `do` and `no`, and the handler a line runs |
| `CommandLine` | a line typed word by word with `?`, Tab and Enter at any point |
| `DeviceState` | what the device is configured to be, and its running configuration |
| `DeviceConfig` | every handler of the configuration modes, and `copy` of a file |
| `ConfigText` | abstract: a text of lines in blocks, edited line by line |
| `DeviceViews` | the `show` commands that read the configuration |
| `LineEditor` | the editing arms of `send()` and the terminal they draw on |
| `LineBuffer` | abstract: text left and right of a cursor, and a memory of lines |
| `StreamLemmas` | facts about sequences the proofs share |
| `*_proofs`, `MC*` | theorems; instances for TLC |

`CliSession` and `ConnectPath` extend `TextFsmFeed`; their instances take their
templates from `IosTemplates`. `ConnectPath` ends where `CliSession` begins: its
`HandOverIsClean` is the `Stale = 0` that the sessions assume. `CommandLine` and
`DeviceConfig` extend `Dispatching`, which joins the two trees with the parser
of `CommandNode`; `DeviceConfig` extends `DeviceState`, and `DeviceViews` extends
`DeviceConfig`. A module's theorems are in the `_proofs` module of its name;
those of `CommandLine`, `DeviceConfig` and `DeviceViews`, which all rest on what
the trees offer, are in `MockIosCommands_proofs`, which extends `DeviceViews` and
instantiates `CommandLine`.

### ConnectPath

`hop` is the hop of the path that is next; a transport hop opens a stream
(`OpenTransport`), an interactive one starts an engine on an empty buffer
(`Drive`). The turns of `drive_interactive()` are `FeedSend`, `FeedDone`,
`FeedError`, `FeedPanics` and `Receive`; its deadline is checked at the top of a
turn and may be taken at any moment (`Timeout`). `FeedPanics` is
`set_curr_state()` called with a state the template does not have, in the feed
that matched: nothing was drained or sent then. What was received behind the
match of a hop that is done is dropped with its buffer. The other end is a
device with any banner before and after the login, or a shell that leads to one;
its login is the one of `MockIosDevice`. Output comes as lines and prompts, by
class, cut into any chunks; a line that arrives in pieces is several of them.

### CliSession

A token is a line of output or an unterminated prompt, reduced to the class of
text the regexes of a template tell apart; it carries the number of the command
that caused it, for the properties only. One turn of the loop is one action:
`FeedDone`, `FeedSend`, `FeedError`, or `Receive` when feed() returned None
(any number of tokens, zero after the 5 second receive timeout). `Timeout` is
the deadline check at the top of the loop and may be taken at any moment, since
nothing relates the device's speed to it. `run_cmd` always starts from a fresh
engine; bytes beyond a Done are dropped with it. The device reads lines in
order and takes the next line as the answer to what it asked.

### TextFsmRecords

One action per line begun, per rule tried and per end of the input. A line has
a kind, by which the rules tell it from others, and a text, which is what their
groups capture. A value is a sequence of texts: of one for a `Value::Single`.
`log` is a history of what each rule that matched captured and did; the
property `RecordsTellTheText` computes every record again from it, by a scan
from the end of the input instead of line by line. `doing = "panic"` are the
places where the code panics (a state nobody defined, an error rule).

### ConfigAtomic

Built on what `CliSession` establishes: a `run_cmd` takes the first reply there
is, whatever command it belongs to, and drops what came in the same chunk
behind it. `pc` is the step `config_atomic` is at; each `?`, early return and
`abort()` of the server is an action. `http` says of each call whether its
server serves, was stopped by `/done`, or was left behind: `dropped` where an
early return drops its handle, `unreached` where the device does not fetch
`/done` and nobody looks. The device executes late commands, may
be misled by a command line taken as an answer (`DevMisled`), may be cut off by
the new configuration, and reloads any time its timer is armed.

### MockIosCli

One action per byte kind that reaches `send()`, one for the server's read and
one for its receive and write. Output is reduced to prompt, question, or text.
The client waits for its turn: it types a command at a prompt and an answer at
a question. `show` stands for every command that only prints; unknown commands
behave alike up to their text.

### CommandLine and its trees

`ExecTree` and `ConfTree` hold the trees node by node: keyword or parameter,
mode filter, handler, handler for `no`, children. `CommandNode` has the four
walks over them. A session types a line one word at a time (spelled out, or cut
short), and may press `?`, Tab or Enter wherever it stands; `reply` is what the
device said, so that a property can compare it with what Enter would do from
the same state. The questions that `enable`, `reload` and `install` ask are
answered at once; `MockIosCli` has them in detail.

### DeviceConfig, ConfigText and DeviceViews

`DeviceState` is the configuration, a record of functions keyed by name, and
`DeviceConfig` has one operator per handler, which takes the words of the line
as they were typed. Next picks a line from the session's vocabulary, dispatches
it with `ConfTree` and applies the handler. `ConfigText` says what configuring
means to a user: a set of lines in blocks, each command putting its line in
place of the one that said otherwise, `no` taking it away, and no other block
touched. `EditsItsText` is the refinement: the running configuration of the
structures is that text. Of the commands in `Unsettled` the text says nothing,
because the code does something else (listed below); those in `Silent` are not
shown by it. `DeviceViews` has `show vlan`, `interfaces status`, `trunk` and
`switchport`, `ip` and `ipv6 interface brief`, the routes, OSPF and spanning tree
as functions of the state.

### LineEditor

The buffer, the cursor, the history and the escape state, with one action per
key, and one row of a terminal that executes the characters, cursor movements
and erasures the editor sends. Tab takes which keyword the last word is short
for from the constant `Keyword`: in the code the trees and the mode decide, and
`CommandLine` has that part. Ctrl-U, Ctrl-C (and Ctrl-Z in the exec modes), Tab
and `?` are written for a cursor at the end of the line; with text right of it
they leave the terminal's cursor or its cells wrong (so does Ctrl-U on a row
where Ctrl-C left two prompts) until a key that writes the whole line anew.
`torn` records that, and the terminal is not followed meanwhile. Echo is on (no
password mode, `local_echo`).

## What the runs check

Each run finishes in two minutes on two workers; state counts are from
about a thousand to 1.4 million. Every property of a passing run has a
mutant in `PROJECT.json`: a plausible bug in a mapped definition under which
the run reports that property violated.

| run | question | result |
|---|---|---|
| `ConnectPath_hops` | ten paths (those of `CiscoIosConn`, a jump host, a replaced transport, `connect_over`, paths that cannot work), all devices and credentials, timeouts, failures | a connection is logged in with its pager off and nothing left unread, unless a banner looks like a prompt; which logins only their timeout ends; a template error is a refusal |
| `CliSession_chat` | three commands with the chat prompts, an error rule and a second template state; timeouts; a transport that fails | in-step commands return their own output and nothing is left between them; answers meet their questions; no mutual wait; every command returns; `run_cmd` implements `CommandRpc`: a wrong answer is late by at most one call per slip, and answers never go backwards |
| `TextFsmRecords_lines` | 55 templates that use every option and action, all inputs of up to three lines and most of four, with and without presets | records are complete, never change but by Fillup, and are what a scan of the matched rules says; the two copies of filldown values agree |
| `ConfigAtomic_guard` | one call in either safety mode, late replies, refused and cutting changes | only a verified file is applied; with `DelayedReload`, implements `GuardedChange` and never strands the device; returns; a bad change is undone; a server that outlives its call has its `/done` on the way |
| `ConfigAtomic_prompt` | two calls, replies in time, reload refused or fired at any moment | Ok means applied with no reload pending |
| `MockIosCli_turns` | all eight devices, three line ends, chunks cut anywhere but inside CR LF | lines meet their questions; the screen is true; privilege is earned; reload is meant; every line is answered |
| `CommandLine_typing` | lines of up to three words over the complete trees, spelled out or cut to one or three letters, from login, user, privileged and configuration mode | help tells the truth; every command can be typed; Tab keeps the meaning; only enable raises; configuration is left on purpose |
| `DeviceConfig_session` | sessions of any length, typed from twelve vocabularies of about ten lines | the structures implement the text; the lines of an interface rebuild it; what is open exists; the views agree |
| `LineEditor_keys` | any keys, Tab and `?` among them, on lines of up to three typed characters, two of them in the history | no index out of range; the terminal shows the line; implements `LineBuffer` |
| `ConfigAtomic_failed` | the device refuses to apply | **violated**: the output of the apply is not looked at, Ok is returned and the reload cancelled |
| `MockIosCli_crlf` | the CR and the LF of one line end in two reads | **violated**: the LF is an empty line and answers the pending question |
| `ConnectPath_done` | a template whose last rule is `Send ... Done` | **violated**: the engine panics in the feed that matches, before the line is sent |

The violated runs state what a comment or document of the repository says;
`findings` in `PROJECT.json` quotes the line. Six more configurations reproduce
disagreements of the same kind, `tlc -config <name>.cfg <module>`:

| configuration | module | violated property | what happens |
|---|---|---|---|
| `CliSession_confirm` | `MCCliSession` | `NoMutualWait` | a `[confirm]` at the end of a line: the rule of `CISCO_IOS_PROMPT` is anchored to the line start, client and device wait for each other |
| `ConfigAtomic_again` | `MCConfigAtomic` | `AppliedIsVerified` | a second call after one that gave up takes the MD5 of the earlier verify for its own and applies an unverified file |
| `MockIosCli_cancel` | `MCMockIosCli` | `ScreenIsTrue` | Ctrl-C at a question prints a prompt, the question stays pending |
| `CommandLine_tab` | `MCCommandLine` | `TabErasesThePrefix` | Tab behind a space erases from the cursor what it took from the last word |
| `CommandLine_login` | `MCCommandLine` | `NeverPanics` | `?` or Tab at a login prompt panics in `CliModeClass::from_cli_mode` |
| `DeviceConfig_no` | `MCDeviceConfig` | `NoVlanRemovesIt` | `no vlan 100` creates VLAN 100 |

### Bounds

* `CliSession`: 3 commands let the second be given up and the third suffer;
  `Stale = 0`, which `ConnectPath_hops` shows to hold for the login templates.
* `ConnectPath`: a path has at most three hops, because what a hop leaves behind
  is the state of the stream, and that is lost with the next transport. Banners
  have up to four lines: one before, between and after two that look like
  prompts.
* `TextFsmRecords`: a block is two lines in these templates, so four lines make
  two records, which is what Fillup, Filldown and Clear need; two texts tell
  the last from the first.
* `MaxAttempts = 3` is the code's `MAX_COPY_ATTEMPTS`; 2 where two calls are
  made. Two calls are enough for one to see what an earlier one left.
* `CommandLine`: three words, because most paths of the trees branch in the
  first three; cut to one letter most words are ambiguous, cut to three few.
  Two numerals, one in and one outside of the ranges, and one name, "casino",
  that ends in "no".
* `DeviceConfig`: `MaxEntries = 2` entries of a list, routes or addresses; a
  device with one port, and what the lines create. A vocabulary keeps together
  the lines whose handlers share state.
* `MaxLen = 3`: a word, a blank and another character around the cursor; Tab is
  taken on lines shorter than that, and what it appends may exceed it. The
  one keyword, "aa", completes a word of one letter and is a word itself;
  `MaxHistory = 2`: an oldest and a newest line; `MaxRow = 2`: Ctrl-C on a row
  that already has a prompt.
* `MockIosCli` needs none: the client sends one line a turn.

### Fairness

`CliSession`: each turn of the loop is taken (its receive returns within 5
seconds, and tokio polls a ready task), and the device goes on printing and
reading; the deadline needs no fairness, so `RunCmdReturns` shows it is not
needed where the template fits the device. `ConfigAtomic`: the same for the
steps of the call and the device, and a reload that stays scheduled happens,
which is what `reload in` means. `MockIosCli`: the server task runs on; the
client owes nothing. The other modules have safety properties only, and state
no fairness: what a login waits for in vain is the invariant `NoMutualWait` of
`ConnectPath`, and parsing, dispatching and configuring are single calls.

## Where the properties stop

These fail outside the constants of the runs, because the code does not
promise more.

Connecting and commands:

* A line of a banner with `#` in it is taken for the prompt by `^.*#`; a line
  with `%` in it fails a login only when it arrives before the prompt does.
* An unknown user name (WaitPassword has no rule for the next user name prompt)
  and an SSH user who lands at `>` end by timeout only; `NoMutualWait` lists
  these cases. A prompt that arrives in one chunk with the end of a hop is lost
  to the next hop: the path that `docs/plans/connection-path-architecture.md`
  461–482 gives as an example does that. `transport.send` has no timeout.
* `connect_over` runs the interactive hops in front of a transport hop before
  it rejects the path.
* Only commands of a session in step return their own output; after a timeout
  nothing in the code resynchronises the stream, and `CommandRpc` says what is
  still true.
* `ServersStop` names two ways in which a server is left behind. When the verify
  command itself fails (`conn.rs` 914) its handle is dropped without `abort()`;
  and when the device refuses or fails the copy of `/done`, which nobody looks at
  (`conn.rs` 942–943), the handle is detached after 5 seconds. The call may still
  return Ok.
* The output of `reload cancel` is not looked at (`conn.rs` 957); in the model the
  device always accepts it.
* `NeverStranded` with `MayRejectReload`: a refused `reload in` is not noticed.
* Calls with and without `DelayedReload` on one connection: a reload left armed
  by a failed call undoes a later change that was reported Ok.

Parsing:

* Capturing into a List value that was preset, and a Fillup value that is a List
  when there are records, panic; `PresetAssumption` and the templates of the
  run leave these out. A value that is preset and Filldown is lost at the first
  Record. States that rules name are not checked when a template is loaded.

The mock device:

* `MockIosCli_turns` leaves out what the code gets wrong by a look at it: an
  empty line at the login prompts prints nothing (the client waits for ever);
  `do reload` and `do copy` print the question and then a prompt; bytes behind
  a reload in the same chunk are still handled; a bare-LF client that types
  ahead has an empty answer skipped; `power_on()` clears the line but not the
  cursor. Install mode can be set by users of the library only.
* `HelpTellsTruth` excludes `do` lines (help looks them up in the wrong tree) and
  lines whose last parameter took more than one word (help finds nothing there).
  On the lines in `Refused` help offers `<cr>` and the handler refuses them:
  `show`, `show ip`, `show ipv6` and eight `show ipv6 ...` lines answer
  "% Incomplete command." or a hint (`cmd_tree_exec.rs` 152, 187, 389);
  `ip access-list` with its type cut short or negated, and an entry of a named list
  whose first word is cut short, find no keyword in the raw line
  (`cmd_tree_conf.rs` 1071, 1116).
  `no exit` and `no end` are executed though help hides them.
* `TabKeepsMeaning` excludes words that end in "no": completion searches the
  line for "no " and finds it inside a word.
* `Unsettled` commands of `ConfigText`: `no ip access-list extended x` is
  incomplete; `no enable secret x` and `no ipv6 router ospf 7` do not undo; `no
  interface vlan 1` opens the interface; `desc x` is dispatched to the handler
  of `description`, which then does not find its keyword and clears the text;
  `derive` drops configuration. Among the `Silent` ones `no vlan 7` creates the
  VLAN and `no name x` renames it. `no switchport mode` and `no banner motd`
  need an argument.
* `ShownLinesRebuild` is about the lines of interfaces, and excludes `ip ospf
  network`, which is written in a form no tree has. In the rest of the text,
  privilege 1 is not shown and read as 0, and lines of other sub-modes keep no
  block.
* The views disagree about names they parse differently: `Ethernet0/1` is in
  `show vlan` only; a port in a VLAN nobody defined is in no row of it; IPv4
  routes stay connected while the link is down, IPv6 routes do not.

## What is proved

All proofs are checked by TLAPS for every value of the constants that the
named ASSUMEs allow.

| theorem | statement |
|---|---|
| `CliSession_proofs!TypeCorrect` | the type invariant, for every template, device script and bound |
| `CliSession_proofs!SessionInStep` | on a `CleanDevice`: `OwnOutput`, `NoCrossAnswer` and `QuietWhenIdle` together, for every template and number of commands |
| `CliSession_proofs!NothingIsLeftBehind` | `QuietWhenIdle` of it: `run_cmd` drops nothing when it is done |
| `CliSession_proofs!AnswersMeetTheirQuestions` | `NoCrossAnswer` of it: no answer goes to the question of another command |
| `CliSession_proofs!NoCommandHangs` | `NoMutualWait`, for an `Attentive` template: the command loop and the device never wait for each other |
| `CliSession_proofs!SessionImplementsRpc` | on a `CleanDevice` the session implements `CommandRpc` (`RpcSpec`), for every number of commands, timeouts and leftover prompts |
| `ConnectPath_proofs!ConnectTypeCorrect` | the type invariant, for every `WellFormed` path |
| `ConnectPath_proofs!ConnectionsAreLoggedIn` | `ConnectedIsLoggedIn`, for every `LoginPath` and every device with `Banners` |
| `ConnectPath_proofs!HandOversAreClean` | `HandOverIsClean`, for the same |
| `ConnectPath_proofs!LoginsWaitForAReason` | `NoMutualWait`, for the `Direct` paths of `CiscoIosConn::new()` |
| `ConnectPath_proofs!ErrorsAreRefusals` | `ErrorIsRefusal`, for the same |
| `ConnectPath_proofs!LoginsDoNotPanic` | `NoPanic`, for the same |
| `ConnectPath_proofs!NamedStatesDoNotPanic` | `NoPanic`, for every path of any hops whose templates have the states their rules go on to, and any device |
| `ConfigAtomic_proofs!TypeCorrect` | the type invariant, for every number of calls and attempts |
| `ConfigAtomic_proofs!OnlyVerifiedIsApplied` | one call: `AppliedIsVerified` |
| `ConfigAtomic_proofs!NoServerLeft` | `ServersStop`, for any constants: however late the replies and however many calls |
| `ConfigAtomic_proofs!OkIsApplied` | a device that answers in time and applies what it is told to: `OkMeansApplied`, for every number of calls that are all guarded, or all not |
| `ConfigAtomic_proofs!ChangeIsReverted` | one call on a clean session: `NeverStranded` |
| `ConfigAtomic_proofs!ChangeIsGuarded` | such a call implements `GuardedChange` (`GuardSpec`) |
| `MockIosCli_proofs!TypeCorrect` | the type invariant, for every choice of passwords, questions and inputs |
| `MockIosCli_proofs!PrivilegeCorrect` | `PrivilegeIsEarned` |
| `MockIosCli_proofs!LinesAreMeant` | a `Mannered` client: `LinesMeetTheirQuestion` |
| `MockIosCli_proofs!ScreenTellsTruth` | a `Mannered` client: `ScreenIsTrue` |
| `MockIosCli_proofs!ReloadsAreMeant` | a `Mannered` client: `ReloadIsMeant` |
| `LineEditor_proofs!IndexesInRange` | `NoPanic`: no key moves the cursor or the recalled index out of range |
| `LineEditor_proofs!HistoryWithoutRepeats` | no line is remembered twice running |
| `LineEditor_proofs!EditorIsLineBuffer` | the editor implements `LineBuffer` (`LineBufferSpec`) |
| `LineEditor_proofs!TerminalInStep` | `TerminalShowsLine`: the row shows the line and its cursor, after any keys, unless one of those named was used inside the line |
| `TextFsmRecords_proofs!RecordsAreComplete` | `RecordsComplete`: no record lacks a required value |
| `TextFsmRecords_proofs!FilldownIsMirrored` | `FilldownMirrors`: the two copies of the filldown values agree |
| `TextFsmRecords_proofs!RecordedStays` | `RecordsStay`: a pushed record changes only where a Fillup value is empty |
| `TextFsmRecords_proofs!RecordsTellText` | `RecordsTellTheText`: the records are what the rules that matched captured, for every template and every number of lines |
| `MockIosCommands_proofs!WhatIsOpen` | `WhatIsOpenExists`: what a configuration mode edits exists, for every vocabulary, all files and all factory states |
| `MockIosCommands_proofs!OnlyEnable` | `OnlyEnableRaises`, for lines of any words and any length |
| `MockIosCommands_proofs!LeavingOnPurpose` | `ConfigurationIsLeftOnPurpose`, for the same |
| `MockIosCommands_proofs!PortsInOnePlace` | `PortsHaveOnePlace` in every state with `PlainNames` |
| `MockIosCommands_proofs!VlansAgree` | `VlanViewsAgree` in every such state |
| `MockIosCommands_proofs!RoutesAgree` | `RoutesFollowLinks` in every such state |

`SessionInStep` assumes `CleanDevice`: each script ends with its only line that
ends a command, and a rule that answers matches questions only. Without it the
statement is false (a line of output that looks like a prompt ends a command
early). The invariant says that a session in step is in one of three phases:
the command is on its way and everything else is empty, an answer is on its way
and the device waits for it, or the command executes and nothing is on its way;
in the last one the only line that pauses the client, a prompt or a question,
is the last the device said. Between commands all is empty. `OwnOutput` alone
is not inductive: that the buffer ends in the right prompt depends on what was
still in the stream, and that on when the device was allowed to print.

`SessionImplementsRpc` assumes `CleanDevice` and nothing else: `Stale`, timeouts
and a failing link are arbitrary. Prompts are anonymous, so which call a reply
answers cannot be read off the stream; the invariant (`CallInv` with `CountInv`)
puts three numbers on every position of what is still to be read: how many calls
had ended before it at least, how many questions are still ahead of it at least,
and how many ends have been tagged by then. `Ahead` says that the device takes
no command later than its place in line, `Behind` that what was replied agrees
with the numbers; a refinement step consumes one position, and the numbers are
what `CommandRpc` needs to know of it.

`NoCommandHangs` assumes `Attentive`: scripts end with a prompt, in every state of
the template there is a rule for the prompt and one for every question the
device may ask, and a rule that goes on without sending or ending changes the
state. `CliSession_confirm`
shows that this is needed: there the question is one no rule matches. The
invariant `WaitInv` is that while a command runs there is a line for the device
to read, something it has to print, or a line on its way that the template acts
on. `CliSession_chat` has constants that satisfy both assumptions.

The theorems of `ConnectPath_proofs` are about paths and servers of any length and
size: `LoginPath` is any path that ends in a transport and the login template of
`IosTemplates` for it, whatever hops come before; `Direct` is exactly these two
hops; `Banners` says that no line of a banner looks like a prompt, which is the
exception the properties make too. A login at the last hop is always at one of
ten stages (`NameSent`, `PasswordSent`, `LoggedIn`, `LengthSent`, `Misled` ...),
and a stage says which lines the host has still to see and in which order
(`InOrder`, over the buffer, the stream and what the device has still to print),
what the device got and the mode it is in. The order is what excludes that a
rule fires on the wrong line; when the stream is down only what was `Seen` is
left to say, and after the last hop what was `Handed` over. That a login ends by
timeout for a listed reason only is the list of the stages at which no rule is
left to fire.

`NamedStatesDoNotPanic` needs of the templates only that each rule goes on to a
state of its own (`Closed`): the engine is in a state of the template of its hop
whatever it is fed. `ConnectPath_done` is a template that is not `Closed`, which
nothing checks when it is parsed.

`NoServerLeft` assumes nothing. A server that serves after its call has gone on
from it must have its `/done` in the queue of the device: the invariant
`ServerInv` says so from the step on where `config_atomic` no longer waits for it
(`Beyond`), and that no server runs for a call that was not made. The two ways
in which the code leaves one behind are values of `http`, not exceptions by
assumption.

`OkIsApplied` assumes that the device answers in time (`MayTimeout = FALSE`) on a
clean session: then each step has the reply of its own command (`Lockstep`). It
also assumes that what is applied is accepted, which `ConfigAtomic_failed` shows
to be needed, and that calls with and without a delayed reload are not mixed;
its `Progress` says how far the file got at each step.

`OnlyVerifiedIsApplied` assumes `MaxCalls = 1` (`ConfigAtomic_again` shows that
two calls are not safe), and nothing of `Stale`: leftover prompts, which the
runs leave out, are covered by the proof. Its invariant says that while a verify
is queued every copy is queued ahead of it and no match is in the stream, that a
match on its way means a good file on flash and no copy left to execute, and
that both stay so until the apply was executed: commands are executed in order,
so the match can only have been produced after the last copy.

`ChangeIsReverted` and `ChangeIsGuarded` assume one call, `Stale = 0` and a device
that accepts `reload in`; without any one of them both statements are false, as TLC shows
(`ConfigAtomic_guard` has them in its constants, and "Where the properties stop"
says what happens otherwise). Replies are anonymous, so a step could go on with
an answer that belongs to an earlier one and run ahead of the device. The
invariant `GuardInv` bounds by how much. `reload in` is the first thing sent,
so its reply means that it was executed. Copies may leave any number of late
replies, but a match is always the last thing in the stream, and when it is
taken nothing is under way in either direction; only the request for `/done` is
given up without a consequence after that. So at most two things are under way
while the apply is, and one of them is the reply that a step needs: `config_atomic`
can be one step ahead at the delete, with the apply at the head of the queue
and no reply to go on with, and has caught up before it cancels the reload.

`PrivilegeCorrect` says that a privileged mode was reached by giving the
passwords the device asks for. The property alone is not inductive: privilege
is also reached through the answer to a question asked earlier, possibly in
another mode, so the invariant says of every pending question what its answer
may do, and of user mode that the login password was given. Each handler is a
lemma on devices, and `send()` and the server loop only compose them.

`LinesAreMeant`, `ScreenTellsTruth` and `ReloadsAreMeant` assume a `Mannered` client:
it presses no key at a question and its CR LF are read together (`MockIosCli_cancel`
and `MockIosCli_crlf` show what happens otherwise), and it types neither `do
reload` nor an empty line at the login prompts, of which the code tells it
nothing or the wrong thing. The invariant `TurnInv` says that there is always
exactly one of a turn (`Idle`), a line on its way (`Typing`), its answer on the way
back (`Answered`), or the end (`Closed`). The line on its way was typed for what
the device waits for, and its line end arrives in one chunk; every
handler, do-lines and questions that lead to questions included, leaves output
that ends in what the device waits for next (`Told`), and the LF left of a CR LF
finds output to be skipped by. None of the three is inductive without the
others: what the next line is taken for depends on what the screen said.

The first two theorems of `LineEditor` rest on the type of line and history with
`NoPanic` and `NoRepeats`: a recall sets the cursor to the length of what the
history holds. `EditorIsLineBuffer` takes the two sides of the cursor for
`LineBuffer`'s, and each key to one of its actions or a stutter. `TerminalInStep`
adds that, unless the row is torn, its cursor is the editor's behind the prompt
and its cells are the line, blank behind it: what a key writes is relative to
where the cursor was left by the one before. Tab and `?` redraw from the end of
the line; that they are in step again, or torn, depends on where the cursor was.

`RecordsAreComplete`, `FilldownIsMirrored` and `RecordedStays` share one invariant
of `TextFsmRecords`: its type, the required values of every record, and
`FilldownMirrors`. That a Fillup value written later leaves a required one
filled needs the type of captured texts; that the two copies of the filldown
values agree after Record and Clear needs that they agreed before, for every
value that is in the filldown record, and that presets are not lists: a preset
list would be a single value that the first capture does not extend.

`RecordsTellText` adds to it `TextInv`, which relates the three structures of
the parser to the log of what was matched: the current record holds of each
value what was captured since the last entry that cleared it, the filldown
record what a Filldown value was last told and no Clearall took back, and row
`n` of the records what the `n`-th entry that pushed had collected, with the
Fillup values that later entries gave. A record depends on entries on both sides
of it, so the step lemmas say what each of the record actions does to the set
of entries that still count (`Live`, `Held`), and that appending one entry moves
no earlier row.

The theorems of `MockIosCommands_proofs` are about the particular trees of MockIos
and about any line typed at them. What a class of modes can run is a fact about
a tree of no fixed depth, and induction over trees is out of reach; `Offers(n, c,
H)` says it with a set of nodes that contains `n`, that the class `c` does not
leave on its way down, and whose handlers are in `H`. Such sets join, so a tree is
accounted for node by node, in the order of the source. The walk of the parser
stays in such a set for as many words as there are (`InductionLemma`, an
induction over a set of numbers instead of a predicate). Both together bound the
handlers of `Dispatch` for each class of modes.

* `WhatIsOpen`: the invariant `OpenInv` is the property, and that the handlers of a
  session's lines were looked up in the trees (`Understood`). The latter is
  needed: `no vlan`, `no ip access-list` and `no access-list` would remove what is
  being edited, and are safe because the modes that edit it do not offer them
  (`RemovalsAreGlobal`), not even behind `do`. It assumes `SessionAssumption`: lines
  and files are sequences of words, and a factory state has the fields of a
  `DeviceState`; what is in them is arbitrary.
* `OnlyEnable` and `LeavingOnPurpose` are about `CommandLine` (instantiated as
  `Line`): of the handlers that a user's tree offers only `enable` leads up, and of
  those an EXEC tree offers behind `do` none leaves the configuration.
* `PortsInOnePlace`, `VlansAgree` and `RoutesAgree` are about the views in every
  state whose interfaces have `PlainNames`: two of them are never printed alike,
  and those that `show interfaces status` takes for ports have "Ethernet" in
  their name, which is what `show vlan` looks for. Both hold in every state of
  `DeviceConfig_session`, because `normalize_interface_name()` spells types out
  before a name is stored; they fail when a library user puts an interface
  `Gi1/0/1` next to `GigabitEthernet1/0/1`, or names differ behind the 23rd
  column only, and the views then mix the two up. Nothing else of the state is
  needed: what modes, addresses and VLANs the interfaces have is arbitrary.

Model-checked only:

* Liveness (`RunCmdReturns`, `ConfigAtomicReturns`, `BadChangeIsUndone`,
  `EveryLineAnswered`), which is out of the prover's reach.
* `HelpTellsTruth`, `EveryCommandCanBeTyped` and `TabKeepsMeaning`: they rest on
  which names are prefixes of which among the siblings of these trees. Names are
  strings, of which the provers know only whether they are equal; the run looks
  the prefixes up.
* `EditsItsText` and `ShownLinesRebuild`: the text of a line is made of prefixes,
  cut names and printed numbers, for the same reason.

## Not modelled

* Raw transports: I/O. They enter as an ordered stream cut into arbitrary
  chunks, receive timeouts and a peer that may close. `LoggingTransport` copies
  bytes to a log and changes no state of a session.
* The legacy transport's receive loops (`receive_until_match` and friends), for
  which the command loop is the replacement.
* CLI table: a lookup of a command in the rows of an index. Variable
  substitution: string replacement.
* Regular expressions and the grammar of template files: a rule matches a set
  of classes of lines.
* Flash, NVRAM, packages and install mode; counters, versions and the parts of
  `show` output that no command changes; help texts.
* `power_on()`, the stdin mode and the accept loops of the servers.

## Plan

Done: command loop, connection path, record parsing, config_atomic, mock CLI,
command trees, device configuration and its views, line editor, their abstract
specifications, and the theorems above. Left:

1. Proofs: the reasons of `NoMutualWait` for paths with jump hosts; that help
   tells the truth, from a table of which names of the trees begin with which.
2. Models: the receive loops of the legacy transport as another implementation
   of `CommandRpc`; files and install mode of the device, and `power_on()`; the
   rows of a CLI table.
