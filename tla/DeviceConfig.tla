----------------------------- MODULE DeviceConfig -----------------------------
(***************************************************************************)
(* Configuring the mock device: what each handler of the configuration     *)
(* modes (cmd_tree_conf.rs) makes of the line it is given, and `copy' of a *)
(* file to the running configuration (lib.rs apply_config_text_to_state).  *)
(*                                                                         *)
(* The tree decides which handler runs; the handler gets the line as it    *)
(* was typed, with its "no", and reads it again, word by word.  Names keep *)
(* their case; keywords are typed in lower case.                           *)
(***************************************************************************)
EXTENDS Dispatching, DeviceState

CONSTANTS
    Ipv4,           \* the words that parse as IPv4 addresses,
    Ipv6,           \* as IPv6 addresses,
    Ipv6Prefixes,   \* and as IPv6 addresses with a prefix length
    Letters,        \* the letters that words with a number in them begin with
    Vocabularies,   \* bound: the sets of lines a session is typed from
    Files,          \* the files in flash:, each a sequence of blocks and lines
    Factories,      \* the states a device is started in
    MaxEntries,     \* bound: entries of a list, routes and addresses
    Silent, Unsettled   \* see ConfigText

ASSUME SessionAssumption ==
    /\ \A lines \in Vocabularies : lines \subseteq Seq(STRING)
    /\ \A f \in DOMAIN Files : Files[f] \in Seq(Seq(STRING) \X Seq(STRING))
    /\ \A s \in Factories : DOMAIN s = DOMAIN Factory(None, {}, {}, {})

VARIABLES
    commands,       \* bound: the lines of this session and, by mode, their handlers
    mode,           \* the CliMode
    at,             \* current_interface, current_acl_name, current_vlan_id
    state,          \* the DeviceState
    said            \* the block and the line of the last command

vars == <<commands, mode, at, state, said>>

Silence == [block |-> <<>>, line |-> <<>>]
Nothing == [interface |-> None, acl |-> None, vlan |-> 0]
Init ==
    /\ \E lines \in Vocabularies :
          commands = [m \in {"priv"} \cup ConfigModes |->
                        [ws \in lines |-> Dispatch(m, ws).handler]]
    /\ state \in Factories
    /\ mode = "config" /\ said = Silence
    /\ at = Nothing

-----------------------------------------------------------------------------
(* Reading a line. *)

Runs(h, ws) == commands[mode][ws] = h

Negated(ws) == ws[1] = "no"
Nth(ws, n)  == IF n <= Len(ws) THEN ws[n] ELSE None
(* The words behind "no" and behind the keywords, as far as they are there *)
(* and spelled out.                                                        *)
Behind(ws, kws) ==
    FoldLeft(LAMBDA rest, kw : IF rest # <<>> /\ Head(rest) = kw THEN Tail(rest) ELSE rest,
             ws, <<"no">> \o kws)
IsNumber(w, max) == w \in DOMAIN Numerals /\ Numerals[w] <= max
IsU16(w)         == IsNumber(w, 65535)
OrZero(w, max)   == IF IsNumber(w, max) THEN Numerals[w] ELSE 0

(* normalize_interface_name(): the type by its first letters, and the number. *)
CanonicalTypes ==
    [gi |-> "GigabitEthernet", fa |-> "FastEthernet", te |-> "TenGigabitEthernet",
     hu |-> "HundredGigE", lo |-> "Loopback", vl |-> "Vlan", mg |-> "Mgmt",
     se |-> "Serial", tu |-> "Tunnel", g |-> "GigabitEthernet", f |-> "FastEthernet",
     v |-> "Vlan"]
Joined(ws) == FoldLeft(LAMBDA s, w : IF s = "" THEN w ELSE s \o " " \o w, "", ws)
normalize_interface_name(ws) ==
    LET letters == IF ws[1] \in DOMAIN Letters THEN Letters[ws[1]] ELSE ws[1]
        number  == SubSeq(ws[1], Len(letters) + 1, Len(ws[1]))
        keys    == { k \in DOMAIN CanonicalTypes :
                        IF Len(k) = 1 THEN letters = k ELSE StartsWith(letters, k) }
    IN  IF keys = {} THEN Joined(ws)
        ELSE CanonicalTypes[CHOOSE k \in keys : TRUE]
             \o Joined(IF number = "" THEN Tail(ws) ELSE <<number>> \o Tail(ws))

-----------------------------------------------------------------------------
(* The handlers of the interface mode, on the interface they change. *)

ip_address(ws, i) ==
    IF Negated(ws) THEN [i EXCEPT !.ip_address = <<>>]
    ELSE IF Len(ws) >= 4 /\ {ws[3], ws[4]} \subseteq Ipv4
    THEN [i EXCEPT !.ip_address = <<ws[3], ws[4]>>]
    ELSE i

ipv6_enable(ws, i) == [i EXCEPT !.ipv6_enabled = ~ Negated(ws)]

ipv6_address(ws, i) ==
    IF Negated(ws) THEN [i EXCEPT !.ipv6_addresses = <<>>, !.ipv6_enabled = FALSE]
    ELSE IF Nth(ws, 4) = "link-local" /\ ws[3] \in Ipv6
    THEN [i EXCEPT !.ipv6_addresses =
             Append(SelectSeq(@, LAMBDA a : ~ a.local), [address |-> ws[3], local |-> TRUE])]
    ELSE IF Nth(ws, 4) # "link-local" /\ Nth(ws, 3) \in Ipv6Prefixes
    THEN [i EXCEPT !.ipv6_addresses = Append(@, [address |-> ws[3], local |-> FALSE])]
    ELSE i

(* ipv6 ospf PID area AREA, or nothing if it does not parse. *)
OspfWords(ws) ==
    IF Nth(ws, 2) = "ospf" /\ IsU16(Nth(ws, 3)) /\ Nth(ws, 4) = "area" /\ IsU16(Nth(ws, 5))
    THEN [pid |-> Numerals[ws[3]], area |-> Numerals[ws[5]], network |-> None]
    ELSE <<>>
ipv6_ospf_interface(ws, i) ==
    IF Negated(ws) THEN [i EXCEPT !.ospf = <<>>]
    ELSE IF OspfWords(ws) = <<>> THEN i ELSE [i EXCEPT !.ospf = OspfWords(ws)]
ipv6_ospf_network(ws, i) ==
    LET words == Behind(ws, <<"ipv6", "ospf", "network">>)
    IN  IF i.ospf = <<>> \/ Len(words) # 1 THEN i ELSE [i EXCEPT !.ospf.network = words[1]]

shutdown(ws, i) == [i EXCEPT !.admin_up = Negated(ws)]

(* The text behind "description", if it is spelled out. *)
description(ws, i) ==
    [i EXCEPT !.description =
        IF Negated(ws) \/ ws[1] # "description" THEN <<>> ELSE Tail(ws)]
speed(ws, i)  ==
    [i EXCEPT !.speed  = IF Negated(ws) THEN "auto" ELSE IF Len(ws) > 1 THEN ws[2] ELSE @]
duplex(ws, i) ==
    [i EXCEPT !.duplex = IF Negated(ws) THEN "auto" ELSE IF Len(ws) > 1 THEN ws[2] ELSE @]
switchport_mode(ws, i) ==
    [i EXCEPT !.switchport_mode =
        IF Negated(ws) THEN None ELSE IF Len(ws) > 2 THEN ws[3] ELSE @]
switchport_access_vlan(ws, i) ==
    [i EXCEPT !.vlan =
        IF Negated(ws) THEN <<>>
        ELSE IF IsU16(Nth(ws, 4)) THEN <<Numerals[ws[4]]>> ELSE @]

InterfaceHandlers ==
    {"ip_address", "ipv6_enable", "ipv6_address", "ipv6_ospf_interface", "ipv6_ospf_network",
     "shutdown", "description", "speed", "duplex", "switchport_mode", "switchport_access_vlan"}
Handled(h, ws, i) ==
    CASE h = "ip_address"             -> ip_address(ws, i)
      [] h = "ipv6_enable"            -> ipv6_enable(ws, i)
      [] h = "ipv6_address"           -> ipv6_address(ws, i)
      [] h = "ipv6_ospf_interface"    -> ipv6_ospf_interface(ws, i)
      [] h = "ipv6_ospf_network"      -> ipv6_ospf_network(ws, i)
      [] h = "shutdown"               -> shutdown(ws, i)
      [] h = "description"            -> description(ws, i)
      [] h = "speed"                  -> speed(ws, i)
      [] h = "duplex"                 -> duplex(ws, i)
      [] h = "switchport_mode"        -> switchport_mode(ws, i)
      [] h = "switchport_access_vlan" -> switchport_access_vlan(ws, i)

(* ipv6 ospf also adds the area to its process, where there is one. *)
WithArea(s, h, ws) ==
    LET config == OspfWords(ws)
    IN  IF h = "ipv6_ospf_interface" /\ config # <<>> /\ config.pid \in DOMAIN s.ospfv3
        THEN [s EXCEPT !.ospfv3[config.pid] = @ \cup {config.area}]
        ELSE s

-----------------------------------------------------------------------------
(* The commands. *)

Open ==
    CASE mode = "config-if" -> Header(at.interface)
      [] mode \in {"config-ext-nacl", "config-std-nacl"} /\ at.acl \in DOMAIN state.access_lists ->
            ListHeader(at.acl, state.access_lists[at.acl])
      [] mode = "config-vlan" -> <<"vlan", ToString(at.vlan)>>
      [] OTHER -> <<>>

Fits(s) ==
    /\ Len(s.static_routes) <= MaxEntries /\ Len(s.ipv6_static_routes) <= MaxEntries
    /\ Len(s.unmodeled) <= MaxEntries
    /\ \A n \in DOMAIN s.interfaces : Len(s.interfaces[n].ipv6_addresses) <= MaxEntries
    /\ \A n \in DOMAIN s.access_lists : Len(s.access_lists[n].entries) <= MaxEntries

(* The line was a command; it leaves the device in mode m and state s. *)
Done(ws, m, where, s) ==
    /\ Fits(s)
    /\ said' = [block |-> Open, line |-> ws]
    /\ mode' = m /\ at' = where /\ state' = s
    /\ UNCHANGED commands
Changes(ws, s) == Done(ws, mode, at, s)

InterfaceCommand(ws) ==
    /\ \E h \in InterfaceHandlers :
          /\ Runs(h, ws)
          /\ LET n == at.interface
             IN  Changes(ws, IF n \in DOMAIN state.interfaces
                             THEN WithArea([state EXCEPT !.interfaces[n] = Handled(h, ws, @)], h, ws)
                             ELSE state)

hostname(ws) ==
    /\ Runs("hostname", ws)
    /\ Changes(ws, IF Negated(ws) THEN [state EXCEPT !.hostname = "Router"]
                   ELSE IF Len(ws) >= 2 THEN [state EXCEPT !.hostname = ws[2]]
                   ELSE state)

(* "no interface" runs it too, on all that follows "no". *)
interface(ws) ==
    /\ Runs("interface", ws)
    /\ LET name == normalize_interface_name(Tail(ws))
       IN  Done(ws, "config-if", [at EXCEPT !.interface = name], EnsureInterface(state, name))

router(ws) ==
    /\ \E h \in {"router_ospf", "router_bgp", "router_eigrp"} : Runs(h, ws)
    /\ Done(ws, "config-router", at, state)
line_vty(ws) ==
    /\ \E h \in {"line_vty", "line_console"} : Runs(h, ws)
    /\ Done(ws, "config-line", at, state)
ipv6_router_ospf(ws) ==
    /\ Runs("ipv6_router_ospf", ws)
    /\ Done(ws, "config-router", at,
            IF IsU16(Last(ws))
            THEN [state EXCEPT !.ospfv3 = OrNew(@, Numerals[Last(ws)], {})] ELSE state)

(* A mutant: only the first of equal routes is removed. *)
FirstRemoved(routes, gone) ==
    LET first == SelectInSeq(routes, LAMBDA r : r \in gone)
    IN  IF first = 0 THEN routes ELSE RemoveAt(routes, first)
Removed(routes, gone) == SelectSeq(routes, LAMBDA r : r \notin gone)

ip_route(ws) ==
    /\ Runs("ip_route", ws)
    /\ LET args  == Behind(ws, <<"ip", "route">>)
           route == SubSeq(args, 1, 3)
       IN  Changes(ws, IF Len(args) < 3 \/ ~ (ToSet(route) \subseteq Ipv4) THEN state
                       ELSE IF Negated(ws)
                       THEN [state EXCEPT !.static_routes = Removed(@, {route})]
                       ELSE [state EXCEPT !.static_routes = Append(@, route)])
ipv6_route(ws) ==
    /\ Runs("ipv6_route", ws)
    /\ LET args == Behind(ws, <<"ipv6", "route">>)
       IN  Changes(ws, IF Nth(args, 1) \notin Ipv6Prefixes THEN state
                       ELSE IF Negated(ws)
                       THEN [state EXCEPT !.ipv6_static_routes =
                                Removed(@, { r \in ToSet(@) : r[1] = args[1] })]
                       ELSE IF Len(args) < 2 THEN state
                       ELSE [state EXCEPT !.ipv6_static_routes = Append(@, SubSeq(args, 1, 2))])
ipv6_unicast_routing(ws) ==
    /\ Runs("ipv6_unicast_routing", ws)
    /\ Changes(ws, [state EXCEPT !.ipv6_unicast_routing = ~ Negated(ws)])

enable_secret(ws) ==
    /\ Runs("enable_secret", ws) \/ Runs("enable_password", ws)
    /\ Changes(ws, [state EXCEPT !.enable_secret = @ \/ (~ Negated(ws) /\ Len(ws) >= 3)])

logging(ws) ==
    /\ Runs("logging", ws)
    /\ LET args == Behind(ws, <<"logging">>)
           what == Nth(args, 1)
           arg  == Nth(args, 2)
       IN  Changes(ws,
             CASE what = "buffered" ->
                    [state EXCEPT !.buffered = IF Negated(ws) THEN 4096
                        ELSE IF arg \in DOMAIN Numerals THEN Numerals[arg] ELSE @]
               [] what = "console" -> [state EXCEPT !.console = ~ Negated(ws)]
               [] what = "monitor" -> [state EXCEPT !.monitor = ~ Negated(ws)]
               [] what = "host" /\ arg # None ->
                    [state EXCEPT !.hosts = IF Negated(ws) THEN @ \ {arg} ELSE @ \cup {arg}]
               [] OTHER -> state)

(* username NAME [privilege N] [secret|password [0] WORD]: what follows a  *)
(* keyword, wherever it is.                                                *)
After(ws, kw) ==
    LET at_kw == { n \in 3 .. Len(ws) : ws[n] = kw }
        value == IF at_kw = {} THEN <<>>
                 ELSE SubSeq(ws, (CHOOSE n \in at_kw : TRUE) + 1, Len(ws))
    IN  IF kw # "privilege" /\ Nth(value, 1) = "0" THEN Nth(value, 2) ELSE Nth(value, 1)
username(ws) ==
    /\ Runs("username", ws)
    /\ Changes(ws,
         IF Negated(ws)
         THEN [state EXCEPT !.users = IF Nth(ws, 2) = "username" THEN Without(@, Nth(ws, 3)) ELSE @]
         ELSE [state EXCEPT !.users = With(@, ws[2],
                 [privilege |-> OrZero(After(ws, "privilege"), 255),
                  secret |-> After(ws, "secret"), password |-> After(ws, "password")])])

(* The delimiters of the text are left out. *)
banner_motd(ws) ==
    /\ Runs("banner_motd", ws)
    /\ Changes(ws, [state EXCEPT !.banner_motd =
                      IF Negated(ws) THEN <<>> ELSE Behind(ws, <<"banner", "motd">>)])

(* vlan N, and "no vlan N" as well: nothing but the last word is read. *)
VlanId(ws)   == OrZero(Last(ws), 65535)
VlanName(id) == <<"VLAN" \o ToString(id)>>
vlan(ws) ==
    /\ Runs("vlan", ws)
    /\ LET id == VlanId(ws)
       IN  IF id = 0 THEN Changes(ws, state)
           ELSE Done(ws, "config-vlan", [at EXCEPT !.vlan = id],
                     [state EXCEPT !.vlans = OrNew(@, id, VlanName(id))])
no_vlan(ws) ==
    /\ Runs("no_vlan", ws)
    /\ Changes(ws, [state EXCEPT !.vlans = Without(@, VlanId(ws))])
vlan_name(ws) ==
    /\ Runs("vlan_name", ws)
    /\ Changes(ws, IF at.vlan \in DOMAIN state.vlans
                   THEN [state EXCEPT !.vlans[at.vlan] = Tail(ws)] ELSE state)

(* access-list N ACTION [PROTOCOL [SOURCE [DESTINATION [MORE ..]]]] *)
Filled(args, default) ==
    [n \in 1 .. (IF Len(args) > Len(default) THEN Len(args) ELSE Len(default)) |->
        IF n <= Len(args) THEN args[n] ELSE default[n]]
WithEntry(lists, name, type, entry) ==
    LET old == OrNew(lists, name, [type |-> type, entries |-> <<>>])
    IN  [old EXCEPT ![name].entries = Append(@, entry)]
access_list(ws) ==
    /\ Runs("access_list", ws)
    /\ LET name  == ws[IF Negated(ws) THEN 3 ELSE 2]
           type  == IF name \in DOMAIN Numerals /\ Numerals[name] < 100 THEN "standard" ELSE "extended"
           entry == <<ws[3]>> \o Filled(SubSeq(ws, 4, Len(ws)), <<"ip", "any", "any">>)
       IN  Changes(ws,
             IF Negated(ws) THEN [state EXCEPT !.access_lists = Without(@, name)]
             ELSE [state EXCEPT !.access_lists = WithEntry(@, name, type, entry)])

(* A mutant: the list is there with its first entry. *)
ListLater(ws) ==
    /\ Runs("ip_access_list", ws)
    /\ IF Nth(ws, 3) \notin {"extended", "standard"} \/ Len(ws) < 4 THEN Changes(ws, state)
       ELSE Done(ws, IF ws[3] = "extended" THEN "config-ext-nacl" ELSE "config-std-nacl",
                 [at EXCEPT !.acl = ws[4]], state)
(* With "no" in front the third word is not the type. *)
ip_access_list(ws) ==
    /\ Runs("ip_access_list", ws)
    /\ IF Nth(ws, 3) \notin {"extended", "standard"} \/ Len(ws) < 4 THEN Changes(ws, state)
       ELSE Done(ws, IF ws[3] = "extended" THEN "config-ext-nacl" ELSE "config-std-nacl",
                 [at EXCEPT !.acl = ws[4]],
                 [state EXCEPT !.access_lists =
                    OrNew(@, ws[4], [type |-> ws[3], entries |-> <<>>])])
no_ip_access_list(ws) ==
    /\ Runs("no_ip_access_list", ws)
    /\ Changes(ws, [state EXCEPT !.access_lists = Without(@, Nth(ws, 5))])
nacl_entry(ws) ==
    /\ Runs("nacl_entry", ws)
    /\ LET args  == Tail(ws)
           entry == <<ws[1]>> \o (IF ws[1] = "remark" THEN args
                                  ELSE IF mode = "config-ext-nacl"
                                  THEN Filled(args, <<"ip", "any", "any">>)
                                  ELSE Filled(args, <<"any">>))
       IN  Changes(ws,
             IF ws[1] \in {"permit", "deny", "remark"} /\ at.acl \in DOMAIN state.access_lists
             THEN [state EXCEPT !.access_lists[at.acl].entries = Append(@, entry)] ELSE state)

config_sub_rest(ws) ==
    /\ Runs("config_sub_rest", ws)
    /\ Changes(ws, [state EXCEPT !.unmodeled = Append(@, ws)])
(* The rest is recorded in a list that nothing reads. *)
stub(ws) == Runs("stub", ws) /\ Changes(ws, state)

config_exit(ws) ==
    /\ Runs("config_exit", ws)
    /\ Done(ws, IF mode = "config" THEN "priv" ELSE "config", at, state)
config_end(ws) == Runs("config_end", ws) /\ Done(ws, "priv", at, state)
configure_terminal(ws) == Runs("configure_terminal", ws) /\ Done(ws, "config", at, state)

-----------------------------------------------------------------------------
(* apply_config_text_to_state(): a file is read for six kinds of lines, by *)
(* a reader of its own that knows no handler.  Indentation is dropped.     *)
CopiedLine(c, ws) ==
    LET on(f(_)) == IF c.interface \in DOMAIN c.state.interfaces
                    THEN [c EXCEPT !.state.interfaces[c.interface] = f(@)] ELSE c
    IN  CASE ws[1] = "hostname" -> [c EXCEPT !.state.hostname = Joined(Tail(ws))]
          [] ws[1] = "interface" ->
                [interface |-> Joined(Tail(ws)), state |-> EnsureInterface(c.state, Joined(Tail(ws)))]
          [] IsPrefix(<<"ip", "address">>, ws) -> on(LAMBDA i : ip_address(ws, i))
          [] ws = <<"shutdown">>       -> on(LAMBDA i : [i EXCEPT !.admin_up = FALSE])
          [] ws = <<"no", "shutdown">> -> on(LAMBDA i : [i EXCEPT !.admin_up = TRUE])
          [] IsPrefix(<<"ip", "route">>, ws) ->
                IF Len(ws) >= 5 /\ ToSet(SubSeq(ws, 3, 5)) \subseteq Ipv4
                THEN [c EXCEPT !.state.static_routes = Append(@, SubSeq(ws, 3, 5))] ELSE c
          [] ws[1] \in {"!", "end"}    -> c
          [] OTHER -> [c EXCEPT !.interface = None]
Copied(s, lines) ==
    LET after[n \in 0 .. Len(lines)] ==
            IF n = 0 THEN [interface |-> None, state |-> s]
            ELSE CopiedLine(after[n - 1], lines[n][2])
    IN  after[Len(lines)].state
CopyToRunning(name) ==
    /\ mode = "priv" /\ <<"copy", name>> \in DOMAIN commands[mode]
    /\ Done(<<"copy", name>>, mode, at, Copied(state, Files[name]))

(* derive(): the device as it comes up with other software.  It is built   *)
(* anew, from the parts of the old one that the function names.            *)
Derived(s) ==
    [Factory(s.hostname, {}, {}, {}) EXCEPT
        !.interfaces = [n \in DOMAIN s.interfaces |->
            [s.interfaces[n] EXCEPT !.ipv6_enabled = FALSE, !.ipv6_addresses = <<>>, !.ospf = <<>>]],
        !.static_routes = s.static_routes, !.vlans = s.vlans, !.unmodeled = s.unmodeled]
derive ==
    /\ <<"derive">> \in DOMAIN commands[mode]
    /\ Done(<<"derive">>, "priv", Nothing, Derived(state))

Command(ws) ==
    \/ InterfaceCommand(ws) \/ hostname(ws) \/ interface(ws) \/ router(ws) \/ line_vty(ws)
    \/ ipv6_router_ospf(ws) \/ ip_route(ws) \/ ipv6_route(ws) \/ ipv6_unicast_routing(ws)
    \/ enable_secret(ws) \/ logging(ws) \/ username(ws) \/ banner_motd(ws)
    \/ vlan(ws) \/ no_vlan(ws) \/ vlan_name(ws)
    \/ access_list(ws) \/ ip_access_list(ws) \/ no_ip_access_list(ws) \/ nacl_entry(ws)
    \/ config_sub_rest(ws) \/ stub(ws) \/ config_exit(ws) \/ config_end(ws)
    \/ configure_terminal(ws)

Next ==
    \/ \E ws \in DOMAIN commands[mode] : Command(ws)
    \/ \E name \in DOMAIN Files : CopyToRunning(name)
    \/ derive

Spec == Init /\ [][Next]_vars

-----------------------------------------------------------------------------
TypeOK ==
    /\ mode \in {"priv"} \cup ConfigModes
    /\ at.vlan \in Nat /\ DOMAIN state.vlans \subseteq 1 .. 65535
    /\ \A n \in DOMAIN state.interfaces :
          LET i == state.interfaces[n]
          IN  /\ {i.admin_up, i.link_up, i.ipv6_enabled} \subseteq BOOLEAN
              /\ i.ip_address = <<>> \/ (Len(i.ip_address) = 2 /\ ToSet(i.ip_address) \subseteq Ipv4)
              /\ Cardinality({ a \in DOMAIN i.ipv6_addresses : i.ipv6_addresses[a].local }) <= 1
    /\ \A r \in ToSet(state.static_routes) : Len(r) = 3 /\ ToSet(r) \subseteq Ipv4

(* The object that a sub-mode configures exists: the handlers look it up   *)
(* by the name that current_interface and the others keep, and drop the    *)
(* line without a word if it is gone (handle_shutdown and its like).       *)
WhatIsOpenExists ==
    /\ mode = "config-if" => at.interface \in DOMAIN state.interfaces
    /\ mode \in {"config-ext-nacl", "config-std-nacl"} => at.acl \in DOMAIN state.access_lists
    /\ mode = "config-vlan" => at.vlan \in DOMAIN state.vlans

(* The running configuration of the device is the text that ConfigText     *)
(* promises: each of the handlers, on the structures it keeps, and         *)
(* build_config_body() between them, edit it line by line.                 *)
AsShown(block, ws) ==
    CASE ws[1] = "interface" -> Header(normalize_interface_name(Tail(ws)))
      [] ws[1] = "username"  ->
            UserLine(ws[2], [privilege |-> OrZero(After(ws, "privilege"), 255),
                             secret |-> After(ws, "secret"), password |-> After(ws, "password")])
      [] ws[1] = "enable"      -> <<"enable", "secret", "9">>
      [] ws[1] = "access-list" ->
            SubSeq(ws, 1, 3) \o Filled(SubSeq(ws, 4, Len(ws)), <<"ip", "any", "any">>)
      [] ws[1] \in {"permit", "deny"} ->
            <<ws[1]>> \o Filled(Tail(ws), IF block[3] = "extended" THEN <<"ip", "any", "any">>
                                          ELSE <<"any">>)
      [] IsPrefix(<<"ipv6", "ospf", "network">>, ws) -> <<"ip">> \o Tail(ws)
      [] OTHER -> ws
AsSaid == IF said = Silence THEN said ELSE [said EXCEPT !.line = AsShown(said.block, said.line)]

Text == INSTANCE ConfigText WITH
            text <- { l \in RunningConfig(state) : l[1] # Orphans },
            said <- AsSaid,
            FileText <- [ws \in { <<"copy", f>> : f \in DOMAIN Files } |-> ToSet(Files[ws[2]])]
EditsItsText == Text!Spec

(* The lines of an interface, typed into a new interface of its name, make *)
(* the same lines (build_config_body against the handlers and their tree). *)
(* The network type is written as a command that no tree has.              *)
Retyped(n, i) ==
    FoldLeft(LAMBDA new, l :
                LET p == Dispatch("config-if", l)
                IN  IF p.kind = "execute" /\ p.handler \in InterfaceHandlers
                    THEN Handled(p.handler, l, new) ELSE new,
             InterfaceState(n), InterfaceLines(n, i))
ShownLinesRebuild ==
    \A n \in DOMAIN state.interfaces :
        LET lines == InterfaceLines(n, state.interfaces[n])
        IN  InterfaceLines(n, Retyped(n, state.interfaces[n]))
              = SelectSeq(lines, LAMBDA l : ~ IsPrefix(<<"ip", "ospf">>, l))

(* "VLAN 100 should be removed after 'no vlan 100'".                       *)
NoVlanRemovesIt ==
    [][\A id \in DOMAIN state.vlans' :
          said' # said => said'.line # <<"no", "vlan", ToString(id)>>]_vars
=============================================================================
