------------------------------ MODULE DeviceState -----------------------------
(***************************************************************************)
(* device_state.rs: what the mock device is configured to be, and the      *)
(* running configuration that is written from it.                          *)
(*                                                                         *)
(* A text is the sequence of its words and a number is the word it was     *)
(* typed as, where nothing counts with it.  Lists whose members have a     *)
(* name are functions of the name: their order is layout.  What no command *)
(* changes (the version, the serial number, the counters) is left out.     *)
(***************************************************************************)
EXTENDS CommandNode, TLC

HasInside(name, part) ==
    \E i \in 1 .. Len(name) : StartsWith(SubSeq(name, i, Len(name)), part)
Begins(name, parts) == \E part \in parts : StartsWith(name, part)

(* What the views tell interfaces apart by. *)
IsVlan(name)     == Begins(name, {"Vlan"})
IsLoopback(name) == Begins(name, {"Loopback"})
IsTen(name)      == Begins(name, {"TenGigabitEthernet"})
IsPort(name)     == Begins(name, {"GigabitEthernet", "TenGigabitEthernet", "FastEthernet"})

(* InterfaceState::new().  Virtual interfaces have a link at once, ports   *)
(* never have a cable.                                                     *)
InterfaceState(name) ==
    [description |-> <<>>, admin_up |-> TRUE, link_up |-> IsVlan(name) \/ IsLoopback(name),
     ip_address |-> <<>>, speed |-> IF IsTen(name) THEN "10000" ELSE "auto",
     duplex |-> IF IsTen(name) THEN "full" ELSE "auto",
     switchport_mode |-> None, vlan |-> <<>>,
     ipv6_enabled |-> FALSE, ipv6_addresses |-> <<>>, ospf |-> <<>>]

AccessVlan(i) == IF i.vlan = <<>> THEN 1 ELSE Head(i.vlan)

(* DeviceState::new(), with the ports named by the instance; who owns the  *)
(* device may connect some, `state' is public.                             *)
DefaultRoute == <<"0.0.0.0", "0.0.0.0", "10.0.0.254">>
Factory(hostname, ports, down, connected) ==
    [hostname |-> hostname,
     interfaces |->
        [n \in ports \cup {"Vlan1"} |->
            IF n = "Vlan1"
            THEN [InterfaceState(n) EXCEPT !.ip_address = <<"10.0.0.1", "255.255.255.0">>]
            ELSE [InterfaceState(n) EXCEPT !.admin_up = n \notin down, !.link_up = n \in connected]],
     static_routes |-> <<DefaultRoute>>, ipv6_static_routes |-> <<>>,
     ipv6_unicast_routing |-> FALSE, ospfv3 |-> <<>>,
     vlans |-> [id \in {1, 1002} |-> IF id = 1 THEN <<"default">> ELSE <<"fddi-default">>],
     access_lists |-> <<>>, users |-> <<>>, enable_secret |-> FALSE, banner_motd |-> <<>>,
     buffered |-> 4096, console |-> TRUE, monitor |-> FALSE, hosts |-> {},
     unmodeled |-> <<>>]

(* The four reserved VLANs are the unsupported ones. *)
Supported(id) == id \notin 1002 .. 1005

With(f, key, value) == [k \in DOMAIN f \cup {key} |-> IF k = key THEN value ELSE f[k]]
Without(f, key)     == [k \in DOMAIN f \ {key} |-> f[k]]
OrNew(f, key, new)  == IF key \in DOMAIN f THEN f ELSE With(f, key, new)

(* ensure_interface() *)
EnsureInterface(s, name) == [s EXCEPT !.interfaces = OrNew(@, name, InterfaceState(name))]

-----------------------------------------------------------------------------
(* build_config_body(): the lines of the running configuration, each under *)
(* the header of its block.  The lines that are the same on every device   *)
(* are left out.                                                           *)

When(cond, line) == IF cond THEN <<line>> ELSE <<>>

IsSwitchport(name, i) ==
    Begins(name, {"GigabitEthernet", "TenGigabitEthernet"}) /\ i.ip_address = <<>>
SwitchportLines(name, i) ==
    When(IsSwitchport(name, i) /\ i.switchport_mode = "trunk",
         <<"switchport", "mode", "trunk">>)
    \o When(IsSwitchport(name, i) /\ AccessVlan(i) # 1,
            <<"switchport", "access", "vlan", ToString(AccessVlan(i))>>)

(* A mutant: the kind of address is not written. *)
AddressOnly(a) == <<"ipv6", "address", a.address>>
Ipv6Line(a) ==
    IF a.local THEN <<"ipv6", "address", a.address, "link-local">>
    ELSE <<"ipv6", "address", a.address>>

InterfaceLines(name, i) ==
    When(i.description # <<>>, <<"description">> \o i.description)
    \o SwitchportLines(name, i)
    \o When(i.ip_address # <<>>, <<"ip", "address">> \o i.ip_address)
    \o [n \in DOMAIN i.ipv6_addresses |-> Ipv6Line(i.ipv6_addresses[n])]
    \o When(i.ipv6_enabled /\ i.ipv6_addresses = <<>>, <<"ipv6", "enable">>)
    \o (IF i.ospf = <<>> THEN <<>>
        ELSE When(i.ospf.network # None, <<"ip", "ospf", "network", i.ospf.network>>)
             \o <<<<"ipv6", "ospf", ToString(i.ospf.pid), "area", ToString(i.ospf.area)>>>>)
    \o When(~ i.admin_up, <<"shutdown">>)

UserLine(name, u) ==
    <<"username", name>>
    \o (IF u.privilege = 1 THEN <<>> ELSE <<"privilege", ToString(u.privilege)>>)
    \o (IF u.secret # None THEN <<"secret", "0", u.secret>>
        ELSE IF u.password # None THEN <<"password", "0", u.password>> ELSE <<>>)

LoggingLines(s) ==
    When(s.buffered # 4096, <<"logging", "buffered", ToString(s.buffered)>>)
    \o When(~ s.console, <<"no", "logging", "console">>)
    \o When(s.monitor, <<"logging", "monitor">>)

Numbered(name) == name \in DOMAIN Numerals
ListHeader(name, acl) == <<"ip", "access-list", acl.type, name>>

Under(header, lines) == { <<header, l>> : l \in lines }
AtTop(lines) == Under(<<>>, lines)
GlobalLines(s) ==
    AtTop({<<"hostname", s.hostname>>}
           \cup ToSet(LoggingLines(s)) \cup { <<"logging", "host", h>> : h \in s.hosts }
           \cup { UserLine(u, s.users[u]) : u \in DOMAIN s.users }
           \cup ToSet(When(s.enable_secret, <<"enable", "secret", "9">>))
           \cup ToSet(When(s.banner_motd # <<>>, <<"banner", "motd">> \o s.banner_motd))
           \cup ToSet(When(s.ipv6_unicast_routing, <<"ipv6", "unicast-routing">>)))

RouteLines(s) ==
    AtTop({ <<"ip", "route">> \o r : r \in ToSet(s.static_routes) }
           \cup { <<"ipv6", "route">> \o r : r \in ToSet(s.ipv6_static_routes) }
           \cup { <<"ipv6", "router", "ospf", ToString(p)>> : p \in DOMAIN s.ospfv3 })

ListLines(s) ==
    UNION { LET acl == s.access_lists[n]
            IN  IF Numbered(n)
                THEN AtTop({ <<"access-list", n>> \o e : e \in ToSet(acl.entries) })
                ELSE AtTop({ListHeader(n, acl)})
                     \cup Under(ListHeader(n, acl), ToSet(acl.entries))
            : n \in DOMAIN s.access_lists }

Header(name) == <<"interface", name>>
BlockLines(s) ==
    UNION { AtTop({Header(n)})
            \cup Under(Header(n), ToSet(InterfaceLines(n, s.interfaces[n])))
            : n \in DOMAIN s.interfaces }

(* Lines of sub-modes that are only kept are written after all blocks, and *)
(* without the header they were typed under.                               *)
Orphans == <<"!">>
RunningConfig(s) ==
    GlobalLines(s) \cup RouteLines(s) \cup ListLines(s) \cup BlockLines(s)
    \cup Under(Orphans, ToSet(s.unmodeled))
=============================================================================
