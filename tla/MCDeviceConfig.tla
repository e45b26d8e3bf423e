--------------------------- MODULE MCDeviceConfig ----------------------------
(***************************************************************************)
(* Small instances of DeviceConfig for TLC: a device with two or three     *)
(* interfaces, and sessions typed from one of a few sets of lines.         *)
(***************************************************************************)
EXTENDS DeviceViews

MCNumerals ==
    [w \in {"0", "1", "7", "8", "100", "4096"} |->
        CASE w = "0" -> 0 [] w = "1" -> 1 [] w = "7" -> 7 [] w = "8" -> 8
          [] w = "100" -> 100 [] w = "4096" -> 4096]
A == "10.0.0.1"
B == "10.0.0.254"
M == "255.255.255.0"
MCIpv4 == {A, B, M, "0.0.0.0"}
MCIpv6 == {"fe80::1", "fe80::2"}
MCIpv6Prefixes == {"2001::1/64", "2001::2/128"}
MCLetters == [w \in {"gi1/0/1"} |-> "gi"]

MCHostPrefixes == {"2001::2/128"}

Gi == "GigabitEthernet1/0/1"
Out    == {<<"exit">>, <<"configure", "terminal">>}
Moving == Out \cup {<<"end">>}
Gig    == <<"interface", "gi1/0/1">>
Vlan1  == <<"interface", "vlan", "1">>

(* A port, as a switch port and with an address. *)
PortLines == Out \cup
    { Gig, <<"switchport", "mode", "trunk">>, <<"switchport", "mode", "access">>,
      <<"no", "switchport", "mode", "trunk">>, <<"switchport", "access", "vlan", "7">>,
      <<"switchport", "access", "vlan", "1">>, <<"no", "switchport", "access", "vlan", "7">>,
      <<"ip", "address", A, M>>, <<"ip", "address", A>>, <<"no", "ip", "address">> }
(* Two interfaces, some words cut short, and one that is not there. *)
IfLines == Moving \cup
    { Gig, Vlan1, <<"description", "x">>, <<"description", "x", "y">>, <<"no", "description">>,
      <<"desc", "x">>, <<"shutdown">>, <<"no", "shutdown">>, <<"shut">>, <<"storm-control", "x">> }
SpeedLines == Out \cup
    { Gig, <<"interface", "tengigabitethernet", "1/0/1">>, <<"speed", "100">>, <<"speed">>,
      <<"no", "speed">>, <<"duplex", "full">>, <<"no", "duplex">>, <<"speed", "auto">> }
Ipv6Lines == Out \cup
    { Gig, <<"interface", "loopback", "0">>, <<"ipv6", "enable">>, <<"no", "ipv6", "enable">>,
      <<"ipv6", "address", "fe80::1", "link-local">>,
      <<"ipv6", "address", "2001::2/128">>, <<"no", "ipv6", "address">>, <<"shutdown">> }
OspfLines == Out \cup
    { Gig, <<"interface", "loopback", "0">>, <<"ipv6", "router", "ospf", "7">>,
      <<"no", "ipv6", "router", "ospf", "7">>, <<"ipv6", "ospf", "7", "area", "0">>,
      <<"no", "ipv6", "ospf", "7", "area", "0">>, <<"ipv6", "ospf", "8", "area", "1">>,
      <<"ipv6", "ospf", "network", "broadcast">>, <<"shutdown">>, <<"no", "shutdown">> }
RoutingLines == Out \cup
    { <<"ip", "route", "0.0.0.0", "0.0.0.0", B>>, <<"no", "ip", "route", "0.0.0.0", "0.0.0.0", B>>,
      <<"ip", "route", A, M, B>>, <<"no", "ip", "route", A, M, B>>, <<"ip", "route", A, M, "x">>,
      <<"ipv6", "route", "2001::1/64", "fe80::1">>, <<"ipv6", "route", "2001::1/64", "vlan1">>,
      <<"no", "ipv6", "route", "2001::1/64", "fe80::1">>,
      <<"ipv6", "unicast-routing">>, <<"no", "ipv6", "unicast-routing">>,
      <<"router", "ospf", "1">>, <<"router-id", A>>, <<"network", "x">> }
ServiceLines == Out \cup
    { <<"logging", "buffered", "7">>, <<"logging", "buffered", "4096">>,
      <<"no", "logging", "buffered">>, <<"logging", "console">>, <<"no", "logging", "console">>,
      <<"logging", "monitor">>, <<"no", "logging", "monitor">>, <<"logging", "host", A>>,
      <<"no", "logging", "host", A>>, <<"logging", "host", B>>, <<"logging", "trap", "x">>,
      <<"cdp", "run">>, <<"ntp", "server", A>>,
      <<"hostname", "x">>, <<"no", "hostname">>, <<"no", "hostname", "x">> }
UserLines == Out \cup
    { <<"username", "x", "privilege", "7", "secret", "y">>, <<"username", "x", "password", "0", "y">>,
      <<"username", "x", "privilege", "1">>, <<"username", "z">>, <<"no", "username", "x">>,
      <<"enable", "secret", "y">>, <<"enable", "password", "y">>, <<"no", "enable", "secret", "y">>,
      <<"banner", "motd", "x">>, <<"banner", "motd", "y">>, <<"no", "banner", "motd", "x">>,
      <<"line", "vty", "0", "7">>, <<"line", "console", "0">>, <<"length", "0">> }
NumberedLines == Out \cup
    { <<"access-list", "7", "permit", "x">>, <<"access-list", "100", "deny", "tcp", "x", "y", "eq", "7">>,
      <<"access-list", "7", "remark", "x">>, <<"no", "access-list", "7">>,
      <<"no", "access-list", "100", "deny", "x">> }
NamedLines == Out \cup
    { <<"ip", "access-list", "extended", "x">>, <<"ip", "access-list", "standard", "y">>,
      <<"derive">>, <<"no", "ip", "access-list", "extended", "x">>, <<"no", "ip", "access-list">>,
      <<"permit", "x">>, <<"deny", "tcp", "x", "y">>, <<"remark", "x", "y">>,
      <<"no", "permit", "x">> }
VlanLines == Out \cup
    { <<"vlan", "7">>, <<"no", "vlan">>, <<"no", "vlan", "7">>,
      <<"name", "x">>, <<"no", "name", "x">>, Gig, <<"switchport", "access", "vlan", "7">>,
      <<"switchport", "mode", "trunk">>, <<"switchport", "mode", "access">>, <<"shutdown">>,
      <<"no", "interface", "vlan", "1">> }
CopyingLines == Moving \cup
    { <<"copy", "saved">>, <<"derive">>, Gig, <<"ip", "address", A, M>>, <<"shutdown">>,
      <<"no", "shutdown">>, <<"hostname", "x">>, <<"description", "x">> }

MCVocabularies ==
    { PortLines, IfLines, SpeedLines, Ipv6Lines, OspfLines, RoutingLines, ServiceLines,
      UserLines, NumberedLines, NamedLines, VlanLines, CopyingLines }
OnlyVlans == {VlanLines}

(* A file as it is saved, with blocks whose lines look like others'. *)
Block(header, lines) ==
    <<<<<<>>, header>>>> \o [n \in DOMAIN lines |-> <<header, lines[n]>>]
Saved ==
    << <<<<>>, <<"hostname", "y">>>>, <<<<>>, <<"!">>>> >>
    \o Block(<<"interface", Gi>>, << <<"ip", "address", B, M>>, <<"no", "shutdown">> >>)
    \o << <<<<>>, <<"!">>>> >>
    \o Block(<<"router", "bgp", "7">>, << <<"shutdown">>, <<"ip", "address", A, M>> >>)
    \o Block(<<"interface", "Vlan7">>, << <<"description", "x">>, <<"shutdown">> >>)
    \o << <<<<>>, <<"ip", "route", A, M, B>>>>, <<<<>>, <<"end">>>> >>
MCFiles == [f \in {"saved"} |-> Saved]

MCFactories == {Factory("switch", {Gi}, {}, {Gi})}

MCSilent ==
    {"speed", "duplex", "vlan", "name", "exit", "end", "configure", "router", "line", "length",
     "network", "router-id", "storm-control", "cdp", "ntp", "!"}
MCUnsettled ==
    { <<"desc", "x">>, <<"shut">>, <<"ip", "address", A>>, <<"ip", "route", A, M, "x">>,
      <<"no", "ipv6", "router", "ospf", "7">>, <<"no", "enable", "secret", "y">>,
      <<"derive">>, <<"no", "ip", "access-list", "extended", "x">>, <<"no", "ip", "access-list">>,
      <<"no", "permit", "x">>, <<"no", "interface", "vlan", "1">>, <<"logging", "trap", "x">> }
=============================================================================
