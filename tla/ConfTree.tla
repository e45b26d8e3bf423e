------------------------------ MODULE ConfTree -------------------------------
(***************************************************************************)
(* The command trees of the configuration modes (cmd_tree_conf.rs).  A     *)
(* handler that only records its line in running_config is "stub".         *)
(***************************************************************************)
EXTENDS CommandNode

Global(n)        == Only({"config"}, n)
GlobalAll(nodes) == AllOnly({"config"}, nodes)
IfOnly(n)        == Only({"sub"}, n)

Word(kids)   == Param("word", None, kids)
Number(kids) == Param("number", None, kids)

(* The end of every tree. *)
Leave == <<Menu("no", <<>>), Cmd("help", "show"), Cmd("exit", "config_exit"),
           Cmd("end", "config_end")>>

AclEntry == AllTake(<<"deny", "permit", "remark">>, "rest", "access_list")

AclRanges == <<InRange(1, 99, AclEntry), InRange(100, 199, AclEntry),
               InRange(1100, 1199, AclEntry), InRange(1300, 1999, AclEntry),
               InRange(200, 299, AclEntry), InRange(2000, 2699, AclEntry),
               InRange(700, 799, AclEntry)>>

-----------------------------------------------------------------------------
(* The tree of the global mode. *)

NamedCommands ==
    GlobalAll(<<
        Undone("hostname", Takes("hostname", "word", "hostname")),
        Menu("interface",
            AllTake(<<"gigabitethernet", "fastethernet", "tengigabitethernet", "hundredgige",
                      "loopback", "vlan", "tunnel", "serial", "mgmt", "null",
                      "port-channel">>, "rest", "interface")
            \o <<Param("rest", "interface", <<>>)>>),
        Menu("router", <<Takes("ospf", "number", "router_ospf"),
                         Takes("bgp", "number", "router_bgp"),
                         Takes("eigrp", "number", "router_eigrp")>>),
        Menu("access-list", AclRanges \o <<Takes("rate-limit", "rest", "access_list")>>) >>)

(* What the global tree has in common with that of an interface. *)
IpAddress == Word(<<Param("word", "ip_address", <<>>)>>)
Ipv6Address ==
    Keyword("address", "ipv6_address",
        <<Param("word", "ipv6_address", <<Cmd("link-local", "ipv6_address")>>)>>)
Ipv6Ospf ==
    Menu("ospf", << Number(<<Takes("area", "number", "ipv6_ospf_interface")>>),
                    Menu("network", Cmds(<<"point-to-point", "broadcast">>,
                                         "ipv6_ospf_network")) >>)
SwitchportMode ==
    Menu("mode", <<Cmd("access", "switchport_mode"), Cmd("trunk", "switchport_mode"),
                   Param("word", "switchport_mode", <<>>)>>)
SwitchportAccess == Menu("access", <<Takes("vlan", "word", "switchport_access_vlan")>>)

IpCommands ==
    << Menu("ip", <<
         Global(Menu("route", <<Word(<<Word(<<Param("word", "ip_route", <<>>)>>)>>)>>)),
         IfOnly(Menu("address", <<IpAddress>>)),
         Global(Takes("domain-name", "word", "stub")),
         Global(Takes("name-server", "word", "stub")),
         Global(Undone("no_ip_access_list",
             Menu("access-list", AllTake(<<"extended", "standard">>, "word",
                                         "ip_access_list")))) >>),
       Menu("ipv6", <<
         Global(Cmd("unicast-routing", "ipv6_unicast_routing")),
         Global(Menu("route", <<Word(<<Param("word", "ipv6_route", <<>>)>>)>>)),
         Global(Menu("router", <<Takes("ospf", "number", "ipv6_router_ospf")>>)),
         IfOnly(Ipv6Address), IfOnly(Cmd("enable", "ipv6_enable")), IfOnly(Ipv6Ospf) >>) >>

ServiceCommands ==
    GlobalAll(<<
        Menu("line", <<Menu("vty", <<Number(<<Param("number", "line_vty", <<>>)>>)>>),
                       Takes("console", "number", "line_console")>>),
        Menu("enable", <<Takes("secret", "word", "enable_secret"),
                         Takes("password", "word", "enable_password")>>),
        Menu("service", <<Takes("timestamps", "rest", "stub"),
                          Cmd("password-encryption", "stub"), Cmd("pad", "stub"),
                          Param("rest", "stub", <<>>)>>),
        Undone("logging", Menu("logging", <<
            Undone("logging", Keyword("buffered", "logging", <<Param("number", "logging", <<>>)>>)),
            Undone("logging", Cmd("console", "logging")),
            Undone("logging", Cmd("monitor", "logging")),
            Undone("logging", Menu("host", <<Undone("logging", Param("word", "logging", <<>>))>>)),
            Takes("trap", "word", "logging"), Param("rest", "stub", <<>>) >>)),
        Undone("username", Takes("username", "rest", "username")) >>)

SwitchCommands ==
    << IfOnly(Cmd("shutdown", "shutdown")),
       IfOnly(Takes("description", "rest", "description")),
       IfOnly(Menu("switchport", <<SwitchportMode, SwitchportAccess>>)),
       Takes("spanning-tree", "rest", "stub"),
       Global(Undone("no_vlan", Takes("vlan", "number", "vlan"))) >>

(* boot to banner, *)
StubCommands ==
    GlobalAll(AllTake(<<"crypto", "do", "errdisable", "event", "mac", "snmp-server">>,
                      "rest", "stub")
        \o << Menu("boot", <<Takes("system", "rest", "stub")>>),
              Menu("cdp", <<Cmd("run", "stub")>>),
              Menu("ntp", <<Takes("server", "word", "stub")>>),
              Menu("banner", <<Takes("motd", "rest", "banner_motd"),
                               Takes("login", "rest", "stub"),
                               Takes("exec", "rest", "stub")>>) >>)

(* and the commands put around the first list. *)
OtherStubs ==
    GlobalAll(AllTake(<<"aaa", "arp", "class-map", "clock", "default", "dot1x", "lldp",
                        "monitor", "policy-map", "port-channel", "power", "privilege",
                        "tacacs-server">>, "rest", "stub"))

conf_tree ==
    NamedCommands \o IpCommands \o ServiceCommands \o SwitchCommands \o StubCommands
    \o OtherStubs \o Leave

-----------------------------------------------------------------------------
(* The trees of the sub-modes. *)

Kept(kws) == AllTake(kws, "rest", "config_sub_rest")
KeptOr(kw) == Keyword(kw, "config_sub_rest", <<Param("rest", "config_sub_rest", <<>>)>>)

InterfaceModelled ==
    << Menu("ip", <<Keyword("address", "ip_address", <<IpAddress>>)>>),
       Menu("ipv6", <<Ipv6Address, Cmd("enable", "ipv6_enable"), Ipv6Ospf>>),
       Cmd("shutdown", "shutdown"),
       Keyword("description", "description", <<Param("rest", "description", <<>>)>>),
       Menu("switchport", <<SwitchportMode, SwitchportAccess,
                            Cmd("nonegotiate", "config_sub_rest"), KeptOr("port-security")>>
                          \o Kept(<<"trunk">>)) >>

InterfaceKept ==
    << Menu("spanning-tree", <<KeptOr("portfast")>>
            \o Kept(<<"bpduguard", "bpdufilter", "link-type", "guard">>)
            \o <<Param("rest", "config_sub_rest", <<>>)>>),
       Keyword("speed", "speed", Cmds(<<"10", "100", "1000", "auto">>, "speed")),
       Keyword("duplex", "duplex", Cmds(<<"auto", "full", "half">>, "duplex")),
       KeptOr("port-security"), KeptOr("keepalive") >>
    \o Kept(<<"storm-control", "channel-group", "power", "load-interval", "udld", "logging",
              "snmp", "lldp", "dot1x", "mtu", "service-policy", "carrier-delay",
              "flowcontrol", "mdix", "negotiation">>)

config_if_tree == InterfaceModelled \o InterfaceKept \o Leave

config_router_tree ==
    Kept(<<"network", "area", "redistribute", "passive-interface", "neighbor">>)
    \o <<Takes("router-id", "word", "config_sub_rest"),
         Cmd("log-adjacency-changes", "config_sub_rest")>> \o Leave

config_line_tree ==
    Kept(<<"transport", "exec-timeout", "login", "privilege", "logging", "length",
           "password">>) \o Leave

config_nacl_tree ==
    AllTake(<<"permit", "deny", "remark">>, "rest", "nacl_entry") \o Leave

config_vlan_tree == <<Takes("name", "word", "vlan_name")>> \o Leave

(* config_sub_tree(), and conf_tree() for the global mode. *)
SubModes == {"config-if", "config-router", "config-line", "config-ext-nacl",
             "config-std-nacl", "config-vlan"}
config_tree_for_mode(mode) ==
    CASE mode = "config-if"     -> config_if_tree
      [] mode = "config-router" -> config_router_tree
      [] mode = "config-line"   -> config_line_tree
      [] mode \in {"config-ext-nacl", "config-std-nacl"} -> config_nacl_tree
      [] mode = "config-vlan"   -> config_vlan_tree
      [] OTHER                  -> conf_tree
=============================================================================
