------------------------------ MODULE ExecTree -------------------------------
(***************************************************************************)
(* The command tree of the exec modes (cmd_tree_exec.rs, build_exec_tree). *)
(* Handlers that only write text are all "show"; those that change the     *)
(* device keep their names, and those that only say that the line is       *)
(* incomplete, although the parser took it for a command.                  *)
(***************************************************************************)
EXTENDS CommandNode

Priv(n)        == Only({"priv"}, n)
PrivAll(nodes) == AllOnly({"priv"}, nodes)

Shows(kws)        == Cmds(kws, "show")
ShowMenu(kw, kws) == Menu(kw, Shows(kws))
ShowWith(kw, kws) == Keyword(kw, "show", Shows(kws))

ShowIp ==
    Keyword("ip", "show_ip_incomplete",
        Shows(<<"access-lists", "arp", "bgp", "cef", "eigrp", "http", "igmp", "nat",
                "pim", "protocols", "ssh", "traffic", "vrf">>)
        \o << Keyword("dhcp", "show", << Cmd("binding", "show"), Cmd("pool", "show"),
                                         ShowWith("snooping", <<"binding">>) >>),
              ShowWith("interface", <<"brief">>), ShowWith("ospf", <<"neighbor">>),
              ShowWith("route", <<"connected", "static", "summary">>) >>)

ShowIpv6 ==
    Keyword("ipv6", "show_ipv6_incomplete",
        Cmds(<<"neighbors", "protocols", "traffic", "access-list", "cef", "nd",
               "prefix-list", "routers">>, "show_ipv6_incomplete")
        \o << Cmd("route", "show"), ShowMenu("interface", <<"brief">>),
              Keyword("ospf", "show", <<ShowMenu("interface", <<"brief">>)>>) >>)

(* running-config to the ip menus, then boot to the end of the first half. *)
ShowConfig ==
    Shows(<<"version", "history", "clock">>)
    \o << Keyword("running-config", "show", <<Takes("interface", "rest", "show")>>),
          Priv(Cmd("startup-config", "show")) >>

ShowPorts ==
    Shows(<<"boot", "flash:", "terminal", "users", "logging", "arp">>)
    \o << Keyword("interfaces", "show",
              Shows(<<"status", "description", "trunk", "switchport", "counters">>)
              \o <<Param("word", "show", <<Cmd("switchport", "show")>>)>>),
          Keyword("vlan", "show", <<Cmd("brief", "show"), Takes("id", "number", "show")>>),
          Priv(ShowMenu("install", <<"summary">>)),
          Keyword("cdp", "show", <<ShowWith("neighbors", <<"detail">>)>>),
          Menu("mac", <<ShowWith("address-table", <<"dynamic", "count">>)>>) >>

ShowFeatures ==
    Shows(<<"access-lists", "snmp", "privilege", "line", "inventory", "environment", "aaa",
            "authentication", "cable-diagnostics", "configuration", "controllers", "crypto",
            "debugging", "dhcp", "dot1x", "hosts", "license", "module", "platform",
            "policy-map", "protocols", "sessions", "ssh", "standby", "storm-control",
            "switch">>)
    \o << Keyword("spanning-tree", "show",
              <<Takes("vlan", "number", "show"), Cmd("summary", "show")>>),
          ShowMenu("processes", <<"cpu">>), ShowMenu("ntp", <<"status", "associations">>),
          ShowWith("errdisable", <<"recovery">>), ShowWith("etherchannel", <<"summary">>),
          Keyword("lldp", "show", <<ShowWith("neighbors", <<"detail">>)>>),
          Keyword("port-security", "show",
              <<Keyword("interface", "show", <<Param("rest", "show", <<>>)>>),
                Cmd("address", "show")>>),
          ShowWith("power", <<"inline">>), ShowWith("vtp", <<"status">>) >>

Show ==
    Keyword("show", "show_incomplete",
            ShowConfig \o <<ShowIp, ShowIpv6>> \o ShowPorts \o ShowFeatures)

-----------------------------------------------------------------------------
(* access-enable and archive, and cd to copy. *)
ModeCommands ==
    << Priv(Keyword("configure", "configure_alone", <<Cmd("terminal", "configure_terminal")>>)),
       Cmd("enable", "enable"), Priv(Cmd("disable", "disable")),
       Menu("terminal", <<Takes("length", "number", "show"), Takes("width", "number", "show"),
                          Cmd("monitor", "terminal_monitor"),
                          Menu("no", <<Cmd("monitor", "terminal_no_monitor")>>)>>) >>
    \o PrivAll(<<Takes("cd", "rest", "show"), Takes("connect", "word", "show")>>)

FileCommands ==
    PrivAll(<< Menu("copy", <<Param("word", None, <<Param("word", "copy", <<>>)>>)>>),
               Takes("delete", "rest", "delete"),
               Menu("verify", <<Takes("/md5", "word", "show")>>),
               Keyword("dir", "show", <<Param("word", "show", <<>>)>>),
               Takes("disconnect", "word", "show"), Takes("erase", "word", "show"),
               Keyword("reload", "reload_alone",
                   <<Cmd("cancel", "reload_cancel"), Takes("in", "number", "reload_in")>>),
               ShowWith("write", <<"erase", "memory", "network", "terminal">>) >>)

InstallCommands ==
    << Priv(Menu("install",
        << Menu("add", <<Takes("file", "word", "install_add")>>),
           Cmd("activate", "install_activate"), Cmd("commit", "install_commit"),
           Menu("remove", <<Cmd("inactive", "install_remove_inactive")>>) >>)) >>

(* ip to help, *)
TerminalCommands ==
    PrivAll(Shows(<<"lock", "pwd", "setup">>)
            \o AllTake(<<"ip", "monitor", "more", "rename", "send", "session", "set">>,
                       "rest", "show")
            \o AllTake(<<"mkdir", "rmdir">>, "word", "show"))
    \o <<Cmd("login", "show"), Takes("ping", "word", "show"),
         Takes("traceroute", "word", "show"), Cmd("help", "show")>>

(* and test to where. *)
DebugCommands ==
    LET debugging == <<Cmd("all", "show"), Param("rest", "show", <<>>)>>
    IN  PrivAll(AllTake(<<"test", "debug", "clear">>, "rest", "show")
                \o << Menu("clock", <<Takes("set", "rest", "show")>>),
                      Menu("undebug", debugging), Menu("no", <<Menu("debug", debugging)>>),
                      Cmd("where", "show") >>)
        \o <<Takes("ssh", "rest", "show"), Takes("telnet", "word", "show"),
             Cmd("exit", "exit"), Cmd("logout", "exit")>>

exec_tree ==
    PrivAll(Shows(<<"access-enable", "archive">>)) \o <<Show>> \o ModeCommands
    \o FileCommands \o InstallCommands \o TerminalCommands \o DebugCommands
=============================================================================
