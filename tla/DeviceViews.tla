------------------------------ MODULE DeviceViews ------------------------------
(***************************************************************************)
(* The show commands of the mock device (device_state.rs generate_show_*   *)
(* and their handlers in cmd_tree_exec.rs and lib.rs): each one reads the  *)
(* structures of the device again and decides for itself what an           *)
(* interface, a VLAN or a route is.                                        *)
(*                                                                         *)
(* A table is the set of its rows; headings, columns and the lines that    *)
(* are the same on every device are left out.  Prefix lengths stay masks.  *)
(***************************************************************************)
EXTENDS DeviceConfig

CONSTANT
    HostPrefixes    \* the prefixes of a single address, /128

Interfaces == DOMAIN state.interfaces
Of(n)      == state.interfaces[n]

ShortTypes ==
    [TenGigabitEthernet |-> "Te", GigabitEthernet |-> "Gi", FastEthernet |-> "Fa",
     Loopback |-> "Lo", Vlan |-> "Vl"]
short_interface_name(name) ==
    LET types == { t \in DOMAIN ShortTypes : StartsWith(name, t) }
    IN  IF types = {} THEN name
        ELSE LET t == CHOOSE t \in types : TRUE
             IN  ShortTypes[t] \o SubSeq(name, Len(t) + 1, Len(name))
(* Only a name that does not fit in 23 columns is cut. *)
abbreviate_interface_name(name) ==
    LET short == IF Len(name) < 23 THEN name ELSE short_interface_name(name)
    IN  IF Len(short) > 23 THEN SubSeq(short, 1, 23) ELSE short

-----------------------------------------------------------------------------
(* Interfaces. *)

IsUp(n)     == Of(n).admin_up /\ Of(n).link_up
Status(n)   == IF ~ Of(n).admin_up THEN "administratively down"
               ELSE IF Of(n).link_up THEN "up" ELSE "down"
Protocol(n) == IF IsUp(n) THEN "up" ELSE "down"

Speeds == [s \in {"10", "100", "1000", "10000"} |->
              CASE s = "10" -> 10 [] s = "100" -> 100 [] s = "1000" -> 1000 [] s = "10000" -> 10000]
Bandwidth(n) == IF Of(n).speed \in DOMAIN Speeds THEN Speeds[Of(n).speed] ELSE 1000
Duplex(n)    == IF Of(n).duplex \in {"full", "half"} THEN Of(n).duplex ELSE "auto"

generate_show_interface(n) ==
    [name |-> n, status |-> Status(n),
     protocol |-> IF Status(n) = "down" THEN "down (notconnect)" ELSE Protocol(n),
     ip |-> Of(n).ip_address, description |-> Of(n).description, bandwidth |-> Bandwidth(n),
     duplex |-> Duplex(n),
     speed |-> IF Of(n).speed \in DOMAIN Speeds THEN Of(n).speed ELSE "auto"]
(* A name that is not there is read as the beginning of one. *)
Found(name) ==
    IF name \in Interfaces THEN {name} ELSE { n \in Interfaces : StartsWith(n, name) }
handle_show_interfaces(name) == { generate_show_interface(n) : n \in Found(name) }

handle_show_ip_interface_brief ==
    { [name |-> abbreviate_interface_name(n), status |-> Status(n), protocol |-> Protocol(n),
       ip |-> Of(n).ip_address] : n \in Interfaces }
generate_show_interfaces_description ==
    { [name |-> short_interface_name(n), status |-> Status(n), protocol |-> Protocol(n),
       description |-> Of(n).description] : n \in Interfaces }
generate_show_protocols ==
    { [name |-> n, status |-> Status(n), protocol |-> Protocol(n), ip |-> Of(n).ip_address]
        : n \in Interfaces }
generate_show_ip_interface ==
    { [name |-> n, status |-> Status(n), protocol |-> Protocol(n), ip |-> Of(n).ip_address]
        : n \in Interfaces }
generate_show_arp == { [ip |-> Of(n).ip_address[1], name |-> n]
                         : n \in { m \in Interfaces : Of(m).ip_address # <<>> } }

(* The link-local address, configured or made from the MAC address, and    *)
(* the others.                                                             *)
Locals(n)  == SelectSeq(Of(n).ipv6_addresses, LAMBDA a : a.local)
Globals(n) == SelectSeq(Of(n).ipv6_addresses, LAMBDA a : ~ a.local)
ipv6_link_local(n) ==
    IF Locals(n) # <<>> THEN <<Head(Locals(n)).address>>
    ELSE IF Of(n).ipv6_enabled \/ Globals(n) # <<>> THEN <<"eui-64">> ELSE <<>>
generate_show_ipv6_interface_brief ==
    { [name |-> abbreviate_interface_name(n), status |-> Status(n), protocol |-> Protocol(n),
       local |-> ipv6_link_local(n),
       addresses |-> IF ipv6_link_local(n) = <<>> THEN {}
                     ELSE { a.address : a \in ToSet(Globals(n)) }] : n \in Interfaces }

-----------------------------------------------------------------------------
(* Switch ports and VLANs. *)

Trunk(n) == Of(n).switchport_mode = "trunk"

generate_show_interfaces_status ==
    { [port   |-> short_interface_name(n),
       name   |-> Of(n).description,
       status |-> IF ~ Of(n).admin_up THEN "disabled"
                  ELSE IF Of(n).link_up THEN "connected" ELSE "notconnect",
       vlan   |-> IF Trunk(n) THEN <<>> ELSE <<AccessVlan(Of(n))>>,
       duplex |-> IF IsTen(n) THEN Duplex(n) ELSE IF IsUp(n) THEN "a-full" ELSE "auto",
       speed  |-> IF IsTen(n) THEN Of(n).speed ELSE IF IsUp(n) THEN "a-1000" ELSE "auto"]
        : n \in { m \in Interfaces : IsPort(m) } }

(* A mutant: trunks are not left out. *)
AllPorts(id) ==
    { short_interface_name(n) : n \in
        { m \in Interfaces : HasInside(m, "Ethernet") /\ AccessVlan(Of(m)) = id } }
vlan_access_ports(id) ==
    { short_interface_name(n) : n \in
        { m \in Interfaces : HasInside(m, "Ethernet") /\ ~ Trunk(m) /\ AccessVlan(Of(m)) = id } }

VlanRow(id) == [id |-> id, name |-> state.vlans[id],
                status |-> IF Supported(id) THEN "active" ELSE "act/unsup",
                ports |-> vlan_access_ports(id)]
generate_show_vlan_brief == { VlanRow(id) : id \in DOMAIN state.vlans }
generate_vlan_said_table == { [id |-> id, said |-> 100000 + id] : id \in DOMAIN state.vlans }
generate_show_vlan_id(id) ==
    IF id \in DOMAIN state.vlans THEN <<VlanRow(id), [id |-> id, said |-> 100000 + id]>> ELSE <<>>
generate_show_vtp_status == Cardinality(DOMAIN state.vlans)

(* A mutant: the reserved VLANs are not left out. *)
EveryVlan == DOMAIN state.vlans
ActiveVlans == { id \in DOMAIN state.vlans : Supported(id) }

generate_show_interfaces_trunk ==
    { [port |-> short_interface_name(n), native |-> AccessVlan(Of(n)),
       status |-> IF Of(n).link_up THEN "trunking" ELSE "not-trunking",
       active |-> ActiveVlans, forwarding |-> IF Of(n).link_up THEN ActiveVlans ELSE {}]
        : n \in { m \in Interfaces : Trunk(m) /\ Of(m).admin_up } }

SwitchportRow(n) ==
    LET id == AccessVlan(Of(n))
    IN  [port |-> short_interface_name(n), admin |-> IF Trunk(n) THEN "trunk" ELSE "dynamic auto",
         oper |-> IF Trunk(n) /\ Of(n).link_up THEN "trunk" ELSE "down", vlan |-> id,
         vlan_name |-> IF id = 1 THEN <<"default">>
                       ELSE IF id \in DOMAIN state.vlans THEN state.vlans[id] ELSE VlanName(id)]
generate_show_interfaces_switchport ==
    { SwitchportRow(n) : n \in { m \in Interfaces : IsPort(m) } }
generate_show_interfaces_switchport_for(name) ==
    { SwitchportRow(n) : n \in { m \in Found(name) : IsPort(m) } }

(* A port forwards in its own VLAN as soon as it has a link. *)
generate_show_spanning_tree ==
    { [vlan |-> id, priority |-> 32768 + id,
       ports |-> { [port |-> short_interface_name(n), cost |-> IF IsTen(n) THEN 2 ELSE 4]
                     : n \in { m \in Interfaces :
                                 /\ ~ IsVlan(m) /\ ~ IsLoopback(m) /\ IsUp(m)
                                 /\ ~ Trunk(m) /\ AccessVlan(Of(m)) = id } }]
        : id \in { v \in DOMAIN state.vlans : Supported(v) } }
(* Of a VLAN's block only what is above its first empty line: not the      *)
(* bridge, and no ports.                                                   *)
generate_show_spanning_tree_vlan(id) ==
    { [vlan |-> b.vlan, priority |-> b.priority]
        : b \in { c \in generate_show_spanning_tree : c.vlan = id } }
generate_show_spanning_tree_summary == { id \in DOMAIN state.vlans : Supported(id) }

generate_show_interfaces_counters ==
    { short_interface_name(n) : n \in { m \in Interfaces : ~ IsVlan(m) } }
generate_show_storm_control ==
    { short_interface_name(n) : n \in { m \in Interfaces : IsPort(m) } }

(* The VLAN of an SVI is the number in its name. *)
mac_table_entries ==
    { [port |-> short_interface_name(n), type |-> IF IsVlan(n) THEN "STATIC" ELSE "DYNAMIC",
       vlan |-> IF ~ IsVlan(n) THEN AccessVlan(Of(n))
                ELSE LET w == SubSeq(n, 5, Len(n)) IN IF IsU16(w) THEN Numerals[w] ELSE 1]
        : n \in { m \in Interfaces : Of(m).admin_up } }
generate_show_mac_address_table_dynamic == { e \in mac_table_entries : e.type = "DYNAMIC" }
generate_show_mac_address_table_count ==
    [dynamic |-> Cardinality(generate_show_mac_address_table_dynamic),
     static  |-> Cardinality({ e \in mac_table_entries : e.type = "STATIC" }),
     total   |-> Cardinality(mac_table_entries)]

-----------------------------------------------------------------------------
(* Routes. *)

Default(r) == r[1] = "0.0.0.0" /\ r[2] = "0.0.0.0"
Connected  == { n \in Interfaces : Of(n).admin_up /\ Of(n).ip_address # <<>> }
ConnectedRoutes ==
    UNION { { [code |-> "C", prefix |-> Of(n).ip_address, by |-> n],
              [code |-> "L", prefix |-> <<Of(n).ip_address[1]>>, by |-> n] } : n \in Connected }
StaticRoutes ==
    { [code |-> IF Default(r) THEN "S*" ELSE "S", prefix |-> SubSeq(r, 1, 2), by |-> r[3]]
        : r \in ToSet(state.static_routes) }
handle_show_ip_route_filtered(filter) ==
    [gateway |-> { r[3] : r \in { q \in ToSet(state.static_routes) : Default(q) } },
     routes  |-> (IF filter = "Static" THEN {} ELSE ConnectedRoutes)
                 \cup (IF filter = "Connected" THEN {} ELSE StaticRoutes)]
handle_show_ip_route_summary ==
    [connected |-> Cardinality(Connected), static |-> Len(state.static_routes)]

(* Of interfaces with a link, unlike IPv4's. *)
Ipv6Connected(n, a) ==
    IF IsLoopback(n) /\ a.address \in HostPrefixes
    THEN { [code |-> "LC", prefix |-> a.address, by |-> n] }
    ELSE { [code |-> "C", prefix |-> a.address, by |-> n],
           [code |-> "L", prefix |-> a.address, by |-> n] }
(* A mutant: an interface that is shut down keeps its routes. *)
RoutesOfShut ==
    (UNION { UNION { Ipv6Connected(n, a) : a \in ToSet(Globals(n)) }
               : n \in { k \in Interfaces : Of(k).link_up } })
    \cup { [code |-> "S", prefix |-> r[1], by |-> r[2]] : r \in ToSet(state.ipv6_static_routes) }
    \cup { [code |-> "L", prefix |-> "ff00::/8", by |-> "Null0"] }
compute_ipv6_routes ==
    (UNION { UNION { Ipv6Connected(n, a) : a \in ToSet(Globals(n)) }
               : n \in { k \in Interfaces : IsUp(k) } })
    \cup { [code |-> "S", prefix |-> r[1], by |-> r[2]] : r \in ToSet(state.ipv6_static_routes) }
    \cup { [code |-> "L", prefix |-> "ff00::/8", by |-> "Null0"] }

(* OSPF.  An area is active while an interface in it is up. *)
InArea(pid, area) ==
    { n \in Interfaces : /\ Of(n).ospf # <<>>
                         /\ Of(n).ospf.pid = pid /\ Of(n).ospf.area = area }
AreaRow(pid, area) ==
    [area |-> area, interfaces |-> Cardinality(InArea(pid, area)),
     active |-> \E n \in InArea(pid, area) : IsUp(n)]
generate_show_ipv6_ospf ==
    { [pid |-> p, areas |-> { AreaRow(p, a) : a \in state.ospfv3[p] }] : p \in DOMAIN state.ospfv3 }
generate_show_ip_ospf == generate_show_ipv6_ospf
generate_show_ipv6_ospf_interface_brief ==
    { [port |-> short_interface_name(n), pid |-> Of(n).ospf.pid, area |-> Of(n).ospf.area,
       cost |-> IF Bandwidth(n) >= 100 THEN 1 ELSE 100 \div Bandwidth(n),
       state |-> IF IsLoopback(n) THEN "LOOP" ELSE IF IsUp(n) THEN "DR" ELSE "DOWN"]
        : n \in { m \in Interfaces : Of(m).ospf # <<>> } }

-----------------------------------------------------------------------------
(* What is configured. *)

handle_show_running_config_interface(name) ==
    LET n == normalize_interface_name(<<name>>)
    IN  { l[2] : l \in { k \in RunningConfig(state) : k[1] = Header(n) } }
handle_show_access_lists ==
    UNION { { <<n, state.access_lists[n].type, 10 * k, state.access_lists[n].entries[k]>>
                : k \in DOMAIN state.access_lists[n].entries } : n \in DOMAIN state.access_lists }
handle_show_logging ==
    [console |-> state.console, monitor |-> state.monitor, size |-> state.buffered,
     hosts |-> state.hosts]

-----------------------------------------------------------------------------
(* A port that `show interfaces status' lists is in one place: the trunk   *)
(* table, or the row of its one VLAN, if that VLAN is defined;             *)
(* vlan_access_ports(), the status, the trunk and the switchport view each *)
(* tell trunks and VLANs apart with code of their own.                     *)
PortsHaveOnePlace ==
    \A s \in generate_show_interfaces_status :
        /\ { r.id : r \in { v \in generate_show_vlan_brief : s.port \in v.ports } }
             = ToSet(s.vlan) \cap DOMAIN state.vlans
        /\ (\E t \in generate_show_interfaces_trunk : t.port = s.port)
             <=> (s.vlan = <<>> /\ s.status # "disabled")
        /\ \E w \in generate_show_interfaces_switchport :
              /\ w.port = s.port /\ (w.admin = "trunk" <=> s.vlan = <<>>)
              /\ s.vlan # <<>> => w.vlan = s.vlan[1]

(* The active VLANs of `show vlan' are the ones spanning tree runs for and *)
(* trunks carry, and a port forwards only in the VLAN that `show vlan'     *)
(* lists it under.                                                         *)
VlanViewsAgree ==
    LET active == { r.id : r \in { v \in generate_show_vlan_brief : v.status = "active" } }
    IN  /\ { b.vlan : b \in generate_show_spanning_tree } = active
        /\ generate_show_spanning_tree_summary = active
        /\ \A t \in generate_show_interfaces_trunk : t.active = active
        /\ \A b \in generate_show_spanning_tree : \A p \in b.ports :
              \A s \in generate_show_interfaces_status : s.port = p.port =>
                  /\ s.status = "connected" /\ s.vlan = <<b.vlan>>
                  /\ \E r \in generate_show_vlan_brief : r.id = b.vlan /\ p.port \in r.ports

(* An IPv6 route is connected exactly while `show ipv6 interface brief'    *)
(* has the interface up; an IPv4 one never on an interface that is shut    *)
(* down; an OSPF area is active while the brief view has one of its        *)
(* interfaces in a state other than DOWN, a loopback's shown state apart.  *)
RoutesFollowLinks ==
    /\ \A i \in generate_show_ipv6_interface_brief : \A a \in i.addresses :
          (i.protocol = "up") <=>
            \E r \in compute_ipv6_routes :
                r.code \in {"C", "LC"} /\ r.prefix = a /\ abbreviate_interface_name(r.by) = i.name
    /\ \A r \in handle_show_ip_route_filtered("Connected").routes :
          \E p \in generate_show_protocols :
              p.name = r.by /\ p.status # "administratively down" /\ p.ip # <<>>
    /\ \A o \in generate_show_ipv6_ospf : \A a \in o.areas :
          LET rows == { b \in generate_show_ipv6_ospf_interface_brief :
                            b.pid = o.pid /\ b.area = a.area }
          IN  /\ Cardinality(rows) = a.interfaces
              /\ (\E b \in rows : b.state = "DR") => a.active
              /\ a.active => \E b \in rows : b.state # "DOWN"
=============================================================================
