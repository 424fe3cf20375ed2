------------------------- MODULE ResourceRegistry -------------------------
(***************************************************************************)
(* The plugin's side of the contract of ProviderGraph: what the planning   *)
(* package (dcim.py, circuits.py, ... and resource_registry.py that puts   *)
(* them together) knows of the relationships of every kind.  Each domain   *)
(* has a table of model fields, the generic and list links of its          *)
(* relationship_target function, the names is_multi_relationship calls     *)
(* lists, and the names is_identity_relationship calls identity.           *)
(*                                                                         *)
(* Rows are those of ProviderGraph: a set of kinds and a set of links      *)
(* <<name or prefix, target kind, many>>.  The tables of list names and of *)
(* identity names have plain names on the right.                           *)
(***************************************************************************)
EXTENDS ProviderGraph

DcimFields ==
    {<<{"tenant_group", "tenant", "site_group", "rir", "asn", "region", "site", "location", "manufacturer",
        "device_role", "platform", "device_type", "rack_group", "rack_role", "rack_type", "rack",
        "module_type_profile", "module_type", "inventory_item_role"}, Owned>>,
     <<{"tenant_group"}, One("tenant_group", {"parent"})>>,
     <<{"tenant"}, One("tenant_group", {"group"})>>,
     <<{"site_group"}, One("site_group", {"parent"})>>,
     <<{"asn"}, Same({"rir", "role", "tenant"})>>,
     <<{"region"}, One("region", {"parent"})>>,
     <<{"site"}, Same({"region", "tenant"}) \cup One("site_group", {"group"})>>,
     <<{"location"}, Same({"site", "tenant"}) \cup One("location", {"parent"})>>,
     <<{"device_role"}, One("device_role", {"parent"}) \cup Same({"config_template"})>>,
     <<{"platform"}, One("platform", {"parent"}) \cup Same({"manufacturer", "config_template"})>>,
     <<{"device_type", "rack_type", "module_type"}, Same({"manufacturer"})>>,
     <<{"device_type"}, One("platform", {"default_platform"})>>,
     <<{"rack"},
       Same({"site", "location", "tenant", "rack_type"}) \cup One("rack_group", {"group"})
       \cup One("rack_role", {"role"})>>,
     <<{"module_type"}, One("module_type_profile", {"profile"})>>,
     <<SlotTemplates, Same({"device_type", "module_type"})>>,
     <<{"power_outlet_template"}, One("power_port_template", {"power_port"})>>,
     <<{"interface_template"}, One("interface_template", {"bridge"})>>,
     <<{"device_bay_template", "inventory_item_template"}, Same({"device_type"})>>,
     <<{"inventory_item_template"},
       One("inventory_item_template", {"parent"}) \cup One("inventory_item_role", {"role"})
       \cup Same({"manufacturer"})>>}

DcimDeviceFields ==
    {<<Ports \cup {"virtual_chassis", "device", "virtual_device_context", "module", "module_bay", "device_bay",
                   "inventory_item", "mac_address", "rack_reservation", "power_panel", "power_feed",
                   "cable_bundle", "cable"}, Owned>>,
     <<{"virtual_chassis"}, One("device", {"master"})>>,
     <<{"device"},
       Same({"device_type", "tenant", "platform", "site", "location", "rack", "cluster", "virtual_chassis",
             "config_template"})
       \cup One("device_role", {"role"}) \cup One("ip_address", {"primary_ip4", "primary_ip6", "oob_ip"})>>,
     <<{"virtual_device_context"},
       Same({"device", "tenant"}) \cup One("ip_address", {"primary_ip4", "primary_ip6"})>>,
     <<{"module"}, Same({"device", "module_bay", "module_type"})>>,
     <<Ports \cup {"module_bay"}, Same({"device", "module"})>>,
     <<{"device_bay"}, Same({"device"}) \cup One("device", {"installed_device"})>>,
     <<{"power_outlet"}, Same({"power_port"})>>,
     <<{"interface"},
       One("interface", {"parent", "bridge", "lag"}) \cup One("vlan", {"untagged_vlan", "qinq_svlan"})
       \cup Same({"vlan_translation_policy", "vrf"}) \cup One("mac_address", {"primary_mac_address"})>>,
     <<{"inventory_item"},
       Same({"device", "manufacturer"}) \cup One("inventory_item", {"parent"})
       \cup One("inventory_item_role", {"role"})>>,
     <<{"rack_reservation"}, Same({"rack", "user", "tenant"})>>,
     <<{"power_panel"}, Same({"site", "location"})>>,
     <<{"power_feed"}, Same({"power_panel", "rack", "tenant"})>>,
     <<{"cable"}, Same({"tenant"}) \cup One("cable_bundle", {"bundle"})>>}

CircuitsFields ==
    {<<{"provider", "provider_account", "provider_network", "circuit_type", "circuit_group", "circuit",
        "virtual_circuit_type", "virtual_circuit"}, Owned>>,
     <<{"provider_account", "provider_network", "circuit"}, Same({"provider"})>>,
     <<{"circuit_group", "circuit", "virtual_circuit"}, Same({"tenant"})>>,
     <<{"circuit", "virtual_circuit"}, Same({"provider_account"})>>,
     <<{"circuit"}, One("circuit_type", {"type"})>>,
     <<{"circuit_termination"}, Same({"circuit"})>>,
     <<{"virtual_circuit"}, Same({"provider_network"}) \cup One("virtual_circuit_type", {"type"})>>,
     <<{"virtual_circuit_termination"}, Same({"virtual_circuit", "interface"})>>,
     <<{"circuit_group_assignment"}, One("circuit_group", {"group"})>>}

UsersFields == {<<{"owner"}, One("owner_group", {"group"})>>}

CoreFields == {<<{"data_source"}, Owned>>}

ExtrasFields ==
    {<<{"custom_field_choice_set", "custom_field", "custom_link", "export_template", "saved_filter",
        "config_context_profile", "config_context", "config_template", "webhook", "event_rule"}, Owned>>,
     <<{"custom_field"}, One("custom_field_choice_set", {"choice_set"})>>,
     <<{"saved_filter", "table_config"}, Same({"user"})>>,
     <<{"config_context"}, One("config_context_profile", {"profile"})>>}

IpamFields ==
    {<<{"role", "asn_range", "route_target", "vrf", "aggregate", "vlan_group", "vlan", "vlan_translation_policy",
        "prefix", "ip_range", "ip_address", "fhrp_group", "service_template", "service"}, Owned>>,
     <<{"asn_range", "aggregate"}, Same({"rir"})>>,
     <<{"asn_range", "route_target", "vrf", "aggregate", "vlan_group", "vlan", "prefix", "ip_range", "ip_address"},
       Same({"tenant"})>>,
     <<{"vlan"}, Same({"site"}) \cup One("vlan_group", {"group"}) \cup One("vlan", {"qinq_svlan"})>>,
     <<{"vlan", "prefix", "ip_range"}, Same({"role"})>>,
     <<{"vlan_translation_rule"}, One("vlan_translation_policy", {"policy"})>>,
     <<{"prefix", "ip_range", "ip_address"}, Same({"vrf"})>>,
     <<{"prefix"}, Same({"vlan"})>>,
     <<{"ip_address"}, One("ip_address", {"nat_inside"})>>,
     <<{"fhrp_group_assignment"}, One("fhrp_group", {"group"})>>}

TenancyFields ==
    {<<{"contact_group", "contact_role", "contact"}, Owned>>,
     <<{"contact_group"}, One("contact_group", {"parent"})>>,
     <<{"contact_assignment"}, Same({"contact"}) \cup One("contact_role", {"role"})>>}

VirtualizationFields ==
    {<<{"cluster_type", "cluster_group", "cluster", "virtual_machine_type", "virtual_machine", "vm_interface",
        "virtual_disk"}, Owned>>,
     <<{"cluster"}, One("cluster_type", {"type"}) \cup One("cluster_group", {"group"}) \cup Same({"tenant"})>>,
     <<{"virtual_machine_type"}, One("platform", {"default_platform"})>>,
     <<{"virtual_machine"},
       Same({"virtual_machine_type", "site", "cluster", "device", "tenant", "platform", "config_template"})
       \cup One("device_role", {"role"}) \cup One("ip_address", {"primary_ip4", "primary_ip6"})>>,
     <<{"vm_interface", "virtual_disk"}, Same({"virtual_machine"})>>,
     <<{"vm_interface"},
       One("vm_interface", {"parent", "bridge"}) \cup One("vlan", {"untagged_vlan", "qinq_svlan"})
       \cup Same({"vlan_translation_policy", "vrf"}) \cup One("mac_address", {"primary_mac_address"})>>}

VpnFields ==
    {<<{"ike_proposal", "ike_policy", "ipsec_proposal", "ipsec_policy", "ipsec_profile", "tunnel_group", "tunnel",
        "l2vpn"}, Owned>>,
     <<{"ipsec_profile"}, Same({"ike_policy", "ipsec_policy"})>>,
     <<{"tunnel"}, One("tunnel_group", {"group"}) \cup Same({"ipsec_profile", "tenant"})>>,
     <<{"tunnel_termination"}, Same({"tunnel"}) \cup One("ip_address", {"outside_ip"})>>,
     <<{"l2vpn"}, Same({"tenant"})>>,
     <<{"l2vpn_termination"}, Same({"l2vpn"})>>}

WirelessFields ==
    {<<{"wireless_lan_group", "wireless_lan", "wireless_link"}, Owned>>,
     <<{"wireless_lan_group"}, One("wireless_lan_group", {"parent"})>>,
     <<{"wireless_lan"}, One("wireless_lan_group", {"group"}) \cup Same({"vlan", "tenant"})>>,
     <<{"wireless_link"}, One("interface", {"interface_a", "interface_b"}) \cup Same({"tenant"})>>}

RelationshipFields ==
    DcimFields \cup DcimDeviceFields \cup CircuitsFields \cup UsersFields \cup CoreFields \cup ExtrasFields
    \cup IpamFields \cup TenancyFields \cup VirtualizationFields \cup VpnFields \cup WirelessFields

-----------------------------------------------------------------------------
(* The tags, and the links of the relationship_target functions that are   *)
(* no model field: lists and generic links with their allowed targets.     *)

DcimTagged ==
    Ports \cup
    {"tenant_group", "tenant", "site_group", "rir", "asn", "region", "site", "location", "manufacturer",
     "device_role", "platform", "device_type", "rack_group", "rack_role", "rack_type", "rack", "rack_reservation",
     "module_type_profile", "module_type", "inventory_item_role", "virtual_chassis", "device",
     "virtual_device_context", "module", "module_bay", "device_bay", "inventory_item", "mac_address",
     "power_panel", "power_feed", "cable_bundle", "cable"}

TaggedKinds ==
    DcimTagged
    \cup {"provider", "provider_account", "provider_network", "circuit_type", "circuit", "circuit_termination",
          "circuit_group", "circuit_group_assignment", "virtual_circuit_type", "virtual_circuit",
          "virtual_circuit_termination"}
    \cup {"config_context_profile", "config_template", "webhook", "event_rule"}
    \cup {"role", "asn_range", "route_target", "vrf", "aggregate", "vlan_group", "vlan", "prefix", "ip_range",
          "ip_address", "fhrp_group", "service_template", "service"}
    \cup {"contact_group", "contact_role", "contact", "contact_assignment"}
    \cup {"cluster_type", "cluster_group", "cluster", "virtual_machine_type", "virtual_machine", "vm_interface",
          "virtual_disk"}
    \cup {"ike_proposal", "ike_policy", "ipsec_proposal", "ipsec_policy", "ipsec_profile", "tunnel_group",
          "tunnel", "tunnel_termination", "l2vpn", "l2vpn_termination"}
    \cup {"wireless_lan_group", "wireless_lan", "wireless_link"}

CableSides == {"termination_a", "termination_b"}

DcimTargets ==
    {<<{"interface"},
       Many("virtual_device_context", {"vdc"}) \cup Many("vlan", {"tagged_vlan"}) \cup EachMany({"wireless_lan"})>>,
     <<{"front_port"}, Any("mapping", {"rear_port"})>>,
     <<{"front_port_template"}, Any("mapping", {"rear_port_template"})>>,
     <<{"inventory_item"}, Any("component", Ports)>>,
     <<{"inventory_item_template"}, Any("component", PortTemplates)>>,
     <<{"mac_address"}, Any("assigned", Ends)>>,
     <<{"cable"}, {<<side, t, TRUE>> : side \in CableSides, t \in Ports \cup {"power_feed"}}>>}

CircuitsTargets ==
    {<<{"provider"}, EachMany({"asn"})>>,
     <<{"circuit_termination"}, Any("termination", Scopes \cup {"provider_network"})>>,
     <<{"circuit_group_assignment"}, Any("member", {"circuit", "virtual_circuit"})>>,
     <<{"cable"}, {<<side, "circuit_termination", TRUE>> : side \in CableSides}>>}

UsersTargets ==
    {<<{"owner"}, EachMany({"user_group", "user"})>>,
     <<{"user_group", "user"}, Many("object_permission", {"permission"})>>,
     <<{"user"}, Many("user_group", {"group"})>>}

ContextScopes ==
    EachMany(Scopes \cup {"tag", "device_type", "platform", "tenant_group", "tenant", "cluster_type",
                          "cluster_group", "cluster"})
    \cup Many("device_role", {"role"})

ExtrasTargets ==
    {<<{"config_context"}, ContextScopes>>,
     <<{"notification_group"}, Many("user_group", {"group"}) \cup EachMany({"user"})>>,
     <<{"event_rule"}, Any("action", {"webhook", "notification_group"})>>}

VlanScopes == Scopes \cup {"rack_group", "rack", "cluster_group", "cluster"}

IpamTargets ==
    {<<{"vrf"}, Many("route_target", {"import_target", "export_target"})>>,
     <<{"service"}, EachMany({"ip_address"}) \cup Any("parent", {"device", "virtual_machine", "fhrp_group"})>>,
     <<{"vlan_group"}, Any("scope", VlanScopes)>>,
     <<{"prefix"}, Any("scope", Scopes)>>,
     <<{"ip_address"}, Any("assigned", Ends \cup {"fhrp_group"})>>,
     <<{"fhrp_group_assignment"}, Any("interface", Ends)>>}

ContactTargets ==
    {"tenant", "region", "site_group", "site", "location", "manufacturer", "rack", "device", "power_panel",
     "provider", "provider_account", "circuit", "virtual_circuit", "asn", "aggregate", "prefix", "ip_range",
     "ip_address", "service", "cluster_group", "cluster", "virtual_machine", "tunnel_group", "tunnel", "l2vpn"}

TenancyTargets ==
    {<<{"contact"}, Many("contact_group", {"group"})>>,
     <<{"contact_assignment"}, Any("object", ContactTargets)>>}

VirtualizationTargets ==
    {<<{"vm_interface"}, Many("vlan", {"tagged_vlan"})>>,
     <<{"cluster"}, Any("scope", Scopes)>>}

VpnTargets ==
    {<<{"ike_policy"}, Many("ike_proposal", {"proposal"})>>,
     <<{"ipsec_policy"}, Many("ipsec_proposal", {"proposal"})>>,
     <<{"l2vpn"}, Many("route_target", {"import_target", "export_target"})>>,
     <<{"tunnel_termination"}, Any("termination", Ends)>>,
     <<{"l2vpn_termination"}, Any("assigned", Ends \cup {"vlan"})>>}

WirelessTargets == {<<{"wireless_lan"}, Any("scope", Scopes)>>}

(* RELATIONSHIP_TARGETS of application/planning.py adds one to the fields  *)
(* and tags.                                                               *)
ConfiguredTargets == {<<{"site"}, EachMany({"asn"})>>, <<{"interface"}, Many("virtual_device_context", {"vdc"})>>}

(* relationship_target of the registry and RELATIONSHIP_TARGETS: the links *)
(* the plugin knows of a kind, and what they point at.                     *)
RelationshipTargets ==
    RelationshipFields \cup {<<TaggedKinds, EachMany({"tag"})>>}
    \cup ConfiguredTargets \cup DcimTargets \cup CircuitsTargets \cup UsersTargets \cup ExtrasTargets \cup IpamTargets
    \cup TenancyTargets \cup VirtualizationTargets \cup VpnTargets \cup WirelessTargets

KnownTable == [k \in AllKinds |-> {<<x[1], x[2]>> : x \in In(RelationshipTargets, k)}]

-----------------------------------------------------------------------------
(* is_multi_relationship.  A tag is a list on every kind; site.asn is one  *)
(* by MULTI_RELATIONSHIPS of comparison.py.                                *)

DcimLists ==
    {<<{"interface"}, {"vdc", "tagged_vlan", "wireless_lan"}>>,
     <<{"cable"}, CableSides>>}

UsersLists ==
    {<<{"owner"}, {"user_group", "user"}>>,
     <<{"user_group", "user"}, {"permission"}>>,
     <<{"user"}, {"group"}>>}

ExtrasLists ==
    {<<{"config_context"}, {x[1] : x \in ContextScopes}>>,
     <<{"notification_group"}, {"group", "user"}>>}

IpamLists ==
    {<<{"vrf"}, {"import_target", "export_target"}>>,
     <<{"service"}, {"ip_address"}>>}

TenancyLists == {<<{"contact"}, {"group"}>>}

VirtualizationLists == {<<{"vm_interface"}, {"tagged_vlan"}>>}

VpnLists ==
    {<<{"ike_policy", "ipsec_policy"}, {"proposal"}>>,
     <<{"l2vpn"}, {"import_target", "export_target"}>>}

MultiRelationships == {<<AllKinds, {"tag"}>>, <<{"site"}, {"asn"}>>}

ListTable ==
    LET rows == DcimLists \cup {<<{"provider"}, {"asn"}>>} \cup UsersLists \cup ExtrasLists \cup IpamLists
                \cup TenancyLists \cup VirtualizationLists \cup VpnLists \cup MultiRelationships
    IN [k \in AllKinds |-> In(rows, k)]

-----------------------------------------------------------------------------
(* is_identity_relationship.                                               *)

DcimIdentity ==
    {<<{"region", "site_group", "tenant_group", "device_role"}, {"parent"}>>,
     <<{"tenant"}, {"group"}>>,
     <<{"location"}, {"site", "parent"}>>,
     <<{"platform", "device_type", "rack_type", "module_type"}, {"manufacturer"}>>,
     <<{"rack"}, {"site", "location"}>>,
     <<SlotTemplates, {"device_type", "module_type"}>>,
     <<{"device_bay_template"}, {"device_type"}>>,
     <<{"inventory_item_template"}, {"device_type", "parent"}>>,
     <<{"device"}, {"site", "tenant", "virtual_chassis", "rack"}>>,
     <<Ports \cup {"virtual_device_context", "device_bay"}, {"device"}>>,
     <<{"module"}, {"module_bay"}>>,
     <<{"module_bay"}, {"device", "module"}>>,
     <<{"inventory_item"}, {"device", "parent"}>>,
     <<{"rack_reservation"}, {"rack", "user"}>>,
     <<{"power_panel"}, {"site"}>>,
     <<{"power_feed"}, {"power_panel"}>>,
     <<{"mac_address"}, {"assigned"}>>,
     <<{"cable"}, CableSides>>}

CircuitsIdentity ==
    {<<{"provider_account", "provider_network", "circuit"}, {"provider"}>>,
     <<{"circuit_termination"}, {"circuit"}>>,
     <<{"virtual_circuit"}, {"provider_network"}>>,
     <<{"virtual_circuit_termination"}, {"virtual_circuit", "interface"}>>,
     <<{"circuit_group_assignment"}, {"group", "member"}>>}

IpamIdentity ==
    {<<{"vrf"}, {"tenant"}>>,
     <<{"vlan"}, {"site", "group"}>>,
     <<{"vlan_translation_rule"}, {"policy"}>>,
     <<{"prefix", "ip_range", "ip_address"}, {"vrf"}>>,
     <<{"vlan_group", "prefix"}, {"scope"}>>,
     <<{"ip_address"}, {"assigned"}>>,
     <<{"fhrp_group_assignment"}, {"group", "interface"}>>,
     <<{"service"}, {"parent"}>>}

TenancyIdentity ==
    {<<{"contact_group"}, {"parent"}>>,
     <<{"contact_assignment"}, {"contact", "role", "object"}>>}

VirtualizationIdentity ==
    {<<{"cluster"}, {"group", "scope"}>>,
     <<{"virtual_machine"}, {"site", "cluster", "device", "tenant"}>>,
     <<{"vm_interface", "virtual_disk"}, {"virtual_machine"}>>}

VpnIdentity ==
    {<<{"tunnel_termination"}, {"termination"}>>,
     <<{"l2vpn_termination"}, {"assigned"}>>}

WirelessIdentity ==
    {<<{"wireless_lan_group"}, {"parent"}>>,
     <<{"wireless_lan"}, {"group", "vlan", "tenant", "scope"}>>,
     <<{"wireless_link"}, {"interface_a", "interface_b"}>>}

(* The registry asks seven of the nine domains; extras.py, which declares  *)
(* table_config.user, and users.py are not among them.                     *)
IdentityTable ==
    LET rows == DcimIdentity \cup CircuitsIdentity \cup IpamIdentity \cup TenancyIdentity
                \cup VirtualizationIdentity \cup VpnIdentity \cup WirelessIdentity
    IN [k \in AllKinds |-> In(rows, k)]

(* Mutant of IsIdentity: generic links are forgotten.                      *)
IsIdentityField(k, name) == name \in IdentityTable[k] \ {"scope", "assigned"}

IsIdentity(k, name) == name \in IdentityTable[k]
IsMulti(k, name) == name \in ListTable[k]
=============================================================================
