--------------------------- MODULE ProviderGraph ---------------------------
(***************************************************************************)
(* What the NetBox collector of the Go agent puts on the wire: the         *)
(* datasets of the provider manifest, their closure, the kinds of object   *)
(* each dataset reads, and for every kind the relationships ("links") that *)
(* relationshipsForProjection emits.                                       *)
(*                                                                         *)
(* A link is a triple <<name, target kind, many>>: "many" says that the    *)
(* field is a list (addMany) and not one nested object (add).  A generic   *)
(* link, whose name on the wire is prefix_targetkind, is written           *)
(* <<prefix, target kind, many>>.  Custom-field links are left out.        *)
(***************************************************************************)
EXTENDS Naturals, FiniteSets

One(target, names) == {<<n, target, FALSE>> : n \in names}
Many(target, names) == {<<n, target, TRUE>> : n \in names}
Same(names) == {<<n, n, FALSE>> : n \in names}
EachMany(names) == {<<n, n, TRUE>> : n \in names}
Any(prefix, targets) == {<<prefix, t, FALSE>> : t \in targets}

Owned == Same({"owner"})
Tagged == EachMany({"tag"})

(* The rows of a table that speak of a kind, put together. *)
In(table, k) == UNION {row[2] : row \in {r \in table : k \in r[1]}}

-----------------------------------------------------------------------------
(* Kinds with a family resemblance, named once.                            *)

Ports == {"console_port", "console_server_port", "power_port", "power_outlet", "interface", "front_port", "rear_port"}
PortTemplates ==
    {"console_port_template", "console_server_port_template", "power_port_template", "power_outlet_template",
     "interface_template", "front_port_template", "rear_port_template"}
SlotTemplates == PortTemplates \cup {"module_bay_template"}
Scopes == {"region", "site_group", "site", "location"}
Ends == {"interface", "vm_interface"}

-----------------------------------------------------------------------------
(* The manifest: the kinds of every dataset and the datasets it needs.     *)

KindsOf ==
    [references |-> {"tag", "tenant_group", "tenant", "site_group", "rir", "role", "asn"},
     tenancy_contacts |-> {"contact_group", "contact_role", "contact"},
     tenancy_contact_assignments |-> {"contact_assignment"},
     virtualization_clusters |-> {"cluster_type", "cluster_group", "cluster"},
     virtualization_machines |-> {"virtual_machine_type", "virtual_machine"},
     virtualization_components |-> {"vm_interface", "virtual_disk"},
     vpn_crypto |-> {"ike_proposal", "ike_policy", "ipsec_proposal", "ipsec_policy", "ipsec_profile"},
     vpn_tunnels |-> {"tunnel_group", "tunnel", "tunnel_termination"},
     vpn_l2vpns |-> {"l2vpn", "l2vpn_termination"},
     wireless_networks |-> {"wireless_lan_group", "wireless_lan", "wireless_link"},
     ipam_registries |-> {"asn_range", "aggregate"},
     ipam_routing |-> {"route_target", "vrf"},
     ipam_vlans |-> {"vlan_group", "vlan", "vlan_translation_policy", "vlan_translation_rule"},
     ipam_prefixes |-> {"prefix", "ip_range"},
     ipam_addresses |-> {"fhrp_group", "ip_address", "fhrp_group_assignment"},
     ipam_services |-> {"service_template", "service"},
     users |-> {"object_permission", "user_group", "user", "owner_group", "owner"},
     data_sources |-> {"data_source"},
     extras_customization |-> {"custom_field_choice_set", "custom_field", "custom_link", "export_template"},
     extras_templates |-> {"config_template"},
     extras_views |-> {"saved_filter", "table_config"},
     extras_automation |-> {"webhook", "notification_group", "event_rule"},
     extras_contexts |-> {"config_context_profile", "config_context"},
     regions |-> {"region"},
     sites |-> {"site"},
     locations |-> {"location"},
     device_catalog |-> {"manufacturer", "device_role", "platform", "device_type"},
     racks |-> {"rack_group", "rack_role", "rack_type", "rack"},
     module_catalog |-> {"module_type_profile", "module_type", "inventory_item_role"},
     component_templates |-> SlotTemplates \cup {"device_bay_template", "inventory_item_template"},
     devices |-> {"virtual_chassis", "device"},
     device_components |-> Ports \cup {"virtual_device_context", "module_bay", "device_bay", "module",
                                       "inventory_item", "mac_address"},
     rack_reservations |-> {"rack_reservation"},
     power |-> {"power_panel", "power_feed"},
     circuit_catalog |-> {"provider", "provider_account", "provider_network", "circuit_type",
                          "virtual_circuit_type", "circuit_group"},
     circuits |-> {"circuit", "circuit_termination"},
     virtual_circuits |-> {"virtual_circuit", "virtual_circuit_termination"},
     circuit_group_assignments |-> {"circuit_group_assignment"},
     cabling |-> {"cable_bundle", "cable"}]

Datasets == DOMAIN KindsOf
AllKinds == UNION {KindsOf[d] : d \in Datasets}

Needs ==
    {<<"references", {"users", "extras_customization"}>>,
     <<"tenancy_contacts", {"references"}>>,
     <<"tenancy_contact_assignments",
       {"tenancy_contacts", "ipam_registries", "ipam_prefixes", "ipam_addresses", "ipam_services", "regions",
        "sites", "locations", "device_catalog", "racks", "devices", "power", "circuit_catalog", "circuits",
        "virtual_circuits", "virtualization_machines", "vpn_tunnels", "vpn_l2vpns"}>>,
     <<"virtualization_clusters", {"locations"}>>,
     <<"virtualization_machines", {"virtualization_clusters", "devices", "extras_templates"}>>,
     <<"virtualization_components", {"virtualization_machines", "ipam_routing", "ipam_vlans"}>>,
     <<"vpn_crypto", {"references"}>>,
     <<"vpn_tunnels", {"vpn_crypto", "ipam_addresses"}>>,
     <<"vpn_l2vpns", {"ipam_routing", "ipam_vlans", "device_components"}>>,
     <<"wireless_networks", {"locations", "ipam_vlans", "device_components"}>>,
     <<"ipam_registries", {"references"}>>,
     <<"ipam_routing", {"references"}>>,
     <<"ipam_vlans", {"locations", "racks", "virtualization_clusters"}>>,
     <<"ipam_prefixes", {"ipam_routing", "ipam_vlans"}>>,
     <<"ipam_addresses", {"ipam_prefixes", "device_components"}>>,
     <<"ipam_services", {"ipam_addresses"}>>,
     <<"data_sources", {"references"}>>,
     <<"extras_customization", {"users"}>>,
     <<"extras_templates", {"references"}>>,
     <<"extras_views", {"references"}>>,
     <<"extras_automation", {"references", "users"}>>,
     <<"extras_contexts", {"locations", "device_catalog", "virtualization_clusters"}>>,
     <<"regions", {"references"}>>,
     <<"sites", {"regions"}>>,
     <<"locations", {"sites"}>>,
     <<"device_catalog", {"references", "extras_templates"}>>,
     <<"racks", {"locations", "device_catalog"}>>,
     <<"module_catalog", {"device_catalog"}>>,
     <<"component_templates", {"module_catalog"}>>,
     <<"devices", {"racks", "component_templates", "virtualization_clusters"}>>,
     <<"device_components", {"devices", "virtualization_components"}>>,
     <<"rack_reservations", {"racks", "users"}>>,
     <<"power", {"racks"}>>,
     <<"circuit_catalog", {"references"}>>,
     <<"circuits", {"locations", "circuit_catalog"}>>,
     <<"virtual_circuits", {"device_components", "circuit_catalog"}>>,
     <<"circuit_group_assignments", {"circuits", "virtual_circuits"}>>,
     <<"cabling", {"device_components", "power", "circuits"}>>}

WithNeeds(known) == known \cup UNION {row[2] : row \in {r \in Needs : r[1] \in known}}

(* ResolveDatasets: the requested datasets and everything they need.  A    *)
(* chain of needs visits every dataset at most once.                       *)
ResolveDatasets(requested) ==
    LET grown[n \in 0..Cardinality(Datasets)] ==
            IF n = 0 THEN requested ELSE WithNeeds(grown[n - 1])
    IN grown[Cardinality(Datasets)]

(* The kinds that a selection of datasets collects. *)
KindsIn(selected) == UNION {KindsOf[d] : d \in selected}

(* The links that exist only when the dataset of their target is selected: *)
(* projectionForDatasets.                                                  *)
IpSelectors == {"primary_ip4", "primary_ip6", "oob_ip"}

(* The datasets such a link asks for. *)
Selectors == {"ipam_addresses", "device_components", "wireless_networks"}

(* Mutant of Projected: every link is sent.                                *)
ProjectedAlways(k, name, selected) == TRUE

Projected(k, name, selected) ==
    /\ (k \in {"device", "virtual_device_context", "virtual_machine"} /\ name \in IpSelectors)
           => "ipam_addresses" \in selected
    /\ (k = "vm_interface" /\ name = "primary_mac_address") => "device_components" \in selected
    /\ (k = "interface" /\ name = "wireless_lan") => "wireless_networks" \in selected

-----------------------------------------------------------------------------
(* relationshipsForProjection, case by case.  resourceKindForObjectType    *)
(* decides which targets of a generic link are portable at all.            *)

ObjectTypes ==
    PortTemplates \cup Ports \cup Scopes \cup
    {"power_feed", "device", "rack_group", "rack", "manufacturer", "power_panel", "tenant", "asn", "aggregate",
     "prefix", "ip_range", "ip_address", "service", "fhrp_group", "vlan", "provider", "provider_account",
     "provider_network", "circuit", "circuit_termination", "virtual_circuit", "cluster_group", "cluster",
     "virtual_machine", "vm_interface", "tunnel_group", "tunnel", "l2vpn", "webhook", "notification_group"}

CollectedExtras ==
    {<<{"owner"}, One("owner_group", {"group"}) \cup EachMany({"user_group", "user"})>>,
     <<{"user_group", "user"}, Many("object_permission", {"permission"})>>,
     <<{"user", "notification_group"}, Many("user_group", {"group"})>>,
     <<{"notification_group"}, EachMany({"user"})>>,
     <<{"data_source", "custom_field_choice_set", "custom_link", "export_template", "custom_field", "saved_filter",
        "config_context_profile", "config_template", "webhook", "config_context", "event_rule"}, Owned>>,
     <<{"custom_field"}, One("custom_field_choice_set", {"choice_set"})>>,
     <<{"saved_filter", "table_config"}, Same({"user"})>>,
     <<{"config_context_profile", "config_template", "webhook", "config_context", "event_rule"}, Tagged>>,
     <<{"config_context"},
       One("config_context_profile", {"profile"}) \cup Many("device_role", {"role"})
       \cup EachMany(Scopes \cup {"device_type", "platform", "tenant_group", "tenant", "cluster_type",
                                   "cluster_group", "cluster"})>>,
     <<{"event_rule"}, Any("action", ObjectTypes)>>}

CollectedTenancy ==
    {<<{"tenant_group", "tenant", "contact_group", "contact_role", "contact", "contact_assignment", "cluster_type",
        "cluster_group", "cluster", "virtual_machine_type", "virtual_machine"}, Tagged>>,
     <<{"tenant_group", "tenant", "contact_group", "contact_role", "contact", "cluster_type", "cluster_group",
        "cluster", "virtual_machine_type", "virtual_machine"}, Owned>>,
     <<{"tenant_group"}, One("tenant_group", {"parent"})>>,
     <<{"tenant"}, One("tenant_group", {"group"})>>,
     <<{"contact_group"}, One("contact_group", {"parent"})>>,
     <<{"contact"}, Many("contact_group", {"group"})>>,
     <<{"contact_assignment"},
       Same({"contact"}) \cup One("contact_role", {"role"}) \cup Any("object", ObjectTypes)>>,
     <<{"cluster"},
       One("cluster_type", {"type"}) \cup One("cluster_group", {"group"}) \cup Same({"tenant"})
       \cup Any("scope", ObjectTypes)>>,
     <<{"virtual_machine_type"}, One("platform", {"default_platform"})>>,
     <<{"virtual_machine"},
       Same({"virtual_machine_type", "site", "cluster", "device", "tenant", "platform", "config_template"})
       \cup One("device_role", {"role"}) \cup One("ip_address", {"primary_ip4", "primary_ip6"})>>}

CollectedVpnWireless ==
    {<<{"vm_interface", "virtual_disk", "ike_proposal", "ipsec_proposal", "ike_policy", "ipsec_policy",
        "ipsec_profile", "tunnel_group", "tunnel", "l2vpn", "wireless_lan_group", "wireless_lan", "wireless_link",
        "tunnel_termination", "l2vpn_termination"}, Tagged>>,
     <<{"vm_interface", "virtual_disk", "ike_proposal", "ipsec_proposal", "ike_policy", "ipsec_policy",
        "ipsec_profile", "tunnel_group", "tunnel", "l2vpn", "wireless_lan_group", "wireless_lan", "wireless_link"},
       Owned>>,
     <<{"vm_interface", "virtual_disk"}, Same({"virtual_machine"})>>,
     <<{"vm_interface"},
       One("vm_interface", {"parent", "bridge"}) \cup One("vlan", {"untagged_vlan", "qinq_svlan"})
       \cup Many("vlan", {"tagged_vlan"}) \cup Same({"vlan_translation_policy", "vrf"})
       \cup One("mac_address", {"primary_mac_address"})>>,
     <<{"ike_policy"}, Many("ike_proposal", {"proposal"})>>,
     <<{"ipsec_policy"}, Many("ipsec_proposal", {"proposal"})>>,
     <<{"ipsec_profile"}, Same({"ike_policy", "ipsec_policy"})>>,
     <<{"tunnel"}, One("tunnel_group", {"group"}) \cup Same({"ipsec_profile", "tenant"})>>,
     <<{"tunnel_termination"},
       Same({"tunnel"}) \cup Any("termination", ObjectTypes) \cup One("ip_address", {"outside_ip"})>>,
     <<{"l2vpn"}, Many("route_target", {"import_target", "export_target"}) \cup Same({"tenant"})>>,
     <<{"l2vpn_termination"}, Same({"l2vpn"}) \cup Any("assigned", ObjectTypes)>>,
     <<{"wireless_lan_group"}, One("wireless_lan_group", {"parent"})>>,
     <<{"wireless_lan"},
       One("wireless_lan_group", {"group"}) \cup Same({"vlan", "tenant"}) \cup Any("scope", ObjectTypes)>>,
     <<{"wireless_link"}, One("interface", {"interface_a", "interface_b"}) \cup Same({"tenant"})>>}

CollectedIpam ==
    {<<{"site_group", "rir", "role", "asn", "asn_range", "route_target", "vrf", "aggregate", "vlan_group", "vlan",
        "prefix", "ip_range", "ip_address", "fhrp_group", "service_template", "service"}, Owned \cup Tagged>>,
     <<{"vlan_translation_policy"}, Owned>>,
     <<{"site_group"}, One("site_group", {"parent"})>>,
     <<{"asn", "asn_range", "aggregate"}, Same({"rir"})>>,
     <<{"asn", "asn_range", "route_target", "vrf", "aggregate", "vlan_group", "vlan", "prefix", "ip_range",
        "ip_address"}, Same({"tenant"})>>,
     <<{"asn", "vlan", "prefix", "ip_range"}, Same({"role"})>>,
     <<{"vrf"}, Many("route_target", {"import_target", "export_target"})>>,
     <<{"vlan_group", "prefix"}, Any("scope", ObjectTypes)>>,
     <<{"vlan"}, Same({"site"}) \cup One("vlan_group", {"group"}) \cup One("vlan", {"qinq_svlan"})>>,
     <<{"vlan_translation_rule"}, One("vlan_translation_policy", {"policy"})>>,
     <<{"prefix", "ip_range", "ip_address"}, Same({"vrf"})>>,
     <<{"prefix"}, Same({"vlan"})>>,
     <<{"ip_address"}, Any("assigned", ObjectTypes) \cup One("ip_address", {"nat_inside"})>>,
     <<{"fhrp_group_assignment"}, One("fhrp_group", {"group"}) \cup Any("interface", ObjectTypes)>>,
     <<{"service"}, Any("parent", ObjectTypes) \cup EachMany({"ip_address"})>>}

CollectedSites ==
    {<<{"region", "site", "location", "manufacturer", "rack_group", "rack_role", "device_role", "platform",
        "device_type", "rack_type", "rack", "module_type_profile", "inventory_item_role", "cable_bundle",
        "module_type"}, Owned \cup Tagged>>,
     <<{"region"}, One("region", {"parent"})>>,
     <<{"site"}, Same({"region", "tenant"}) \cup One("site_group", {"group"}) \cup EachMany({"asn"})>>,
     <<{"location"}, Same({"site", "tenant"}) \cup One("location", {"parent"})>>,
     <<{"device_role"}, One("device_role", {"parent"}) \cup Same({"config_template"})>>,
     <<{"platform"}, One("platform", {"parent"}) \cup Same({"manufacturer", "config_template"})>>,
     <<{"device_type", "rack_type", "module_type"}, Same({"manufacturer"})>>,
     <<{"device_type"}, One("platform", {"default_platform"})>>,
     <<{"rack"},
       Same({"site", "location", "tenant", "rack_type"}) \cup One("rack_group", {"group"})
       \cup One("rack_role", {"role"})>>,
     <<{"module_type"}, One("module_type_profile", {"profile"})>>,
     <<SlotTemplates, Same({"device_type", "module_type"})>>,
     <<{"power_outlet_template"}, One("power_port_template", {"power_port"})>>,
     <<{"interface_template"}, One("interface_template", {"bridge"})>>,
     <<{"front_port_template"}, One("rear_port_template", {"mapping"})>>,
     <<{"device_bay_template", "inventory_item_template"}, Same({"device_type"})>>,
     <<{"inventory_item_template"},
       One("inventory_item_template", {"parent"}) \cup One("inventory_item_role", {"role"})
       \cup Same({"manufacturer"}) \cup Any("component", ObjectTypes)>>}

CollectedDevices ==
    {<<Ports \cup {"virtual_chassis", "device", "virtual_device_context", "module", "module_bay", "device_bay",
                   "inventory_item", "mac_address", "rack_reservation", "power_panel", "power_feed", "cable"},
       Owned \cup Tagged>>,
     <<{"virtual_chassis"}, One("device", {"master"})>>,
     <<{"device"},
       Same({"device_type", "tenant", "platform", "site", "location", "rack", "cluster", "virtual_chassis",
             "config_template"})
       \cup One("device_role", {"role"}) \cup One("ip_address", IpSelectors)>>,
     <<Ports \cup {"virtual_device_context", "module", "module_bay", "device_bay", "inventory_item"},
       Same({"device"})>>,
     <<{"virtual_device_context"}, Same({"tenant"}) \cup One("ip_address", {"primary_ip4", "primary_ip6"})>>,
     <<{"module"}, Same({"module_bay", "module_type"})>>,
     <<Ports \cup {"module_bay"}, Same({"module"})>>,
     <<{"device_bay"}, One("device", {"installed_device"})>>,
     <<{"power_outlet"}, Same({"power_port"})>>,
     <<{"interface"},
       One("interface", {"parent", "bridge", "lag"}) \cup One("vlan", {"untagged_vlan", "qinq_svlan"})
       \cup Many("vlan", {"tagged_vlan"}) \cup Same({"vlan_translation_policy", "vrf"})
       \cup One("mac_address", {"primary_mac_address"}) \cup Many("virtual_device_context", {"vdc"})
       \cup EachMany({"wireless_lan"})>>,
     <<{"front_port"}, One("rear_port", {"mapping"})>>,
     <<{"inventory_item"},
       One("inventory_item", {"parent"}) \cup One("inventory_item_role", {"role"}) \cup Same({"manufacturer"})
       \cup Any("component", ObjectTypes)>>,
     <<{"mac_address"}, Any("assigned", ObjectTypes)>>,
     <<{"rack_reservation"}, Same({"rack", "user", "tenant"})>>,
     <<{"power_panel"}, Same({"site", "location"})>>,
     <<{"power_feed"}, Same({"power_panel", "rack", "tenant"})>>,
     <<{"cable"},
       Same({"tenant"}) \cup One("cable_bundle", {"bundle"})
       \cup {<<side, t, TRUE>> : side \in {"termination_a", "termination_b"}, t \in ObjectTypes}>>}

CollectedCircuits ==
    {<<{"provider", "provider_account", "provider_network", "circuit_type", "virtual_circuit_type", "circuit_group",
        "circuit", "virtual_circuit"}, Owned \cup Tagged>>,
     <<{"circuit_termination", "virtual_circuit_termination", "circuit_group_assignment"}, Tagged>>,
     <<{"provider"}, EachMany({"asn"})>>,
     <<{"provider_account", "provider_network", "circuit"}, Same({"provider"})>>,
     <<{"circuit_group", "circuit", "virtual_circuit"}, Same({"tenant"})>>,
     <<{"circuit", "virtual_circuit"}, Same({"provider_account"})>>,
     <<{"circuit"}, One("circuit_type", {"type"})>>,
     <<{"circuit_termination"}, Same({"circuit"}) \cup Any("termination", ObjectTypes)>>,
     <<{"virtual_circuit"}, Same({"provider_network"}) \cup One("virtual_circuit_type", {"type"})>>,
     <<{"virtual_circuit_termination"}, Same({"virtual_circuit", "interface"})>>,
     <<{"circuit_group_assignment"}, One("circuit_group", {"group"}) \cup Any("member", ObjectTypes)>>}

CollectorTable ==
    [k \in AllKinds |->
        In(CollectedExtras \cup CollectedTenancy \cup CollectedVpnWireless \cup CollectedIpam \cup CollectedSites
           \cup CollectedDevices \cup CollectedCircuits, k)]

(* What the collector reports of an object's links under a selection of    *)
(* datasets.                                                               *)
Collected(k, selected) == {x \in CollectorTable[k] : Projected(k, x[1], selected)}
=============================================================================
