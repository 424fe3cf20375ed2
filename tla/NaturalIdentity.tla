-------------------------- MODULE NaturalIdentity --------------------------
(***************************************************************************)
(* natural_identity of planning/comparison.py: the portable name of an     *)
(* object, made of some of its attributes and of the identities of some of *)
(* the objects it points at.  Primary keys of either NetBox play no part,  *)
(* so two installations agree on an object only through this function.     *)
(*                                                                         *)
(* An object is abstracted to the set attrs of the attribute names it has  *)
(* a value for and the set of its links <<name, target kind>>; a generic   *)
(* link has its prefix for a name, and "target_type" in attrs stands for   *)
(* its content-type attribute (/scope_type, /assigned_object_type, ...).   *)
(*                                                                         *)
(* A kind has one or more rules, tried in order; the first whose "when"    *)
(* names are all there decides:                                            *)
(*   needs  names that must be there (required_attribute and               *)
(*          required_relationship raise without them);                     *)
(*   may    names that take part when they are there;                      *)
(*   one    link names of which there must be exactly one link;            *)
(*   typed  prefixes with exactly one link when the type attribute is set. *)
(* Sorting, letter case and the JSON text are left out.                    *)
(***************************************************************************)
EXTENDS Naturals, FiniteSets, Sequences

LOCAL Rule(when, needs, may) == [when |-> when, needs |-> needs, may |-> may, one |-> {}, typed |-> {}]
LOCAL One(names, needs) == [when |-> {}, needs |-> needs, may |-> {}, one |-> names, typed |-> {}]
LOCAL Typed(prefix, needs, may) == [when |-> {}, needs |-> needs, may |-> may, one |-> {}, typed |-> {prefix}]
LOCAL Just(needs, may) == <<Rule({}, needs, may)>>

OrganizationRules ==
    {<<{"region", "site_group", "tenant_group", "device_role", "contact_group", "wireless_lan_group"},
       Just({"slug"}, {"parent"})>>,
     <<{"tenant"}, Just({"slug"}, {"group"})>>,
     <<{"tag", "rir", "site", "manufacturer", "rack_group", "rack_role", "saved_filter"}, Just({"slug"}, {})>>,
     <<{"owner_group", "owner", "object_permission", "user_group", "data_source", "custom_field_choice_set",
        "custom_field", "custom_link", "export_template", "config_context_profile", "config_context",
        "config_template", "webhook", "notification_group"}, Just({"name"}, {})>>,
     <<{"table_config"}, Just({"object_type", "table", "name"}, {"user"})>>,
     <<{"event_rule"}, <<One({"action"}, {"action_type", "name"})>>>>,
     <<{"user"}, Just({"username"}, {})>>,
     <<{"asn"}, Just({"asn"}, {})>>,
     <<{"role", "asn_range", "contact_role", "cluster_type", "cluster_group", "virtual_machine_type"},
       Just({"slug"}, {})>>}

VirtualizationRules ==
    {<<{"contact"}, Just({"name"}, {})>>,
     <<{"contact_assignment"}, <<One({"object"}, {"contact", "role"})>>>>,
     <<{"cluster"}, <<Typed("scope", {"name"}, {"group", "scope"})>>>>,
     <<{"virtual_machine"},
       <<Rule({"cluster"}, {"cluster", "name"}, {"tenant"}),
         Rule({"device"}, {"device", "name"}, {"tenant"}),
         Rule({"site"}, {"site", "name"}, {"tenant"})>>>>,
     <<{"vm_interface", "virtual_disk"}, Just({"virtual_machine", "name"}, {})>>}

VpnWirelessRules ==
    {<<{"ike_proposal", "ike_policy", "ipsec_proposal", "ipsec_policy", "ipsec_profile", "tunnel"},
       Just({"name"}, {})>>,
     <<{"tunnel_group", "l2vpn"}, Just({"slug"}, {})>>,
     <<{"tunnel_termination"}, <<One({"termination"}, {})>>>>,
     <<{"l2vpn_termination"}, <<One({"assigned"}, {})>>>>,
     <<{"wireless_lan"}, <<Typed("scope", {"ssid"}, {"group", "scope", "tenant", "vlan"})>>>>,
     <<{"wireless_link"}, Just({"interface_a", "interface_b"}, {})>>}

IpamRules ==
    {<<{"route_target", "vlan_translation_policy", "service_template"}, Just({"name"}, {})>>,
     <<{"vrf"}, <<Rule({"rd"}, {"rd"}, {}), Rule({}, {"name"}, {"tenant"})>>>>,
     <<{"aggregate"}, Just({"prefix"}, {})>>,
     <<{"vlan_group"}, <<Typed("scope", {"slug"}, {"scope"})>>>>,
     <<{"vlan"},
       <<Rule({"group"}, {"group", "vid", "name"}, {}),
         Rule({"site"}, {"site", "vid", "name"}, {}),
         Rule({}, {"vid", "name"}, {})>>>>,
     <<{"vlan_translation_rule"}, Just({"policy", "local_vid"}, {})>>,
     <<{"prefix"}, <<Typed("scope", {"prefix"}, {"vrf"})>>>>,
     <<{"ip_range"}, Just({"start_address", "end_address"}, {"vrf"})>>,
     <<{"ip_address"}, <<Typed("assigned", {"address"}, {"vrf", "role", "assigned"})>>>>,
     <<{"fhrp_group"}, Just({"protocol", "group_id"}, {"name"})>>,
     <<{"fhrp_group_assignment"}, <<One({"interface"}, {"group"})>>>>,
     <<{"service"}, <<One({"parent"}, {"name", "protocol", "ports"})>>>>}

DcimRules ==
    {<<{"location"}, Just({"site", "slug"}, {"parent"})>>,
     <<{"platform"}, Just({"slug"}, {"manufacturer"})>>,
     <<{"device_type", "rack_type", "module_type"}, Just({"manufacturer", "model"}, {})>>,
     <<{"rack"}, Just({"site", "name"}, {"location"})>>,
     <<{"module_type_profile", "virtual_chassis", "cable_bundle"}, Just({"name"}, {})>>,
     <<{"inventory_item_role"}, Just({"slug"}, {})>>,
     <<{"console_port_template", "console_server_port_template", "power_port_template", "power_outlet_template",
        "interface_template", "front_port_template", "rear_port_template", "module_bay_template"},
       <<One({"device_type", "module_type"}, {"name"})>>>>,
     <<{"device_bay_template"}, Just({"device_type", "name"}, {})>>,
     <<{"inventory_item_template"}, Just({"device_type", "name"}, {"parent"})>>,
     <<{"device"},
       <<Rule({"name"}, {"site", "name"}, {"tenant"}),
         Rule({"asset_tag"}, {"asset_tag"}, {}),
         Rule({"virtual_chassis", "vc_position"}, {"virtual_chassis", "vc_position"}, {}),
         Rule({"rack", "position", "face"}, {"rack", "position", "face"}, {})>>>>,
     <<{"virtual_device_context", "device_bay", "console_port", "console_server_port", "power_port",
        "power_outlet", "interface", "front_port", "rear_port"}, Just({"device", "name"}, {})>>,
     <<{"module"}, Just({"module_bay"}, {})>>,
     <<{"module_bay"}, Just({"device", "name"}, {"module"})>>,
     <<{"inventory_item"}, Just({"device", "name"}, {"parent"})>>,
     <<{"mac_address"}, <<Typed("assigned", {"mac_address"}, {"assigned"})>>>>,
     <<{"rack_reservation"}, Just({"rack", "units", "user"}, {})>>,
     <<{"power_panel"}, Just({"site", "name"}, {})>>,
     <<{"power_feed"}, Just({"power_panel", "name"}, {})>>}

CircuitRules ==
    {<<{"provider", "circuit_type", "virtual_circuit_type", "circuit_group"}, Just({"slug"}, {})>>,
     <<{"provider_account"}, Just({"provider", "account"}, {})>>,
     <<{"provider_network"}, Just({"provider", "name"}, {})>>,
     <<{"circuit"}, Just({"provider", "cid"}, {})>>,
     <<{"circuit_termination"}, Just({"circuit", "term_side"}, {})>>,
     <<{"virtual_circuit"}, Just({"provider_network", "cid"}, {})>>,
     <<{"virtual_circuit_termination"}, Just({"interface"}, {})>>,
     <<{"circuit_group_assignment"}, <<One({"member"}, {"group"})>>>>,
     <<{"cable"},
       <<Rule({"termination_a"}, {}, {"termination_a", "termination_b"}),
         Rule({"termination_b"}, {}, {"termination_b"})>>>>}

IdentityRules ==
    OrganizationRules \cup VirtualizationRules \cup VpnWirelessRules \cup IpamRules \cup DcimRules \cup CircuitRules

RuledKinds == UNION {row[1] : row \in IdentityRules}
RuleTable == [k \in RuledKinds |-> (CHOOSE row \in IdentityRules : k \in row[1])[2]]

NoIdentity == {<<"no identity", "">>}

(* The identity of an object: which of its names take part in it, and the  *)
(* kind each link points at; NoIdentity where the code raises ValueError.  *)
Identity(k, attrs, links) ==
    LET present == attrs \cup {x[1] : x \in links}
        linked(names) == {x \in links : x[1] \in names}
        rules == RuleTable[k]
        first == {i \in DOMAIN rules :
                    /\ rules[i].when \subseteq present
                    /\ \A j \in 1..(i - 1) : ~(rules[j].when \subseteq present)}
        complete(r) ==
            /\ r.needs \subseteq present
            /\ r.one # {} => Cardinality(linked(r.one)) = 1
            /\ (r.typed # {} /\ "target_type" \in attrs) => Cardinality(linked(r.typed)) = 1
        used(r) == r.needs \cup r.may \cup r.one
    IN IF \E i \in first : complete(rules[i])
       THEN LET r == rules[CHOOSE i \in first : TRUE]
            IN {<<n, "">> : n \in attrs \cap used(r)} \cup linked(used(r))
       ELSE NoIdentity
=============================================================================
