----------------------------- MODULE Matching ------------------------------
(***************************************************************************)
(* Is an object recognised?  The Go collector reads an object of one       *)
(* NetBox and sends its attributes and links; planning/service.py turns    *)
(* them into a canonical record; planning/netbox_target.py makes records   *)
(* of the objects of the local NetBox; the two are matched by natural      *)
(* identity and then compared link by link.  When the local NetBox holds   *)
(* an exact replica of the collected object, every disagreement between    *)
(* the two languages, or between the four tables they use, shows up as a   *)
(* bogus create, update, conflict or skip.                                 *)
(*                                                                         *)
(* A behaviour follows one object: it is collected under some selection of *)
(* datasets, resolved into a source record, and its replica is loaded.     *)
(* Custom fields are left out; attribute values are equal by assumption.   *)
(***************************************************************************)
EXTENDS ResourceRegistry, NaturalIdentity

CONSTANTS Kinds,        \* the kinds of object followed
          Requests      \* what a command may name: sets of datasets

ASSUME KindsAssumption == Kinds \subseteq AllKinds
ASSUME RequestsAssumption == Requests \subseteq SUBSET Datasets

VARIABLES selected, object, source, local, reference

vars == <<selected, object, source, local, reference>>

-----------------------------------------------------------------------------
(* What NetBox lets an object be: names that may be missing, and the       *)
(* targets of its generic links.                                           *)

OptionalNames ==
    {<<{"region", "site_group", "tenant_group", "device_role", "contact_group", "wireless_lan_group", "location",
        "inventory_item", "inventory_item_template"}, {"parent"}>>,
     <<{"tenant", "cluster", "wireless_lan", "vlan"}, {"group"}>>,
     <<{"vrf", "wireless_lan", "virtual_machine", "device"}, {"tenant"}>>,
     <<{"virtual_machine", "vlan"}, {"site"}>>,
     <<{"virtual_machine"}, {"cluster", "device"}>>,
     <<{"device"}, {"name", "asset_tag", "virtual_chassis", "vc_position", "rack", "position", "face"}>>,
     <<{"vrf"}, {"rd"}>>,
     <<{"prefix", "ip_range", "ip_address"}, {"vrf"}>>,
     <<{"ip_address"}, {"role"}>>,
     <<{"fhrp_group"}, {"name"}>>,
     <<{"platform"}, {"manufacturer"}>>,
     <<{"rack"}, {"location"}>>,
     <<{"wireless_lan"}, {"vlan"}>>,
     <<{"module_bay"}, {"module"}>>,
     <<SlotTemplates, {"device_type", "module_type"}>>,
     <<{"table_config", "saved_filter"}, {"user"}>>}

(* <<kinds, prefix, targets, whether there must be one>>.  "elsewhere" is  *)
(* a model outside the provider graph (a script, another plugin's model).  *)
GenericLinks ==
    {<<{"contact_assignment"}, "object", ContactTargets \cup {"elsewhere"}, TRUE>>,
     <<{"event_rule"}, "action", {"webhook", "notification_group", "elsewhere"}, TRUE>>,
     <<{"cluster", "wireless_lan", "prefix"}, "scope", Scopes, FALSE>>,
     <<{"vlan_group"}, "scope", VlanScopes, FALSE>>,
     <<{"ip_address"}, "assigned", Ends \cup {"fhrp_group"}, FALSE>>,
     <<{"mac_address"}, "assigned", Ends, FALSE>>,
     <<{"l2vpn_termination"}, "assigned", Ends \cup {"vlan"}, TRUE>>,
     <<{"tunnel_termination"}, "termination", Ends, TRUE>>,
     <<{"circuit_termination"}, "termination", Scopes \cup {"provider_network"}, FALSE>>,
     <<{"fhrp_group_assignment"}, "interface", Ends, TRUE>>,
     <<{"service"}, "parent", {"device", "virtual_machine", "fhrp_group"}, TRUE>>,
     <<{"circuit_group_assignment"}, "member", {"circuit", "virtual_circuit"}, TRUE>>,
     <<{"inventory_item"}, "component", Ports, FALSE>>,
     <<{"inventory_item_template"}, "component", PortTemplates, FALSE>>,
     <<{"cable"}, "termination_a", Ports \cup {"power_feed", "circuit_termination"}, FALSE>>,
     <<{"cable"}, "termination_b", Ports \cup {"power_feed", "circuit_termination"}, FALSE>>}

GenericsOf(k) == {row \in GenericLinks : k \in row[1]}

(* Which of the optional names go together.                                *)
Allowed(k, names) ==
    /\ k = "device" => /\ ("virtual_chassis" \in names) = ("vc_position" \in names)
                       /\ "position" \in names => "face" \in names
                       /\ "face" \in names => "rack" \in names
    /\ k = "virtual_machine" => names \cap {"site", "cluster", "device"} # {}
    /\ k \in SlotTemplates => Cardinality(names \cap {"device_type", "module_type"}) = 1

GenericChoices(k) ==
    LET rows == GenericsOf(k)
        choices == [{row[2] : row \in rows} -> UNION {row[3] : row \in rows} \cup {"none"}]
    IN {f \in choices : \A row \in rows : f[row[2]] \in row[3] \cup (IF row[4] THEN {} ELSE {"none"})}

NamesOf(rules) == UNION {rules[i].needs \cup rules[i].may \cup rules[i].when : i \in DOMAIN rules}

(* The objects of a kind.  Names that play no part in an identity are      *)
(* always there.                                                           *)
Objects(k) ==
    LET optional == In(OptionalNames, k)
        prefixes == {row[2] : row \in GenericsOf(k)}
        plain == {x \in {<<y[1], y[2]>> : y \in CollectorTable[k]} \cup KnownTable[k] : x[1] \notin prefixes}
        attributes == NamesOf(RuleTable[k]) \ ({x[1] : x \in plain} \cup prefixes)
        generic(f) == {<<p, f[p]>> : p \in {q \in prefixes : f[q] # "none"}}
    IN {[attrs |-> {a \in attributes : a \in optional => a \in names}
                   \cup (IF generic(f) # {} THEN {"target_type"} ELSE {}),
         links |-> {x \in plain : x[1] \in optional => x[1] \in names} \cup generic(f)]
          : names \in {n \in SUBSET optional : Allowed(k, n)}, f \in GenericChoices(k)}

ObjectTable == [k \in Kinds |-> Objects(k)]

-----------------------------------------------------------------------------
(* The source record: what the agent sends of the object and what          *)
(* _load_source_records makes of it.  Its identity is computed from the    *)
(* identity relationships alone.                                           *)

NoRecord(why) == [status |-> why, identity |-> NoIdentity, links |-> {}]

Sent(k, o, datasets) == {x \in Collected(k, datasets) : <<x[1], x[2]>> \in o.links}

SourceRecord(k, o, datasets) ==
    LET sent == Sent(k, o, datasets)
        identity == Identity(k, o.attrs, {<<x[1], x[2]>> : x \in {y \in sent : IsIdentity(k, y[1])}})
    IN IF identity = NoIdentity \/ \E x \in sent : x[3] /\ ~IsMulti(k, x[1])
       THEN NoRecord("skipped")
       ELSE [status |-> "record", identity |-> identity,
             links |-> {<<x[1], x[2], IsMulti(k, x[1])>> : x \in sent}]

-----------------------------------------------------------------------------
(* The local record: netbox_target.py.                                     *)

(* Mutant of Includes: the loader does not know of the selection.          *)
IncludesAlways(k, name, datasets) == TRUE

(* TargetProjection.includes_relationship and for_datasets.                *)
Includes(k, name, datasets) ==
    /\ (k \in {"device", "virtual_device_context", "virtual_machine"}
        /\ name \in {"primary_ip4", "primary_ip6", "oob_ip"}) => "ipam_addresses" \in datasets
    /\ (k = "vm_interface" /\ name = "primary_mac_address") => "device_components" \in datasets

(* _queryset: an object with a generic link is left out when the target is *)
(* of no supported model.                                                  *)
Supported ==
    {<<{"event_rule"}, "action", {"webhook", "notification_group"}>>,
     <<{"vlan_group"}, "scope", {"region", "site_group", "site", "location", "rack_group", "rack", "cluster_group",
                                 "cluster"}>>,
     <<{"prefix", "cluster", "wireless_lan"}, "scope", {"region", "site_group", "site", "location"}>>,
     <<{"ip_address"}, "assigned", {"interface", "vm_interface", "fhrp_group"}>>,
     <<{"fhrp_group_assignment"}, "interface", {"interface", "vm_interface"}>>,
     <<{"service"}, "parent", {"device", "virtual_machine", "fhrp_group"}>>,
     <<{"mac_address"}, "assigned", {"interface", "vm_interface"}>>,
     <<{"tunnel_termination"}, "termination", {"interface", "vm_interface"}>>,
     <<{"l2vpn_termination"}, "assigned", {"interface", "vm_interface", "vlan"}>>,
     <<{"contact_assignment"}, "object", ContactTargets>>}

InQueryset(k, o) ==
    \A row \in {r \in Supported : k \in r[1]} : \A x \in o.links : x[1] = row[2] => x[2] \in row[3]

(* _attributes: the content type of a generic link is kept for these.      *)
TypedKinds ==
    {"vlan_group", "prefix", "ip_address", "fhrp_group_assignment", "service", "contact_assignment", "cluster",
     "wireless_lan", "tunnel_termination", "l2vpn_termination", "inventory_item", "inventory_item_template",
     "mac_address"}

Attributes(k, o) == {a \in o.attrs : a = "target_type" => k \in TypedKinds}

(* _relationships, the cases after RELATIONSHIP_FIELDS and the tags.       *)
LoadedLists ==
    {<<{"owner"}, EachMany({"user_group", "user"})>>,
     <<{"user_group", "user"}, Many("object_permission", {"permission"})>>,
     <<{"user", "notification_group"}, Many("user_group", {"group"})>>,
     <<{"notification_group"}, EachMany({"user"})>>,
     <<{"config_context"}, ContextScopes>>,
     <<{"contact"}, Many("contact_group", {"group"})>>,
     <<{"vm_interface", "interface"}, Many("vlan", {"tagged_vlan"})>>,
     <<{"ike_policy"}, Many("ike_proposal", {"proposal"})>>,
     <<{"ipsec_policy"}, Many("ipsec_proposal", {"proposal"})>>,
     <<{"l2vpn", "vrf"}, Many("route_target", {"import_target", "export_target"})>>,
     <<{"service"}, EachMany({"ip_address"})>>,
     <<{"site", "provider"}, EachMany({"asn"})>>,
     <<{"interface"}, Many("virtual_device_context", {"vdc"}) \cup EachMany({"wireless_lan"})>>}

LoadedGenerics ==
    {<<{"contact_assignment"}, Any("object", ContactTargets)>>,
     <<{"cluster", "wireless_lan"}, Any("scope", Scopes)>>,
     <<{"vlan_group", "prefix"}, Any("scope", AllKinds)>>,
     <<{"tunnel_termination"}, Any("termination", Ends)>>,
     <<{"l2vpn_termination"}, Any("assigned", Ends \cup {"vlan"})>>,
     <<{"ip_address"}, Any("assigned", Ends \cup {"fhrp_group"})>>,
     <<{"fhrp_group_assignment"}, Any("interface", Ends)>>,
     <<{"service"}, Any("parent", {"device", "virtual_machine", "fhrp_group"})>>,
     <<{"event_rule"}, Any("action", {"webhook", "notification_group"})>>,
     <<{"front_port"}, Any("mapping", {"rear_port"})>>,
     <<{"front_port_template"}, Any("mapping", {"rear_port_template"})>>,
     <<{"inventory_item", "inventory_item_template"}, Any("component", AllKinds)>>,
     <<{"mac_address"}, Any("assigned", Ends)>>,
     <<{"circuit_termination"}, Any("termination", AllKinds)>>,
     <<{"circuit_group_assignment"}, Any("member", AllKinds)>>,
     <<{"cable"}, {<<side, t, TRUE>> : side \in CableSides, t \in AllKinds}>>}

LoaderTable ==
    [k \in AllKinds |->
        In(RelationshipFields \cup {<<TaggedKinds, EachMany({"tag"})>>} \cup LoadedLists \cup LoadedGenerics, k)]

Relationships(k, o, datasets) ==
    {x \in LoaderTable[k] :
       /\ <<x[1], x[2]>> \in o.links
       /\ Includes(k, x[1], datasets)
       /\ (k = "interface" /\ x[1] = "wireless_lan") => "wireless_networks" \in datasets}

(* Mutant of LocalRecord: an object without identity is kept.              *)
LocalRecordAnyway(k, o, datasets) ==
    LET links == Relationships(k, o, datasets)
        identity == Identity(k, Attributes(k, o), {<<x[1], x[2]>> : x \in links})
    IN IF ~InQueryset(k, o) THEN NoRecord("left out")
       ELSE [status |-> IF identity = NoIdentity THEN "crashed" ELSE "record", identity |-> identity,
             links |-> links]

(* _records: an object without identity raises out of the whole            *)
(* comparison.                                                             *)
LocalRecord(k, o, datasets) ==
    LET links == Relationships(k, o, datasets)
        identity == Identity(k, Attributes(k, o), {<<x[1], x[2]>> : x \in links})
    IN IF ~InQueryset(k, o) THEN NoRecord("left out")
       ELSE IF identity = NoIdentity THEN NoRecord("crashed")
       ELSE [status |-> "record", identity |-> identity, links |-> links]

-----------------------------------------------------------------------------
(* _target_identity: how a record names an object it points at.  It reads  *)
(* its own list of names of the object, kind by kind.                      *)

ReferenceNames ==
    {<<{"tag", "tenant_group", "tenant", "contact_group", "contact_role", "cluster_type", "cluster_group",
        "virtual_machine_type", "site_group", "rir", "region", "site", "location", "manufacturer", "device_role",
        "platform", "rack_group", "rack_role", "role", "asn_range", "saved_filter"}, {"slug"}>>,
     <<{"owner_group", "owner", "object_permission", "user_group", "data_source", "custom_field_choice_set",
        "custom_field", "custom_link", "export_template", "config_context_profile", "config_context",
        "config_template", "webhook", "notification_group", "event_rule", "route_target",
        "vlan_translation_policy", "service_template", "contact", "ike_proposal", "ike_policy", "ipsec_proposal",
        "ipsec_policy", "ipsec_profile", "tunnel"}, {"name"}>>,
     <<{"table_config"}, {"object_type", "table", "name", "user"}>>,
     <<{"user"}, {"username"}>>,
     <<{"asn"}, {"asn"}>>,
     <<{"vrf"}, {"name", "rd", "tenant"}>>,
     <<{"aggregate"}, {"prefix"}>>,
     <<{"vlan_group"}, {"slug", "scope"}>>,
     <<{"vlan"}, {"vid", "name", "group", "site"}>>,
     <<{"vlan_translation_rule"}, {"local_vid", "policy"}>>,
     <<{"prefix"}, {"prefix", "vrf"}>>}

ReferenceNamesMiddle ==
    {<<{"ip_range"}, {"start_address", "end_address", "vrf"}>>,
     <<{"ip_address"}, {"address", "role", "vrf", "assigned"}>>,
     <<{"fhrp_group"}, {"protocol", "group_id", "name"}>>,
     <<{"fhrp_group_assignment"}, {"group", "interface"}>>,
     <<{"service"}, {"name", "protocol", "ports", "parent"}>>,
     <<{"contact_assignment"}, {"contact", "role", "object"}>>,
     <<{"cluster"}, {"name", "group", "scope"}>>,
     <<{"virtual_machine"}, {"name", "site", "cluster", "device", "tenant"}>>,
     <<{"vm_interface", "virtual_disk"}, {"name", "virtual_machine"}>>,
     <<{"tunnel_group", "l2vpn"}, {"slug"}>>,
     <<{"wireless_lan_group"}, {"slug", "parent"}>>,
     <<{"wireless_link"}, {"interface_a", "interface_b"}>>,
     <<{"tunnel_termination"}, {"termination"}>>,
     <<{"l2vpn_termination"}, {"assigned"}>>,
     <<{"wireless_lan"}, {"ssid", "group", "tenant", "vlan", "scope"}>>}

ReferenceNamesDcim ==
    {<<{"region", "site_group", "tenant_group", "device_role", "contact_group"}, {"parent"}>>,
     <<{"tenant"}, {"group"}>>,
     <<{"location"}, {"site", "parent"}>>,
     <<{"platform"}, {"manufacturer"}>>,
     <<{"device_type", "rack_type", "module_type"}, {"model", "manufacturer"}>>,
     <<{"rack"}, {"name", "site", "location"}>>,
     <<{"module_type_profile", "virtual_chassis", "cable_bundle"}, {"name"}>>,
     <<{"inventory_item_role"}, {"slug"}>>,
     <<SlotTemplates, {"name", "device_type", "module_type"}>>,
     <<{"device_bay_template"}, {"name", "device_type"}>>,
     <<{"inventory_item_template"}, {"name", "device_type", "parent"}>>,
     <<{"device"}, {"name", "asset_tag", "vc_position", "position", "face", "site", "tenant", "virtual_chassis",
                    "rack"}>>,
     <<{"virtual_device_context"}, {"name", "device"}>>,
     <<{"module"}, {"module_bay"}>>,
     <<{"module_bay"}, {"name", "device", "module"}>>,
     <<Ports \cup {"device_bay"}, {"name", "device"}>>,
     <<{"inventory_item"}, {"name", "device", "parent"}>>,
     <<{"mac_address"}, {"mac_address", "assigned"}>>,
     <<{"rack_reservation"}, {"units", "rack", "user"}>>,
     <<{"power_panel"}, {"name", "site"}>>,
     <<{"power_feed"}, {"name", "power_panel"}>>,
     <<{"provider", "circuit_type", "virtual_circuit_type", "circuit_group"}, {"slug"}>>,
     <<{"provider_account"}, {"account", "provider"}>>,
     <<{"provider_network"}, {"name", "provider"}>>,
     <<{"circuit"}, {"cid", "provider"}>>,
     <<{"circuit_termination"}, {"term_side", "circuit", "termination"}>>,
     <<{"virtual_circuit"}, {"cid", "provider_network"}>>,
     <<{"virtual_circuit_termination"}, {"virtual_circuit", "interface"}>>,
     <<{"circuit_group_assignment"}, {"group", "member"}>>,
     <<{"cable"}, CableSides>>}

(* Mutant of ReferenceTable: nothing is named under its parent.            *)
ReferenceTableFlat ==
    [k \in AllKinds |-> In(ReferenceNames \cup ReferenceNamesMiddle \cup ReferenceNamesDcim, k) \ {"parent"}]

ReferenceTable ==
    [k \in AllKinds |-> In(ReferenceNames \cup ReferenceNamesMiddle \cup ReferenceNamesDcim, k)]

(* A vlan's site is read only when it has no group; the type attribute is  *)
(* set together with the generic link.                                     *)
Reference(k, o) ==
    LET read == ReferenceTable[k] \ (IF k = "vlan" /\ \E x \in o.links : x[1] = "group" THEN {"site"} ELSE {})
        links == {x \in o.links : x[1] \in read}
        typed == \E row \in GenericsOf(k) : \E x \in links : x[1] = row[2]
    IN Identity(k, {a \in o.attrs : IF a = "target_type" THEN typed ELSE a \in read}, links)

-----------------------------------------------------------------------------
(* Links that an apply writes in a second pass, once both ends exist       *)
(* (_deferred_relationship); the others order the writes.                  *)

DeferredAddresses(k, name) == k \in {"device", "virtual_device_context", "virtual_machine"} /\ name \in IpSelectors

(* Mutant of Deferred: a chassis needs its master first.                   *)
DeferredButMaster(k, name) ==
    DeferredAddresses(k, name) \/ (k \in Ends /\ name = "primary_mac_address") \/ name = "mapping"

Deferred(k, name) ==
    \/ k = "virtual_chassis" /\ name = "master"
    \/ k \in Ends /\ name = "primary_mac_address"
    \/ DeferredAddresses(k, name)
    \/ name = "mapping"

DependencyTable == [k \in AllKinds |-> {x[2] : x \in {y \in KnownTable[k] : ~Deferred(k, y[1])}}]

(* The kinds that must be written before an object of a kind, directly or  *)
(* not.                                                                    *)
BeforeTable ==
    [k \in AllKinds |->
        LET grown[n \in 0..Cardinality(AllKinds)] ==
                IF n = 0 THEN DependencyTable[k]
                ELSE LET known == grown[n - 1] IN known \cup UNION {DependencyTable[j] : j \in known}
        IN grown[Cardinality(AllKinds)]]

-----------------------------------------------------------------------------
NoObject == [kind |-> "none", attrs |-> {}, links |-> {}]

(* The selections of datasets a command can have: what it names, closed    *)
(* under the manifest's needs.                                             *)
Selections == {ResolveDatasets(named) : named \in Requests}

Init ==
    /\ selected \in Selections
    /\ object = NoObject
    /\ source = NoRecord("pending")
    /\ local = NoRecord("pending")
    /\ reference = NoIdentity

(* The agent collects an object and the plugin stores and resolves it.     *)
Collect(k) ==
    /\ object = NoObject
    /\ k \in KindsIn(selected)
    /\ \E o \in ObjectTable[k] :
          /\ object' = [kind |-> k, attrs |-> o.attrs, links |-> o.links]
          /\ source' = SourceRecord(k, o, selected)
    /\ UNCHANGED <<selected, local, reference>>

(* The comparison loads the replica, and names it as any record would that *)
(* points at it.                                                           *)
Compare ==
    /\ object # NoObject
    /\ local.status = "pending"
    /\ local' = LocalRecord(object.kind, object, selected)
    /\ reference' = Reference(object.kind, object)
    /\ UNCHANGED <<selected, object, source>>

Next == (\E k \in Kinds : Collect(k)) \/ Compare

Spec == Init /\ [][Next]_vars

-----------------------------------------------------------------------------
(* The record statuses, the identities and the payloads are of their types.*)
TypeOK ==
    /\ selected \subseteq Datasets
    /\ object = NoObject \/ object.kind \in Kinds
    /\ source.status \in {"pending", "record", "skipped"}
    /\ local.status \in {"pending", "record", "left out", "crashed"}
    /\ \A r \in {source, local} : r.status # "record" => r.identity = NoIdentity /\ r.links = {}

(* An object of a replicated NetBox is matched with its own replica: the   *)
(* identity that service.py computes from what the Go collector sent is    *)
(* the one that netbox_target.py computes from the object itself, and one  *)
(* side has no record of it exactly when the other has none.               *)
Matched(s, l) == (s.status = "record" <=> l.status = "record") /\ s.identity = l.identity

MatchesItself == local.status # "pending" => Matched(source, local)

(* Whoever points at an object names it by the identity of its own record: *)
(* _target_identity and _records agree for every kind that is the target   *)
(* of a link.  Otherwise every referrer of the object would be updated.    *)
NamedAlike(k, l, name) ==
    (l.status = "record" /\ \E j \in AllKinds : \E x \in KnownTable[j] : x[2] = k) => name = l.identity

ReferenceAgrees == NamedAlike(object.kind, local, reference)

(* Comparing an object with its replica shows no difference in any link,   *)
(* in name, target or cardinality, whichever datasets were selected: the   *)
(* collector's projection and the loader's leave out the same links.       *)
LinkedAlike(s, l) == (s.status = "record" /\ l.status = "record") => s.links = l.links

UnchangedShowsNoChange == LinkedAlike(source, local)

(* A collected link never dangles: its target is of a kind that the        *)
(* selection collects, so that the target can be resolved, and the plugin  *)
(* knows the link, so that an apply can write it.                          *)
Resolves(k, s, datasets) ==
    \A x \in s.links : x[2] \in KindsIn(datasets) /\ <<x[1], x[2]>> \in KnownTable[k]

EveryLinkResolves == Resolves(object.kind, source, selected)

(* The links that an apply follows before it writes an object never lead   *)
(* from one kind back to it through another kind, so that dependency_order *)
(* finds a cycle only along a hierarchy (a parent, a bridge, a NAT address *)
(* of the same kind), or along bays nested in modules.                     *)
Layered(k, s) ==
    \A x \in {y \in s.links : ~Deferred(k, y[1])} :
        \/ x[2] = k
        \/ {x[2], k} = {"module", "module_bay"}
        \/ k \notin BeforeTable[x[2]]

DependenciesAreLayered == Layered(object.kind, source)

-----------------------------------------------------------------------------
(* What a selection decides.                                               *)

(* An object is recognised under a selection of datasets.                  *)
Recognised(k, o, datasets) ==
    LET s == SourceRecord(k, o, datasets)
        l == LocalRecord(k, o, datasets)
    IN /\ Matched(s, l) /\ NamedAlike(k, l, Reference(k, o)) /\ LinkedAlike(s, l)
       /\ Resolves(k, s, datasets) /\ Layered(k, s)

(* One dataset, with any of those that decide whether a link is sent.      *)
SmallRequests == {{d} \cup D : d \in Datasets, D \in SUBSET Selectors}

RecognisedWhenSmall ==
    \A named \in SmallRequests :
        \A k \in Kinds \cap KindsIn(ResolveDatasets(named)) :
            \A o \in ObjectTable[k] : Recognised(k, o, ResolveDatasets(named))
=============================================================================
