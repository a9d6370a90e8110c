------------------------------ MODULE Globals -------------------------------
(***************************************************************************)
(* PwgGlobal, the info views of one global and the lookups of the registry *)
(* (pwg-global.c, pwg-*-info.c, pwg-registry.c).                           *)
(*                                                                         *)
(* Properties are the pairs of a dictionary, in its order.                 *)
(***************************************************************************)
EXTENDS Nullable

-----------------------------------------------------------------------------
\* PwgGlobal

EmptyProperties == <<>>
VariantFromDict(dict) ==
  IF dict = NULL THEN EmptyProperties
  ELSE SelectSeq(dict, LAMBDA item : item[1] # NULL /\ item[2] # NULL)

NewGlobal(id, permissions, interface, version, dict) ==
  [id |-> id, permissions |-> permissions, interface |-> interface,
   version |-> version, properties |-> VariantFromDict(dict)]

DupProperty(g, key) ==
  LET found == SelectSeq(g.properties, LAMBDA item : item[1] = key)
  IN  IF found = <<>> THEN NULL ELSE found[1][2]

\* Fault: an empty value is taken.
FirstPropertyOrEmpty(g, keys) ==
  LET set == SelectSeq(keys, LAMBDA k : DupProperty(g, k) # NULL)
  IN  IF set = <<>> THEN NULL ELSE DupProperty(g, set[1])

\* The first key of the list with a value that is not empty.
DupFirstProperty(g, keys) ==
  LET set == SelectSeq(keys, LAMBDA k : DupProperty(g, k) \notin {NULL, ""})
  IN  IF set = <<>> THEN NULL ELSE DupProperty(g, set[1])

NameKeys ==
  <<"node.name", "port.name", "device.name", "client.name", "factory.name",
    "metadata.name", "application.name", "object.path">>
DupName(g) == DupFirstProperty(g, NameKeys)

DescriptionKeys ==
  <<"node.description", "port.alias", "device.description",
    "module.description", "application.name">>
DupDescription(g) == DupFirstProperty(g, DescriptionKeys)

DupMediaClass(g) == DupProperty(g, "media.class")
DupObjectSerial(g) == DupProperty(g, "object.serial")

IsInterface(g, interface) == g.interface = interface
IsNode(g) == IsInterface(g, "Node")
IsClient(g) == IsInterface(g, "Client")
IsDevice(g) == IsInterface(g, "Device")
IsLink(g) == IsInterface(g, "Link")
IsPort(g) == IsInterface(g, "Port")
IsMetadata(g) == IsInterface(g, "Metadata")

-----------------------------------------------------------------------------
\* Info views: NULL for a global of another interface

\* What the view's getters return: the values of its keys, NULL if not set.
ValuesOf(g, keys) == [k \in keys |-> DupProperty(g, k)]

NodeKeys == {"node.name", "node.description", "media.class", "object.serial"}
NodeInfo(g) ==
  IF IsNode(g) THEN [id |-> g.id, values |-> ValuesOf(g, NodeKeys)] ELSE NULL

DeviceKeys ==
  {"device.name", "device.description", "device.nick", "device.api",
   "device.class", "device.form-factor", "device.bus", "device.vendor.name",
   "device.product.name", "media.class", "object.serial"}
DeviceInfo(g) ==
  IF IsDevice(g) THEN [id |-> g.id, values |-> ValuesOf(g, DeviceKeys)] ELSE NULL

ClientKeys ==
  {"client.name", "application.name", "application.id", "client.api",
   "client.access", "application.process.binary", "application.process.id",
   "object.serial"}
ClientInfo(g) ==
  IF IsClient(g) THEN [id |-> g.id, values |-> ValuesOf(g, ClientKeys)] ELSE NULL

\* "1", and "true" and "yes" in any case.
IsTrue(value) == value \in {"1", "true", "True", "TRUE", "yes", "Yes", "YES"}
PortPropertyIsTrue(g, key) == IsTrue(DupProperty(g, key))
LinkPropertyIsTrue(g, key) == IsTrue(DupProperty(g, key))

\* The alias, unless it is empty.
PortDescription(g) ==
  IF DupProperty(g, "port.alias") \notin {NULL, ""}
  THEN DupProperty(g, "port.alias") ELSE DupDescription(g)

PortKeys ==
  {"port.name", "port.alias", "port.direction", "audio.channel", "media.class",
   "object.serial"}
PortInfo(g) ==
  IF ~IsPort(g) THEN NULL
  ELSE [id |-> g.id, values |-> ValuesOf(g, PortKeys),
        description |-> PortDescription(g),
        physical |-> PortPropertyIsTrue(g, "port.physical")]

LinkKeys ==
  {"link.id", "link.output.node", "link.output.port", "link.input.node",
   "link.input.port", "object.serial"}
LinkInfo(g) ==
  IF ~IsLink(g) THEN NULL
  ELSE [id |-> g.id, values |-> ValuesOf(g, LinkKeys),
        passive |-> LinkPropertyIsTrue(g, "link.passive"),
        feedback |-> LinkPropertyIsTrue(g, "link.feedback")]

-----------------------------------------------------------------------------
\* The registry's lookups in its list of globals

\* The position of the first global with this id, 0 for none.
FindGlobal(globals, id) == SelectInSeq(globals, LAMBDA g : g.id = id)

PropertyEquals(g, key, value) == DupProperty(g, key) = value

\* Of those that match, the first, and all in their order.
LookupMatching(globals, matching) ==
  LET i == SelectInSeq(globals, LAMBDA g : g \in matching)
  IN  IF i = 0 THEN NULL ELSE globals[i]
DupMatching(globals, matching) == SelectSeq(globals, LAMBDA g : g \in matching)

LookupGlobal(globals, id) ==
  IF FindGlobal(globals, id) = 0 THEN NULL ELSE globals[FindGlobal(globals, id)]
LookupByProperty(globals, key, value) ==
  LookupMatching(globals, {g \in Range(globals) : PropertyEquals(g, key, value)})
LookupBySerial(globals, serial) == LookupByProperty(globals, "object.serial", serial)
DupByProperty(globals, key, value) ==
  DupMatching(globals, {g \in Range(globals) : PropertyEquals(g, key, value)})
DupByInterface(globals, interface) ==
  DupMatching(globals, {g \in Range(globals) : IsInterface(g, interface)})
DupByMediaClass(globals, mediaClass) ==
  DupMatching(globals, {g \in Range(globals) : DupMediaClass(g) = mediaClass})
=============================================================================
