------------------------------- MODULE Nodes -------------------------------
(***************************************************************************)
(* What the provider says about Nodes (exoscale/instances_v2.go,           *)
(* instances.go, zones.go), the overrides of its configuration             *)
(* (instances_config.go), and what the controllers of cloud-provider, as   *)
(* vendored, do with it: the node controller initialises Nodes and keeps   *)
(* their addresses, the lifecycle controller deletes those whose instance  *)
(* is gone.  Each looks at a Node, asks the provider, and acts later.      *)
(*                                                                         *)
(* A restart may bring another configuration, while the Nodes keep the     *)
(* provider IDs that the earlier ones gave them.                           *)
(***************************************************************************)
EXTENDS Integers, Sequences

CONSTANTS
  Node,       \* names of Nodes
  UUID,       \* IDs of Compute instances
  Pattern,    \* override names that are regular expressions
  Matches,    \* the Nodes whose name each Pattern matches
  ExternalID, \* externalID of overrides
  Address,    \* IP addresses
  None,       \* no ID, no address, no override
  SystemUUID, \* the system UUID each Node's kubelet reports
  NodeIP,     \* what each Node's kubelet may be given as node IP, None for none
  Deployed,   \* the instances there are at first
  Attr,       \* each instance's name, type and addresses
  Label,      \* instance types and regions
  zone,       \* the zone of the provider
  Configs,    \* instances configurations
  MaxRestarts, MaxChanges, MaxFaults \* bounds

(* The prefix of a provider ID is trimmed wherever an ID is used. *)
DefaultID == {"external"} \X (Node \cup Pattern)
ID == UUID \cup ExternalID \cup DefaultID \cup {None}

AddressType == {"Hostname", "InternalIP", "ExternalIP"}
Addresses == SUBSET (AddressType \X (Node \cup Address))

Instance == [name: Node, type: Label, pub: Address \cup {None}, v6: Address \cup {None},
             priv: BOOLEAN]

instancesOverrideConfig ==
  [name: Node \cup Pattern, external: BOOLEAN, id: ExternalID \cup {None}, type: Label,
   region: Label, addrs: Addresses]

instancesConfig == [externalOnly: BOOLEAN, overrides: Seq(instancesOverrideConfig)]

Metadata == [pid: ID, type: Label, zone: Label, region: Label, addrs: Addresses]

ASSUME NodesAssumption ==
  /\ Node # {} /\ Matches \in [Pattern -> SUBSET Node]
  /\ Node \cap Pattern = {}
  /\ SystemUUID \in [Node -> UUID] /\ Attr \in [UUID -> Instance]
  /\ None \notin Node \cup UUID \cup ExternalID \cup DefaultID \cup Address
  /\ None \notin instancesOverrideConfig /\ None \notin Label /\ None \notin Metadata
  /\ \A addrs \in Addresses : addrs # None
  /\ NodeIP \in [Node -> SUBSET (Address \cup {None})] /\ Deployed \subseteq UUID
  /\ {"", "external", zone} \subseteq Label /\ Configs \subseteq instancesConfig
  /\ MaxRestarts \in Nat /\ MaxChanges \in Nat /\ MaxFaults \in Nat

VARIABLES
  cfg,   \* the configuration the provider runs with
  insts, \* the state of each instance
  nodes, \* the Nodes in the API server
  sync,  \* each Node's syncNode: what it found, and will put into the Node
  life,  \* MonitorNodes: what it will do, and the Node as it saw it
  restarts, changes, faults

counters == <<restarts, changes, faults>>
vars == <<cfg, insts, nodes, sync, life, counters>>

(* pid: spec.providerID; told: the provided-node-ip annotation; init: the  *)
(* cloud taint is gone; down: the shutdown taint is there.                 *)
Object == [there: BOOLEAN, pid: ID, ready: BOOLEAN, told: Address \cup {None},
           init: BOOLEAN, down: BOOLEAN, addrs: Addresses]

Absent == [there |-> FALSE, pid |-> None, ready |-> FALSE, told |-> None,
           init |-> FALSE, down |-> FALSE, addrs |-> {}]

(* set: the modifiers set the provider ID, because there was none. *)
NoSync ==
  [at |-> "idle", set |-> FALSE,
   meta |-> [pid |-> None, type |-> "", zone |-> "", region |-> "", addrs |-> {}]]

(* copy: what InstanceShutdown will need of the Node. *)
Idle == [at |-> "idle", name |-> CHOOSE n \in Node : TRUE, copy |-> [pid |-> None]]

Init ==
  /\ cfg \in Configs
  /\ insts = [u \in UUID |-> IF u \in Deployed THEN "running" ELSE "gone"]
  /\ nodes = [n \in Node |-> Absent]
  /\ sync = [n \in Node |-> NoSync]
  /\ life = Idle
  /\ restarts = 0 /\ changes = 0 /\ faults = 0

-----------------------------------------------------------------------------
(* The overrides of the configuration *)

(* Mutant: every name gives the same ID. *)
defaultInstanceOverrideExternalIDMutant(name) == <<"external", CHOOSE n \in Node : TRUE>>

(* The hash of a name: different for different names, and no other ID. *)
defaultInstanceOverrideExternalID(name) == <<"external", name>>

(* Mutant: the name itself for want of an ID. *)
ExternalIDOfMutant(o) == IF o.id # None THEN o.id ELSE o.name

ExternalIDOf(o) == IF o.id # None THEN o.id ELSE defaultInstanceOverrideExternalID(o.name)

(* The first override of a list among those with the indices K. *)
First(O, K) == IF K = {} THEN None ELSE O[CHOOSE k \in K : \A l \in K : k <= l]

(* An exact match on the name goes before one with a regular expression. *)
OverrideByName == [c \in Configs |-> [n \in Node |->
  LET O == c.overrides
      Exact == {k \in DOMAIN O : O[k].name = n}
      Regexp == {k \in DOMAIN O : O[k].name \in Pattern /\ n \in Matches[O[k].name]}
  IN First(O, IF Exact # {} THEN Exact ELSE Regexp)]]

(* A match on the externalID goes before one on the name-based ID. *)
OverrideByID == [c \in Configs |-> [id \in ID |->
  LET O == c.overrides
      Named == {k \in DOMAIN O : O[k].id # None /\ O[k].id = id}
      Default == {k \in DOMAIN O :
                    O[k].id = None /\ id = defaultInstanceOverrideExternalID(O[k].name)}
  IN First(O, IF Named # {} THEN Named ELSE Default)]]

getInstanceOverride(n) == OverrideByName[cfg][n]

getInstanceOverrideByProviderID(id) == OverrideByID[cfg][id]

External(o) == o # None /\ o.external

-----------------------------------------------------------------------------
(* InstancesV2.  A Node is given by its name and what there is in it; got  *)
(* is the API's answer to the one GetInstance: the instance's state,       *)
(* "notfound" or "error".                                                  *)

(* Mutant: the provider ID alone decides once there is one. *)
nodeInstanceOverrideMutant(n, node) ==
  IF node.pid # None THEN getInstanceOverrideByProviderID(node.pid) ELSE getInstanceOverride(n)

nodeInstanceOverride(n, node) ==
  LET byID == IF node.pid = None THEN None ELSE getInstanceOverrideByProviderID(node.pid)
  IN IF byID # None THEN byID ELSE getInstanceOverride(n)

computeInstanceByNode(n, node) == IF node.pid # None THEN node.pid ELSE SystemUUID[n]

(* Mutant: any failure means that the instance does not exist. *)
InstanceExistsMutant(n, node, got) ==
  IF External(nodeInstanceOverride(n, node)) THEN "yes"
  ELSE IF cfg.externalOnly \/ got \in {"notfound", "error"} THEN "no"
  ELSE "yes"

(* Mutant: an instance that is not found is an error like others. *)
InstanceExistsErrorMutant(n, node, got) ==
  IF External(nodeInstanceOverride(n, node)) THEN "yes"
  ELSE IF cfg.externalOnly THEN "no"
  ELSE IF got \in {"notfound", "error"} THEN "error" ELSE "yes"

InstanceExists(n, node, got) ==
  IF External(nodeInstanceOverride(n, node)) THEN "yes"
  ELSE IF cfg.externalOnly \/ got = "notfound" THEN "no"
  ELSE IF got = "error" THEN "error" ELSE "yes"

(* NotImplemented, for an external one, is an error to MonitorNodes. *)
InstanceShutdown(n, node, got) ==
  IF External(nodeInstanceOverride(n, node)) \/ cfg.externalOnly \/ got \in {"notfound", "error"}
  THEN "error"
  ELSE IF got = "stopped" THEN "yes" ELSE "no"

Public(u) == {Attr[u].pub, Attr[u].v6} \ {None}

(* The addresses of an instance whose Node says it has the IP told; the    *)
(* public ones are internal ones only if it says nothing.                  *)
InstanceAddresses(u, told) ==
  LET internal == IF Attr[u].priv /\ told # None THEN {told} ELSE Public(u)
  IN {<<"Hostname", Attr[u].name>>} \cup ({"InternalIP"} \X internal)
       \cup ({"ExternalIP"} \X Public(u))

(* Mutant: the annotation is not looked at. *)
nodeAddressesFromInstanceMutant(node, u) == InstanceAddresses(u, None)

nodeAddressesFromInstance(node, u) == InstanceAddresses(u, node.told)

OrElse(value, default) == IF value # "" THEN value ELSE default

(* None stands for an error. *)
InstanceMetadata(n, node, got) ==
  LET o == nodeInstanceOverride(n, node)
      u == computeInstanceByNode(n, node)
      type == IF o # None THEN o.type ELSE ""
      addrs == IF o # None THEN o.addrs ELSE {}
  IN IF External(o)
     THEN LET region == OrElse(o.region, "external")
          IN [pid |-> ExternalIDOf(o), type |-> OrElse(type, "external"),
              zone |-> region, region |-> region, addrs |-> addrs]
     ELSE IF cfg.externalOnly \/ got \in {"notfound", "error"} THEN None
     ELSE [pid |-> u, type |-> OrElse(type, Attr[u].type), zone |-> zone, region |-> zone,
           addrs |-> IF addrs # {} THEN addrs ELSE nodeAddressesFromInstance(node, u)]

-----------------------------------------------------------------------------
(* Instances and Zones, which the controllers use when there is no         *)
(* InstancesV2.  answer is the API's, or None for an error.                *)

Answer(id) == IF id \in UUID /\ insts[id] # "gone" THEN insts[id] ELSE None

(* An override's value if it is set, the default of an external one. *)
Overridden(o, value, unset, default, otherwise) ==
  IF o # None /\ value # unset THEN value
  ELSE IF External(o) THEN default
  ELSE IF cfg.externalOnly THEN None ELSE otherwise

InstanceID(n) ==
  LET o == getInstanceOverride(n)
  IN IF External(o) THEN ExternalIDOf(o)
     ELSE IF cfg.externalOnly \/ ~nodes[n].there THEN None ELSE SystemUUID[n]

(* The Node is read by the instance's name. *)
NodeAddressesByProviderID(id) ==
  LET o == getInstanceOverrideByProviderID(id)
  IN Overridden(o, IF o # None THEN o.addrs ELSE {}, {}, {},
       IF Answer(id) = None THEN None
       ELSE InstanceAddresses(id, nodes[Attr[id].name].told))

NodeAddresses(n) ==
  LET o == getInstanceOverride(n)
  IN Overridden(o, IF o # None THEN o.addrs ELSE {}, {}, {},
       NodeAddressesByProviderID(InstanceID(n)))

InstanceTypeByProviderID(id) ==
  LET o == getInstanceOverrideByProviderID(id)
  IN Overridden(o, IF o # None THEN o.type ELSE "", "", "external",
       IF Answer(id) = None THEN None ELSE Attr[id].type)

InstanceType(n) ==
  LET o == getInstanceOverride(n)
  IN Overridden(o, IF o # None THEN o.type ELSE "", "", "external",
       InstanceTypeByProviderID(InstanceID(n)))

(* The zone of the cloudprovider.Zone that Zones return: they only set the *)
(* region.                                                                 *)
FailureDomain == ""

Region(o, otherwise) ==
  IF External(o) THEN OrElse(o.region, "external")
  ELSE IF cfg.externalOnly THEN None ELSE otherwise

GetZoneByProviderID(id) == Region(getInstanceOverrideByProviderID(id), zone)

GetZoneByNodeName(n) ==
  Region(getInstanceOverride(n),
         IF nodes[n].there THEN GetZoneByProviderID(SystemUUID[n]) ELSE None)

InstanceExistsByProviderID(id) ==
  IF External(getInstanceOverrideByProviderID(id)) THEN "yes"
  ELSE IF cfg.externalOnly \/ Answer(id) = None THEN "no" ELSE "yes"

InstanceShutdownByProviderID(id) ==
  IF External(getInstanceOverrideByProviderID(id)) \/ cfg.externalOnly \/ Answer(id) = None
  THEN "error"
  ELSE IF Answer(id) = "stopped" THEN "yes" ELSE "no"

-----------------------------------------------------------------------------
(* GetInstance.  The API does not know an ID that is no UUID, and how it   *)
(* says so is its own affair.                                              *)
computeInstanceByProviderID(id) ==
  IF id \notin UUID THEN {"notfound", "error"}
  ELSE IF insts[id] = "gone" THEN {"notfound"} ELSE {insts[id]}

NoFault == UNCHANGED faults

(* A call that fails although it need not. *)
Fault == faults < MaxFaults /\ faults' = faults + 1

Answers == {"running", "stopped", "notfound", "error"}

(* What a handler gets when it asks for the Node's instance, if it does. *)
Asks(n, node, got) ==
  \/ got \in computeInstanceByProviderID(computeInstanceByNode(n, node)) /\ NoFault
  \/ got = "error" /\ Fault

(* The address list, with the IP the kubelet gave enforced; None if the    *)
(* provider does not have that IP.                                         *)
Enforced(told, addrs) ==
  LET of(t) == <<t, told>> \in addrs
  IN IF told = None THEN addrs
     ELSE IF \A t \in AddressType : ~of(t) THEN None
     ELSE {a \in addrs : a[2] = told \/ ~of(a[1])}

(* updateNodeAddress: nothing changes without addresses, or without the    *)
(* kubelet's IP among them.                                                *)
NewAddresses(node, addrs) ==
  LET hostnames == {a \in node.addrs : a[1] = "Hostname"}
      all == IF \E a \in addrs : a[1] = "Hostname" THEN addrs ELSE addrs \cup hostnames
      new == Enforced(node.told, all)
  IN IF addrs = {} \/ new = None THEN node.addrs ELSE new

(* syncNode of a Node with the cloud taint: the metadata are asked for, and *)
(* the modifiers made from them; an error is retried.                      *)
SyncAsk(n) ==
  /\ sync[n].at = "idle" /\ nodes[n].there /\ ~nodes[n].init
  /\ UNCHANGED <<cfg, insts, nodes, life, restarts, changes>>
  /\ \E got \in Answers :
       /\ Asks(n, nodes[n], got)
       /\ \E meta \in {InstanceMetadata(n, nodes[n], got)} :
             sync' = IF meta = None \/ Enforced(nodes[n].told, meta.addrs) = None THEN sync
                     ELSE [sync EXCEPT ![n] = [at |-> "update", set |-> nodes[n].pid = None,
                                               meta |-> meta]]

(* syncNode: the modifiers are applied to the Node as it is now, then the  *)
(* addresses.  Either update may fail.                                     *)
SyncUpdate(n) ==
  LET meta == sync[n].meta
      new == [nodes[n] EXCEPT !.pid = IF sync[n].set THEN meta.pid ELSE @, !.init = TRUE]
  IN /\ sync[n].at = "update"
     /\ sync' = [sync EXCEPT ![n] = NoSync]
     /\ UNCHANGED <<cfg, insts, life, restarts, changes>>
     /\ \/ /\ nodes[n].there /\ NoFault
           /\ nodes' = [nodes EXCEPT ![n] = [new EXCEPT !.addrs = NewAddresses(new, meta.addrs)]]
        \/ nodes[n].there /\ Fault /\ nodes' \in {nodes, [nodes EXCEPT ![n] = new]}
        \/ ~nodes[n].there /\ NoFault /\ UNCHANGED nodes

(* UpdateNodeStatus, for one of the Nodes. *)
UpdateStatus(n) ==
  /\ nodes[n].there /\ nodes[n].init
  /\ UNCHANGED <<cfg, insts, sync, life, restarts, changes>>
  /\ \E got \in Answers :
       /\ Asks(n, nodes[n], got)
       /\ \E meta \in {InstanceMetadata(n, nodes[n], got)} :
             nodes' = IF meta = None THEN nodes
                      ELSE [nodes EXCEPT ![n].addrs = NewAddresses(nodes[n], meta.addrs)]

(* MonitorNodes gets to a Node: a Ready one loses the shutdown taint; is   *)
(* there an instance for one that is not?                                  *)
Monitor(n) ==
  /\ life.at = "idle" /\ nodes[n].there
  /\ UNCHANGED <<cfg, insts, sync, restarts, changes>>
  /\ \/ /\ nodes[n].ready
        /\ nodes' = [nodes EXCEPT ![n].down = FALSE]
        /\ NoFault /\ UNCHANGED life
     \/ /\ ~nodes[n].ready
        /\ \E got \in Answers :
             /\ Asks(n, nodes[n], got)
             /\ LET exists == InstanceExists(n, nodes[n], got)
                IN life' = IF exists = "error" THEN Idle
                           ELSE [at |-> IF exists = "yes" THEN "shutdown" ELSE "delete",
                                 name |-> n, copy |-> [pid |-> nodes[n].pid]]
        /\ UNCHANGED nodes

(* The Node is deleted, by name. *)
DeleteNode ==
  /\ life.at = "delete" /\ life' = Idle
  /\ UNCHANGED <<cfg, insts, sync, restarts, changes>>
  /\ \/ nodes' = [nodes EXCEPT ![life.name] = Absent] /\ NoFault
     \/ UNCHANGED nodes /\ Fault

TaintShutdown ==
  /\ life.at = "shutdown" /\ life' = Idle
  /\ UNCHANGED <<cfg, insts, sync, restarts, changes>>
  /\ \E got \in Answers :
       /\ Asks(life.name, life.copy, got)
       /\ nodes' = IF InstanceShutdown(life.name, life.copy, got) = "yes"
                   THEN [nodes EXCEPT ![life.name].down = nodes[life.name].there] ELSE nodes

-----------------------------------------------------------------------------
(* Kubelets, instances and whoever configures the provider *)

(* A kubelet registers its Node, with the cloud taint. *)
Register(n) ==
  /\ ~nodes[n].there
  /\ \E ip \in NodeIP[n] :
       nodes' = [nodes EXCEPT ![n] = [Absent EXCEPT !.there = TRUE, !.told = ip,
                                                    !.addrs = {<<"Hostname", n>>}]]
  /\ UNCHANGED <<cfg, insts, sync, life, counters>>

(* It is, or is no longer, heard of. *)
Heartbeat(n) ==
  /\ nodes[n].there
  /\ nodes' = [nodes EXCEPT ![n].ready = ~@]
  /\ UNCHANGED <<cfg, insts, sync, life, counters>>

(* It is given another node IP. *)
Annotate(n) ==
  /\ nodes[n].there /\ changes < MaxChanges
  /\ changes' = changes + 1
  /\ \E ip \in NodeIP[n] : nodes' = [nodes EXCEPT ![n].told = ip]
  /\ UNCHANGED <<cfg, insts, sync, life, restarts, faults>>

(* An instance is stopped, started or deleted. *)
ChangeInstance(u) ==
  /\ insts[u] # "gone" /\ changes < MaxChanges
  /\ changes' = changes + 1
  /\ \E state \in {"running", "stopped", "gone"} \ {insts[u]} :
       insts' = [insts EXCEPT ![u] = state]
  /\ UNCHANGED <<cfg, nodes, sync, life, restarts, faults>>

(* The provider starts anew, with another configuration. *)
Restart ==
  /\ restarts < MaxRestarts
  /\ restarts' = restarts + 1
  /\ cfg' \in Configs
  /\ sync' = [n \in Node |-> NoSync] /\ life' = Idle
  /\ UNCHANGED <<insts, nodes, changes, faults>>

(* The three exclude each other: on the cloud taint, and on sync. *)
NodeController(n) == SyncAsk(n) \/ SyncUpdate(n) \/ UpdateStatus(n)

Controllers == \/ \E n \in Node : NodeController(n) \/ Monitor(n)
               \/ DeleteNode \/ TaintShutdown

Environment == \/ \E n \in Node : Register(n) \/ Heartbeat(n) \/ Annotate(n)
               \/ \E u \in UUID : ChangeInstance(u)
               \/ Restart

Next == Controllers \/ Environment

Spec == Init /\ [][Next]_vars

(* Workers and loops run, and the loop over the Nodes gets to each.        *)
Fairness ==
  /\ \A n \in Node : WF_vars(NodeController(n)) /\ SF_vars(Monitor(n))
  /\ WF_vars(DeleteNode \/ TaintShutdown)

FairSpec == Spec /\ Fairness

-----------------------------------------------------------------------------
(* Properties *)

(* Every variable has its type. *)
TypeOK ==
  /\ cfg \in Configs
  /\ insts \in [UUID -> {"running", "stopped", "gone"}]
  /\ nodes \in [Node -> Object]
  /\ sync \in [Node -> [at: {"idle", "update"}, set: BOOLEAN, meta: Metadata]]
  /\ life \in [at: {"idle", "delete", "shutdown"}, name: Node, copy: [pid: ID]]
  /\ restarts \in Nat /\ changes \in Nat /\ faults \in Nat

(* An external override has the Node's name, and no override that is not   *)
(* external has its provider ID.                                           *)
Covered(n) ==
  LET byID == getInstanceOverrideByProviderID(nodes[n].pid)
  IN External(getInstanceOverride(n)) /\ (byID = None \/ External(byID))

(* A Node that the configuration says is external is neither deleted nor   *)
(* tainted as shut down, whatever ID an earlier configuration, or the lack *)
(* of one, has left in it.                                                 *)
ExternalLeftAlone ==
  [][\A n \in Node : nodes[n].there /\ Covered(n) /\ cfg' = cfg =>
       nodes'[n].there /\ (nodes'[n].down => nodes[n].down)]_vars

(* "If false is returned with no error, the instance will be immediately   *)
(* deleted": a Node is only deleted if its instance is gone, or if the     *)
(* provider may not ask for it, or if an earlier configuration gave it the *)
(* ID of something else.                                                   *)
DeletedIfGone ==
  [][\A n \in Node : nodes[n].there /\ ~nodes'[n].there =>
       \/ insts[SystemUUID[n]] = "gone"
       \/ cfg.externalOnly
       \/ nodes[n].pid \notin {None, SystemUUID[n]}]_vars

(* Whoever hands out IDs does so with care: system UUIDs differ, the three *)
(* kinds of IDs do not overlap, and no two override names, in whichever    *)
(* configurations, are given the same externalID.                          *)
DistinctIDs ==
  /\ \A n, m \in Node : SystemUUID[n] = SystemUUID[m] => n = m
  /\ UUID \cap ExternalID = {} /\ (UUID \cup ExternalID) \cap DefaultID = {}
  /\ \A c, d \in Configs : \A k \in DOMAIN c.overrides : \A l \in DOMAIN d.overrides :
       c.overrides[k].id # None /\ c.overrides[k].id = d.overrides[l].id
         => c.overrides[k].name = d.overrides[l].name

(* "The ProviderID is a unique identifier of the node", except where one   *)
(* external override stands for several Nodes.                             *)
UniqueIDs ==
  \A n, m \in Node : n # m /\ nodes[n].pid # None /\ nodes[n].pid = nodes[m].pid =>
    \E c \in Configs : \E k \in DOMAIN c.overrides :
      LET o == c.overrides[k]
      IN /\ o.external /\ o.name \in Pattern /\ {n, m} \subseteq Matches[o.name]
         /\ nodes[n].pid \in {o.id, <<"external", o.name>>}

(* What the controllers would find through Instances and Zones. *)
MetadataV1(n) ==
  LET pid == IF nodes[n].pid # None THEN nodes[n].pid ELSE InstanceID(n)
      orName(byID, byName) == IF byID # None THEN byID ELSE byName
      addrs == orName(NodeAddressesByProviderID(pid), NodeAddresses(n))
      type == orName(InstanceTypeByProviderID(pid), InstanceType(n))
      region == orName(GetZoneByProviderID(pid), GetZoneByNodeName(n))
  IN IF None \in {pid, addrs, type, region} THEN None
     ELSE [pid |-> pid, type |-> type, zone |-> FailureDomain, region |-> region,
           addrs |-> addrs]

(* What InstancesV2 gets from the API when it asks for the Node's instance. *)
FoundV2(n) ==
  LET id == computeInstanceByNode(n, nodes[n])
  IN IF Answer(id) = None THEN "notfound" ELSE Answer(id)

(* A Node whose instance has its name, and that no override is about, or   *)
(* an external one by name and by ID alike.                                *)
Comparable(n) ==
  LET o == nodeInstanceOverride(n, nodes[n])
  IN /\ nodes[n].there /\ Attr[SystemUUID[n]].name = n
     /\ \/ o = None /\ computeInstanceByNode(n, nodes[n]) = SystemUUID[n]
        \/ External(o) /\ nodes[n].pid \in {None, ExternalIDOf(o)}

(* The metadata with the region for the zone too. *)
ZoneFilledIn(meta) == IF meta = None THEN None ELSE [meta EXCEPT !.zone = meta.region]

(* "Implementing InstancesV2 is behaviorally identical to Instances"        *)
(* (exoscale.go:146), but for the zone, in which the two differ for every   *)
(* Node: for a comparable one, InstancesV2 gives the provider ID, type,     *)
(* region and addresses of Instances with Zones, and the same answers about *)
(* its instance (if no override has a UUID as its externalID), and sets the *)
(* zone, which Zones leave empty, to the region.                            *)
AgreesButForZone ==
  \A n \in Node : Comparable(n) =>
    /\ InstanceMetadata(n, nodes[n], FoundV2(n)) = ZoneFilledIn(MetadataV1(n))
    /\ nodes[n].pid # None =>
         /\ InstanceExists(n, nodes[n], FoundV2(n)) = InstanceExistsByProviderID(nodes[n].pid)
         /\ InstanceShutdown(n, nodes[n], FoundV2(n)) = InstanceShutdownByProviderID(nodes[n].pid)

(* The Node of an instance that is gone, and that nothing is heard of, is  *)
(* deleted in the end, however often calls failed before.                  *)
Orphan(n) ==
  /\ nodes[n].there /\ ~nodes[n].ready /\ nodes[n].pid \in {None, SystemUUID[n]}
  /\ insts[SystemUUID[n]] = "gone" /\ nodeInstanceOverride(n, nodes[n]) = None

OrphansGo == \A n \in Node : Orphan(n) ~> ~Orphan(n)

InternalIPs(addrs) == {a[2] : a \in {b \in addrs : b[1] = "InternalIP"}}

(* The internal addresses that a Node should have: those of its override;  *)
(* or, of an instance, the IP its kubelet was given on a private network,  *)
(* else the public ones.                                                   *)
Wanted(n) ==
  LET o == nodeInstanceOverride(n, nodes[n])
      onInstance == /\ ~cfg.externalOnly /\ insts[SystemUUID[n]] # "gone"
                    /\ nodes[n].pid \in {None, SystemUUID[n]}
      instance == Attr[SystemUUID[n]]
  IN IF ~External(o) /\ ~onInstance THEN {}
     ELSE IF External(o) \/ (o # None /\ o.addrs # {}) THEN InternalIPs(o.addrs)
     ELSE IF instance.priv /\ nodes[n].told # None THEN {nodes[n].told}
     ELSE {instance.pub, instance.v6} \ {None}

(* A Node that should have internal addresses, the IP its kubelet was      *)
(* given among them, is initialised and gets them: after a change of the   *)
(* IP, of the instance or of the configuration too.                        *)
Pending(n) ==
  LET told == nodes[n].told
  IN /\ nodes[n].there
     /\ \E wanted \in {Wanted(n)} \ {{}} :
          /\ told = None \/ told \in wanted
          /\ \/ ~nodes[n].init
             \/ InternalIPs(nodes[n].addrs) # IF told = None THEN wanted ELSE {told}

NodesConverge == \A n \in Node : Pending(n) ~> ~Pending(n)

=============================================================================
