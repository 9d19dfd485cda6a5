---------------------------- MODULE NodesProofs ----------------------------
(***************************************************************************)
(* Proofs about Nodes, for every set of Nodes, instances and               *)
(* configurations and all bounds: what the lifecycle controller may do to  *)
(* a Node, although it asks about it at one time and acts at another.      *)
(***************************************************************************)
EXTENDS Nodes, TLAPS, WellFoundedInduction

(* A provider ID is only set in a Node that has none yet. *)
SetsOnce == \A n \in Node : sync[n].set => nodes[n].pid = None

(* A Node that is not there has no ID. *)
Missing == \A n \in Node : ~nodes[n].there => nodes[n].pid = None

(* The Node as MonitorNodes saw it: it can have got an ID since. *)
CopyOfNode == life.at # "idle" => life.copy.pid \in {None, nodes[life.name].pid}

(* What makes MonitorNodes delete a Node is still so when it does. *)
Doomed(n) ==
  \/ insts[SystemUUID[n]] = "gone"
  \/ cfg.externalOnly
  \/ nodes[n].pid \notin {None, SystemUUID[n]}

DeletesDoomed ==
  life.at = "delete" =>
    /\ ~External(nodeInstanceOverride(life.name, life.copy))
    /\ Doomed(life.name)

IInv == TypeOK /\ SetsOnce /\ Missing /\ CopyOfNode /\ DeletesDoomed

-----------------------------------------------------------------------------
(* A list's first element among some indices is the one with the least. *)
LEMMA FirstLeast ==
  ASSUME NEW O, NEW K \in SUBSET Nat, K # {}
  PROVE  \E k \in K : First(O, K) = O[k] /\ \A l \in K : k <= l
<1>1. PICK x \in K : \A y \in K : ~ (<<y, x>> \in OpToRel(<, Nat))
  BY NatLessThanWellFounded, WFMin, Zenon
<1>2. \A y \in K : x <= y
  <2>1. OpToRel(<, Nat) = {ss \in Nat \X Nat : ss[1] < ss[2]}
    BY Zenon DEF OpToRel
  <2>2. \A y \in K : ~ (y < x)
    BY <1>1, <2>1
  <2> QED
    BY <2>2
<1> DEFINE k == CHOOSE j \in K : \A l \in K : j <= l
<1>3. k \in K /\ \A l \in K : k <= l
  BY <1>2, Zenon
<1>4. First(O, K) = O[k]
  BY Zenon DEF First
<1> HIDE DEF k
<1> QED
  BY <1>3, <1>4

(* It is an element of the list. *)
LEMMA FirstType ==
  ASSUME NEW S, NEW O \in Seq(S), NEW K \in SUBSET DOMAIN O
  PROVE  First(O, K) \in S \cup {None}
<1>1. CASE K = {}
  BY <1>1 DEF First
<1>2. CASE K # {}
  <2>1. K \subseteq Nat
    OBVIOUS
  <2>2. PICK k \in K : First(O, K) = O[k]
    BY <1>2, <2>1, FirstLeast
  <2> QED
    BY <2>2
<1> QED
  BY <1>1, <1>2

(* What the lookups return is an override of the configuration, or none. *)
LEMMA OverrideTypes ==
  ASSUME cfg \in Configs
  PROVE  /\ \A n \in Node : getInstanceOverride(n) \in instancesOverrideConfig \cup {None}
         /\ \A id \in ID : getInstanceOverrideByProviderID(id) \in instancesOverrideConfig \cup {None}
<1> DEFINE O == cfg.overrides
<1>1. O \in Seq(instancesOverrideConfig)
  BY NodesAssumption DEF instancesConfig
<1>2. ASSUME NEW n \in Node
      PROVE  getInstanceOverride(n) \in instancesOverrideConfig \cup {None}
  <2> DEFINE Exact == {k \in DOMAIN O : O[k].name = n}
             Regexp == {k \in DOMAIN O : O[k].name \in Pattern /\ n \in Matches[O[k].name]}
             K == IF Exact # {} THEN Exact ELSE Regexp
  <2>1. K \in SUBSET DOMAIN O
    OBVIOUS
  <2>2. getInstanceOverride(n) = First(O, K)
    BY Zenon DEF getInstanceOverride, OverrideByName
  <2> HIDE DEF O, K
  <2> QED
    BY <1>1, <2>1, <2>2, FirstType, Zenon
<1>3. ASSUME NEW id \in ID
      PROVE  getInstanceOverrideByProviderID(id) \in instancesOverrideConfig \cup {None}
  <2> DEFINE Named == {k \in DOMAIN O : O[k].id # None /\ O[k].id = id}
             Default == {k \in DOMAIN O :
                    O[k].id = None /\ id = defaultInstanceOverrideExternalID(O[k].name)}
             K == IF Named # {} THEN Named ELSE Default
  <2>1. K \in SUBSET DOMAIN O
    OBVIOUS
  <2>2. getInstanceOverrideByProviderID(id) = First(O, K)
    BY Zenon DEF getInstanceOverrideByProviderID, OverrideByID
  <2> HIDE DEF O, K
  <2> QED
    BY <1>1, <2>1, <2>2, FirstType, Zenon
<1> QED
  BY <1>2, <1>3

(* So is the override of a Node. *)
LEMMA NodeOverrideType ==
  ASSUME cfg \in Configs, NEW n \in Node, NEW node, node.pid \in ID
  PROVE  nodeInstanceOverride(n, node) \in instancesOverrideConfig \cup {None}
BY OverrideTypes DEF nodeInstanceOverride

(* The API only has something to say of IDs that are UUIDs. *)
LEMMA AskedInstance ==
  ASSUME NEW n \in Node, NEW node, NEW got, Asks(n, node, got), got \notin {"notfound", "error"}
  PROVE  computeInstanceByNode(n, node) \in UUID
BY DEF Asks, computeInstanceByProviderID

(* The addresses of an instance are addresses. *)
LEMMA InstanceAddressesType ==
  ASSUME NEW u \in UUID, NEW told \in Address \cup {None}
  PROVE  InstanceAddresses(u, told) \in Addresses
<1>1. Attr[u] \in Instance
  BY NodesAssumption
<1>2. Public(u) \subseteq Address
  BY <1>1 DEF Public, Instance
<1>3. Attr[u].name \in Node
  BY <1>1 DEF Instance
<1> DEFINE internal == IF Attr[u].priv /\ told # None THEN {told} ELSE Public(u)
<1>4. internal \subseteq Address
  BY <1>2
<1> HIDE DEF internal
<1>5. /\ {<<"Hostname", Attr[u].name>>} \subseteq AddressType \X (Node \cup Address)
      /\ {"InternalIP"} \X internal \subseteq AddressType \X (Node \cup Address)
      /\ {"ExternalIP"} \X Public(u) \subseteq AddressType \X (Node \cup Address)
  BY <1>2, <1>3, <1>4 DEF AddressType
<1>6. InstanceAddresses(u, told) =
        {<<"Hostname", Attr[u].name>>} \cup ({"InternalIP"} \X internal) \cup ({"ExternalIP"} \X Public(u))
  BY Zenon DEF InstanceAddresses, internal
<1> QED
  BY <1>5, <1>6 DEF Addresses

(* Metadata are metadata, or there are none. *)
LEMMA MetadataType ==
  ASSUME TypeOK, NEW n \in Node, NEW got, Asks(n, nodes[n], got)
  PROVE  InstanceMetadata(n, nodes[n], got) \in Metadata \cup {None}
<1> DEFINE o == nodeInstanceOverride(n, nodes[n])
           u == computeInstanceByNode(n, nodes[n])
           type == IF o # None THEN o.type ELSE ""
           addrs == IF o # None THEN o.addrs ELSE {}
<1>1. nodes[n] \in Object /\ nodes[n].pid \in ID /\ nodes[n].told \in Address \cup {None}
  BY DEF TypeOK, Object
<1>2. o \in instancesOverrideConfig \cup {None}
  BY <1>1, NodeOverrideType DEF TypeOK
<1>3. type \in Label /\ addrs \in Addresses
  <2>1. "" \in Label /\ {} \in Addresses
    BY NodesAssumption DEF Addresses
  <2>2. o # None => o.type \in Label /\ o.addrs \in Addresses
    BY <1>2 DEF instancesOverrideConfig
  <2> HIDE DEF o
  <2> QED
    BY <2>1, <2>2, Zenon
<1>4. CASE External(o)
  <2>1. o \in instancesOverrideConfig
    BY <1>2, <1>4 DEF External
  <2>2. ExternalIDOf(o) \in ID
    BY <2>1 DEF ExternalIDOf, ID, DefaultID, defaultInstanceOverrideExternalID, instancesOverrideConfig
  <2>3. /\ OrElse(type, "external") \in Label
        /\ OrElse(o.region, "external") \in Label
    <3>1. o.region \in Label
      BY <2>1 DEF instancesOverrideConfig
    <3>2. "external" \in Label
      BY NodesAssumption
    <3> HIDE DEF o, type
    <3> QED
      BY <1>3, <3>1, <3>2, Zenon DEF OrElse
  <2>4. InstanceMetadata(n, nodes[n], got) =
          [pid |-> ExternalIDOf(o), type |-> OrElse(type, "external"),
           zone |-> OrElse(o.region, "external"), region |-> OrElse(o.region, "external"),
           addrs |-> addrs]
    BY <1>4, Zenon DEF InstanceMetadata
  <2> HIDE DEF o, type, addrs
  <2> QED
    BY <1>3, <2>2, <2>3, <2>4 DEF Metadata
<1>5. CASE ~External(o) /\ (cfg.externalOnly \/ got \in {"notfound", "error"})
  BY <1>5, Zenon DEF InstanceMetadata
<1>6. CASE ~External(o) /\ ~(cfg.externalOnly \/ got \in {"notfound", "error"})
  <2> DEFINE all == IF addrs # {} THEN addrs ELSE nodeAddressesFromInstance(nodes[n], u)
  <2>1. u \in UUID
    BY <1>6, AskedInstance
  <2>2. OrElse(type, Attr[u].type) \in Label
    <3>1. Attr[u].type \in Label
      BY <2>1, NodesAssumption DEF Instance
    <3> HIDE DEF type
    <3> QED
      BY <3>1, <1>3 DEF OrElse
  <2>3. all \in Addresses
    <3>1. nodeAddressesFromInstance(nodes[n], u) \in Addresses
      BY <1>1, <2>1, InstanceAddressesType DEF nodeAddressesFromInstance
    <3> HIDE DEF addrs
    <3> QED
      BY <3>1, <1>3
  <2>4. InstanceMetadata(n, nodes[n], got) =
          [pid |-> u, type |-> OrElse(type, Attr[u].type), zone |-> zone, region |-> zone,
           addrs |-> all]
    BY <1>6, Zenon DEF InstanceMetadata
  <2>5. u \in ID /\ zone \in Label
    BY <2>1, NodesAssumption DEF ID
  <2> HIDE DEF u, type, all
  <2> QED
    BY <2>2, <2>3, <2>4, <2>5 DEF Metadata
<1> QED
  BY <1>4, <1>5, <1>6, Zenon

(* updateNodeAddress leaves addresses in the Node. *)
LEMMA NewAddressesType ==
  ASSUME NEW node, node.addrs \in Addresses, NEW addrs \in Addresses
  PROVE  NewAddresses(node, addrs) \in Addresses
<1> DEFINE hostnames == {a \in node.addrs : a[1] = "Hostname"}
           all == IF \E a \in addrs : a[1] = "Hostname" THEN addrs ELSE addrs \cup hostnames
<1>1. all \in Addresses
  BY DEF Addresses
<1>2. NewAddresses(node, addrs) =
        IF addrs = {} \/ Enforced(node.told, all) = None THEN node.addrs ELSE Enforced(node.told, all)
  BY Zenon DEF NewAddresses
<1> HIDE DEF all
<1>3. Enforced(node.told, all) \in Addresses \cup {None}
  <2>1. CASE node.told = None
    BY <1>1, <2>1 DEF Enforced
  <2>2. CASE node.told # None /\ \A t \in AddressType : <<t, node.told>> \notin all
    BY <2>2 DEF Enforced
  <2>3. CASE node.told # None /\ ~ \A t \in AddressType : <<t, node.told>> \notin all
    <3>1. Enforced(node.told, all) =
            {a \in all : a[2] = node.told \/ ~ (<<a[1], node.told>> \in all)}
      BY <2>3, Zenon DEF Enforced
    <3> QED
      BY <1>1, <3>1 DEF Addresses
  <2> QED
    BY <2>1, <2>2, <2>3
<1> QED
  BY <1>2, <1>3, Zenon

-----------------------------------------------------------------------------
(* What the proofs of the actions use of the types. *)
LEMMA Types ==
  ASSUME TypeOK, NEW n \in Node
  PROVE  /\ nodes[n] \in Object /\ nodes[n].pid \in ID /\ nodes[n].told \in Address \cup {None}
         /\ nodes[n].addrs \in Addresses
         /\ sync[n] \in [at: {"idle", "update"}, set: BOOLEAN, meta: Metadata]
         /\ sync[n].meta \in Metadata /\ sync[n].meta.pid \in ID
         /\ sync[n].meta.addrs \in Addresses
BY DEF TypeOK, Object, Metadata

(* The constant values have their types. *)
LEMMA Constants ==
  /\ Absent \in Object /\ Absent.pid = None
  /\ NoSync \in [at: {"idle", "update"}, set: BOOLEAN, meta: Metadata] /\ NoSync.set = FALSE
  /\ Idle \in [at: {"idle", "delete", "shutdown"}, name: Node, copy: [pid: ID]] /\ Idle.at = "idle"
<1>1. None \in ID /\ {} \in Addresses
  BY DEF ID, Addresses
<1>2. "" \in Label
  BY NodesAssumption
<1>3. (CHOOSE n \in Node : TRUE) \in Node
  BY NodesAssumption, Zenon
<1> QED
  BY <1>1, <1>2, <1>3 DEF Absent, Object, NoSync, Metadata, Idle

(* A field of a Node other than the ID is set. *)
LEMMA SetField ==
  ASSUME NEW o \in Object
  PROVE  /\ \A b \in BOOLEAN : LET new == [o EXCEPT !.down = b]
                               IN new \in Object /\ new.pid = o.pid /\ new.there = o.there
         /\ LET new == [o EXCEPT !.ready = ~@]
            IN new \in Object /\ new.pid = o.pid /\ new.there = o.there
         /\ \A ip \in Address \cup {None} :
              LET new == [o EXCEPT !.told = ip]
              IN new \in Object /\ new.pid = o.pid /\ new.there = o.there
BY DEF Object

(* So are the Nodes with one of them replaced. *)
LEMMA ReplaceNode ==
  ASSUME TypeOK, NEW n \in Node, NEW new \in Object, nodes' = [nodes EXCEPT ![n] = new],
         new.pid = nodes[n].pid, nodes[n].there => new.there
  PROVE  /\ nodes' \in [Node -> Object]
         /\ \A m \in Node : nodes'[m].pid = nodes[m].pid /\ (nodes[m].there => nodes'[m].there)
BY DEF TypeOK

(* The configuration decides what a Node's override is. *)
LEMMA SameOverride ==
  ASSUME cfg' = cfg, life' = life
  PROVE  External(nodeInstanceOverride(life.name, life.copy))'
           = External(nodeInstanceOverride(life.name, life.copy))
BY DEF External, nodeInstanceOverride, getInstanceOverride, getInstanceOverrideByProviderID

(* The invariant holds initially. *)
LEMMA InitInv == Init => IInv
<1> SUFFICES ASSUME Init PROVE IInv
  OBVIOUS
<1>1. TypeOK
  BY NodesAssumption, Constants DEF Init, TypeOK
<1> QED
  BY <1>1, Constants DEF Init, IInv, SetsOnce, Missing, CopyOfNode, DeletesDoomed

-----------------------------------------------------------------------------
(* Steps that leave the IDs of the Nodes alone. *)
LEMMA KeepsIDs ==
  ASSUME IInv, TypeOK', cfg' = cfg, insts' = insts, sync' = sync, life' \in {life, Idle},
         \A n \in Node : /\ nodes'[n].pid = nodes[n].pid
                         /\ nodes[n].there => nodes'[n].there
  PROVE  IInv'
<1>1. SetsOnce' /\ Missing'
  BY DEF IInv, SetsOnce, Missing
<1>2. CASE life' = Idle
  BY <1>1, <1>2, Constants DEF IInv, CopyOfNode, DeletesDoomed
<1>3. CASE life' = life
  <2>1. life.name \in Node
    BY DEF IInv, TypeOK
  <2>2. Doomed(life.name)' = Doomed(life.name)
    BY <1>3, <2>1 DEF Doomed
  <2>3. CopyOfNode'
    BY <1>3, <2>1 DEF IInv, CopyOfNode
  <2>4. DeletesDoomed'
    BY <1>3, <2>2, SameOverride, Zenon DEF IInv, DeletesDoomed
  <2> QED
    BY <1>1, <2>3, <2>4 DEF IInv
<1> QED
  BY <1>2, <1>3

(* The types, when only Nodes, the lifecycle controller and counters change. *)
LEMMA NodesType ==
  ASSUME TypeOK, cfg' \in Configs, insts' = insts, sync' = sync, life' \in {life, Idle},
         nodes' \in [Node -> Object], restarts' \in Nat, changes' \in Nat, faults' \in Nat
  PROVE  TypeOK'
BY Constants DEF TypeOK

(* Faults are counted with naturals. *)
LEMMA CountersType ==
  ASSUME TypeOK
  PROVE  /\ \A n, node, got : Asks(n, node, got) => faults' \in Nat
         /\ NoFault \/ Fault => faults' \in Nat
<1>1. faults \in Nat
  BY DEF TypeOK
<1> QED
  BY <1>1 DEF Asks, NoFault, Fault

(* The modifiers set an ID only in a Node without one. *)
LEMMA SyncAskInv ==
  ASSUME IInv, NEW n \in Node, SyncAsk(n)
  PROVE  IInv'
<1> USE DEF IInv
<1> DEFINE metadata(got) == InstanceMetadata(n, nodes[n], got)
<1>1. PICK got \in Answers :
        /\ Asks(n, nodes[n], got)
        /\ \E meta \in {metadata(got)} :
             sync' = IF meta = None \/ Enforced(nodes[n].told, meta.addrs) = None THEN sync
                     ELSE [sync EXCEPT ![n] = [at |-> "update", set |-> nodes[n].pid = None,
                                               meta |-> meta]]
  BY Zenon DEF SyncAsk
<1>2. UNCHANGED <<cfg, insts, nodes, life, restarts, changes>>
  BY DEF SyncAsk
<1>3. metadata(got) \in Metadata \cup {None}
  BY <1>1, MetadataType
<1> HIDE DEF metadata
<1>4. faults' \in Nat
  BY <1>1, CountersType
<1>5. sync' \in [Node -> [at: {"idle", "update"}, set: BOOLEAN, meta: Metadata]]
  BY <1>1, <1>3 DEF TypeOK
<1>6. TypeOK'
  BY <1>2, <1>4, <1>5 DEF TypeOK
<1>7. SetsOnce'
  BY <1>1, <1>2 DEF SetsOnce, TypeOK
<1>8. Missing' /\ CopyOfNode'
  BY <1>2 DEF Missing, CopyOfNode
<1>9. DeletesDoomed'
  <2>1. Doomed(life.name)' = Doomed(life.name)
    BY <1>2 DEF Doomed
  <2> QED
    BY <1>2, <2>1, SameOverride, Zenon DEF DeletesDoomed
<1> QED
  BY <1>6, <1>7, <1>8, <1>9

(* The Node gets an ID only if it has none. *)
LEMMA SyncUpdateInv ==
  ASSUME IInv, NEW n \in Node, SyncUpdate(n)
  PROVE  IInv'
<1> USE DEF IInv
<1> DEFINE meta == sync[n].meta
           new == [nodes[n] EXCEPT !.pid = IF sync[n].set THEN meta.pid ELSE @, !.init = TRUE]
           addressed == [new EXCEPT !.addrs = NewAddresses(new, meta.addrs)]
<1>1. /\ sync' = [sync EXCEPT ![n] = NoSync]
      /\ UNCHANGED <<cfg, insts, life, restarts, changes>>
      /\ \/ nodes[n].there /\ nodes' = [nodes EXCEPT ![n] = addressed]
         \/ nodes[n].there /\ nodes' = [nodes EXCEPT ![n] = new]
         \/ nodes' = nodes
      /\ NoFault \/ Fault
  BY Zenon DEF SyncUpdate
<1>2. new \in Object /\ (new.pid = nodes[n].pid \/ nodes[n].pid = None) /\ new.there = nodes[n].there
  BY Types DEF Object, SetsOnce
<1>3. /\ addressed \in Object /\ addressed.pid = new.pid /\ addressed.there = new.there
  <2>1. new.addrs \in Addresses
    BY <1>2 DEF Object
  <2>2. NewAddresses(new, meta.addrs) \in Addresses
    BY <2>1, Types, NewAddressesType
  <2> HIDE DEF new
  <2> QED
    BY <1>2, <2>2 DEF Object
<1> HIDE DEF new, addressed
<1>4. /\ nodes' \in [Node -> Object]
      /\ \A m \in Node : /\ nodes'[m].there = nodes[m].there
                         /\ nodes'[m].pid = nodes[m].pid \/ nodes[m].pid = None
                         /\ ~nodes[m].there => nodes'[m].pid = nodes[m].pid
  BY <1>1, <1>2, <1>3 DEF TypeOK
<1>5. TypeOK'
  <2>1. sync' \in [Node -> [at: {"idle", "update"}, set: BOOLEAN, meta: Metadata]]
    BY <1>1, Constants DEF TypeOK
  <2>2. faults' \in Nat
    BY <1>1, CountersType
  <2> QED
    BY <1>1, <1>4, <2>1, <2>2 DEF TypeOK
<1>6. SetsOnce' /\ Missing'
  BY <1>1, <1>4, Constants DEF SetsOnce, Missing, TypeOK
<1>7. life.name \in Node
  BY DEF TypeOK
<1>8. CopyOfNode'
  BY <1>1, <1>4, <1>7 DEF CopyOfNode
<1>9. DeletesDoomed'
  <2>1. Doomed(life.name) => Doomed(life.name)'
    BY <1>1, <1>4, <1>7 DEF Doomed
  <2> QED
    BY <1>1, <2>1, SameOverride, Zenon DEF DeletesDoomed
<1> QED
  BY <1>5, <1>6, <1>8, <1>9

(* New addresses leave the ID alone. *)
LEMMA UpdateStatusInv ==
  ASSUME IInv, NEW n \in Node, UpdateStatus(n)
  PROVE  IInv'
<1> USE DEF IInv
<1> DEFINE metadata(got) == InstanceMetadata(n, nodes[n], got)
<1>1. PICK got \in Answers :
        /\ Asks(n, nodes[n], got)
        /\ \E meta \in {metadata(got)} :
             nodes' = IF meta = None THEN nodes
                      ELSE [nodes EXCEPT ![n].addrs = NewAddresses(nodes[n], meta.addrs)]
  BY Zenon DEF UpdateStatus
<1>2. UNCHANGED <<cfg, insts, sync, life, restarts, changes>>
  BY DEF UpdateStatus
<1>3. metadata(got) # None => NewAddresses(nodes[n], metadata(got).addrs) \in Addresses
  <2>1. metadata(got) \in Metadata \cup {None}
    BY <1>1, MetadataType
  <2> HIDE DEF metadata
  <2>2. metadata(got) # None => metadata(got).addrs \in Addresses
    BY <2>1 DEF Metadata
  <2> QED
    BY <2>2, Types, NewAddressesType
<1> HIDE DEF metadata
<1>4. /\ nodes' \in [Node -> Object]
      /\ \A m \in Node : nodes'[m].pid = nodes[m].pid /\ nodes'[m].there = nodes[m].there
  BY <1>1, <1>3 DEF TypeOK, Object
<1>5. TypeOK'
  BY <1>1, <1>2, <1>4, CountersType, NodesType DEF TypeOK
<1> QED
  BY <1>2, <1>4, <1>5, KeepsIDs

(* A Node whose instance is not found, for which no other may be asked,    *)
(* has lost it.                                                            *)
LEMMA MonitorInv ==
  ASSUME IInv, NEW n \in Node, Monitor(n)
  PROVE  IInv'
<1> USE DEF IInv
<1>1. UNCHANGED <<cfg, insts, sync, restarts, changes>> /\ nodes[n].there
  BY DEF Monitor
<1>2. CASE nodes' = [nodes EXCEPT ![n].down = FALSE] /\ NoFault /\ UNCHANGED life
  <2>1. /\ nodes' \in [Node -> Object]
        /\ \A m \in Node : nodes'[m].pid = nodes[m].pid /\ (nodes[m].there => nodes'[m].there)
    <3> DEFINE new == [nodes[n] EXCEPT !.down = FALSE]
    <3>1. nodes' = [nodes EXCEPT ![n] = new]
      BY <1>2
    <3>2. new \in Object /\ new.pid = nodes[n].pid /\ new.there = nodes[n].there
      BY Types, SetField
    <3> HIDE DEF new
    <3> QED
      BY <3>1, <3>2, ReplaceNode
  <2>2. TypeOK'
    BY <1>1, <1>2, <2>1, CountersType, NodesType DEF TypeOK
  <2> QED
    BY <1>1, <1>2, <2>1, <2>2, KeepsIDs
<1>3. ASSUME UNCHANGED nodes, NEW got \in Answers, Asks(n, nodes[n], got),
             life' = IF InstanceExists(n, nodes[n], got) = "error" THEN Idle
                     ELSE [at |-> IF InstanceExists(n, nodes[n], got) = "yes"
                                  THEN "shutdown" ELSE "delete",
                           name |-> n, copy |-> [pid |-> nodes[n].pid]]
      PROVE  IInv'
  <2>1. faults' \in Nat
    BY <1>3, CountersType
  <2>2. CASE life' = Idle
    <3>1. TypeOK'
      BY <1>1, <1>3, <2>1, <2>2, NodesType DEF TypeOK
    <3> QED
      BY <1>1, <1>3, <2>2, <3>1, KeepsIDs
  <2>3. CASE life' # Idle
    <3>1. /\ InstanceExists(n, nodes[n], got) # "error"
          /\ life' = [at |-> IF InstanceExists(n, nodes[n], got) = "yes"
                             THEN "shutdown" ELSE "delete",
                      name |-> n, copy |-> [pid |-> nodes[n].pid]]
      BY <1>3, <2>3, Zenon
    <3>2. TypeOK'
      BY <1>1, <1>3, <2>1, <3>1, Types DEF TypeOK
    <3>3. SetsOnce' /\ Missing' /\ CopyOfNode'
      BY <1>1, <1>3, <3>1 DEF SetsOnce, Missing, CopyOfNode
    <3>4. DeletesDoomed'
      <4> SUFFICES ASSUME life'.at = "delete"
                   PROVE  /\ ~External(nodeInstanceOverride(life.name, life.copy))'
                          /\ Doomed(life.name)'
        BY DEF DeletesDoomed
      <4>1. InstanceExists(n, nodes[n], got) \notin {"yes", "error"}
        BY <3>1
      <4>2. ~External(nodeInstanceOverride(n, nodes[n]))
        BY <4>1, Zenon DEF InstanceExists
      <4>3. cfg.externalOnly \/ got = "notfound"
        BY <4>1, <4>2, Zenon DEF InstanceExists
      <4>4. ~External(nodeInstanceOverride(life.name, life.copy))'
        BY <1>1, <3>1, <4>2
        DEF External, nodeInstanceOverride, getInstanceOverride, getInstanceOverrideByProviderID
      <4>5. Doomed(n)
        <5>1. CASE cfg.externalOnly
          BY <5>1 DEF Doomed
        <5>2. CASE got = "notfound" /\ nodes[n].pid \in {None, SystemUUID[n]}
          <6>1. computeInstanceByNode(n, nodes[n]) = SystemUUID[n] /\ SystemUUID[n] \in UUID
            BY <5>2, NodesAssumption DEF computeInstanceByNode
          <6>2. "notfound" \in computeInstanceByProviderID(SystemUUID[n])
            BY <1>3, <5>2, <6>1 DEF Asks
          <6>3. insts[SystemUUID[n]] \in {"running", "stopped", "gone"}
            BY <6>1 DEF TypeOK
          <6> QED
            BY <6>1, <6>2, <6>3 DEF computeInstanceByProviderID, Doomed
        <5> QED
          BY <4>3, <5>1, <5>2 DEF Doomed
      <4>6. life'.name = n
        BY <3>1
      <4>7. Doomed(life.name)'
        BY <1>1, <1>3, <4>5, <4>6 DEF Doomed
      <4> QED
        BY <4>4, <4>7
    <3> QED
      BY <3>2, <3>3, <3>4
  <2> QED
    BY <2>2, <2>3
<1> QED
  BY <1>2, <1>3, Zenon DEF Monitor

(* A deleted Node has no ID. *)
LEMMA DeleteNodeInv ==
  ASSUME IInv, DeleteNode
  PROVE  IInv'
<1> USE DEF IInv
<1>1. /\ life' = Idle /\ UNCHANGED <<cfg, insts, sync, restarts, changes>>
      /\ nodes' = [nodes EXCEPT ![life.name] = Absent] \/ nodes' = nodes
      /\ NoFault \/ Fault
  BY Zenon DEF DeleteNode
<1>2. nodes' \in [Node -> Object]
  BY <1>1, Constants DEF TypeOK
<1>3. TypeOK'
  BY <1>1, <1>2, CountersType, NodesType DEF TypeOK
<1>4. SetsOnce' /\ Missing'
  BY <1>1, Constants DEF SetsOnce, Missing, TypeOK
<1> QED
  BY <1>1, <1>3, <1>4, Constants DEF CopyOfNode, DeletesDoomed

(* The taint leaves the ID alone. *)
LEMMA TaintShutdownInv ==
  ASSUME IInv, TaintShutdown
  PROVE  IInv'
<1> USE DEF IInv
<1>1. /\ life' = Idle /\ UNCHANGED <<cfg, insts, sync, restarts, changes>>
      /\ \/ nodes' = [nodes EXCEPT ![life.name].down = nodes[life.name].there]
         \/ nodes' = nodes
      /\ \E got \in Answers : Asks(life.name, life.copy, got)
  BY Zenon DEF TaintShutdown
<1>2. /\ nodes' \in [Node -> Object]
      /\ \A m \in Node : nodes'[m].pid = nodes[m].pid /\ (nodes[m].there => nodes'[m].there)
  <2>1. life.name \in Node
    BY DEF TypeOK
  <2>2. nodes[life.name].there \in BOOLEAN
    BY <2>1, Types DEF Object
  <2>3. CASE nodes' = nodes
    BY <2>3 DEF TypeOK
  <2>4. CASE nodes' = [nodes EXCEPT ![life.name].down = nodes[life.name].there]
    BY <2>1, <2>2, <2>4, Types, SetField, ReplaceNode
  <2> QED
    BY <1>1, <2>3, <2>4
<1>3. TypeOK'
  BY <1>1, <1>2, CountersType, NodesType DEF TypeOK
<1> QED
  BY <1>1, <1>2, <1>3, KeepsIDs

(* Kubelets do not touch IDs. *)
LEMMA KubeletInv ==
  ASSUME IInv, NEW n \in Node, Register(n) \/ Heartbeat(n) \/ Annotate(n)
  PROVE  IInv'
<1> USE DEF IInv
<1>1. /\ UNCHANGED <<cfg, insts, sync, life, restarts, faults>>
      /\ changes' \in Nat
  <2>1. changes \in Nat
    BY DEF TypeOK
  <2>2. CASE Register(n)
    BY <2>1, <2>2 DEF Register, counters
  <2>3. CASE Heartbeat(n)
    BY <2>1, <2>3 DEF Heartbeat, counters
  <2>4. CASE Annotate(n)
    BY <2>1, <2>4 DEF Annotate
  <2> QED
    BY <2>2, <2>3, <2>4
<1>2. /\ nodes' \in [Node -> Object]
      /\ \A m \in Node : /\ nodes'[m].pid = nodes[m].pid
                         /\ nodes[m].there => nodes'[m].there
  <2>1. CASE Heartbeat(n)
    <3> DEFINE new == [nodes[n] EXCEPT !.ready = ~@]
    <3>1. nodes' = [nodes EXCEPT ![n] = new]
      BY <2>1 DEF Heartbeat
    <3>2. new \in Object /\ new.pid = nodes[n].pid /\ new.there = nodes[n].there
      BY Types, SetField
    <3> HIDE DEF new
    <3> QED
      BY <3>1, <3>2, ReplaceNode
  <2>2. CASE Annotate(n)
    <3>1. PICK ip \in NodeIP[n] : nodes' = [nodes EXCEPT ![n].told = ip]
      BY <2>2, Zenon DEF Annotate
    <3>2. ip \in Address \cup {None}
      BY NodesAssumption
    <3> DEFINE new == [nodes[n] EXCEPT !.told = ip]
    <3>3. nodes' = [nodes EXCEPT ![n] = new]
      BY <3>1
    <3>4. new \in Object /\ new.pid = nodes[n].pid /\ new.there = nodes[n].there
      BY <3>2, Types, SetField
    <3> HIDE DEF new
    <3> QED
      BY <3>3, <3>4, ReplaceNode
  <2>3. CASE Register(n)
    <3>1. PICK ip \in NodeIP[n] :
            nodes' = [nodes EXCEPT ![n] = [Absent EXCEPT !.there = TRUE, !.told = ip,
                                                         !.addrs = {<<"Hostname", n>>}]]
      BY <2>3, Zenon DEF Register
    <3> DEFINE new == [Absent EXCEPT !.there = TRUE, !.told = ip, !.addrs = {<<"Hostname", n>>}]
    <3>2. {<<"Hostname", n>>} \in Addresses /\ ip \in Address \cup {None}
      <4>1. <<"Hostname", n>> \in AddressType \X (Node \cup Address)
        BY DEF AddressType
      <4> QED
        BY <4>1, NodesAssumption DEF Addresses
    <3>3. new \in Object /\ new.pid = None /\ new.there
      BY <3>2, Constants DEF Absent, Object
    <3>4. nodes[n].pid = None /\ ~nodes[n].there
      BY <2>3 DEF Register, Missing
    <3> HIDE DEF new
    <3> QED
      BY <3>1, <3>3, <3>4 DEF new, TypeOK
  <2> QED
    BY <2>1, <2>2, <2>3
<1>3. TypeOK'
  BY <1>1, <1>2, NodesType DEF TypeOK
<1> QED
  BY <1>1, <1>2, <1>3, KeepsIDs

(* An instance that is gone stays so. *)
LEMMA ChangeInstanceInv ==
  ASSUME IInv, NEW u \in UUID, ChangeInstance(u)
  PROVE  IInv'
<1> USE DEF IInv
<1>1. /\ UNCHANGED <<cfg, nodes, sync, life, restarts, faults>>
      /\ changes' \in Nat /\ insts' \in [UUID -> {"running", "stopped", "gone"}]
      /\ \A v \in UUID : insts[v] = "gone" => insts'[v] = "gone"
  BY DEF ChangeInstance, TypeOK
<1>2. TypeOK'
  BY <1>1 DEF TypeOK
<1>3. SetsOnce' /\ Missing' /\ CopyOfNode'
  BY <1>1 DEF SetsOnce, Missing, CopyOfNode
<1>4. life.name \in Node /\ SystemUUID[life.name] \in UUID
  BY NodesAssumption DEF TypeOK
<1>5. Doomed(life.name) => Doomed(life.name)'
  BY <1>1, <1>4 DEF Doomed
<1>6. DeletesDoomed'
  BY <1>1, <1>5, SameOverride, Zenon DEF DeletesDoomed
<1> QED
  BY <1>2, <1>3, <1>6

(* After a restart no controller has anything in hand. *)
LEMMA RestartInv ==
  ASSUME IInv, Restart
  PROVE  IInv'
<1> USE DEF IInv
<1>1. TypeOK'
  BY Constants DEF Restart, TypeOK
<1>2. SetsOnce' /\ Missing' /\ CopyOfNode' /\ DeletesDoomed'
  BY Constants DEF Restart, SetsOnce, Missing, CopyOfNode, DeletesDoomed
<1> QED
  BY <1>1, <1>2

(* Every step keeps the invariant. *)
LEMMA StepInv == IInv /\ [Next]_vars => IInv'
<1> SUFFICES ASSUME IInv, [Next]_vars PROVE IInv'
  OBVIOUS
<1>1. CASE UNCHANGED vars
  <2>1. UNCHANGED <<cfg, insts, nodes, sync, life, restarts, changes, faults>>
    BY <1>1 DEF vars, counters
  <2>2. TypeOK'
    BY <2>1 DEF IInv, TypeOK
  <2> QED
    BY <2>1, <2>2, KeepsIDs
<1>2. ASSUME NEW n \in Node, NodeController(n) PROVE IInv'
  BY <1>2, SyncAskInv, SyncUpdateInv, UpdateStatusInv DEF NodeController
<1>3. ASSUME NEW n \in Node, Monitor(n) PROVE IInv'
  BY <1>3, MonitorInv
<1>4. CASE DeleteNode
  BY <1>4, DeleteNodeInv
<1>5. CASE TaintShutdown
  BY <1>5, TaintShutdownInv
<1>6. ASSUME NEW n \in Node, Register(n) \/ Heartbeat(n) \/ Annotate(n) PROVE IInv'
  BY <1>6, KubeletInv
<1>7. ASSUME NEW u \in UUID, ChangeInstance(u) PROVE IInv'
  BY <1>7, ChangeInstanceInv
<1>8. CASE Restart
  BY <1>8, RestartInv
<1> QED
  BY <1>1, <1>2, <1>3, <1>4, <1>5, <1>6, <1>7, <1>8 DEF Next, Controllers, Environment

(* So the invariant holds always. *)
LEMMA Inductive == Spec => []IInv
BY InitInv, StepInv, PTL DEF Spec

-----------------------------------------------------------------------------
(* Every variable keeps its type. *)
THEOREM NodesTypeCorrect == Spec => []TypeOK
<1>1. IInv => TypeOK
  BY DEF IInv
<1> QED
  BY <1>1, Inductive, PTL

(* Only DeleteNode deletes, and only TaintShutdown taints. *)
LEMMA WhoHarms ==
  ASSUME IInv, Next, NEW n \in Node, nodes[n].there,
         ~nodes'[n].there \/ (nodes'[n].down /\ ~nodes[n].down)
  PROVE  \/ DeleteNode /\ n = life.name /\ ~nodes'[n].there
         \/ TaintShutdown /\ n = life.name /\ nodes'[n].there
<1>1. nodes \in [Node -> Object]
  BY DEF IInv, TypeOK
<1>2. nodes[n] \in Object
  BY <1>1
<1>3. ASSUME NEW m \in Node, SyncAsk(m) PROVE FALSE
  BY <1>3 DEF SyncAsk
<1>4. ASSUME NEW m \in Node, SyncUpdate(m) PROVE FALSE
  <2> DEFINE new == [nodes[m] EXCEPT !.pid = IF sync[m].set THEN sync[m].meta.pid ELSE @,
                                     !.init = TRUE]
             addressed == [new EXCEPT !.addrs = NewAddresses(new, sync[m].meta.addrs)]
  <2>1. \/ nodes' = [nodes EXCEPT ![m] = addressed]
        \/ nodes' = [nodes EXCEPT ![m] = new]
        \/ nodes' = nodes
    BY <1>4, Zenon DEF SyncUpdate
  <2>2. /\ new.there = nodes[m].there /\ new.down = nodes[m].down
        /\ addressed.there = nodes[m].there /\ addressed.down = nodes[m].down
    BY <1>1 DEF Object
  <2> HIDE DEF new, addressed
  <2> QED
    BY <1>1, <2>1, <2>2
<1>5. ASSUME NEW m \in Node, UpdateStatus(m) PROVE FALSE
  <2>1. PICK addrs : nodes' = nodes \/ nodes' = [nodes EXCEPT ![m].addrs = addrs]
    BY <1>5, Zenon DEF UpdateStatus
  <2> QED
    BY <1>1, <2>1 DEF Object
<1>6. ASSUME NEW m \in Node, Monitor(m) PROVE FALSE
  <2>1. nodes' = nodes \/ nodes' = [nodes EXCEPT ![m].down = FALSE]
    BY <1>6, Zenon DEF Monitor
  <2> QED
    BY <1>1, <2>1 DEF Object
<1>7. CASE DeleteNode
  <2>1. n = life.name /\ nodes' = [nodes EXCEPT ![life.name] = Absent]
    BY <1>1, <1>7 DEF DeleteNode
  <2>2. ~nodes'[n].there
    BY <1>1, <2>1 DEF Absent
  <2> QED
    BY <1>7, <2>1, <2>2
<1>8. CASE TaintShutdown
  <2>1. \/ nodes' = [nodes EXCEPT ![life.name].down = nodes[life.name].there]
        \/ nodes' = nodes
    BY <1>8, Zenon DEF TaintShutdown
  <2>2. n = life.name /\ nodes'[n].there
    BY <1>1, <2>1 DEF Object
  <2> QED
    BY <1>8, <2>2
<1>9. ASSUME NEW m \in Node, Register(m) PROVE FALSE
  BY <1>1, <1>9 DEF Register, Absent
<1>10. ASSUME NEW m \in Node, Heartbeat(m) \/ Annotate(m) PROVE FALSE
  <2>1. \/ nodes' = [nodes EXCEPT ![m].ready = ~@]
        \/ \E ip \in NodeIP[m] : nodes' = [nodes EXCEPT ![m].told = ip]
    BY <1>10, Zenon DEF Heartbeat, Annotate
  <2> QED
    BY <1>1, <2>1 DEF Object
<1>11. CASE Restart \/ \E u \in UUID : ChangeInstance(u)
  BY <1>11 DEF Restart, ChangeInstance
<1> QED
  BY <1>3, <1>4, <1>5, <1>6, <1>7, <1>8, <1>9, <1>10, <1>11
  DEF Next, Controllers, Environment, NodeController

(* The provider says that there is an instance of a covered Node, from the *)
(* Node as it is as well as from an earlier copy without an ID.            *)
LEMMA CoveredIsExternal ==
  ASSUME IInv, NEW n \in Node, Covered(n), NEW copy, copy.pid \in {None, nodes[n].pid}
  PROVE  External(nodeInstanceOverride(n, copy))
<1> DEFINE byID == getInstanceOverrideByProviderID(nodes[n].pid)
<1>1. External(getInstanceOverride(n)) /\ (byID = None \/ External(byID))
  BY Zenon DEF Covered
<1>2. CASE copy.pid = None
  BY <1>1, <1>2 DEF nodeInstanceOverride
<1>3. CASE copy.pid # None
  <2>1. copy.pid = nodes[n].pid
    BY <1>3
  <2>2. nodeInstanceOverride(n, copy) = IF byID # None THEN byID ELSE getInstanceOverride(n)
    BY <1>3, <2>1 DEF nodeInstanceOverride
  <2> QED
    BY <1>1, <2>2
<1> QED
  BY <1>2, <1>3

(* An external Node is neither deleted nor tainted, whatever ID it has and *)
(* whatever happens between the question and the act: the controllers'     *)
(* only harmful steps follow from an answer that InstanceExists and        *)
(* InstanceShutdown do not give for it.                                    *)
THEOREM ExternalNodesKept == Spec => ExternalLeftAlone
<1>1. ASSUME IInv, [Next]_vars, NEW n \in Node, nodes[n].there, Covered(n), cfg' = cfg
      PROVE  nodes'[n].there /\ (nodes'[n].down => nodes[n].down)
  <2> SUFFICES ASSUME ~nodes'[n].there \/ (nodes'[n].down /\ ~nodes[n].down)
               PROVE  FALSE
    OBVIOUS
  <2>1. Next
    <3>1. nodes[n].there /\ nodes' # nodes
      BY <1>1
    <3> QED
      BY <1>1, <3>1 DEF vars
  <2>2. /\ n = life.name /\ life.at # "idle"
        /\ \/ DeleteNode /\ life.at = "delete"
           \/ TaintShutdown /\ nodes'[n].there
    BY <1>1, <2>1, WhoHarms DEF DeleteNode, TaintShutdown
  <2>3. life.copy.pid \in {None, nodes[n].pid}
    BY <1>1, <2>2 DEF IInv, CopyOfNode
  <2>4. External(nodeInstanceOverride(n, life.copy))
    BY <1>1, <2>3, CoveredIsExternal
  <2>5. CASE life.at = "delete"
    BY <1>1, <2>2, <2>4, <2>5 DEF IInv, DeletesDoomed
  <2>6. CASE TaintShutdown /\ nodes'[n].there
    <3>1. \A got : InstanceShutdown(n, life.copy, got) = "error"
      BY <2>4, Zenon DEF InstanceShutdown
    <3>2. \A got : InstanceShutdown(n, life.copy, got) # "yes"
      BY <3>1
    <3>3. nodes' = nodes
      BY <2>2, <2>6, <3>2, Zenon DEF TaintShutdown
    <3> QED
      BY <1>1, <2>6, <3>3
  <2> QED
    BY <2>2, <2>5, <2>6
<1>2. IInv /\ [Next]_vars =>
        [\A n \in Node : nodes[n].there /\ Covered(n) /\ cfg' = cfg =>
           nodes'[n].there /\ (nodes'[n].down => nodes[n].down)]_vars
  BY <1>1, Zenon
<1> QED
  BY <1>2, Inductive, PTL DEF Spec, ExternalLeftAlone

(* A Node is deleted only when InstanceExists was right to say that it has *)
(* no instance, and still is: its instance is gone, or the provider may    *)
(* not ask for it, or the Node has the ID of something else.               *)
THEOREM DeletionsJustified == Spec => DeletedIfGone
<1>1. ASSUME IInv, [Next]_vars, NEW n \in Node, nodes[n].there, ~nodes'[n].there
      PROVE  \/ insts[SystemUUID[n]] = "gone"
             \/ cfg.externalOnly
             \/ nodes[n].pid \notin {None, SystemUUID[n]}
  <2>1. Next
    BY <1>1 DEF vars
  <2>2. DeleteNode /\ n = life.name
    BY <1>1, <2>1, WhoHarms
  <2>3. Doomed(n)
    BY <1>1, <2>2 DEF DeleteNode, IInv, DeletesDoomed
  <2> QED
    BY <2>3 DEF Doomed
<1>2. IInv /\ [Next]_vars =>
        [\A n \in Node : nodes[n].there /\ ~nodes'[n].there =>
           \/ insts[SystemUUID[n]] = "gone"
           \/ cfg.externalOnly
           \/ nodes[n].pid \notin {None, SystemUUID[n]}]_vars
  BY <1>1, Zenon
<1> QED
  BY <1>2, Inductive, PTL DEF Spec, DeletedIfGone

-----------------------------------------------------------------------------
(* IDs.  A Node's ID is its system UUID, or that of an external override   *)
(* about it in some configuration.                                         *)
About(o, n) == o.name = n \/ (o.name \in Pattern /\ n \in Matches[o.name])

GivenTo(n, id) ==
  \/ id = SystemUUID[n]
  \/ \E c \in Configs : \E k \in DOMAIN c.overrides :
       /\ c.overrides[k].external /\ About(c.overrides[k], n)
       /\ id = ExternalIDOf(c.overrides[k])

(* The IDs in the Nodes, and those that syncNode is about to put there. *)
Given ==
  \A n \in Node : /\ nodes[n].pid # None => GivenTo(n, nodes[n].pid)
                  /\ sync[n].set => GivenTo(n, sync[n].meta.pid)

(* The override found by name is about the Node. *)
LEMMA FoundByName ==
  ASSUME cfg \in Configs, NEW n \in Node, getInstanceOverride(n) # None
  PROVE  \E k \in DOMAIN cfg.overrides :
           /\ getInstanceOverride(n) = cfg.overrides[k] /\ About(cfg.overrides[k], n)
           /\ \A l \in DOMAIN cfg.overrides : cfg.overrides[l].name = cfg.overrides[k].name => k <= l
<1> DEFINE O == cfg.overrides
           Exact == {k \in DOMAIN O : O[k].name = n}
           Regexp == {k \in DOMAIN O : O[k].name \in Pattern /\ n \in Matches[O[k].name]}
           K == IF Exact # {} THEN Exact ELSE Regexp
<1>1. O \in Seq(instancesOverrideConfig)
  BY NodesAssumption DEF instancesConfig
<1>2. getInstanceOverride(n) = First(O, K)
  BY Zenon DEF getInstanceOverride, OverrideByName
<1>3. K \in SUBSET Nat
  BY <1>1
<1>4. K # {}
  <2> HIDE DEF K
  <2> QED
    BY <1>2 DEF First
<1>5. PICK k \in K : First(O, K) = O[k] /\ \A l \in K : k <= l
  <2> HIDE DEF K, O
  <2> QED
    BY <1>3, <1>4, FirstLeast
<1>6. k \in DOMAIN O /\ About(O[k], n)
  BY DEF About
<1>7. \A l \in DOMAIN O : O[l].name = O[k].name => l \in K
  BY NodesAssumption
<1> HIDE DEF K
<1> QED
  BY <1>2, <1>5, <1>6, <1>7

(* The ID in the metadata of a Node without one is given to it. *)
LEMMA MetadataGives ==
  ASSUME TypeOK, NEW n \in Node, nodes[n].pid = None, NEW got,
         InstanceMetadata(n, nodes[n], got) # None
  PROVE  GivenTo(n, InstanceMetadata(n, nodes[n], got).pid)
<1> DEFINE o == getInstanceOverride(n)
<1>1. nodeInstanceOverride(n, nodes[n]) = o
  BY DEF nodeInstanceOverride
<1>2. CASE External(o)
  <2>1. InstanceMetadata(n, nodes[n], got).pid = ExternalIDOf(o)
    <3>1. PICK type, region, addrs :
            InstanceMetadata(n, nodes[n], got) =
              [pid |-> ExternalIDOf(o), type |-> type, zone |-> region, region |-> region,
               addrs |-> addrs]
      BY <1>1, <1>2, Zenon DEF InstanceMetadata
    <3> QED
      BY <3>1
  <2>2. o # None /\ o.external
    BY <1>2 DEF External
  <2>3. cfg \in Configs
    BY DEF TypeOK
  <2> HIDE DEF o
  <2> QED
    BY <2>1, <2>2, <2>3, FoundByName DEF GivenTo, o
<1>3. CASE ~External(o)
  <2>1. computeInstanceByNode(n, nodes[n]) = SystemUUID[n]
    BY DEF computeInstanceByNode
  <2>2. PICK type, region, addrs :
          InstanceMetadata(n, nodes[n], got) =
            [pid |-> SystemUUID[n], type |-> type, zone |-> region, region |-> region,
             addrs |-> addrs]
    <3> HIDE DEF o
    <3> QED
      BY <1>1, <1>3, <2>1, Zenon DEF InstanceMetadata
  <2> QED
    BY <2>2 DEF GivenTo
<1> QED
  BY <1>2, <1>3

(* Only syncNode puts an ID into a Node, the one it got with the metadata. *)
LEMMA IDChanges ==
  ASSUME IInv, Next, NEW m \in Node
  PROVE  \/ nodes'[m].pid \in {None, nodes[m].pid}
         \/ sync[m].set /\ nodes'[m].pid = sync[m].meta.pid
<1>1. nodes \in [Node -> Object]
  BY DEF IInv, TypeOK
<1>2. ASSUME NEW n \in Node, SyncUpdate(n)
      PROVE  nodes'[m].pid = nodes[m].pid \/ (sync[m].set /\ nodes'[m].pid = sync[m].meta.pid)
  <2> DEFINE new == [nodes[n] EXCEPT !.pid = IF sync[n].set THEN sync[n].meta.pid ELSE @,
                                     !.init = TRUE]
             addressed == [new EXCEPT !.addrs = NewAddresses(new, sync[n].meta.addrs)]
  <2>1. \/ nodes' = [nodes EXCEPT ![n] = addressed]
        \/ nodes' = [nodes EXCEPT ![n] = new]
        \/ nodes' = nodes
    BY <1>2, Zenon DEF SyncUpdate
  <2>2. /\ new.pid = (IF sync[n].set THEN sync[n].meta.pid ELSE nodes[n].pid)
        /\ addressed.pid = new.pid
    BY <1>1 DEF Object
  <2> HIDE DEF new, addressed
  <2> QED
    BY <1>1, <2>1, <2>2
<1>3. ASSUME NEW n \in Node, SyncAsk(n) \/ UpdateStatus(n) \/ Monitor(n)
      PROVE  nodes'[m].pid = nodes[m].pid
  <2>1. PICK addrs : \/ nodes' = nodes \/ nodes' = [nodes EXCEPT ![n].addrs = addrs]
                     \/ nodes' = [nodes EXCEPT ![n].down = FALSE]
    BY <1>3, Zenon DEF SyncAsk, UpdateStatus, Monitor
  <2> QED
    BY <1>1, <2>1 DEF Object
<1>4. CASE DeleteNode
  BY <1>1, <1>4 DEF DeleteNode, Absent
<1>5. CASE TaintShutdown
  <2>1. \/ nodes' = [nodes EXCEPT ![life.name].down = nodes[life.name].there]
        \/ nodes' = nodes
    BY <1>5, Zenon DEF TaintShutdown
  <2> QED
    BY <1>1, <2>1 DEF Object
<1>6. ASSUME NEW n \in Node, Register(n) PROVE nodes'[m].pid \in {None, nodes[m].pid}
  BY <1>1, <1>6 DEF Register, Absent
<1>7. ASSUME NEW n \in Node, Heartbeat(n) \/ Annotate(n) PROVE nodes'[m].pid = nodes[m].pid
  <2>1. \/ nodes' = [nodes EXCEPT ![n].ready = ~@]
        \/ \E ip \in NodeIP[n] : nodes' = [nodes EXCEPT ![n].told = ip]
    BY <1>7, Zenon DEF Heartbeat, Annotate
  <2> QED
    BY <1>1, <2>1 DEF Object
<1>8. CASE Restart \/ \E u \in UUID : ChangeInstance(u)
  BY <1>8 DEF Restart, ChangeInstance
<1> QED
  BY <1>2, <1>3, <1>4, <1>5, <1>6, <1>7, <1>8
  DEF Next, Controllers, Environment, NodeController

(* The metadata that syncNode holds stay as they are until it is done. *)
LEMMA SyncChanges ==
  ASSUME IInv, Next, NEW m \in Node
  PROVE  \/ sync'[m] = sync[m] \/ ~sync'[m].set
         \/ /\ nodes[m].pid = None
            /\ \E got : /\ InstanceMetadata(m, nodes[m], got) # None
                        /\ sync'[m].meta = InstanceMetadata(m, nodes[m], got)
<1>1. sync \in [Node -> [at: {"idle", "update"}, set: BOOLEAN, meta: Metadata]]
  BY DEF IInv, TypeOK
<1>2. ASSUME NEW n \in Node, SyncAsk(n)
      PROVE  \/ sync'[m] = sync[m] \/ ~sync'[m].set
             \/ /\ nodes[m].pid = None
                /\ \E got : /\ InstanceMetadata(m, nodes[m], got) # None
                            /\ sync'[m].meta = InstanceMetadata(m, nodes[m], got)
  <2> DEFINE metadata(got) == InstanceMetadata(n, nodes[n], got)
  <2>0. PICK got :
          \E meta \in {metadata(got)} :
             sync' = IF meta = None \/ Enforced(nodes[n].told, meta.addrs) = None THEN sync
                     ELSE [sync EXCEPT ![n] = [at |-> "update", set |-> nodes[n].pid = None,
                                               meta |-> meta]]
    BY <1>2, Zenon DEF SyncAsk
  <2> HIDE DEF metadata
  <2>1. \/ sync' = sync
        \/ /\ metadata(got) # None
           /\ sync' = [sync EXCEPT ![n] = [at |-> "update", set |-> (nodes[n].pid = None),
                                           meta |-> metadata(got)]]
    BY <2>0, Zenon
  <2>2. CASE m = n
    <3> DEFINE unset == (nodes[n].pid = None)
    <3> HIDE DEF unset
    <3>0. \/ sync' = sync
          \/ /\ metadata(got) # None
             /\ sync' = [sync EXCEPT ![n] = [at |-> "update", set |-> unset,
                                             meta |-> metadata(got)]]
      BY <2>1 DEF unset
    <3>1. \/ sync'[m] = sync[m] \/ ~sync'[m].set
          \/ nodes[n].pid = None /\ metadata(got) # None /\ sync'[n].meta = metadata(got)
      <4>1. CASE sync' = sync
        BY <4>1
      <4>2. CASE /\ metadata(got) # None
                 /\ sync' = [sync EXCEPT ![n] = [at |-> "update", set |-> unset,
                                                 meta |-> metadata(got)]]
        <5>1. sync'[n] = [at |-> "update", set |-> unset, meta |-> metadata(got)]
          BY <1>1, <4>2
        <5>2. sync'[n].set = unset /\ sync'[n].meta = metadata(got)
          <6> HIDE DEF unset
          <6> DEFINE found == metadata(got)
          <6> HIDE DEF found
          <6>1. sync'[n] = [at |-> "update", set |-> unset, meta |-> found]
            BY <5>1 DEF found
          <6>2. sync'[n].set = unset /\ sync'[n].meta = found
            BY <6>1
          <6> QED
            BY <6>2 DEF found
        <5> QED
          BY <2>2, <4>2, <5>2, Zenon DEF unset
      <4> QED
        BY <3>0, <4>1, <4>2
    <3> QED
      BY <2>2, <3>1, Zenon DEF metadata
  <2>3. CASE m # n
    BY <1>1, <2>1, <2>3
  <2> QED
    BY <2>2, <2>3
<1>3. ASSUME NEW n \in Node, SyncUpdate(n) PROVE sync'[m] = sync[m] \/ ~sync'[m].set
  <2>1. sync' = [sync EXCEPT ![n] = NoSync]
    BY <1>3, Zenon DEF SyncUpdate
  <2> QED
    BY <1>1, <2>1, Constants
<1>4. ASSUME NEW n \in Node, UpdateStatus(n) \/ Monitor(n) PROVE sync'[m] = sync[m]
  BY <1>4, Zenon DEF UpdateStatus, Monitor
<1>5. CASE DeleteNode \/ TaintShutdown
  BY <1>5, Zenon DEF DeleteNode, TaintShutdown
<1>6. ASSUME NEW n \in Node, Register(n) \/ Heartbeat(n) \/ Annotate(n) PROVE sync'[m] = sync[m]
  BY <1>6, Zenon DEF Register, Heartbeat, Annotate
<1>7. ASSUME NEW u \in UUID, ChangeInstance(u) PROVE sync'[m] = sync[m]
  BY <1>7, Zenon DEF ChangeInstance
<1>8. CASE Restart
  BY <1>8, Constants DEF Restart
<1> QED
  BY <1>2, <1>3, <1>4, <1>5, <1>6, <1>7, <1>8
  DEF Next, Controllers, Environment, NodeController

(* So every ID is given to its Node. *)
LEMMA GivenStep == IInv /\ Given /\ [Next]_vars => Given'
<1> SUFFICES ASSUME IInv, Given, [Next]_vars, NEW m \in Node
             PROVE  /\ nodes'[m].pid # None => GivenTo(m, nodes'[m].pid)
                    /\ sync'[m].set => GivenTo(m, sync'[m].meta.pid)
  BY DEF Given, GivenTo
<1>1. CASE UNCHANGED vars
  BY <1>1 DEF Given, vars
<1>2. CASE Next
  <2>1. nodes'[m].pid # None => GivenTo(m, nodes'[m].pid)
    BY <1>2, IDChanges DEF Given
  <2>2. sync'[m].set => GivenTo(m, sync'[m].meta.pid)
    <3>1. CASE sync'[m] = sync[m]
      BY <3>1 DEF Given
    <3>2. CASE /\ nodes[m].pid = None
               /\ \E got : /\ InstanceMetadata(m, nodes[m], got) # None
                           /\ sync'[m].meta = InstanceMetadata(m, nodes[m], got)
      BY <3>2, MetadataGives DEF IInv
    <3> QED
      BY <1>2, <3>1, <3>2, SyncChanges
  <2> QED
    BY <2>1, <2>2
<1> QED
  BY <1>1, <1>2

(* An externalID, given or by default, is that of one name. *)
LEMMA OneName ==
  ASSUME DistinctIDs
  PROVE  \A c, d \in Configs : \A k \in DOMAIN c.overrides : \A l \in DOMAIN d.overrides :
           ExternalIDOf(c.overrides[k]) = ExternalIDOf(d.overrides[l])
             => c.overrides[k].name = d.overrides[l].name
<1> SUFFICES ASSUME NEW c \in Configs, NEW d \in Configs,
                    NEW k \in DOMAIN c.overrides, NEW l \in DOMAIN d.overrides,
                    ExternalIDOf(c.overrides[k]) = ExternalIDOf(d.overrides[l])
             PROVE  c.overrides[k].name = d.overrides[l].name
  OBVIOUS
<1> DEFINE o == c.overrides[k]
           u == d.overrides[l]
<1>1. c.overrides \in Seq(instancesOverrideConfig) /\ d.overrides \in Seq(instancesOverrideConfig)
  BY NodesAssumption DEF instancesConfig
<1>2. o \in instancesOverrideConfig /\ u \in instancesOverrideConfig
  BY <1>1
<1>3. /\ o.id \in ExternalID \cup {None} /\ u.id \in ExternalID \cup {None}
      /\ o.name \in Node \cup Pattern /\ u.name \in Node \cup Pattern
  BY <1>2 DEF instancesOverrideConfig
<1>4. o.id # None /\ o.id = u.id => o.name = u.name
  BY Zenon DEF DistinctIDs
<1>5. ExternalID \cap DefaultID = {}
  BY Zenon DEF DistinctIDs
<1>6. ExternalIDOf(o) = ExternalIDOf(u)
  OBVIOUS
<1> HIDE DEF o, u
<1>7. /\ <<"external", o.name>> \in DefaultID /\ <<"external", u.name>> \in DefaultID
      /\ <<"external", o.name>> = <<"external", u.name>> => o.name = u.name
  BY <1>3 DEF DefaultID
<1>8. o.name = u.name
  BY <1>3, <1>4, <1>5, <1>6, <1>7 DEF ExternalIDOf, defaultInstanceOverrideExternalID
<1> QED
  BY <1>8 DEF o, u

(* Two Nodes can have one ID only from one override, and an override about *)
(* two Nodes is one with a pattern.                                        *)
LEMMA GivenIsUnique ==
  ASSUME DistinctIDs, TypeOK, Given
  PROVE  UniqueIDs
<1> SUFFICES ASSUME NEW n \in Node, NEW m \in Node, n # m, nodes[n].pid # None,
                    nodes[n].pid = nodes[m].pid
             PROVE  \E c \in Configs : \E k \in DOMAIN c.overrides :
                      LET o == c.overrides[k]
                      IN /\ o.external /\ o.name \in Pattern /\ {n, m} \subseteq Matches[o.name]
                         /\ nodes[n].pid \in {o.id, <<"external", o.name>>}
  BY DEF UniqueIDs
<1> DEFINE id == nodes[n].pid
<1>1. GivenTo(n, id) /\ GivenTo(m, id)
  BY DEF Given
<1>2. ASSUME NEW c \in Configs, NEW k \in DOMAIN c.overrides
      PROVE  /\ ExternalIDOf(c.overrides[k]) \notin UUID
             /\ ExternalIDOf(c.overrides[k]) \in {c.overrides[k].id, <<"external", c.overrides[k].name>>}
  <2>0. c.overrides \in Seq(instancesOverrideConfig)
    BY <1>2, NodesAssumption DEF instancesConfig
  <2>1. c.overrides[k] \in instancesOverrideConfig
    BY <1>2, <2>0
  <2> QED
    BY <2>1 DEF DistinctIDs, ExternalIDOf, defaultInstanceOverrideExternalID, DefaultID,
                instancesOverrideConfig
<1>3. SystemUUID[n] \in UUID /\ SystemUUID[m] \in UUID /\ SystemUUID[n] # SystemUUID[m]
  BY NodesAssumption DEF DistinctIDs
<1>a. PICK c \in Configs : \E k \in DOMAIN c.overrides :
        c.overrides[k].external /\ About(c.overrides[k], n) /\ id = ExternalIDOf(c.overrides[k])
  BY <1>1, <1>2, <1>3 DEF GivenTo
<1>4. PICK k \in DOMAIN c.overrides :
        c.overrides[k].external /\ About(c.overrides[k], n) /\ id = ExternalIDOf(c.overrides[k])
  BY <1>a
<1>b. PICK d \in Configs : \E l \in DOMAIN d.overrides :
        d.overrides[l].external /\ About(d.overrides[l], m) /\ id = ExternalIDOf(d.overrides[l])
  BY <1>1, <1>2, <1>3 DEF GivenTo
<1>5. PICK l \in DOMAIN d.overrides :
        d.overrides[l].external /\ About(d.overrides[l], m) /\ id = ExternalIDOf(d.overrides[l])
  BY <1>b
<1>6. c.overrides[k].name = d.overrides[l].name
  <2>1. ExternalIDOf(c.overrides[k]) = ExternalIDOf(d.overrides[l])
    BY <1>4, <1>5
  <2>2. \A x, y \in Configs : \A i \in DOMAIN x.overrides : \A j \in DOMAIN y.overrides :
          ExternalIDOf(x.overrides[i]) = ExternalIDOf(y.overrides[j])
            => x.overrides[i].name = y.overrides[j].name
    BY OneName
  <2> QED
    BY <2>1, <2>2
<1>c. Node \cap Pattern = {}
  BY NodesAssumption
<1>7. c.overrides[k].name \in Pattern /\ {n, m} \subseteq Matches[c.overrides[k].name]
  <2> DEFINE x == c.overrides[k].name
  <2>1. x = n \/ (x \in Pattern /\ n \in Matches[x])
    BY <1>4, Zenon DEF About
  <2>2. x = m \/ (x \in Pattern /\ m \in Matches[x])
    BY <1>5, <1>6, Zenon DEF About
  <2> HIDE DEF x
  <2>3. x \in Pattern /\ {n, m} \subseteq Matches[x]
    BY <1>c, <2>1, <2>2
  <2> QED
    BY <2>3 DEF x
<1>8. id \in {c.overrides[k].id, <<"external", c.overrides[k].name>>}
  BY <1>2, <1>4
<1> QED
  BY <1>4, <1>7, <1>8

(* The provider ID identifies the Node, as instances.go says of it: given  *)
(* that system UUIDs and externalIDs are distinct, no sequence of          *)
(* configurations, restarts, deletions and late updates leaves two Nodes   *)
(* with one ID, unless one external pattern is about both.                 *)
THEOREM IDsAreUnique == DistinctIDs => (Spec => []UniqueIDs)
<1> SUFFICES ASSUME DistinctIDs PROVE Spec => []UniqueIDs
  OBVIOUS
<1>1. Init => Given
  BY Constants DEF Init, Given, Absent
<1>2. IInv /\ Given => UniqueIDs
  BY GivenIsUnique DEF IInv
<1> QED
  BY <1>1, <1>2, GivenStep, Inductive, PTL DEF Spec

-----------------------------------------------------------------------------
(* The two interfaces to the instances *)

(* The first override with a name is also the first with its externalID. *)
LEMMA FoundByID ==
  ASSUME DistinctIDs, cfg \in Configs, NEW k \in DOMAIN cfg.overrides,
         \A l \in DOMAIN cfg.overrides : cfg.overrides[l].name = cfg.overrides[k].name => k <= l
  PROVE  /\ ExternalIDOf(cfg.overrides[k]) \in ID \ {None}
         /\ getInstanceOverrideByProviderID(ExternalIDOf(cfg.overrides[k])) = cfg.overrides[k]
<1> DEFINE O == cfg.overrides
           id == ExternalIDOf(O[k])
           Named == {j \in DOMAIN O : O[j].id # None /\ O[j].id = id}
           Default == {j \in DOMAIN O :
                         O[j].id = None /\ id = defaultInstanceOverrideExternalID(O[j].name)}
           K == IF Named # {} THEN Named ELSE Default
<1>1. O \in Seq(instancesOverrideConfig)
  BY NodesAssumption DEF instancesConfig
<1>2. \A j \in DOMAIN O : O[j] \in instancesOverrideConfig /\ j \in Nat
  BY <1>1
<1>3. id \in ID \ {None}
  <2>1. O[k].id \in ExternalID \cup {None} /\ O[k].name \in Node \cup Pattern
    BY <1>2 DEF instancesOverrideConfig
  <2>2. id \in ExternalID \cup DefaultID
    BY <2>1 DEF ExternalIDOf, defaultInstanceOverrideExternalID, DefaultID
  <2> HIDE DEF id
  <2> QED
    BY <2>2, NodesAssumption, Zenon DEF ID
<1>4. getInstanceOverrideByProviderID(id) = First(O, K)
  BY <1>3, Zenon DEF getInstanceOverrideByProviderID, OverrideByID
<1>5. k \in K
  <2>1. CASE O[k].id # None
    BY <2>1 DEF ExternalIDOf
  <2>2. CASE O[k].id = None
    <3>1. id \in DefaultID
      BY <1>2, <2>2 DEF ExternalIDOf, defaultInstanceOverrideExternalID, DefaultID, instancesOverrideConfig
    <3>2. Named = {}
      BY <1>2, <3>1 DEF DistinctIDs, instancesOverrideConfig
    <3> QED
      BY <2>2, <3>2 DEF ExternalIDOf
  <2> QED
    BY <2>1, <2>2
<1>6. ASSUME NEW l \in K PROVE k <= l
  <2>1. l \in DOMAIN O /\ ExternalIDOf(O[l]) = id
    BY DEF ExternalIDOf
  <2>2. \A x, y \in Configs : \A i \in DOMAIN x.overrides : \A j \in DOMAIN y.overrides :
          ExternalIDOf(x.overrides[i]) = ExternalIDOf(y.overrides[j])
            => x.overrides[i].name = y.overrides[j].name
    BY OneName
  <2> HIDE DEF K
  <2>3. O[l].name = O[k].name
    BY <2>1, <2>2
  <2> QED
    BY <2>1, <2>3
<1>7. K \in SUBSET Nat
  BY <1>2
<1>8. First(O, K) = O[k]
  <2> HIDE DEF K, O
  <2>1. PICK j \in K : First(O, K) = O[j] /\ \A l \in K : j <= l
    BY <1>5, <1>7, FirstLeast
  <2>2. j = k
    BY <1>5, <1>6, <1>7, <2>1
  <2> QED
    BY <2>1, <2>2
<1> QED
  BY <1>3, <1>4, <1>8

(* No override has the UUID of an instance as its externalID. *)
LEMMA NotFoundByUUID ==
  ASSUME DistinctIDs, cfg \in Configs, NEW u \in UUID
  PROVE  getInstanceOverrideByProviderID(u) = None
<1> DEFINE O == cfg.overrides
           Named == {j \in DOMAIN O : O[j].id # None /\ O[j].id = u}
           Default == {j \in DOMAIN O :
                         O[j].id = None /\ u = defaultInstanceOverrideExternalID(O[j].name)}
           K == IF Named # {} THEN Named ELSE Default
<1>1. O \in Seq(instancesOverrideConfig)
  BY NodesAssumption DEF instancesConfig
<1>2. \A j \in DOMAIN O : O[j] \in instancesOverrideConfig
  BY <1>1
<1>3. Named = {} /\ Default = {}
  <2>1. u \notin ExternalID /\ u \notin DefaultID
    BY Zenon DEF DistinctIDs
  <2>2. \A j \in DOMAIN O : O[j].id \in ExternalID \cup {None} /\ O[j].name \in Node \cup Pattern
    BY <1>2 DEF instancesOverrideConfig
  <2>3. \A j \in DOMAIN O : defaultInstanceOverrideExternalID(O[j].name) \in DefaultID
    BY <2>2 DEF defaultInstanceOverrideExternalID, DefaultID
  <2> QED
    BY <2>1, <2>2, <2>3
<1>4. getInstanceOverrideByProviderID(u) = First(O, K)
  BY Zenon DEF getInstanceOverrideByProviderID, OverrideByID, ID
<1> QED
  BY <1>3, <1>4 DEF First

(* What both interfaces say, as parts of one claim. *)
Agrees(n, got) ==
  /\ InstanceMetadata(n, nodes[n], got) = ZoneFilledIn(MetadataV1(n))
  /\ nodes[n].pid # None =>
       /\ InstanceExists(n, nodes[n], got) = InstanceExistsByProviderID(nodes[n].pid)
       /\ InstanceShutdown(n, nodes[n], got) = InstanceShutdownByProviderID(nodes[n].pid)

(* Filling in the zone is what the two interfaces differ in. *)
LEMMA Filled ==
  ASSUME NEW pid, NEW type, NEW region, NEW addrs, NEW found,
         found = [pid |-> pid, type |-> type, zone |-> FailureDomain, region |-> region,
                  addrs |-> addrs],
         pid \in ID, type \in Label, region \in Label, addrs \in Addresses
  PROVE  ZoneFilledIn(found) =
           [pid |-> pid, type |-> type, zone |-> region, region |-> region, addrs |-> addrs]
<1>1. FailureDomain \in Label
  BY NodesAssumption DEF FailureDomain
<1>2. found \in Metadata
  BY <1>1 DEF Metadata
<1>3. found # None
  BY <1>2, NodesAssumption
<1>4. [found EXCEPT !.zone = found.region] =
        [pid |-> pid, type |-> type, zone |-> region, region |-> region, addrs |-> addrs]
  OBVIOUS
<1> QED
  BY <1>3, <1>4, Zenon DEF ZoneFilledIn

(* They agree on a Node that only its instance says anything about. *)
LEMMA InstanceAgrees ==
  ASSUME DistinctIDs, TypeOK, NEW n \in Node, nodes[n].there, Attr[SystemUUID[n]].name = n,
         nodeInstanceOverride(n, nodes[n]) = None, computeInstanceByNode(n, nodes[n]) = SystemUUID[n],
         NEW got, got = IF Answer(SystemUUID[n]) = None THEN "notfound" ELSE Answer(SystemUUID[n])
  PROVE  Agrees(n, got)
<1> DEFINE u == SystemUUID[n]
<1>1. /\ u \in UUID /\ u # None /\ Attr[u] \in Instance /\ zone # None /\ Attr[u].type # None
      /\ nodes[n].pid \in {None, u} /\ None # InstanceAddresses(u, nodes[n].told)
  <2>1. u \in UUID /\ u # None /\ Attr[u] \in Instance
    BY NodesAssumption
  <2>2. zone # None /\ Attr[u].type # None
    BY <2>1, NodesAssumption DEF Instance
  <2>3. nodes[n].pid \in {None, u}
    BY DEF computeInstanceByNode
  <2>4. InstanceAddresses(u, nodes[n].told) \in Addresses
    <3>1. nodes[n].told \in Address \cup {None}
      BY DEF TypeOK, Object
    <3> QED
      BY <2>1, <3>1, InstanceAddressesType
  <2>5. None # InstanceAddresses(u, nodes[n].told)
    BY <2>4, NodesAssumption
  <2> QED
    BY <2>1, <2>2, <2>3, <2>5, Zenon
<1>2. getInstanceOverride(n) = None /\ getInstanceOverrideByProviderID(u) = None
  BY <1>1, NotFoundByUUID DEF nodeInstanceOverride, TypeOK
<1>3. ~External(None)
  BY DEF External
<1>4. InstanceID(n) = IF cfg.externalOnly THEN None ELSE u
  BY <1>2, <1>3 DEF InstanceID
<1>5. Answer(u) \in {None, "running", "stopped"}
  BY <1>1 DEF Answer, TypeOK
<1> HIDE DEF u
<1>6. CASE cfg.externalOnly
  <2>1. InstanceMetadata(n, nodes[n], got) = None
    BY <1>3, <1>6, Zenon DEF InstanceMetadata
  <2>2. GetZoneByProviderID(u) = None /\ GetZoneByNodeName(n) = None
    BY <1>2, <1>3, <1>6 DEF GetZoneByProviderID, GetZoneByNodeName, Region
  <2>3. MetadataV1(n) = None
    BY <1>1, <1>4, <1>6, <2>2, Zenon DEF MetadataV1
  <2>4. /\ InstanceExists(n, nodes[n], got) = "no" /\ InstanceExistsByProviderID(u) = "no"
        /\ InstanceShutdown(n, nodes[n], got) = "error" /\ InstanceShutdownByProviderID(u) = "error"
    BY <1>2, <1>3, <1>6
       DEF InstanceExists, InstanceExistsByProviderID, InstanceShutdown, InstanceShutdownByProviderID
  <2> QED
    BY <1>1, <2>1, <2>3, <2>4, Zenon DEF Agrees, ZoneFilledIn
<1>7. CASE ~cfg.externalOnly /\ Answer(u) = None
  <2>0. got = "notfound"
    BY <1>7 DEF u
  <2>1. InstanceMetadata(n, nodes[n], got) = None
    BY <1>3, <2>0, Zenon DEF InstanceMetadata
  <2>2. NodeAddressesByProviderID(u) = None /\ NodeAddresses(n) = None
    BY <1>2, <1>3, <1>4, <1>7 DEF NodeAddressesByProviderID, NodeAddresses, Overridden
  <2>3. MetadataV1(n) = None
    BY <1>1, <1>4, <1>7, <2>2, Zenon DEF MetadataV1
  <2>4. /\ InstanceExists(n, nodes[n], got) = "no" /\ InstanceExistsByProviderID(u) = "no"
        /\ InstanceShutdown(n, nodes[n], got) = "error" /\ InstanceShutdownByProviderID(u) = "error"
    BY <1>2, <1>3, <1>7, <2>0
       DEF InstanceExists, InstanceExistsByProviderID, InstanceShutdown, InstanceShutdownByProviderID
  <2> QED
    BY <1>1, <2>1, <2>3, <2>4, Zenon DEF Agrees, ZoneFilledIn
<1>8. CASE ~cfg.externalOnly /\ Answer(u) # None
  <2>0. got = Answer(u) /\ got \in {"running", "stopped"}
    BY <1>5, <1>8 DEF u
  <2> DEFINE A == InstanceAddresses(u, nodes[n].told)
             M == [pid |-> u, type |-> Attr[u].type, zone |-> zone, region |-> zone, addrs |-> A]
             V1 == [pid |-> u, type |-> Attr[u].type, zone |-> FailureDomain, region |-> zone,
                    addrs |-> A]
  <2>1. InstanceMetadata(n, nodes[n], got) = M
    <3>1. OrElse("", Attr[u].type) = Attr[u].type
      BY DEF OrElse
    <3>2. got \notin {"notfound", "error"} /\ computeInstanceByNode(n, nodes[n]) = u
      BY <2>0 DEF u
    <3>3. nodeAddressesFromInstance(nodes[n], u) = A
      BY DEF nodeAddressesFromInstance
    <3> QED
      BY <1>3, <1>8, <3>1, <3>2, <3>3, Zenon DEF InstanceMetadata
  <2>2. NodeAddressesByProviderID(u) = A
    <3>1. nodes[Attr[u].name].told = nodes[n].told
      BY DEF u
    <3> QED
      BY <1>2, <1>3, <1>8, <3>1, Zenon DEF NodeAddressesByProviderID, Overridden
  <2>3. InstanceTypeByProviderID(u) = Attr[u].type
    BY <1>2, <1>3, <1>8, Zenon DEF InstanceTypeByProviderID, Overridden
  <2>4. GetZoneByProviderID(u) = zone
    BY <1>2, <1>3, <1>8, Zenon DEF GetZoneByProviderID, Region
  <2>5. MetadataV1(n) = V1
    <3>1. (IF nodes[n].pid # None THEN nodes[n].pid ELSE InstanceID(n)) = u
      BY <1>1, <1>4, <1>8
    <3> HIDE DEF A
    <3>2. A # None
      BY <1>1 DEF A
    <3> QED
      BY <1>1, <2>2, <2>3, <2>4, <3>1, <3>2, Zenon DEF MetadataV1
  <2>6. /\ InstanceExists(n, nodes[n], got) = "yes" /\ InstanceExistsByProviderID(u) = "yes"
        /\ InstanceShutdown(n, nodes[n], got) = IF got = "stopped" THEN "yes" ELSE "no"
        /\ InstanceShutdownByProviderID(u) = IF got = "stopped" THEN "yes" ELSE "no"
    BY <1>2, <1>3, <1>8, <2>0
       DEF InstanceExists, InstanceExistsByProviderID, InstanceShutdown, InstanceShutdownByProviderID
  <2>7. ZoneFilledIn(V1) = M
    <3>1. u \in ID /\ Attr[u].type \in Label /\ zone \in Label
      BY <1>1, NodesAssumption DEF ID, Instance
    <3>2. nodes[n].told \in Address \cup {None}
      BY DEF TypeOK, Object
    <3>3. A \in Addresses
      BY <1>1, <3>2, InstanceAddressesType
    <3> HIDE DEF A
    <3> QED
      BY <3>1, <3>3, Filled
  <2> HIDE DEF M, V1
  <2> QED
    BY <1>1, <2>1, <2>5, <2>6, <2>7, Zenon DEF Agrees
<1> QED
  BY <1>6, <1>7, <1>8

(* They agree on a Node that an external override is about. *)
LEMMA ExternalAgrees ==
  ASSUME DistinctIDs, TypeOK, NEW n \in Node, External(nodeInstanceOverride(n, nodes[n])),
         nodes[n].pid \in {None, ExternalIDOf(nodeInstanceOverride(n, nodes[n]))}, NEW got
  PROVE  Agrees(n, got)
<1> DEFINE o == nodeInstanceOverride(n, nodes[n])
           id == ExternalIDOf(o)
<1>0. nodes[n].pid \in ID /\ cfg \in Configs
  BY DEF TypeOK, Object
<1>1. id # None /\ getInstanceOverrideByProviderID(id) = o
  <2>1. CASE nodes[n].pid # None /\ getInstanceOverrideByProviderID(nodes[n].pid) # None
    BY <2>1 DEF nodeInstanceOverride
  <2>2. CASE o = getInstanceOverride(n)
    <3>1. o # None
      BY DEF External
    <3>2. PICK k \in DOMAIN cfg.overrides :
            /\ o = cfg.overrides[k] /\ About(cfg.overrides[k], n)
            /\ \A l \in DOMAIN cfg.overrides : cfg.overrides[l].name = cfg.overrides[k].name => k <= l
      BY <1>0, <2>2, <3>1, FoundByName
    <3> HIDE DEF o
    <3> QED
      BY <1>0, <3>2, FoundByID
  <2> QED
    BY <2>1, <2>2 DEF nodeInstanceOverride
<1>2. o \in instancesOverrideConfig
  BY <1>0, NodeOverrideType DEF External
<1>3. o # None /\ o.external
  BY DEF External
<1>4. (IF nodes[n].pid # None THEN nodes[n].pid ELSE InstanceID(n)) = id
  <2>1. CASE nodes[n].pid = None
    <3>1. getInstanceOverride(n) = o
      BY <2>1 DEF nodeInstanceOverride
    <3> QED
      BY <2>1, <3>1 DEF InstanceID
  <2> QED
    BY <2>1
<1> DEFINE T == OrElse(o.type, "external")
           R == OrElse(o.region, "external")
           M == [pid |-> id, type |-> T, zone |-> R, region |-> R, addrs |-> o.addrs]
           V1 == [pid |-> id, type |-> T, zone |-> FailureDomain, region |-> R, addrs |-> o.addrs]
<1>5. T # None /\ R # None /\ o.addrs # None
  BY <1>2, NodesAssumption DEF instancesOverrideConfig, OrElse
<1>6. InstanceMetadata(n, nodes[n], got) = M
  BY <1>3, Zenon DEF InstanceMetadata
<1> HIDE DEF o
<1>a. External(o)
  BY <1>3 DEF External
<1>7. NodeAddressesByProviderID(id) = o.addrs
  BY <1>1, <1>3, <1>a DEF NodeAddressesByProviderID, Overridden
<1>8. InstanceTypeByProviderID(id) = T
  BY <1>1, <1>3, <1>a DEF InstanceTypeByProviderID, Overridden, OrElse
<1>9. GetZoneByProviderID(id) = R
  BY <1>1, <1>a DEF GetZoneByProviderID, Region
<1>10. MetadataV1(n) = V1
  <2> HIDE DEF id, T, R
  <2> QED
    BY <1>1, <1>4, <1>5, <1>7, <1>8, <1>9, Zenon DEF MetadataV1
<1>11. nodes[n].pid # None =>
         /\ InstanceExists(n, nodes[n], got) = InstanceExistsByProviderID(nodes[n].pid)
         /\ InstanceShutdown(n, nodes[n], got) = InstanceShutdownByProviderID(nodes[n].pid)
  BY <1>1, <1>a
     DEF InstanceExists, InstanceExistsByProviderID, InstanceShutdown,
         InstanceShutdownByProviderID, o
<1> QED
  <2>1. id \in ID /\ T \in Label /\ R \in Label /\ o.addrs \in Addresses
    BY <1>2, NodesAssumption
       DEF ExternalIDOf, ID, DefaultID, defaultInstanceOverrideExternalID,
           instancesOverrideConfig, OrElse
  <2>2. ZoneFilledIn(V1) = M
    BY <2>1, Filled
  <2> HIDE DEF M, V1
  <2> QED
    BY <1>6, <1>10, <1>11, <2>2, Zenon DEF Agrees

(* InstancesV2 differs from Instances with Zones in the zone and in nothing *)
(* else: in every state that configurations, restarts and failures lead to, *)
(* if IDs are distinct, the two say the same about a Node that no override  *)
(* is about, and about one that an external override is about by name and   *)
(* by ID, but for the zone, which only InstancesV2 sets.                    *)
THEOREM InterfacesAgree == DistinctIDs => (Spec => []AgreesButForZone)
<1> SUFFICES ASSUME DistinctIDs PROVE Spec => []AgreesButForZone
  OBVIOUS
<1>1. IInv => AgreesButForZone
  <2> SUFFICES ASSUME IInv, NEW n \in Node, Comparable(n)
               PROVE  Agrees(n, FoundV2(n))
    BY Zenon DEF AgreesButForZone, Agrees
  <2>1. TypeOK
    BY DEF IInv
  <2>2. computeInstanceByNode(n, nodes[n]) = SystemUUID[n] =>
          FoundV2(n) = IF Answer(SystemUUID[n]) = None THEN "notfound" ELSE Answer(SystemUUID[n])
    BY Zenon DEF FoundV2
  <2> QED
    BY <2>1, <2>2, InstanceAgrees, ExternalAgrees, Zenon DEF Comparable
<1> QED
  BY <1>1, Inductive, PTL

=============================================================================
