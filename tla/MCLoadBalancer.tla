--------------------------- MODULE MCLoadBalancer ---------------------------
(* Instances of LoadBalancer for TLC: the manifests users may submit, the   *)
(* NLBs that exist beforehand and the cluster's states.                     *)
EXTENDS LoadBalancer, Sequences, TLC

CONSTANTS web, mail, http, dns, ssh, blue, green, front

(* A LoadBalancer Service with one port and everything by default. *)
Plain == [NoManifest EXCEPT !.lb = TRUE, !.ports = {http}]

BlueNodes == {[nodes |-> {blue}, sks |-> None]}
BlueOrGreen == {[nodes |-> {blue}, sks |-> None], [nodes |-> {blue, green}, sks |-> blue],
                [nodes |-> {}, sks |-> green]}
BlueNodesGreenSKS == {[nodes |-> {blue}, sks |-> green]}

NoPreset == <<>>

(* One Service, two ports, one manifest: its whole life. *)
LifeManifests == [s \in {web} |-> {[Plain EXCEPT !.ports = {http, dns}]}]

(* One Service whose ports, pool, properties and type its user changes, with *)
(* annotations that the provider rejects and with SKS node pools.            *)
EditManifests ==
  [s \in {web} |-> {[Plain EXCEPT !.pool = blue],
                  [Plain EXCEPT !.pool = green, !.ports = {http, dns}, !.cfg = "sourcehash"],
                  [Plain EXCEPT !.ports = {dns}, !.name = front],
                  [Plain EXCEPT !.cfg = "bad"],
                  [Plain EXCEPT !.sks = "both"], [Plain EXCEPT !.sks = "cluster"],
                  [Plain EXCEPT !.lb = FALSE]}]

(* An NLB managed elsewhere, with an NLB service of its own. *)
FrontNLB ==
  <<[live |-> TRUE, name |-> front, desc |-> None,
     svcs |-> {[sid |-> 1, key |-> ssh, own |-> Other, pool |-> green, cfg |-> None]}]>>

(* That NLB, and another without any NLB service. *)
TwoNLBs == FrontNLB \o <<[live |-> TRUE, name |-> None, desc |-> None, svcs |-> {}]>>

(* Two Services on the first, which one names by its ID, one by its name;   *)
(* the former may be on the second NLB instead, or on none.                 *)
ExternalManifests ==
  (web :> {[Plain EXCEPT !.ext = TRUE, !.id = i, !.pool = blue] : i \in {NoID, 1, 2}})
  @@ (mail :> {[Plain EXCEPT !.ext = TRUE, !.name = front, !.ports = {dns}, !.pool = green]})

(* An NLB the provider manages for one Service, used by another as external. *)
SharedManifests ==
  (web :> {[Plain EXCEPT !.pool = blue]})
  @@ (mail :> {[Plain EXCEPT !.ext = TRUE, !.id = 1, !.ports = {dns}, !.pool = green]})

(* A port changes, and the Service is deleted. *)
PortManifests == [s \in {web} |-> {Plain, [Plain EXCEPT !.ports = {dns}]}]

(* The user moves the Service to another Instance Pool. *)
PoolManifests ==
  [s \in {web} |-> {[Plain EXCEPT !.pool = blue], [Plain EXCEPT !.pool = green]}]

=============================================================================
