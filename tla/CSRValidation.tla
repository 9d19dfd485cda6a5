--------------------------- MODULE CSRValidation ---------------------------
(***************************************************************************)
(* The node CSR validation runner of the SKS agent                         *)
(* (exoscale/sks_agent_runner_node_csr_validation.go): a goroutine that    *)
(* watches the CertificateSigningRequests of the cluster and approves the  *)
(* pending ones whose name and IP addresses are those of a Compute         *)
(* instance.                                                               *)
(*                                                                         *)
(* The outer loop opens a watch, which the API server closes after two     *)
(* minutes; a new watch reports every CSR that exists as an Added event.   *)
(* The inner loop handles one event at a time, with one remote call per    *)
(* step: ListInstances, a Get of the Node per instance with a private      *)
(* network, UpdateApproval.  A CSR is decided upon as it was in its event. *)
(***************************************************************************)
EXTENDS Integers, Sequences

CONSTANTS
  CSR,        \* names of CertificateSigningRequests
  Name,       \* names of Nodes
  IP,         \* IP addresses
  None,       \* no IP address
  Requests,   \* what the CSRs may ask for
  Fleets,     \* what ListInstances may return
  MaxTouches, \* bound on updates of CSRs that leave their conditions alone
  MaxChanges, \* bound on changes of the instances and of the Nodes
  MaxFaults   \* bound on failed calls

(* A CSR as submitted: the requester's groups, whether the PEM block is a  *)
(* certificate request, its DNS names and IP addresses.                    *)
Request == [groups: SUBSET STRING, parses: BOOLEAN, names: SUBSET Name, ips: SUBSET IP]

(* A Compute instance; its Node has the lower-case form of its name, and   *)
(* upper tells whether the two differ.                                     *)
Instance == [name: Name, upper: BOOLEAN, pub: IP \cup {None}, v6: IP \cup {None},
             priv: BOOLEAN]

ASSUME CSRAssumption ==
  /\ CSR # {} /\ None \notin IP
  /\ Requests \subseteq Request /\ Requests # {}
  /\ Fleets \subseteq Seq(Instance) /\ Fleets # {}
  /\ MaxTouches \in Nat /\ MaxChanges \in Nat /\ MaxFaults \in Nat

VARIABLES
  csrs,      \* the CSRs in the API server
  fleet,     \* the Compute instances
  provided,  \* each Node's provided-node-ip annotation, None without
  cancelled, \* the provider's context is cancelled
  pc,        \* where the runner is
  open,      \* the API server has not closed the watch
  queue,     \* Added events on their way to the runner, in any order
  event,     \* the event being handled
  seen,      \* the instances listed for it
  i, ok,     \* the loop over them: next index, csrOK
  since,     \* history: instances and annotations there were since each CSR was submitted
  touches, changes, faults

cluster == <<csrs, fleet, provided, cancelled>>
work == <<event, seen, i, ok>>
counters == <<touches, changes, faults>>
vars == <<cluster, pc, open, queue, work, since, counters>>

Condition == {"none", "approved", "denied"}

(* ver: the resourceVersion, 0 before the CSR is submitted; ours: the      *)
(* approval's reason is the runner's.                                      *)
Object == [there: BOOLEAN, ver: Nat, cond: Condition, ours: BOOLEAN, req: Requests]

Event == [csr: CSR, ver: Nat, cond: Condition]

sksAgentNodeCSRValidationRequiredGroups == {"system:authenticated", "system:nodes"}

(* The variables of the inner loop's body between two events. *)
NoEvent == [csr |-> CHOOSE c \in CSR : TRUE, ver |-> 0, cond |-> "none"]

Elements(s) == {s[k] : k \in 1 .. Len(s)}

Init ==
  /\ csrs \in [CSR -> {[there |-> FALSE, ver |-> 0, cond |-> "none", ours |-> FALSE,
                        req |-> r] : r \in Requests}]
  /\ fleet \in Fleets
  /\ provided = [n \in Name |-> None]
  /\ cancelled = FALSE
  /\ pc = "watch" /\ open = FALSE /\ queue = {}
  /\ event = NoEvent /\ seen = <<>> /\ i = 1 /\ ok = FALSE
  /\ since = [c \in CSR |-> [insts |-> {}, told |-> {}]]
  /\ touches = 0 /\ changes = 0 /\ faults = 0

-----------------------------------------------------------------------------
(* The rest of the cluster *)

Annotations == {<<n, provided[n]>> : n \in Name}

(* A kubelet submits a CSR; an open watch reports it. *)
Submit(c) ==
  /\ csrs[c].ver = 0
  /\ csrs' = [csrs EXCEPT ![c].there = TRUE, ![c].ver = 1]
  /\ queue' = IF open THEN queue \cup {[csr |-> c, ver |-> 1, cond |-> "none"]} ELSE queue
  /\ since' = [since EXCEPT ![c] = [insts |-> Elements(fleet), told |-> Annotations]]
  /\ UNCHANGED <<fleet, provided, cancelled, pc, open, work, counters>>

(* Someone else approves or denies it.  The event is of type Modified, and *)
(* filtered out.                                                           *)
Decide(c) ==
  /\ csrs[c].there /\ csrs[c].cond = "none"
  /\ \E d \in {"approved", "denied"} :
       csrs' = [csrs EXCEPT ![c].cond = d, ![c].ver = @ + 1]
  /\ UNCHANGED <<fleet, provided, cancelled, pc, open, queue, work, since, counters>>

(* Its metadata changes, as that of any object may. *)
Touch(c) ==
  /\ csrs[c].there /\ touches < MaxTouches
  /\ touches' = touches + 1
  /\ csrs' = [csrs EXCEPT ![c].ver = @ + 1]
  /\ UNCHANGED <<fleet, provided, cancelled, pc, open, queue, work, since, changes, faults>>

(* The cluster's CSR cleaner, or its owner, deletes it. *)
Delete(c) ==
  /\ csrs[c].there
  /\ csrs' = [csrs EXCEPT ![c].there = FALSE]
  /\ UNCHANGED <<fleet, provided, cancelled, pc, open, queue, work, since, counters>>

Submitted == {c \in CSR : csrs[c].ver > 0}

(* Compute instances come and go. *)
ChangeFleet ==
  /\ changes < MaxChanges
  /\ changes' = changes + 1
  /\ fleet' \in Fleets \ {fleet}
  /\ since' = [c \in CSR |-> IF c \in Submitted
                 THEN [since[c] EXCEPT !.insts = @ \cup Elements(fleet')] ELSE since[c]]
  /\ UNCHANGED <<csrs, provided, cancelled, pc, open, queue, work, touches, faults>>

(* A Node registers, is deleted, or its kubelet is given another node IP. *)
Annotate(n) ==
  /\ changes < MaxChanges
  /\ changes' = changes + 1
  /\ \E ip \in (IP \cup {None}) \ {provided[n]} : provided' = [provided EXCEPT ![n] = ip]
  /\ since' = [c \in CSR |-> IF c \in Submitted
                 THEN [since[c] EXCEPT !.told = @ \cup {<<n, provided'[n]>>}] ELSE since[c]]
  /\ UNCHANGED <<csrs, fleet, cancelled, pc, open, queue, work, touches, faults>>

(* A remote call fails when the context is cancelled, or just so. *)
CallFails == \/ cancelled /\ UNCHANGED faults
             \/ faults < MaxFaults /\ faults' = faults + 1

CallSucceeds == ~cancelled /\ UNCHANGED faults

(* The provider's stop channel is closed: provider.stop(). *)
Cancel ==
  /\ ~cancelled
  /\ cancelled' = TRUE
  /\ UNCHANGED <<csrs, fleet, provided, pc, open, queue, work, since, counters>>

(* The API server's timeout ends the watch; what it has sent still arrives. *)
CloseWatch ==
  /\ open
  /\ open' = FALSE
  /\ UNCHANGED <<cluster, pc, queue, work, since, counters>>

(* A lost connection or the cancelled context ends it too, and events that *)
(* were on their way may be lost.                                          *)
LoseWatch ==
  /\ open /\ CallFails
  /\ open' = FALSE
  /\ queue' \in SUBSET queue
  /\ UNCHANGED <<cluster, pc, work, since, touches, changes>>

-----------------------------------------------------------------------------
(* run: the outer loop *)

AddedEvents == {[csr |-> c, ver |-> csrs[c].ver, cond |-> csrs[c].cond] :
                  c \in {d \in CSR : csrs[d].there}}

(* Mutant: the watch starts from the current resourceVersion. *)
WatchMutant ==
  /\ pc = "watch"
  /\ \/ /\ CallSucceeds
        /\ open' = TRUE /\ queue' = {} /\ pc' = "select"
     \/ CallFails /\ pc' = "sleep" /\ UNCHANGED <<open, queue>>
  /\ UNCHANGED <<cluster, work, since, touches, changes>>

(* Watch, filtered for Added events.  On failure the loop sleeps. *)
Watch ==
  /\ pc = "watch"
  /\ \/ /\ CallSucceeds
        /\ open' = TRUE /\ queue' = AddedEvents /\ pc' = "select"
     \/ CallFails /\ pc' = "sleep" /\ UNCHANGED <<open, queue>>
  /\ UNCHANGED <<cluster, work, since, touches, changes>>

(* continue: the context is not looked at. *)
Wake ==
  /\ pc = "sleep"
  /\ pc' = "watch"
  /\ UNCHANGED <<cluster, open, queue, work, since, counters>>

-----------------------------------------------------------------------------
(* run: the inner loop *)

Stop ==
  /\ pc = "select" /\ cancelled
  /\ pc' = "stopped"
  /\ UNCHANGED <<cluster, open, queue, work, since, counters>>

ChannelClosed ==
  /\ pc = "select" /\ ~open /\ queue = {}
  /\ pc' = "watch"
  /\ UNCHANGED <<cluster, open, queue, work, since, counters>>

(* Mutant: the index of the loop survives the event. *)
ContinueMutant == pc' = "select" /\ event' = NoEvent /\ seen' = <<>> /\ i' = i /\ ok' = FALSE

(* continue: the body's variables go out of scope. *)
Continue == pc' = "select" /\ event' = NoEvent /\ seen' = <<>> /\ i' = 1 /\ ok' = FALSE

hasRequiredGroups(r) == sksAgentNodeCSRValidationRequiredGroups \subseteq r.groups

(* A pending CSR of a node that parses and has exactly one DNS name. *)
Candidate(e) ==
  LET r == csrs[e.csr].req IN
    e.cond = "none" /\ hasRequiredGroups(r) /\ r.parses /\ \E n \in Name : r.names = {n}

Receive ==
  /\ pc = "select"
  /\ \E e \in queue :
       /\ queue' = queue \ {e}
       /\ \/ Candidate(e) /\ event' = e /\ pc' = "list" /\ UNCHANGED <<seen, i, ok>>
          \/ ~Candidate(e) /\ Continue
  /\ UNCHANGED <<cluster, open, since, counters>>

ListInstances ==
  /\ pc = "list"
  /\ \/ /\ CallSucceeds
        /\ seen' = fleet /\ i' = 1 /\ ok' = FALSE
        /\ pc' = "check" /\ UNCHANGED event
     \/ CallFails /\ Continue
  /\ UNCHANGED <<cluster, open, queue, since, touches, changes>>

(* The IP the Node says it has.  A Get that fails returns an empty Node,   *)
(* not nil: the second Get, with the lower-case name, is never made.       *)
ProvidedIP(inst, got) ==
  IF inst.priv /\ got /\ ~inst.upper THEN {provided[inst.name]} ELSE {}

NodeAddrs(inst, got) == ({inst.pub, inst.v6} \cup ProvidedIP(inst, got)) \ {None}

(* The instance has the name of the CSR, in any case. *)
Matches(inst) == csrs[event.csr].req.names = {inst.name}

(* The Node is asked for only when a matching instance has a private        *)
(* network; otherwise no call is made that could fail.                      *)
GetNode(inst, got) ==
  \/ Matches(inst) /\ inst.priv /\ got /\ CallSucceeds
  \/ Matches(inst) /\ inst.priv /\ ~got /\ CallFails
  \/ ~(Matches(inst) /\ inst.priv) /\ ~got /\ UNCHANGED faults

(* Mutant: only the last of the CSR's addresses counts. *)
CheckInstanceMutant ==
  /\ pc = "check" /\ i <= Len(seen)
  /\ \E got \in BOOLEAN :
       /\ GetNode(seen[i], got)
       /\ ok' = IF Matches(seen[i])
                THEN csrs[event.csr].req.ips \cap NodeAddrs(seen[i], got) # {} ELSE ok
  /\ i' = i + 1
  /\ UNCHANGED <<cluster, pc, open, queue, event, seen, since, touches, changes>>

(* One round of the loop: an instance with the CSR's name replaces the      *)
(* verdict of those before it.                                              *)
CheckInstance ==
  /\ pc = "check" /\ i <= Len(seen)
  /\ \E got \in BOOLEAN :
       /\ GetNode(seen[i], got)
       /\ ok' = IF Matches(seen[i])
                THEN csrs[event.csr].req.ips \subseteq NodeAddrs(seen[i], got) ELSE ok
  /\ i' = i + 1
  /\ UNCHANGED <<cluster, pc, open, queue, event, seen, since, touches, changes>>

Verdict ==
  /\ pc = "check" /\ i > Len(seen)
  /\ \/ ok /\ pc' = "approve" /\ UNCHANGED work
     \/ ~ok /\ Continue
  /\ UNCHANGED <<cluster, open, queue, since, counters>>

(* Mutant: the approval is put on whatever version the CSR has by now. *)
UpdateApprovalMutant ==
  /\ pc = "approve"
  /\ LET c == event.csr IN
       \/ /\ CallSucceeds /\ csrs[c].there
          /\ csrs' = [csrs EXCEPT ![c].cond = "approved", ![c].ours = TRUE, ![c].ver = @ + 1]
       \/ UNCHANGED csrs /\ CallFails
  /\ Continue
  /\ UNCHANGED <<fleet, provided, cancelled, open, queue, since, touches, changes>>

(* UpdateApproval: refused when the CSR is gone or no longer at the        *)
(* version of the event; one that fails may have taken effect.             *)
UpdateApproval ==
  /\ pc = "approve"
  /\ LET c == event.csr
         approved == [csrs EXCEPT ![c].cond = "approved", ![c].ours = TRUE, ![c].ver = @ + 1]
         current == csrs[c].there /\ csrs[c].ver = event.ver
     IN \/ CallSucceeds /\ csrs' = (IF current THEN approved ELSE csrs)
        \/ CallFails /\ csrs' \in {csrs} \cup (IF current THEN {approved} ELSE {})
  /\ Continue
  /\ UNCHANGED <<fleet, provided, cancelled, open, queue, since, touches, changes>>

Run == \/ Watch \/ Wake \/ Stop \/ ChannelClosed \/ Receive \/ ListInstances
       \/ CheckInstance \/ Verdict \/ UpdateApproval

-----------------------------------------------------------------------------
Environment ==
  \/ \E c \in CSR : Submit(c) \/ Decide(c) \/ Touch(c) \/ Delete(c)
  \/ \E n \in Name : Annotate(n)
  \/ ChangeFleet \/ Cancel \/ LoseWatch

Next == Run \/ CloseWatch \/ Environment

Spec == Init /\ [][Next]_vars

(* The goroutine runs, the API server closes a watch after its timeout,    *)
(* and the loop, which takes a finite time per event, gets to see it.      *)
FairSpec == Spec /\ WF_vars(Run) /\ WF_vars(CloseWatch)

-----------------------------------------------------------------------------
(* Properties *)

(* Every variable has its type. *)
TypeOK ==
  /\ csrs \in [CSR -> Object]
  /\ fleet \in Fleets /\ provided \in [Name -> IP \cup {None}]
  /\ cancelled \in BOOLEAN /\ open \in BOOLEAN
  /\ pc \in {"watch", "sleep", "select", "list", "check", "approve", "stopped"}
  /\ queue \subseteq Event /\ event \in Event
  /\ seen \in Seq(Instance) /\ i \in 1 .. Len(seen) + 1 /\ ok \in BOOLEAN
  /\ since \in [CSR -> [insts: SUBSET Instance, told: SUBSET (Name \X (IP \cup {None}))]]
  /\ touches \in Nat /\ changes \in Nat /\ faults \in Nat

(* A CSR that has been approved or denied stays so: the runner, which      *)
(* decides on the CSR as it was in the event, never overrules a decision   *)
(* made since.                                                             *)
NeverOverrules ==
  [][\A c \in CSR : csrs[c].cond # "none" => csrs'[c].cond = csrs[c].cond]_vars

(* The runner approves only the CSR of a node, for one name, and only if   *)
(* since the CSR was submitted there was an instance of that name with     *)
(* each of the CSR's IP addresses, or with a private network and a Node    *)
(* annotated with the address: never on the strength of an earlier list.   *)
Justified ==
  \A c \in CSR : csrs[c].ours =>
    LET r == csrs[c].req IN
      /\ sksAgentNodeCSRValidationRequiredGroups \subseteq r.groups /\ r.parses
      /\ \E inst \in since[c].insts :
           /\ r.names = {inst.name}
           /\ \A ip \in r.ips :
                \/ ip \in {inst.pub, inst.v6}
                \/ inst.priv /\ <<inst.name, ip>> \in since[c].told

(* A pending CSR that deserves approval: every instance of its name has    *)
(* its addresses (when several have the name, the last one listed          *)
(* decides), none by way of the Node of an instance with an upper-case     *)
(* name.                                                                   *)
Deserving(c) ==
  LET r == csrs[c].req
      Mine == {inst \in Elements(fleet) : r.names = {inst.name}}
  IN /\ csrs[c].there /\ csrs[c].cond = "none"
     /\ sksAgentNodeCSRValidationRequiredGroups \subseteq r.groups /\ r.parses
     /\ Mine # {}
     /\ \A inst \in Mine : \A ip \in r.ips :
          \/ ip \in {inst.pub, inst.v6}
          \/ inst.priv /\ ~inst.upper /\ provided[inst.name] = ip

(* "This way we have a chance to re-evaluate missed CSRs": whatever calls  *)
(* failed, events were lost or updates conflicted, no CSR that deserves    *)
(* approval stays pending for ever while the runner runs.                  *)
MissedAreReevaluated ==
  \A c \in CSR : []<>(cancelled \/ ~Deserving(c))

(* "The runner loop is expected to watch the provided context for          *)
(* cancellation, and shut down if signaled by ctx.Done()".                 *)
ShutsDown == cancelled ~> pc = "stopped"

=============================================================================
