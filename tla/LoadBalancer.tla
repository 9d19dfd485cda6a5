---------------------------- MODULE LoadBalancer ----------------------------
(***************************************************************************)
(* The Exoscale load balancer provider (exoscale/loadbalancer.go,          *)
(* exoscale/patcher.go), run by the Kubernetes service controller.         *)
(*                                                                         *)
(* A Kubernetes Service of type LoadBalancer is reconciled to a Network    *)
(* Load Balancer (NLB) of the Exoscale cloud.  The provider keeps no       *)
(* state: what it knows of a Service is in the annotations of the Service  *)
(* object (in particular the NLB's ID, patched there once the NLB is       *)
(* created), and what it knows of the cloud it asks for.  Every cloud or   *)
(* Kubernetes API call is one step here, so that calls of several workers, *)
(* user edits, failed calls and restarts interleave between any two.       *)
(*                                                                         *)
(* Processes.  <<s, "svc">> is the service controller's worker that        *)
(* handles Service s (one at a time per Service): EnsureLoadBalancer or    *)
(* EnsureLoadBalancerDeleted.  <<s, "node">> is the node sync, which calls *)
(* UpdateLoadBalancer on the controller's cached copy of s.                *)
(***************************************************************************)
EXTENDS Integers, FiniteSets

CONSTANTS
  Service,      \* the Kubernetes Services (their UIDs)
  Key,          \* the port/protocol pairs of a Service port
  Pool,         \* the Instance Pools
  Name,         \* NLB names a user may choose
  Desc,         \* NLB descriptions a user may choose
  Cfg,          \* the other NLB service properties (strategy, healthcheck...)
  Invalid,      \* the members of Cfg that do not parse
  None,         \* an annotation that is not set
  Other,        \* owner of the NLB services that no Service of the cluster added
  Manifests,    \* for each Service, what its user may submit for it
  Clusters,     \* the states of the cluster's nodes and of the SKS node pool
  Provisioned,  \* NLBs 1..Provisioned exist before the cluster does
  Preset,       \* their contents
  PresetSid,    \* NLB service IDs 1..PresetSid are theirs
  Reliable,     \* steps at which neither a failed call nor a crash strikes
  ListerLag,    \* whether a sync may start from an outdated informer cache
  MaxNLB, MaxSid,                        \* bounds on the IDs handed out
  MaxEdits, MaxFaults, MaxCrashes,       \* bounds on the environment
  MaxNodeSyncs, MaxDrift

NoID == 0
ID == 1 .. MaxNLB
SID == 1 .. MaxSid
Proc == Service \X {"svc", "node"}

(* What a user controls of a Service: its type, its ports, its annotations. *)
Manifest ==
  [lb: BOOLEAN, ext: BOOLEAN, id: ID \cup {NoID}, name: Name \cup {None},
   desc: Desc \cup {None}, ports: SUBSET Key, pool: Pool \cup {None},
   cfg: Cfg \cup {None}, sks: {"none", "both", "cluster", "nodepool"}]

NoManifest ==
  [lb |-> FALSE, ext |-> FALSE, id |-> NoID, name |-> None, desc |-> None,
   ports |-> {}, pool |-> None, cfg |-> None, sks |-> "none"]

(* The Service object: its life cycle, the load balancer cleanup finalizer, *)
(* the NLB whose address its status publishes, and the user's part.         *)
Object ==
  [phase: {"none", "live", "deleting", "gone"}, fin: BOOLEAN,
   ip: ID \cup {NoID}, m: Manifest]

NoObject == [phase |-> "none", fin |-> FALSE, ip |-> NoID, m |-> NoManifest]

(* An NLB service as wanted, and as it exists in the cloud.  own and key    *)
(* stand for its name, <UID>-<port>[-<protocol>].                           *)
Want == [key: Key, own: Service, pool: Pool \cup {None}, cfg: Cfg \cup {None}]

NLBService ==
  [sid: SID, key: Key, own: Service \cup {Other}, pool: Pool \cup {None},
   cfg: Cfg \cup {None}]

NLBName == Name \cup Service

NLB ==
  [live: BOOLEAN, name: NLBName \cup {None}, desc: Desc \cup {None},
   svcs: SUBSET NLBService]

NoNLB == [live |-> FALSE, name |-> None, desc |-> None, svcs |-> {}]

(* What updateLoadBalancer has still to do for a wanted NLB service: add it, *)
(* or replace or update the existing one with this ID.                       *)
Task ==
  [op: {"add"}, sid: {NoID}, want: Want]
  \cup [op: {"replace", "update"}, sid: SID, want: Want]

PC == {"idle", "final", "resolve", "pool", "fetch", "create", "adopt", "get",
       "top", "prune", "apply", "readd", "verify", "done", "exists",
       "delfetch", "delprune", "dellb", "unfinal", "forget"}

(* A process: the Service it works on (for "svc" the very object that the   *)
(* controller caches), the ID of the NLB just created, the description read *)
(* from the cloud, the NLB services to delete, the tasks, the task under    *)
(* way, whether the NLB goes once prune is empty, how a deletion ends.      *)
Process ==
  [pc: PC, m: Manifest, nid: ID \cup {NoID}, cdesc: Desc \cup {None},
   prune: SUBSET NLBService, todo: SUBSET Task, doing: SUBSET Task,
   last: BOOLEAN, end: {"unfinal", "forget"}]

Idle ==
  [pc |-> "idle", m |-> NoManifest, nid |-> NoID, cdesc |-> None,
   prune |-> {}, todo |-> {}, doing |-> {}, last |-> FALSE,
   end |-> "unfinal"]

ASSUME ConstantsAssumption ==
  /\ None \notin Pool \cup Name \cup Service \cup Desc \cup Cfg
  /\ Other \notin Service
  /\ Invalid \subseteq Cfg
  /\ Manifests \in [Service -> SUBSET Manifest]
  /\ Clusters \subseteq [nodes: SUBSET Pool, sks: Pool \cup {None}]
  /\ ListerLag \in BOOLEAN

ASSUME BoundsAssumption ==
  /\ MaxNLB \in Nat /\ MaxSid \in Nat
  /\ Provisioned \in 0 .. MaxNLB
  /\ PresetSid \in 0 .. MaxSid
  /\ Preset \in [1 .. Provisioned -> NLB]
  /\ \A i \in 1 .. Provisioned : \A x \in Preset[i].svcs : x.sid <= PresetSid
  /\ \A i \in 1 .. Provisioned : \A x, y \in Preset[i].svcs : x.sid = y.sid => x = y
  /\ \A b \in {MaxEdits, MaxFaults, MaxCrashes, MaxNodeSyncs, MaxDrift} : b \in Nat

VARIABLES
  api,       \* the Service objects of the Kubernetes API server
  lister,    \* the service controller's informer cache of them
  queue,     \* the Services queued for a sync
  cache,     \* the service controller's cachedService.state
  proc,      \* the state of each process
  nlb,       \* the NLBs of the Exoscale cloud
  cluster,   \* the Instance Pools of the nodes and of the SKS node pool
  lastNLB, lastSid,                       \* the IDs handed out so far
  edits, faults, crashes, nodeSyncs, drift

k8s == <<api, lister, queue, cache>>
cloud == <<nlb, lastNLB, lastSid>>
budget == <<edits, crashes, nodeSyncs, drift>>
vars == <<k8s, proc, cloud, cluster, budget, faults>>

Init ==
  /\ api = [s \in Service |-> NoObject]
  /\ lister = [s \in Service |-> NoObject]
  /\ queue = {}
  /\ cache = [s \in Service |-> NoObject]
  /\ proc = [p \in Proc |-> Idle]
  /\ nlb = [i \in ID |-> IF i <= Provisioned THEN Preset[i] ELSE NoNLB]
  /\ cluster \in Clusters
  /\ lastNLB = Provisioned
  /\ lastSid = PresetSid
  /\ edits = 0 /\ faults = 0 /\ crashes = 0 /\ nodeSyncs = 0 /\ drift = 0

Live(i) == i \in ID /\ nlb[i].live

Exists(s) == api[s].phase \in {"live", "deleting"}

-----------------------------------------------------------------------------
(* buildLoadBalancerFromAnnotations, isLoadBalancerUpdated and the other    *)
(* pure helpers.                                                            *)

(* The name annotation, or k8s-<UID>. *)
GetLoadBalancerName(s, m) == IF m.name = None THEN s ELSE m.name

(* Whether every annotation parses and every port protocol is supported. *)
Parses(m) == m.cfg \notin Invalid

(* One NLB service per Service port. *)
Wanted(s, m) ==
  {[key |-> k, own |-> s, pool |-> m.pool, cfg |-> m.cfg] : k \in m.ports}

isLoadBalancerUpdated(s, m, cur) ==
  cur.name # GetLoadBalancerName(s, m) \/ cur.desc # m.desc

(* x is wanted on the same port and protocol, to the same Instance Pool, *)
(* and some other field differs.                                         *)
isLoadBalancerServiceUpdated(x, w) == x.own # w.own \/ x.cfg # w.cfg

(* Mutant: the external NLB is not spared. *)
StaleMutant(m, cur) == {x \in cur.svcs : x.key \notin m.ports}

(* First loop of updateLoadBalancer: the NLB services of the snapshot that  *)
(* no port of the Service matches; those of an external NLB are kept.       *)
Stale(m, cur) ==
  IF m.ext THEN {} ELSE {x \in cur.svcs : x.key \notin m.ports}

(* Mutants: every service is recreated on every sync; the pool is not       *)
(* compared; the ID of the existing NLB service is not carried over.        *)
TasksRecreateMutant(s, m, cur) ==
  UNION {{[op |-> "replace", sid |-> x.sid, want |-> w] :
            w \in {v \in Wanted(s, m) : v.key = x.key}} : x \in cur.svcs}
  \cup {[op |-> "add", sid |-> NoID, want |-> w] :
           w \in {v \in Wanted(s, m) : \A x \in cur.svcs : x.key # v.key}}

TasksPoolMutant(s, m, cur) ==
  {[op |-> "add", sid |-> NoID, want |-> w] :
     w \in {v \in Wanted(s, m) : \A x \in cur.svcs : x.key # v.key}}
  \cup
  UNION {{[op |-> "update", sid |-> x.sid, want |-> w] :
            w \in {v \in Wanted(s, m) :
                     v.key = x.key /\ isLoadBalancerServiceUpdated(x, v)}}
         : x \in cur.svcs}

TasksIDMutant(s, m, cur) ==
  {[op |-> IF \E x \in cur.svcs : x.key = w.key THEN "update" ELSE "add",
    sid |-> NoID, want |-> w] :
     w \in {v \in Wanted(s, m) :
              \A x \in cur.svcs : x.key # v.key \/ isLoadBalancerServiceUpdated(x, v)}}

(* Second loop: what each port of the Service needs, given the snapshot. *)
Tasks(s, m, cur) ==
  {[op |-> "add", sid |-> NoID, want |-> w] :
     w \in {v \in Wanted(s, m) : \A x \in cur.svcs : x.key # v.key}}
  \cup
  UNION {{[op |-> IF x.pool # w.pool THEN "replace" ELSE "update",
           sid |-> x.sid, want |-> w] :
            w \in {v \in Wanted(s, m) :
                     /\ v.key = x.key
                     /\ x.pool # v.pool \/ isLoadBalancerServiceUpdated(x, v)}}
         : x \in cur.svcs}

(* Where the two loops continue. *)
LoopPC(prune, todo) ==
  IF prune # {} THEN "prune" ELSE IF todo # {} THEN "apply" ELSE "done"

-----------------------------------------------------------------------------
(* Calls to the Exoscale API.  A call that changes the cloud is asynchronous *)
(* and its wrapper waits for the operation (client.go): it may fail before   *)
(* it had any effect, or after (the wait was cut short).                     *)

Has(i, sid) == Live(i) /\ \E x \in nlb[i].svcs : x.sid = sid

Without(i, sid) ==
  [nlb EXCEPT ![i].svcs = {x \in nlb[i].svcs : x.sid # sid}]

(* The API has one NLB service per port and protocol of an NLB, each with an *)
(* Instance Pool.                                                            *)
CanAdd(i, w) ==
  Live(i) /\ w.pool # None /\ \A x \in nlb[i].svcs : x.key # w.key

With(i, w) ==
  [nlb EXCEPT ![i].svcs = nlb[i].svcs \cup
     {[sid |-> lastSid + 1, key |-> w.key, own |-> w.own, pool |-> w.pool,
       cfg |-> w.cfg]}]

(* UpdateLoadBalancerService leaves the Instance Pool alone. *)
Updated(i, sid, w) ==
  [nlb EXCEPT ![i].svcs =
     {IF x.sid = sid THEN [x EXCEPT !.own = w.own, !.cfg = w.cfg] ELSE x
        : x \in nlb[i].svcs}]

(* A call of process p fails though it could have succeeded. *)
Fault(p) ==
  /\ proc[p].pc \notin Reliable
  /\ faults < MaxFaults
  /\ faults' = faults + 1

Goto(p, r) == proc' = [proc EXCEPT ![p] = r] /\ UNCHANGED queue

(* An error is returned.  The service worker queues the Service again; the *)
(* node sync does so only if the NLB still exists.                         *)
Fail(p) ==
  /\ proc' = [proc EXCEPT ![p] = Idle]
  /\ queue' = IF p[2] = "svc" \/ Live(proc[p].m.id)
              THEN queue \cup {p[1]} ELSE queue

(* A call that reads the NLB with the annotated ID (with no ID no call is    *)
(* made): it succeeds when ok holds, and p becomes r.                       *)
Read(p, ok, r) ==
  \/ ok /\ Goto(p, r) /\ UNCHANGED faults
  \/ ok /\ proc[p].m.id # NoID /\ Fault(p) /\ Fail(p)
  \/ ~ok /\ Fail(p) /\ UNCHANGED faults

(* A call that writes: the cloud becomes c. *)
Write(p, ok, c, r) ==
  \/ ok /\ nlb' = c /\ Goto(p, r) /\ UNCHANGED faults
  \/ ok /\ nlb' = c /\ Fault(p) /\ Fail(p)
  \/ ok /\ nlb' = nlb /\ Fault(p) /\ Fail(p)
  \/ ~ok /\ nlb' = nlb /\ Fail(p) /\ UNCHANGED faults

-----------------------------------------------------------------------------
(* EnsureLoadBalancer, by the service worker of s *)

(* patchAnnotation: unless the annotation already has the value, the        *)
(* working copy, which is the controller's cached Service, becomes n; then  *)
(* a merge patch of that one annotation turns the API server's objects into *)
(* a.  found: the read that yields the value succeeds.  On success the      *)
(* worker becomes r.                                                        *)
PatchAnnotation(s, found, n, a, r) ==
  LET p == <<s, "svc">>
      Remember == cache' = [cache EXCEPT ![s].m = n]
  IN  \/ /\ found /\ n = proc[p].m
         /\ Goto(p, r)
         /\ UNCHANGED <<api, cache, faults>>
      \/ /\ found /\ n # proc[p].m /\ Exists(s)
         /\ Remember /\ api' = a
         /\ \/ Goto(p, r) /\ UNCHANGED faults
            \/ Fail(p) /\ Fault(p)
      \/ /\ found /\ n # proc[p].m
         /\ Remember /\ UNCHANGED api
         /\ Fail(p) /\ IF Exists(s) THEN Fault(p) ELSE UNCHANGED faults
      \/ /\ Fail(p) /\ IF found THEN Fault(p) ELSE UNCHANGED faults
         /\ UNCHANGED <<api, cache>>

NeedsPool(m) == m.sks \in {"both", "nodepool"} \/ (m.sks = "none" /\ m.pool = None)

AfterResolve(m) == IF NeedsPool(m) THEN "pool" ELSE "fetch"

AfterFinal(m) == IF m.ext /\ m.id = NoID THEN "resolve" ELSE AfterResolve(m)

(* The service controller adds the cleanup finalizer before anything else. *)
AddFinalizer(s) ==
  LET p == <<s, "svc">>
      a == [api EXCEPT ![s].fin = TRUE]
      r == [proc[p] EXCEPT !.pc = AfterFinal(proc[p].m)]
  IN  /\ proc[p].pc = "final"
      /\ \/ Exists(s) /\ api' = a /\ Goto(p, r) /\ UNCHANGED faults
         \/ Exists(s) /\ api' = a /\ Fail(p) /\ Fault(p)
         \/ /\ UNCHANGED api
            /\ Fail(p) /\ IF Exists(s) THEN Fault(p) ELSE UNCHANGED faults
      /\ UNCHANGED <<lister, cache, cloud, cluster, budget>>

(* The external NLB is looked up by its name and its ID patched into the   *)
(* annotations.  FindLoadBalancer fails unless exactly one NLB matches.    *)
ResolveExternal(s) ==
  LET p == <<s, "svc">>
      m == proc[p].m
      named == {i \in ID : nlb[i].live /\ nlb[i].name = m.name}
      Patch(found, i) ==
        LET n == [m EXCEPT !.id = i]
        IN  PatchAnnotation(s, found, n, [api EXCEPT ![s].m.id = i],
                            [proc[p] EXCEPT !.m = n, !.pc = AfterResolve(n)])
  IN  /\ proc[p].pc = "resolve"
      /\ \/ \E i \in ID : m.name # None /\ named = {i} /\ Patch(TRUE, i)
         \/ (m.name = None \/ \A i \in ID : named # {i}) /\ Patch(FALSE, NoID)
      /\ UNCHANGED <<lister, cloud, cluster, budget>>

(* The pool of the SKS node pool, or the pools the cluster's nodes are in. *)
Candidates(m) ==
  CASE m.sks = "both" -> {cluster.sks} \ {None}
    [] m.sks = "none" -> cluster.nodes
    [] OTHER -> {}

(* Mutant: the pool is only remembered, not patched. *)
InferPoolMutant(s) ==
  LET p == <<s, "svc">>
      m == proc[p].m
  IN  /\ proc[p].pc = "pool"
      /\ \E q \in Pool :
           /\ Candidates(m) = {q}
           /\ cache' = [cache EXCEPT ![s].m.pool = q]
           /\ Goto(p, [proc[p] EXCEPT !.m.pool = q, !.pc = "fetch"])
      /\ UNCHANGED <<api, lister, cloud, cluster, budget, faults>>

(* The Instance Pool, when it is to be found through the SKS node pool or   *)
(* inferred from the nodes, is patched into the annotations.                *)
InferPool(s) ==
  LET p == <<s, "svc">>
      m == proc[p].m
      Patch(found, q) ==
        LET n == [m EXCEPT !.pool = q]
        IN  PatchAnnotation(s, found, n, [api EXCEPT ![s].m.pool = q],
                            [proc[p] EXCEPT !.m = n, !.pc = "fetch"])
  IN  /\ proc[p].pc = "pool"
      /\ \/ \E q \in Pool : Candidates(m) = {q} /\ Patch(TRUE, q)
         \/ (\A q \in Pool : Candidates(m) # {q}) /\ Patch(FALSE, None)
      /\ UNCHANGED <<lister, cloud, cluster, budget>>

(* fetchLoadBalancer, by the ID annotation alone.  An NLB that is not found *)
(* is created, unless it is marked external.                                *)
Fetch(s) ==
  LET p == <<s, "svc">>
      m == proc[p].m
  IN  /\ proc[p].pc = "fetch"
      /\ Read(p, Parses(m) /\ (Live(m.id) \/ ~m.ext),
              [proc[p] EXCEPT !.pc = IF Live(m.id) THEN "get" ELSE "create"])
      /\ UNCHANGED <<api, lister, cache, cloud, cluster, budget>>

CreateLoadBalancer(s) ==
  LET p == <<s, "svc">>
      i == lastNLB + 1
      n == [live |-> TRUE, name |-> GetLoadBalancerName(s, proc[p].m),
            desc |-> proc[p].m.desc, svcs |-> {}]
  IN  /\ proc[p].pc = "create"
      /\ lastNLB < MaxNLB
      /\ Write(p, TRUE, [nlb EXCEPT ![i] = n],
               [proc[p] EXCEPT !.pc = "adopt", !.nid = i])
      /\ lastNLB' = IF nlb' = nlb THEN lastNLB ELSE i
      /\ UNCHANGED <<api, lister, cache, lastSid, cluster, budget>>

(* Mutant: the ID is only remembered, not patched. *)
AdoptMutant(s) ==
  LET p == <<s, "svc">>
      i == proc[p].nid
      n == [proc[p].m EXCEPT !.id = i]
  IN  /\ proc[p].pc = "adopt"
      /\ cache' = [cache EXCEPT ![s].m = n]
      /\ Goto(p, [proc[p] EXCEPT !.m = n, !.nid = NoID, !.pc = "get"])
      /\ UNCHANGED <<api, lister, cloud, cluster, budget, faults>>

(* The NLB just created is read back and its ID patched into the annotations. *)
AdoptLoadBalancer(s) ==
  LET p == <<s, "svc">>
      i == proc[p].nid
      n == [proc[p].m EXCEPT !.id = i]
  IN  /\ proc[p].pc = "adopt"
      /\ PatchAnnotation(s, Live(i), n, [api EXCEPT ![s].m.id = i],
                         [proc[p] EXCEPT !.m = n, !.nid = NoID, !.pc = "get"])
      /\ UNCHANGED <<lister, cloud, cluster, budget>>

(* EnsureLoadBalancer returns and the service controller patches the       *)
(* status; it tolerates that the Service is gone.                          *)
EnsureReturns(s) ==
  LET p == <<s, "svc">>
      i == proc[p].m.id
  IN  /\ proc[p].pc = "done"
      /\ \/ /\ IF cache[s].ip # i /\ Exists(s)
               THEN api' = [api EXCEPT ![s].ip = i] ELSE UNCHANGED api
            /\ Goto(p, Idle) /\ UNCHANGED faults
         \/ /\ cache[s].ip # i /\ Exists(s)
            /\ api' \in {api, [api EXCEPT ![s].ip = i]}
            /\ Fail(p) /\ Fault(p)
      /\ UNCHANGED <<lister, cache, cloud, cluster, budget>>

-----------------------------------------------------------------------------
(* updateLoadBalancer, by the service worker or the node sync *)

(* Reads the NLB and plans, from that snapshot, everything that follows. *)
GetCurrent(p) ==
  LET m == proc[p].m
      cur == nlb[m.id]
      prune == Stale(m, cur)
      todo == Tasks(p[1], m, cur)
  IN  /\ proc[p].pc = "get"
      /\ Read(p, Parses(m) /\ Live(m.id),
              [proc[p] EXCEPT !.prune = prune, !.todo = todo, !.cdesc = cur.desc,
                 !.pc = IF ~m.ext /\ isLoadBalancerUpdated(p[1], m, cur)
                        THEN "top" ELSE LoopPC(prune, todo)])
      /\ UNCHANGED <<api, lister, cache, cloud, cluster, budget>>

(* The name is updated; the description sent is the one just read. *)
UpdateTopLevel(p) ==
  LET i == proc[p].m.id
  IN  /\ proc[p].pc = "top"
      /\ Write(p, Live(i),
               [nlb EXCEPT ![i].name = GetLoadBalancerName(p[1], proc[p].m),
                           ![i].desc = proc[p].cdesc],
               [proc[p] EXCEPT !.pc = LoopPC(proc[p].prune, proc[p].todo)])
      /\ UNCHANGED <<api, lister, cache, lastNLB, lastSid, cluster, budget>>

(* First loop: an NLB service that no port matches is deleted. *)
PruneService(p) ==
  /\ proc[p].pc = "prune"
  /\ \E x \in proc[p].prune :
       LET rest == proc[p].prune \ {x}
       IN  Write(p, Has(proc[p].m.id, x.sid), Without(proc[p].m.id, x.sid),
                 [proc[p] EXCEPT !.prune = rest, !.pc = LoopPC(rest, proc[p].todo)])
  /\ UNCHANGED <<api, lister, cache, lastNLB, lastSid, cluster, budget>>

AddService(p, t) ==
  /\ lastSid < MaxSid
  /\ Write(p, CanAdd(proc[p].m.id, t.want), With(proc[p].m.id, t.want),
           [proc[p] EXCEPT !.todo = @ \ {t}, !.doing = {t}, !.pc = "verify"])
  /\ lastSid' = IF nlb' = nlb THEN lastSid ELSE lastSid + 1

(* Second loop: a port without an NLB service gets one, an NLB service of   *)
(* another pool is deleted to be created anew, any other difference is      *)
(* updated in place.                                                        *)
ApplyService(p) ==
  LET i == proc[p].m.id
  IN  /\ proc[p].pc = "apply"
      /\ \E t \in proc[p].todo :
           LET rest == proc[p].todo \ {t}
           IN  \/ t.op = "add" /\ AddService(p, t)
               \/ /\ t.op = "replace" /\ UNCHANGED lastSid
                  /\ Write(p, Has(i, t.sid), Without(i, t.sid),
                           [proc[p] EXCEPT !.todo = rest, !.doing = {t}, !.pc = "readd"])
               \/ /\ t.op = "update" /\ UNCHANGED lastSid
                  /\ Write(p, Has(i, t.sid), Updated(i, t.sid, t.want),
                           [proc[p] EXCEPT !.todo = rest, !.pc = LoopPC({}, rest)])
      /\ UNCHANGED <<api, lister, cache, lastNLB, cluster, budget>>

ReaddService(p) ==
  /\ proc[p].pc = "readd"
  /\ \E t \in proc[p].doing : AddService(p, t)
  /\ UNCHANGED <<api, lister, cache, lastNLB, cluster, budget>>

(* The NLB is read back and searched for the new NLB service's name. *)
VerifyService(p) ==
  LET i == proc[p].m.id
  IN  /\ proc[p].pc = "verify"
      /\ \E t \in proc[p].doing :
           Read(p,
                /\ Live(i)
                /\ \E x \in nlb[i].svcs : x.key = t.want.key /\ x.own = t.want.own,
                [proc[p] EXCEPT !.doing = {}, !.pc = LoopPC({}, proc[p].todo)])
      /\ UNCHANGED <<api, lister, cache, cloud, cluster, budget>>

(* The node sync takes the Service as the controller caches it. *)
NodeSync(s) ==
  LET p == <<s, "node">>
  IN  /\ proc[p].pc = "idle"
      /\ nodeSyncs < MaxNodeSyncs
      /\ cache[s].phase # "none" /\ cache[s].m.lb
      /\ Goto(p, [Idle EXCEPT !.pc = "get", !.m = cache[s].m])
      /\ nodeSyncs' = nodeSyncs + 1
      /\ UNCHANGED <<api, lister, cache, cloud, cluster, faults, edits, crashes, drift>>

NodeSyncReturns(s) ==
  LET p == <<s, "node">>
  IN  /\ proc[p].pc = "done"
      /\ Goto(p, Idle)
      /\ UNCHANGED <<api, lister, cache, cloud, cluster, budget, faults>>

-----------------------------------------------------------------------------
(* EnsureLoadBalancerDeleted, by the service worker of s *)

(* Mutant: an NLB that is not found is an error. *)
GetLoadBalancerMutant(s) ==
  LET p == <<s, "svc">>
  IN  /\ proc[p].pc = "exists"
      /\ Read(p, Live(proc[p].m.id), [proc[p] EXCEPT !.pc = "delfetch"])
      /\ UNCHANGED <<api, lister, cache, cloud, cluster, budget>>

(* The service controller first asks whether the NLB exists at all. *)
GetLoadBalancer(s) ==
  LET p == <<s, "svc">>
  IN  /\ proc[p].pc = "exists"
      /\ Read(p, TRUE,
              [proc[p] EXCEPT !.pc = IF Live(proc[p].m.id)
                                     THEN "delfetch" ELSE "unfinal"])
      /\ UNCHANGED <<api, lister, cache, cloud, cluster, budget>>

(* Mutant: an external NLB is deleted with its last NLB service. *)
AfterPruneMutant(r) == IF r.last THEN "dellb" ELSE r.end

AfterPrune(r) == IF r.last /\ ~r.m.ext THEN "dellb" ELSE r.end

(* Mutants: an NLB without any NLB service is left alone; every NLB service *)
(* is deleted.                                                              *)
DeleteFetchEmptyMutant(s) ==
  LET p == <<s, "svc">>
      m == proc[p].m
      mine == {x \in nlb[m.id].svcs : x.key \in m.ports}
      r == [proc[p] EXCEPT !.prune = mine, !.last = (mine = nlb[m.id].svcs)]
  IN  /\ proc[p].pc = "delfetch"
      /\ Read(p, TRUE,
              IF ~Live(m.id) \/ mine = {} THEN [proc[p] EXCEPT !.pc = proc[p].end]
              ELSE [r EXCEPT !.pc = "delprune"])
      /\ UNCHANGED <<api, lister, cache, cloud, cluster, budget>>

DeleteFetchAllMutant(s) ==
  LET p == <<s, "svc">>
      m == proc[p].m
      r == [proc[p] EXCEPT !.prune = nlb[m.id].svcs, !.last = TRUE]
  IN  /\ proc[p].pc = "delfetch"
      /\ Read(p, TRUE,
              IF ~Live(m.id) THEN [proc[p] EXCEPT !.pc = proc[p].end]
              ELSE [r EXCEPT !.pc = IF r.prune # {} THEN "delprune" ELSE AfterPrune(r)])
      /\ UNCHANGED <<api, lister, cache, cloud, cluster, budget>>

(* The NLB services on the Service's ports are to be deleted; the NLB too,  *)
(* if the snapshot shows no other and the NLB is not external.              *)
DeleteFetch(s) ==
  LET p == <<s, "svc">>
      m == proc[p].m
      mine == {x \in nlb[m.id].svcs : x.key \in m.ports}
      r == [proc[p] EXCEPT !.prune = mine, !.last = (mine = nlb[m.id].svcs)]
  IN  /\ proc[p].pc = "delfetch"
      /\ Read(p, TRUE,
              IF ~Live(m.id) THEN [proc[p] EXCEPT !.pc = proc[p].end]
              ELSE [r EXCEPT !.pc = IF mine # {} THEN "delprune" ELSE AfterPrune(r)])
      /\ UNCHANGED <<api, lister, cache, cloud, cluster, budget>>

DeleteServices(s) ==
  LET p == <<s, "svc">>
      i == proc[p].m.id
  IN  /\ proc[p].pc = "delprune"
      /\ \E x \in proc[p].prune :
           LET rest == proc[p].prune \ {x}
           IN  Write(p, Has(i, x.sid), Without(i, x.sid),
                     [proc[p] EXCEPT !.prune = rest,
                        !.pc = IF rest # {} THEN "delprune" ELSE AfterPrune(proc[p])])
      /\ UNCHANGED <<api, lister, cache, lastNLB, lastSid, cluster, budget>>

DeleteLoadBalancer(s) ==
  LET p == <<s, "svc">>
      i == proc[p].m.id
  IN  /\ proc[p].pc = "dellb"
      /\ Write(p, Live(i), [nlb EXCEPT ![i] = NoNLB],
               [proc[p] EXCEPT !.pc = proc[p].end])
      /\ UNCHANGED <<api, lister, cache, lastNLB, lastSid, cluster, budget>>

(* The finalizer is removed, which lets a deleted Service go; then the     *)
(* status is cleared and the Service leaves the controller's cache.        *)
RemoveFinalizer(s) ==
  LET p == <<s, "svc">>
      had == cache[s].fin
      freed == IF ~had THEN api[s]
               ELSE IF api[s].phase = "deleting"
                    THEN [NoObject EXCEPT !.phase = "gone"]
                    ELSE [api[s] EXCEPT !.fin = FALSE]
      ok == ~had \/ Exists(s)
  IN  /\ proc[p].pc = "unfinal"
      /\ \/ /\ ok
            /\ api' = [api EXCEPT ![s] = [freed EXCEPT !.ip =
                         IF cache[s].ip # NoID THEN NoID ELSE @]]
            /\ cache' = [cache EXCEPT ![s] = NoObject]
            /\ Goto(p, Idle) /\ UNCHANGED faults
         \/ /\ ok /\ api' \in {api, [api EXCEPT ![s] = freed]}
            /\ UNCHANGED cache /\ Fail(p) /\ Fault(p)
         \/ ~ok /\ UNCHANGED <<api, cache, faults>> /\ Fail(p)
      /\ UNCHANGED <<lister, cloud, cluster, budget>>

(* The Service had vanished from the informer cache: it is only forgotten. *)
ForgetService(s) ==
  LET p == <<s, "svc">>
  IN  /\ proc[p].pc = "forget"
      /\ cache' = [cache EXCEPT ![s] = NoObject]
      /\ Goto(p, Idle)
      /\ UNCHANGED <<api, lister, cloud, cluster, budget, faults>>

-----------------------------------------------------------------------------
(* The service controller *)

(* A queued Service is synced from the informer cache. *)
SyncService(s) ==
  LET p == <<s, "svc">>
      o == lister[s]
      Start(pc) == [Idle EXCEPT !.pc = pc, !.m = o.m]
  IN  /\ s \in queue /\ proc[p].pc = "idle"
      /\ ListerLag \/ o = api[s]
      /\ queue' = queue \ {s}
      /\ \/ /\ o.phase \in {"live", "deleting"}
            /\ cache' = [cache EXCEPT ![s] = o]
            /\ proc' = [proc EXCEPT ![p] =
                 IF ~o.m.lb \/ (o.fin /\ o.phase = "deleting") THEN Start("exists")
                 ELSE IF o.fin THEN Start(AfterFinal(o.m)) ELSE Start("final")]
         \/ /\ o.phase \notin {"live", "deleting"}
            /\ UNCHANGED cache
            /\ proc' = [proc EXCEPT ![p] =
                 IF cache[s].phase = "none" THEN Idle
                 ELSE [Idle EXCEPT !.m = cache[s].m, !.end = "forget",
                         !.pc = IF cache[s].m.lb THEN "delfetch" ELSE "forget"]]
      /\ UNCHANGED <<api, lister, cloud, cluster, budget, faults>>

NeedsCleanup(o) == o.fin /\ (o.phase = "deleting" \/ ~o.m.lb)

(* The informer catches up with the API server; a Service that needs an    *)
(* update or a cleanup is queued.                                          *)
Deliver(s) ==
  /\ lister[s] # api[s]
  /\ lister' = [lister EXCEPT ![s] = api[s]]
  /\ queue' = IF /\ Exists(s)
                 /\ \/ NeedsCleanup(api[s])
                    \/ /\ api[s].m # lister[s].m
                       /\ api[s].m.lb \/ lister[s].m.lb
              THEN queue \cup {s} ELSE queue
  /\ UNCHANGED <<api, cache, proc, cloud, cluster, budget, faults>>

-----------------------------------------------------------------------------
(* The environment *)

UserCreates(s) ==
  /\ api[s].phase = "none"
  /\ \E m \in Manifests[s] :
       api' = [api EXCEPT ![s] = [NoObject EXCEPT !.phase = "live", !.m = m]]
  /\ UNCHANGED <<lister, queue, cache, proc, cloud, cluster, budget, faults>>

(* A manifest is applied anew: annotations it does not set are kept. *)
UserEdits(s) ==
  /\ api[s].phase = "live"
  /\ edits < MaxEdits
  /\ \E m \in Manifests[s] :
       LET n == [m EXCEPT !.id = IF m.id = NoID THEN api[s].m.id ELSE m.id,
                          !.pool = IF m.pool = None THEN api[s].m.pool ELSE m.pool]
       IN  n # api[s].m /\ api' = [api EXCEPT ![s].m = n]
  /\ edits' = edits + 1
  /\ UNCHANGED <<lister, queue, cache, proc, cloud, cluster, crashes, nodeSyncs, drift, faults>>

UserDeletes(s) ==
  /\ api[s].phase = "live"
  /\ edits < MaxEdits
  /\ api' = [api EXCEPT ![s] = IF api[s].fin THEN [api[s] EXCEPT !.phase = "deleting"]
                               ELSE [NoObject EXCEPT !.phase = "gone"]]
  /\ edits' = edits + 1
  /\ UNCHANGED <<lister, queue, cache, proc, cloud, cluster, crashes, nodeSyncs, drift, faults>>

(* Nodes or the SKS node pool move to other Instance Pools. *)
ClusterChanges ==
  /\ drift < MaxDrift
  /\ cluster' \in Clusters \ {cluster}
  /\ drift' = drift + 1
  /\ UNCHANGED <<k8s, proc, cloud, edits, crashes, nodeSyncs, faults>>

(* An NLB that the provider created is deleted behind its back. *)
CloudDeletes ==
  /\ drift < MaxDrift
  /\ \E i \in ID : i > Provisioned /\ nlb[i].live /\ nlb' = [nlb EXCEPT ![i] = NoNLB]
  /\ drift' = drift + 1
  /\ UNCHANGED <<k8s, proc, lastNLB, lastSid, cluster, edits, crashes, nodeSyncs, faults>>

(* The controller manager stops anywhere and starts again, with a fresh list. *)
Crash ==
  /\ crashes < MaxCrashes
  /\ \A p \in Proc : proc[p].pc \notin Reliable
  /\ proc' = [p \in Proc |-> Idle]
  /\ cache' = [s \in Service |-> NoObject]
  /\ lister' = api
  /\ queue' = {s \in Service : Exists(s) /\ (api[s].m.lb \/ NeedsCleanup(api[s]))}
  /\ crashes' = crashes + 1
  /\ UNCHANGED <<api, cloud, cluster, edits, nodeSyncs, drift, faults>>

-----------------------------------------------------------------------------
UpdateStep(p) ==
  \/ GetCurrent(p) \/ UpdateTopLevel(p) \/ PruneService(p)
  \/ ApplyService(p) \/ ReaddService(p) \/ VerifyService(p)

ServiceStep(s) ==
  \/ AddFinalizer(s) \/ ResolveExternal(s) \/ InferPool(s) \/ Fetch(s)
  \/ CreateLoadBalancer(s) \/ AdoptLoadBalancer(s) \/ EnsureReturns(s)
  \/ GetLoadBalancer(s) \/ DeleteFetch(s) \/ DeleteServices(s)
  \/ DeleteLoadBalancer(s) \/ RemoveFinalizer(s) \/ ForgetService(s)
  \/ UpdateStep(<<s, "svc">>)

NodeStep(s) == NodeSyncReturns(s) \/ UpdateStep(<<s, "node">>)

Environment ==
  \/ \E s \in Service : UserCreates(s) \/ UserEdits(s) \/ UserDeletes(s) \/ NodeSync(s)
  \/ ClusterChanges \/ CloudDeletes \/ Crash

Next ==
  \/ \E s \in Service : ServiceStep(s) \/ NodeStep(s) \/ SyncService(s) \/ Deliver(s)
  \/ Environment

Spec == Init /\ [][Next]_vars

(* Every goroutine and the informer keep running; nothing else must happen. *)
Fairness ==
  \A s \in Service : /\ WF_vars(ServiceStep(s)) /\ WF_vars(NodeStep(s))
                     /\ WF_vars(SyncService(s)) /\ WF_vars(Deliver(s))

FairSpec == Spec /\ Fairness

-----------------------------------------------------------------------------
(* Properties *)

(* Every variable has its type; in particular what updateLoadBalancer is to  *)
(* update or replace has the ID of an NLB service.                           *)
TypeOK ==
  /\ api \in [Service -> Object] /\ lister \in [Service -> Object]
  /\ cache \in [Service -> Object]
  /\ queue \subseteq Service
  /\ proc \in [Proc -> Process]
  /\ nlb \in [ID -> NLB]
  /\ cluster \in Clusters
  /\ lastNLB \in 0 .. MaxNLB /\ lastSid \in 0 .. MaxSid
  /\ edits \in Nat /\ faults \in Nat /\ crashes \in Nat /\ nodeSyncs \in Nat
  /\ drift \in Nat

(* The NLB that m names is what m asks for: its name, one NLB service with  *)
(* the right pool and properties for each port, and no other unless the NLB *)
(* is external.  The description is left out: updateLoadBalancer sends back *)
(* the one it has just read, and a changed one is never applied.            *)
Synced(s, m) ==
  /\ Live(m.id)
  /\ \A w \in Wanted(s, m) :
       \E x \in nlb[m.id].svcs :
         x.key = w.key /\ x.own = w.own /\ x.pool = w.pool /\ x.cfg = w.cfg
  /\ m.ext \/ /\ nlb[m.id].name = GetLoadBalancerName(s, m)
              /\ \A x \in nlb[m.id].svcs : x.key \in m.ports

(* When EnsureLoadBalancer is about to return without an error, the NLB is  *)
(* exactly what the Service it was given asks for, whatever failed calls,   *)
(* restarts and half-done syncs came before (no other actor on the NLB).    *)
EnsuredIsSynced ==
  \A s \in Service :
    proc[<<s, "svc">>].pc = "done" => Synced(s, proc[<<s, "svc">>].m)

(* EnsureLoadBalancer "creates a new load balancer 'name', or updates the   *)
(* existing one": never two NLBs for one Service.                           *)
OneNLB ==
  \A s \in Service : \A i, j \in ID :
    nlb[i].live /\ nlb[j].live /\ nlb[i].name = s /\ nlb[j].name = s => i = j

(* Where calls do fail and the program does exit, before or after the NLB's  *)
(* ID is recorded: every NLB of a Service beyond the first has cost a failed *)
(* call or a restart of its own.  No edit, deletion, change of type, node    *)
(* sync or retry makes another.                                              *)
DuplicatesPaidFor ==
  \A s \in Service :
    Cardinality({i \in ID : nlb[i].live /\ nlb[i].name = s}) <= 1 + faults + crashes

(* A Service that is gone, with nothing left to do for it, has left no NLB  *)
(* of its own behind in the cloud.                                          *)
NoLeak ==
  \A s \in Service :
    /\ api[s].phase = "gone"
    /\ s \notin queue /\ proc[<<s, "svc">>].pc = "idle"
    => \A i \in ID : nlb[i].live => nlb[i].name # s

(* EnsureLoadBalancerDeleted deletes an NLB only when "there are no          *)
(* unrelated NLB services remaining" on it: none of another Service, which   *)
(* would go with it.                                                         *)
SafelyDeleted ==
  \A s \in Service :
    LET r == proc[<<s, "svc">>]
    IN  r.pc = "dellb" /\ Live(r.m.id) => \A x \in nlb[r.m.id].svcs : x.own = s

(* No call that changes NLB services is made on the strength of an ID or a   *)
(* pool that a restart would not find again: from updateLoadBalancer on,     *)
(* what the worker goes by is what the API server has (users whose manifests *)
(* leave the two annotations to the provider).                               *)
PersistedBeforeUse ==
  \A s \in Service :
    LET r == proc[<<s, "svc">>]
    IN  /\ r.pc \in {"get", "top", "prune", "apply", "readd", "verify", "done"}
        /\ Exists(s)
        => r.m.id = api[s].m.id /\ r.m.pool = api[s].m.pool

(* Whatever manifest a user of s submits, it marks the NLB external. *)
AlwaysExternal(s) == \A m \in Manifests[s] : m.ext

(* No manifest of s marks the NLB external, and none has the ID i. *)
NeverOn(s, i) == \A m \in Manifests[s] : ~m.ext /\ m.id # i

(* A pre-existing NLB that only external Services can refer to. *)
Protected(i) ==
  i \in 1 .. Provisioned /\ \A s \in Service : AlwaysExternal(s) \/ NeverOn(s, i)

(* The external annotation keeps its promise: the provider neither deletes   *)
(* nor renames an NLB that it did not create and that only Services marked   *)
(* external refer to.                                                        *)
ExternalUntouched ==
  \A i \in ID : Protected(i) =>
    /\ nlb[i].live = Preset[i].live
    /\ nlb[i].name = Preset[i].name
    /\ nlb[i].desc = Preset[i].desc

(* On such an NLB, the NLB services on ports that no Service of the cluster  *)
(* declares stay as they are.                                                *)
ForeignServicesKept ==
  \A i \in ID : Protected(i) =>
    \A x \in Preset[i].svcs :
      (\A s \in Service : \A m \in Manifests[s] : x.key \notin m.ports)
      => x \in nlb[i].svcs

(* The user of s has one manifest; it names the Instance Pool, or leaves    *)
(* the NLB to the provider (which then knows the pool before the NLB's ID). *)
Steady(s) ==
  \E m \in Manifests[s] :
    /\ Manifests[s] = {m} /\ m.sks = "none"
    /\ m.pool # None \/ (m.id = NoID /\ ~m.ext)

(* Only s wants port/protocol k. *)
Exclusive(s, k) ==
  \A t \in Service : t # s => \A m \in Manifests[t] : k \notin m.ports

(* An NLB service that serves a Service whose manifest does not change, on   *)
(* a port no other Service wants, is never interrupted (deleted, even if to  *)
(* be created again, or lost with its NLB) before the Service itself is      *)
(* deleted, unless someone other than the provider deletes the NLB: not by   *)
(* syncs or deletions of other Services, by node syncs, retries, restarts.   *)
Uninterrupted ==
  [][\A i \in ID : \A x \in nlb[i].svcs :
       /\ x.own \in Service /\ Steady(x.own) /\ Exclusive(x.own, x.key)
       /\ \A y \in nlb'[i].svcs : y.sid # x.sid
       => api[x.own].phase \in {"deleting", "gone"} \/ CloudDeletes]_vars

(* What the user asked for last can be done: it parses, an external NLB     *)
(* exists, and the Instance Pool is in the object (the user gave it, or the *)
(* provider inferred it earlier; whether one can be inferred is up to the   *)
(* nodes).                                                                  *)
Realizable(s) ==
  LET m == api[s].m
  IN  /\ api[s].phase = "live" /\ m.lb /\ Parses(m)
      /\ ~m.ext \/ Live(m.id)
      /\ m.pool # None

(* Once users, failures and restarts cease, every Service has its NLB as it *)
(* asks for, and publishes that NLB's address.                              *)
Converges ==
  \A s \in Service :
    <>[](Realizable(s) => Synced(s, api[s].m) /\ api[s].ip = api[s].m.id)

(* A deleted Service is eventually let go. *)
DeletionCompletes ==
  \A s \in Service : api[s].phase = "deleting" ~> api[s].phase = "gone"

=============================================================================
