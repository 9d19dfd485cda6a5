# Verification of the Exoscale cloud controller manager

TLA+ models of the provider in `exoscale/`, model-checked with TLC and, where it
matters most, proved with TLAPS.  `PROJECT.json` maps every definition to the
lines it models, every run to its properties and every property to a mutant that
breaks it.

## 1. Inventory

| Component | State it keeps | Operations | Interacts with |
|---|---|---|---|
| Load balancer provider (`loadbalancer.go`, `patcher.go`) | none of its own: the annotations of the Service object (NLB ID, Instance Pool ID) are its memory, the NLB in the cloud its effect | `GetLoadBalancer`, `EnsureLoadBalancer`, `UpdateLoadBalancer`, `EnsureLoadBalancerDeleted`, `updateLoadBalancer`, `patchAnnotation` | called by the service controller; calls the Exoscale API through the client and patches the Kubernetes API |
| Service controller (vendored, `k8s.io/cloud-provider`) | work queue, informer cache, `cachedService.state` per Service, finalizer and status on the object | sync of a Service (create/update or delete), node sync, retry | decides when, concurrently with what, and with which copy of a Service the provider is called |
| Refreshable API client (`client.go`, wrappers in `loadbalancer.go`, `instances.go`, `sks.go`) | `exo`, `apiCredentials` under an RWMutex | calls, `Wait`, `refreshCredentialsFromFile`, `watchCredentialsFile` | shared by every goroutine; fed by fsnotify events |
| Node CSR validation runner (`sks_agent*.go`) | the watch on CSRs, the event being handled | approve kubelet serving certificates | Kubernetes CSR API, Nodes, Exoscale instances |
| Instances v1/v2 and overrides (`instances*.go`, `common.go`) | none: overrides from the configuration; the provider ID in each Node is its memory | node addresses, existence, shutdown, metadata | the node and node lifecycle controllers (vendored) |
| Zones (`zones.go`) | none | zone of a node | cloud node controllers |
| Provider start and stop (`exoscale.go`) | the context that ends every goroutine | `Initialize`, zone detection | all of the above |
| Configuration, command line, logging, mock | none after start | | |

What is hard about it:

* *Memory in annotations.*  An NLB is only ever found through the ID annotation,
  which is patched after the NLB has been created, waited for and read back.
  Anything that fails or exits in between loses the NLB.
* *Stale copies.*  A Service exists as the API server's object, the informer's
  copy, the controller's cached copy (which `patchAnnotation` modifies in place)
  and the copy a worker is using.  The node sync works from the cached copy while
  the service worker moves on.
* *Plans from a snapshot.*  `updateLoadBalancer` and `EnsureLoadBalancerDeleted`
  read the NLB once and then make many calls; other Services on the same NLB, the
  node sync and users act in between.
* *Half-done work.*  Every call may fail before or after it had its effect; a pool
  change is a deletion followed by a creation; every error means a retry of the
  whole operation from the top.
* *One client for everybody.*  It is replaced under a lock that calls hold for as
  long as an asynchronous operation takes.
* *Old events.*  The CSR runner decides on a CSR as it was in an event, several
  remote calls later; an event it loses or fails on is seen again only by way of a
  new watch.
* *Questions before acts.*  MonitorNodes asks whether a Node's instance exists and
  deletes the Node later, by name; a wrong "no" deletes a Node at once.  Nodes keep
  the IDs that earlier configurations gave them.

What makes each part correct:

* provider: a sync that returns success has done what its Service asks for; there
  is one NLB per Service; nothing is left behind; deletion ends; repeated syncs
  converge to the last manifest; an external NLB and what others have on it are
  left alone; traffic of a Service that does not change is not interrupted;
* client: a call keeps its client from request to wait; credentials never go back;
  calls and refreshes never wait for each other for ever; the last credentials
  written are used in the end;
* CSR runner: a CSR is approved only for the name and the addresses of an instance;
  a decision is never overruled; no deserving CSR is left pending for ever; the
  runner stops on cancellation;
* instances: an external Node is left alone; only a Node without an instance is
  deleted, and such a Node is; IDs are unique; addresses follow the kubelet, the
  instance and the configuration; the two interfaces agree.

## 2. Modules

| Module | Content |
|---|---|
| `LoadBalancer` | provider, service controller, Kubernetes API, Exoscale NLB API, users, crashes; its properties; the mutants of its definitions |
| `MCLoadBalancer` | manifests, pre-existing NLBs and cluster states for TLC |
| `LoadBalancerProofs` | type correctness of `LoadBalancer` |
| `StepProofs` | what each step of `LoadBalancer` does to objects, plans and cloud, one formula per operation; what the copies of a Service and the plans have in common |
| `ExternalProofs` | the external annotation's promise: the NLB, and what others have on it, on top of `StepProofs` |
| `OwnershipProofs` | whose an NLB is: persisted before it is used, no duplicate without a failure or a restart, none left behind |
| `SyncProofs` | that a sync that succeeds is complete, and that none interrupts an NLB service that is in use |
| `CredentialStore` | what the client promises, without lock, file or watcher |
| `RefreshableClient`, `MCRefreshableClient` | the client, its lock, its refreshes and callers |
| `RefreshableClientProofs` | type correctness, stability and monotonicity of the client; that it implements `CredentialStore` |
| `CSRValidation`, `MCCSRValidation` | the CSR runner, the CSR API, instances and Nodes around it |
| `CSRValidationProofs` | type correctness, justified approvals, decisions that stand |
| `Nodes`, `MCNodes` | instances (v2 and v1), zones, overrides, and the node and lifecycle controllers |
| `NodesProofs` | type correctness, external Nodes kept, justified deletions, unique IDs, agreement of the interfaces |

### LoadBalancer

State: `api`, `lister`, `cache` are the three copies of each Service object;
`queue` the controller's work queue; `nlb`, `lastNLB`, `lastSid` the cloud;
`cluster` the Instance Pools of nodes and SKS node pool; `proc` one record per
process.  `<<s, "svc">>` is the worker that syncs Service `s` (the work queue
never gives one key to two workers), `<<s, "node">>` the node sync's
`UpdateLoadBalancer` of `s`.

One step is one API call together with the local computation around it, so any
two calls of any two processes interleave:

| Code | Actions |
|---|---|
| service controller `syncService` | `SyncService`, then `AddFinalizer` |
| `EnsureLoadBalancer` | `ResolveExternal`, `InferPool`, `Fetch`, `CreateLoadBalancer`, `AdoptLoadBalancer`, `EnsureReturns` |
| `updateLoadBalancer` | `GetCurrent` (snapshot and plan: `Stale`, `Tasks`), `UpdateTopLevel`, `PruneService`, `ApplyService`, `AddService`, `ReaddService`, `VerifyService` |
| `UpdateLoadBalancer` | `NodeSync`, the same steps, `NodeSyncReturns` |
| `GetLoadBalancer`, `EnsureLoadBalancerDeleted` | `GetLoadBalancer`, `DeleteFetch`, `DeleteServices`, `DeleteLoadBalancer`, then the controller's `RemoveFinalizer` or `ForgetService` |
| informer, users, cloud, process exit | `Deliver`, `UserCreates`, `UserEdits`, `UserDeletes`, `ClusterChanges`, `CloudDeletes`, `Crash` |

Failures are part of the steps: `Read` may fail; `Write` may fail before or after
its effect (a wait that is cut short); a Kubernetes patch may fail after the
annotation has been set on the cached Service, or after the server has applied
it (`PatchAnnotation`).  An error puts the Service back on the queue (`Fail`).

Abstractions, and why they are sound for the properties stated:

* An annotation is absent or a member of a small set.  Everything that
  `buildLoadBalancerFromAnnotations` puts into an NLB service besides port,
  protocol, name and pool is the one value `cfg`, which either parses or does not;
  the code only compares these fields for equality.  A wanted or existing NLB
  service's name is the pair of owner and port/protocol; the service-name
  annotation (single-port Services) is not modelled.
* `FindLoadBalancer` on the list, the loop over the nodes and the SKS lookup are
  one step each with the patch that follows: they read, and the only step of
  others that could fall between read and patch is one that could as well come
  first.  The outcome of the read is any the cloud then allows.
* A call that failed has either had its effect when it returns or never has it;
  an operation that takes effect later still is not modelled.
* The API accepts one NLB service per port and protocol and none without a pool;
  deleting an NLB deletes its NLB services.
* Deliveries are coalesced; a user's edit is an apply, which keeps annotations the
  manifest does not set; a Service being deleted is not edited; names and UIDs are
  not used again.
* With `ListerLag = FALSE` a sync starts from an informer copy equal to the
  object.  `lb_external` drops this; the other passing runs keep it, because an
  outdated copy without the ID annotation leads to a duplicate (section 5), and
  the published address may then stay outdated.
* `Reliable` names steps at which neither a fault nor a crash strikes.  `lb_life`
  puts the window between creation and adoption there, which `lb_duplicate` shows to
  be unsafe, in order to ask whether anything else is; in `lb_live` it is empty.

### RefreshableClient

`exo` and `creds` are numbered by the version of the file they come from, 0 is
nil and `Half` what a read of a half-written file would yield.  `Decode`, `SwitchZone`, `AskLock`, `GetLock`, `SetClient`, `SetCredentials`
are the steps of `refreshCredentialsFromFile`, run by the constructor and then by
the watcher (`Watch`, `Receive`, `StopWatching`).  A caller passes `Begin`,
`RLock`, `Request`, `Wait`.  Go's RWMutex: no reader enters once a writer asks.
The file may be truncated and completed, replaced or removed; a missing file is
fatal, an incomplete one ignored.  The constructor's other branches are `Static`
(key and secret) and `NoCredentials` (fatal).  fsnotify errors and a closed event
channel are left out.

`CredentialStore` has three variables: the credentials, the callers that use them,
and the credentials each use started with.  `Install` puts in newer ones when no
one uses the store; `Acquire`, `Start`, `Finish` are a use.  The refinement mapping
takes `exo`, `readers` and `used` for them; every other step of the client
(file, watcher, lock queue, decoding, zone lookup) is a stutter.

### CSRValidation

`pc` is where `run` is: `watch` and `sleep` in the outer loop, `select`, `list`,
`check`, `approve` in the inner one, `stopped` after it returned.  `Watch` opens a
watch without a resource version, which begins with an Added event for every CSR
there is; `queue` holds the Added events on their way, in any order.  `Receive`
has every early `continue` of the loop's head (decided, groups, parse, DNS names);
`ListInstances`, one `CheckInstance` per instance (with its `Get` of the Node),
`Verdict` and `UpdateApproval` follow.  The API server refuses an approval of an
old version; one that fails may have taken effect.  Around the runner, kubelets
submit CSRs, others decide on, touch and delete them, instances and annotations
change, watches end or are lost with their events, and the context is cancelled,
after which every remote call fails.

`since` is a history variable: the instances and annotations there have been since
each CSR was submitted; `Justified` speaks of it.  `upper` says that an instance's
name is not lower-case: its Node is then never found, because the typed client's
`Get` returns an empty object with its error and not nil, so that the second `Get`
(lines 131-133) is never made.

### Nodes

The v2 interface is three operators over a Node, as the controller passes it, and
the API's answer `got`; the overrides are looked up in two tables over the
configurations, by name and by ID.  The v1 interface and the zones are operators
over the current state.  The controllers are modelled as vendored: `SyncAsk` and
`SyncUpdate` are syncNode of a Node with the cloud taint (the modifiers are made
from one state and applied to another, and a provider ID is only set if there was
none), `UpdateStatus` the periodic update of addresses, `Monitor` followed by
`DeleteNode` or `TaintShutdown` the lifecycle controller's loop body.  `Restart`
brings any other configuration and loses what the controllers had in hand; the
Nodes keep their IDs.

Abstractions: the prefix of provider IDs is trimmed wherever an ID is used, and is
left out; a hash is injective; regular expressions are a relation between patterns
and Nodes; "stopping" is "stopped"; instance types and regions are labels; what
`GetInstanceType` or `GetInstance` fails with is one error.  A Node always has the
same system UUID, so that a Node replaced, between the question and the deletion, by
one of the same name on another instance is outside the model; MonitorNodes lists the
Nodes when it asks about each; a Node is deleted only by the lifecycle controller;
informers are up to date; UpdateNodeStatus reads and writes one Node in one step.

## 3. Runs

| Run | Instance | Shows |
|---|---|---|
| `lb_life` | one Service, two ports, 2 faults, a crash, a node sync, a deletion; the nodes move or the NLB is deleted behind the provider's back | outside the creation window no duplicate (`OneNLB`), no leak (`NoLeak`), nothing used before it is persisted (`PersistedBeforeUse`), no interruption (`Uninterrupted`); `DeletionCompletes` |
| `lb_live` | seven manifests (ports, pool, properties, name, type; rejected annotations, SKS node pools), 2 edits, a fault and a crash anywhere | types; success means synced (`EnsuredIsSynced`); an NLB too many has cost a failure or a restart of its own (`DuplicatesPaidFor`); `Converges`, `DeletionCompletes` |
| `lb_external` | two Services on one external NLB with a foreign NLB service, or one of them on another, empty one, or on none; concurrent workers, outdated informer, a node sync, an edit or a deletion; faults are left to `lb_life`, and to the proof | `ExternalUntouched`, `ForeignServicesKept`, `Uninterrupted` |
| `client` | two callers, two changes of the file (also before it is watched), removal, a failed zone lookup, all branches of the constructor | types, `SameClient`, `NeverOlder`, `CallsEnd`, `RefreshEnds`, `EventuallyFresh`, and that it implements `CredentialStore` (`StoreSpec`) |
| `csr_loop` | one CSR of five kinds, four lists of instances (none; two of one name and another; a private network; an upper-case name), an update in between, two changes, a fault, cancellation | types, `Justified`, `NeverOverrules`, `MissedAreReevaluated` |
| `node` | a Node on an instance with a private network, a Node elsewhere, four configurations, a restart, a change, a fault | types, `UniqueIDs`, `AgreesButForZone`, `ExternalLeftAlone`, `DeletedIfGone`, `OrphansGo`, `NodesConverge` |

Runs that are violated, each by the code as it is (section "findings" of
`PROJECT.json` quotes the lines):

| Run | What happens |
|---|---|
| `lb_duplicate` | the wait for a creation fails, the retry finds no ID and creates a second NLB |
| `lb_portleak` | ports are edited and the Service is deleted before the edit is synced: the NLB service on the old port, and so the NLB, stays |
| `lb_noderevert` | a node sync that began with the old manifest undoes the service worker's sync of the new one, and nothing queues the Service again |
| `lb_shared` | a Service is deleted while another is being put on its NLB as external: what remains is counted on the NLB as it was read, and the NLB is deleted with the other's new NLB service on it |
| `csr_cancel` | the context is cancelled when the runner has no watch: Watch fails, the loop sleeps and continues, for ever |
| `client_panic` | the first read finds the file half written: the constructor returns a client without an inner one, and a call goes through nil |

Bounds.  One Service reaches every interleaving of worker, node sync, user and
crash on its NLB; two are needed only to share an NLB.  Two ports make both loops
run twice.  Two faults allow a failed retry, two edits an edit during the sync of
another, or an edit and a deletion.  `MaxNLB` and `MaxSid` are large enough that
no passing run is stopped by them in a way that hides a step (liveness would
otherwise fail).  One CSR suffices because the loop forgets everything between two
events; three instances put another one between two of the same name.  In `node`
the restart is what lets IDs and overrides disagree, and the four configurations
give every kind of override (by name, by pattern, with and without an ID and
addresses, not external) and the API switched off.  Symmetry is not used: the processes and manifests differ.
Deadlock checking is off because users, faults and changes are bounded and a
synced system rests.

Fairness.  Workers and informer are goroutines that keep running:
`WF(ServiceStep)`, `WF(NodeStep)`, `WF(SyncService)`, `WF(Deliver)`; the retry's
back-off is finite.  Users, faults, crashes and node syncs are not fair.  In the
client, refresh and watcher have weak fairness; a caller has strong fairness
because Go's RWMutex lets the waiting readers in when a writer leaves, so a reader
that is let in again and again does enter; a truncated file is completed.  In
`CSRValidation` the goroutine runs (`WF(Run)`) and the API server ends every watch
after its timeout (`WF(CloseWatch)`); nothing else is fair, lost watches and
cancellation included.  In `Nodes` the node controller's workers and loops run for
each Node (`WF`), the lifecycle controller's loop gets to each Node again and again
(`SF(Monitor)`, because it is busy with others in between) and finishes what it
began (`WF`).

Assumptions of single properties: `PersistedBeforeUse` is about users who leave
ID and pool to the provider; `Uninterrupted` about Services whose manifest does
not change and ports no other Service wants (before the Service is deleted, and
unless someone other than the provider deletes the NLB); `Converges` about manifests that
parse and whose pool is known; `EventuallyFresh` about runs in which no zone lookup
fails and the file does not change before it is watched; `MissedAreReevaluated`
about CSRs that every instance of their name vouches for; `ExternalLeftAlone` about
Nodes with an external override by name that no other override shadows by ID;
`DeletedIfGone` and `OrphansGo` about Nodes with no ID or their instance's;
`UniqueIDs` excepts Nodes that one external pattern covers; `AgreesButForZone` is about
Nodes without an override, or with one that is external by name and by ID alike.
Each is stated in the definition's comment.

## 4. Proofs

All theorems hold for every value of the constants that satisfies the named
assumptions (`ConstantsAssumption`, `BoundsAssumption`, `ClientAssumption`,
`CSRAssumption`, `NodesAssumption`: types of the parameters, pre-existing IDs within
the bounds, no ID twice on a pre-existing NLB), which TLC evaluates on every run.
Where a property is false of the code without a further condition on the
environment, the condition is a hypothesis of the theorem, by name:

| Theorem | Hypothesis | Why it is needed | Met by |
|---|---|---|---|
| `PersistenceHolds` | `ProviderID`, `ProviderPool`: users leave ID and pool to the provider; `ListerLag = FALSE` | the property speaks of such users only; a sync from an outdated copy works with what that copy says | `lb_life` |
| `DuplicatesBounded` | `Sequential`: nobody names an NLB by ID, marks it external or gives it a Service's default name; a current informer | a name that a user gives to another NLB is counted too; an outdated copy without the ID creates again without any failure (section 5) | `lb_live` |
| `NothingLeaks` | `OneEach`: the same, and `create` and `adopt` reliable; `FixedPorts`: ports do not change | what `lb_duplicate` leaves is not found by a deletion either; `lb_portleak` | `lb_life` |
| `SyncIsComplete` | `SoleActor`: no shared NLB, no node syncs, no drift | `lb_noderevert`; a second actor on the NLB can undo the sync before it returns | `lb_live` |
| `NeverInterrupted` | `Settled`: every Service is on NLBs managed elsewhere, or none is; in the second case the informer is current or every manifest gives the pool.  `Unserved`: no pre-existing NLB service counts as a Service's | the sync of a Service that is not external prunes what others have on a shared NLB (section 5); an outdated copy without the pool infers it again, perhaps another one, and the NLB service is replaced; one that was there before may be of another pool | `lb_life`, `lb_external` |
| `IDsAreUnique`, `InterfacesAgree` | `DistinctIDs`: no system UUID or externalID stands for two names | two machines with one UUID, or two overrides with one externalID, do share an ID | `node` (an `ASSUME` of `MCNodes`) |

The other theorems have no hypotheses.

* `LoadBalancerProofs!TypeCorrect`: `TypeOK`.  One lemma for each call form
  (`ReadType`, `WriteType`, `PatchType`: if the result is well typed whenever the
  call succeeds, so is the state), lemmas about what the plans and the cloud calls
  return, then one lemma per operation with one case per action.
* `ExternalProofs!ExternalSafety`: `ExternalUntouched`.  The property speaks of
  the cloud only, so it is not inductive.  `ExternalInv` adds what every copy of a
  Service may say of a protected NLB (`ManifestSafe` for object, informer copy,
  cached copy and working copy), that an existing object of an external user is
  external (needed because the patch of the ID applies to whatever object is there
  by then), where a process may be (`RecordSafe`: it resolves by name only if
  external, updates or deletes the NLB only if not), and that a newly created NLB
  is none of the pre-existing ones.
* `StepProofs` has no theorem of its own.  `Steps` says that every step of `Next`
  is an `ObjectStep` of one Service (it changes object, copies or cache, or creates
  the NLB), an `Update` of one process, a `Withdraw` of one worker, `Drifts` or
  `Restarts`, each a formula without failure branches and counters.  All later
  proofs split on these five and not on the 25 actions.  `CopiesInv` (every copy of
  a Service, however old, is of a manifest a user submitted, apart from the patched
  annotations) and `PlansInv` (what a process plans to delete or change it has
  planned from its own Service) are the common base.
* `ExternalProofs!ForeignServicesSafe`: `ForeignServicesKept`.  A plan is carried
  out by IDs read long before, so `ForeignInv` says that a foreign NLB service is
  where it was (`Stays`), that no plan under way on that NLB names its ID
  (`Spares`), and that new IDs are above all pre-existing ones, so that none is
  taken for it later.
* `OwnershipProofs!PersistenceHolds`: `PersistedBeforeUse`.  `Known`: a worker's ID
  and pool are the API server's as long as the object exists, which patches keep by
  changing both and a current informer establishes.
* `OwnershipProofs!DuplicatesBounded`: `DuplicatesPaidFor`, with failures and restarts
  also between the creation of an NLB and the patch of its ID.  Not inductive: the
  bound says nothing of which NLB the next sync will find.  `Counted`: the NLBs of a
  Service other than the one in its object and the one just created (`Extra`) are no
  more than the failures and restarts so far, and a worker that is about to create
  one does so because the one in the object is gone.  A step that loses the NLB just
  created (`Failing`, `Restarts`) raises the count of failures by one (`PaidMore`);
  all others keep `Extra` or make it smaller.  `RefsInv` says that no two Services
  refer to one NLB, in any copy, however old.
* `OwnershipProofs!NothingLeaks`: `NoLeak`.  `Own`: all NLBs of a Service are the one
  in its object or the one just created, and there are none when one is to be
  created.  `Tidy` adds that the NLB of a Service
  has NLB services on its ports only, so that the deletion's plan empties it
  (`last`); that there is none when the finalizer is to be removed, nor as long as
  there is no finalizer.
* `SyncProofs!SyncIsComplete`: `EnsuredIsSynced`.  `AddsUp` is the loop invariant of
  `updateLoadBalancer`: the NLB's services are those still to be pruned, those a
  task still stands for, and those that are already as the Service wants them; every
  port has a task or a finished NLB service; IDs are handed out once (`Sids`).
  `Track` ties it to the place in the loops (`prune`, `apply`, `readd`, `verify`).
  With `RefsInv`, no other Service's step touches this NLB (`OthersUndisturbed`).
* `SyncProofs!NeverInterrupted`: `Uninterrupted`.  The property is about a step, and
  the step is decided by a plan, a working copy and an object of three different
  moments; the invariant (`KeptInv`) ties them together.  `Lifecycle`: no copy is
  ahead of the object, hence a worker that gives up the NLB of a `LoadBalancer`
  Service does so for one that is being deleted.  `Given`: a pool that the manifest
  gives is in every copy; `Inferred`: one that it does not give is in the API
  server's object before the NLB's ID is in any copy, and stays.  `Faithful`: the
  IDs in a plan are still those of the NLB services that were read, on the same port,
  because IDs are handed out once and an update keeps port and pool.  `Serving`:
  what a Service has on any NLB is on its ports and of its pool; so its own plans
  contain nothing that prunes or replaces it.  `Owned`: on an NLB that is the
  provider's nobody else has NLB services; on an external one nobody prunes, and
  another Service's tasks and deletions are on that Service's ports.
* `RefreshableClientProofs`: `TypeOK`, `SameClient` and `NeverOlder`.  The
  inductive invariant: the readers are exactly the callers inside a call, a
  refresh that assigns holds the write lock, which excludes readers (`Locking`);
  the constructor's refresh ends before the watcher's begin (`OneRefresh`; without
  it two refreshes could interleave and restore older credentials); client and
  credentials differ only between the two assignments (`Paired`); for
  `NeverOlder`, a refresh under way has credentials between the client's and the
  file's, hence not those of a half-read file, which are below all (`Newer`).
* `RefreshableClientProofs!ImplementsStore`: `Spec => Store!Spec`.  Initial states
  map to the initial state; under the same invariant every step of the client is a
  step of the store or a stutter (`StoreStep`): `SetClient` is `Install`, because
  the write lock excludes readers (`Locking`) and what was decoded is not older
  (`Newer`); `RLock`, `Request`, `Wait` are `Acquire`, `Start`, `Finish`, the last
  because of `SameClient`.
* `CSRValidationProofs`: `TypeOK`, `Justified`, `NeverOverrules`.  An approval acts
  on what an event said, so the invariant relates the two: an event is the CSR at
  some version, and has its condition as long as the version is the CSR's
  (`Versions`; with the API server's conflict check this gives `NeverOverrules`);
  the CSR in hand has passed the first checks (`Handling`); the instances listed
  for it are among those since it was submitted (`Recorded`); a positive verdict
  has an instance behind it (`Verdicts`).
* `NodesProofs`: `TypeOK`, `ExternalLeftAlone`, `DeletedIfGone`.  Between the
  question and the act the Node can change, so the invariant says how little: a
  provider ID is only set where there is none (`SetsOnce`, `Missing`), hence what
  MonitorNodes saw is the Node's ID or none (`CopyOfNode`), and the reasons for a
  deletion last (`DeletesDoomed`: an instance that is gone stays so, an ID that is
  another's stays, a new configuration comes with a restart).  A covered Node's
  override is external both from its ID and from its name alone
  (`CoveredIsExternal`), which excludes both answers that harm it.
* `NodesProofs!IDsAreUnique`, `InterfacesAgree`: `UniqueIDs`,
  `AgreesButForZone`.  A Node's ID may come from a configuration before the last restart, so the invariant
  says of each ID, in a Node or in the hands of a controller, which names it can
  come from under some configuration (`OneName` then makes them one).  For the
  interfaces, the lookups by ID (v1) and by Node (v2) are shown to find the same
  override or both none; the zone is the one field in which what follows differs.

Only model-checked: everything under fairness (`Converges`, `DeletionCompletes`,
`CallsEnd`, `RefreshEnds`, `EventuallyFresh`, `MissedAreReevaluated`, `OrphansGo`,
`NodesConverge`; the prover does not do liveness or `ENABLED`), and `OneNLB`, which
needs creation and patch of the ID to go through, as they do in `lb_life`; without
that `DuplicatesBounded` says what holds.  Every other property of a passing run,
invariant or action property, is stated by a theorem.

## 5. Not modelled, and observations without a run

* Zone detection, YAML decoding, command line, logging, the mock: I/O or no state.
  `AddSSHKeyToAllInstances`, `CurrentNodeName` and `GetZone` change nothing.  The
  conversion of load balancer annotations to NLB service fields is one opaque value
  (see the 16-bit port below).
* The data race between `patchAnnotation`, which writes to the cached Service's
  annotation map, and a node sync that reads it.
* `docs/service-loadbalancer.md:321` says "name takes precedence over id if both
  specified"; with both set the ID alone decides (`loadbalancer.go:114`).  A cluster-name
  annotation without a node pool name skips the inference of the pool
  (`loadbalancer.go:136`), and the sync then fails at the API.
* The patch of an inferred pool queues the Service again (the annotations changed).  A
  sync that then starts from an informer copy with the pool and not yet with the ID
  (`loadbalancer.go:585-598`) creates a second NLB although no call failed: TLC finds
  it with the instance of `lb_duplicate`, `MaxFaults = 0` and `ListerLag = TRUE`.
* The healthcheck port annotation is truncated to 16 bits (`loadbalancer.go:819`).
* A changed description annotation is never applied: the update request carries
  `nlbCurrent.Description`, the one just read (`loadbalancer.go:347`).
* On an NLB that two Services share, the sync of the one that is not marked
  external deletes the NLB services of the other (`loadbalancer.go:392-412`), while
  the deletion takes "a safety precaution" for that case (290-294).
* A change of the credentials file between the first read and the start of the
  watch is never seen (`client.go:108-109`); credentials whose zone lookup fails are
  dropped until the next change (209-213).  `EventuallyFresh` excludes both.
* When several instances have a CSR's name, the last one listed decides
  (csr runner, line 141).  An instance whose name has upper-case letters is
  approved only by its public addresses (the fallback at lines 131-133, and at
  `instances.go:107-109`, never happens).
* v1 and v2 differ where an override is not external: once there is a provider ID,
  v1 looks by ID only and ignores addresses and type set by name; such Nodes are
  outside `AgreesButForZone`.
* InstancesV2 sets Zone and Region (`instances_v2.go:112`, `132`), the Zones interface
  only Region (`zones.go:48-61`): for every Node the two interfaces differ in the zone,
  although `exoscale.go:146` calls them "behaviorally identical".  `AgreesButForZone`
  states and checks the difference.
* One external override with a pattern gives all its Nodes one provider ID
  (`instances.go:69` calls it "a unique identifier").  An externalID on an override
  that is not external shadows an external one of the name
  (`docs/getting-started.md:141` says it is ignored).
* An external override without addresses and a kubelet with a node IP: the node
  controller does not find that IP among no addresses and never initialises the
  Node, although `docs/getting-started.md:153` says the registered address is kept.
* With `externalOnly`, `InstanceExists` says no for every Node without an external
  override, and a Node that is not ready is deleted.

## 6. Plan

1. (done) `LoadBalancer`, `RefreshableClient`, their runs; type correctness,
   `ExternalUntouched`, `SameClient`, `NeverOlder` proved.
2. (done) `CSRValidation` and `Nodes` with their runs and proofs; `CredentialStore`
   and the proof that the client implements it.
3. (done) Every safety property that a passing run checks, but `OneNLB`, is stated
   by a theorem.
4. An abstract specification of "an NLB follows its Service" and `LoadBalancer`
   shown to implement it for a Service that owns its NLB.
