-------------------------- MODULE OwnershipProofs --------------------------
(***************************************************************************)
(* Whose an NLB is: that what a worker goes by is what the API server has; *)
(* that no two Services ever refer to one NLB, that an NLB too many has    *)
(* cost a failure or a restart, and that a Service leaves none behind.     *)
(***************************************************************************)
EXTENDS StepProofs, FiniteSetTheorems

Svc(s) == proc[<<s, "svc">>]
Nod(s) == proc[<<s, "node">>]

-----------------------------------------------------------------------------
(* The annotations are persisted before they are used *)

(* Users leave the ID of the NLB to the provider. *)
ProviderID == \A s \in Service : \A m \in Manifests[s] : m.id = NoID

(* ... and the Instance Pool too. *)
ProviderPool == \A s \in Service : \A m \in Manifests[s] : m.pool = None

(* Nothing is cached before the Service exists, and a worker goes by the    *)
(* annotations that the API server has.                                     *)
Known(s) ==
  /\ api[s].phase = "none" => cache[s].phase = "none"
  /\ Svc(s).pc # "idle" /\ Exists(s) =>
       /\ Svc(s).m.id = api[s].m.id
       /\ ProviderPool => Svc(s).m.pool = api[s].m.pool

KnownInv == CopiesInv /\ \A s \in Service : Known(s)

LEMMA KnownObject ==
  ASSUME ProviderID, ListerLag = FALSE, TypeOK, NEW s \in Service, ObjectStep(s),
         Copies(s), Known(s)
  PROVE  Known(s)'
<1> DEFINE p == <<s, "svc">>
           d == <<s, "node">>
<1>0. p \in Proc /\ d \in Proc /\ p # d BY Processes
<1>1. CASE Finalizing(s)
  BY <1>0, <1>1 DEF Finalizing, Known, Becomes, AfterFinal, AfterResolve, Idle, Svc, Exists
<1>2. CASE Patching(s)
  <2> DEFINE q == proc[p]
             nid == IF q.pc = "adopt" THEN NoID ELSE q.nid
  <2>1. PICK m, found :
          /\ Value(q, found, m)
          /\ cache' = cache \/ RememberedAs(s, m)
          /\ api' = api \/ (Exists(s) /\ PatchedTo(s, m))
          /\ \/ proc'[p] = Idle
             \/ /\ Becomes(q, proc'[p], AfterPatch(q, m), m, nid)
                /\ PatchedTo(s, m) \/ (api' = api /\ m = q.m)
    BY <1>2 DEF Patching
  <2>2. q.pc \in {"resolve", "pool", "adopt"} BY <1>2 DEF Patching
  <2>3. /\ api'[s].phase = api[s].phase /\ cache'[s].phase = cache[s].phase
    BY <2>1 DEF PatchedTo, RememberedAs
  <2>4. CASE proc'[p] = Idle BY <2>3, <2>4 DEF Known, Idle, Svc
  <2>5. CASE /\ Becomes(q, proc'[p], AfterPatch(q, m), m, nid)
             /\ PatchedTo(s, m) \/ (api' = api /\ m = q.m)
    <3>1. proc'[p].m = m BY <2>5 DEF Becomes
    <3>2. CASE PatchedTo(s, m) BY <2>1, <2>2, <2>3, <3>1, <3>2 DEF Known, Svc, PatchedTo, Value, Exists
    <3>3. CASE api' = api /\ m = q.m BY <2>2, <2>3, <3>1, <3>3 DEF Known, Svc, Exists
    <3> QED BY <2>5, <3>2, <3>3
  <2> QED BY <2>1, <2>4, <2>5
<1>3. CASE Fetching(s) \/ Creating(s)
  BY <1>0, <1>3 DEF Fetching, Creating, Known, Becomes, Idle, Svc, Exists
<1>4. CASE Returning(s) \/ Unfinalizing(s) \/ Forgetting(s)
  BY <1>0, <1>4 DEF Returning, Unfinalizing, Forgetting, Known, Idle, Svc, Exists, NoObject
<1>5. CASE Syncing(s)
  BY <1>0, <1>5 DEF Syncing, Known, Starts, Idle, Svc, Exists
<1>6. CASE Delivering(s) BY <1>6 DEF Delivering, Known, Svc, Exists
<1>7. CASE NodeSyncing(s) \/ NodeReturning(s)
  BY <1>0, <1>7 DEF NodeSyncing, NodeReturning, Known, Others, Svc, Exists
<1>8. CASE Submitting(s)
  <2>1. Svc(s)' = Svc(s) /\ cache'[s] = cache[s] BY <1>8 DEF Submitting, Svc
  <2>2. api[s].phase = "none" => Svc(s).pc = "idle" BY DEF Known, Copies, Svc
  <2>3. CASE Svc(s).pc = "idle" \/ ~Exists(s)' BY <1>8, <2>1, <2>3 DEF Submitting, Known
  <2>4. CASE Svc(s).pc # "idle" /\ Exists(s)'
    <3>1. /\ api[s].phase = "live" /\ api'[s].phase \in {"live", "deleting"}
          /\ api'[s].m.id = api[s].m.id /\ (ProviderPool => api'[s].m.pool = api[s].m.pool)
      BY <1>8, <2>2, <2>4 DEF Submitting, Exists, ProviderID, ProviderPool
    <3> QED BY <2>1, <3>1 DEF Known, Exists
  <2> QED BY <2>3, <2>4
<1> QED BY <1>1, <1>2, <1>3, <1>4, <1>5, <1>6, <1>7, <1>8 DEF ObjectStep

(* A process that is at work on a Service goes on with it, or stops. *)
LEMMA WorkGoesOn ==
  ASSUME TypeOK, NEW p \in Proc, NEW s \in Service,
         Update(p) \/ (p = <<s, "svc">> /\ Withdraw(s))
  PROVE  /\ UNCHANGED <<api, lister, cache>> /\ UNCHANGED lastNLB /\ Others(p)
         /\ proc[p].pc # "idle"
         /\ \/ proc'[p] = Idle
            \/ /\ proc'[p].pc # "idle" /\ proc'[p].m = proc[p].m /\ proc'[p].nid = proc[p].nid
<1>1. CASE Update(p) BY <1>1 DEF Update, Advances, Updating
<1>2. CASE p = <<s, "svc">> /\ Withdraw(s)
  <2>1. proc[p].end \in {"unfinal", "forget"} BY DEF TypeOK, Process
  <2> QED BY <1>2, <2>1 DEF Withdraw, Withdraws, AfterPrune
<1> QED BY <1>1, <1>2

LEMMA NextKnown ==
  ASSUME ProviderID, ListerLag = FALSE, KnownInv, [Next]_vars
  PROVE  KnownInv'
<1>t. TypeOK /\ CopiesInv' /\ Fresh BY NextCopies DEF KnownInv, CopiesInv
<1>s. ASSUME NEW s \in Service, Same(s) PROVE Known(s)'
  BY <1>s DEF KnownInv, Known, Same, Svc, Exists
<1>1. ASSUME NEW t \in Service, ObjectStep(t), NEW s \in Service PROVE Known(s)'
  <2>1. CASE s = t BY <1>1, <1>t, <2>1, KnownObject DEF KnownInv, CopiesInv
  <2>2. CASE s # t BY <1>1, <1>s, <2>2, LocalSame DEF ObjectStep
  <2> QED BY <2>1, <2>2
<1>2. ASSUME NEW p \in Proc, NEW t \in Service, Update(p) \/ (p = <<t, "svc">> /\ Withdraw(t)),
             NEW s \in Service
      PROVE  Known(s)'
  <2>1. /\ UNCHANGED <<api, lister, cache>> /\ Others(p) /\ proc[p].pc # "idle"
        /\ proc'[p] = Idle \/ proc'[p].m = proc[p].m
    BY <1>2, <1>t, WorkGoesOn
  <2>2. CASE p = <<s, "svc">> BY <2>1, <2>2 DEF KnownInv, Known, Svc, Exists, Idle
  <2>3. CASE p # <<s, "svc">> BY <2>1, <2>3, Processes DEF KnownInv, Known, Svc, Exists, Others
  <2> QED BY <2>2, <2>3
<1>3. ASSUME Drifts, NEW s \in Service PROVE Known(s)' BY <1>3, <1>s DEF Drifts, Same
<1>4. ASSUME Restarts, NEW s \in Service PROVE Known(s)'
  <2>1. cache'[s] = NoObject /\ proc'[<<s, "svc">>] = Idle BY <1>4, Processes DEF Restarts
  <2> QED BY <2>1 DEF Known, Svc, Idle, NoObject
<1>5. ASSUME NEW s \in Service PROVE Known(s)'
  <2>1. ASSUME NEW p \in Proc, Update(p) PROVE Known(s)' BY <1>2, <1>5, <2>1
  <2>2. ASSUME NEW t \in Service, Withdraw(t) PROVE Known(s)' BY <1>2, <1>5, <2>2, Processes
  <2> QED BY <1>1, <1>3, <1>4, <1>5, <1>t, <2>1, <2>2, Steps
<1> QED BY <1>5, <1>t DEF KnownInv

LEMMA InitKnown == Init => KnownInv
<1> SUFFICES ASSUME Init PROVE KnownInv OBVIOUS
<1>1. CopiesInv BY InitCopies
<1>2. ASSUME NEW s \in Service PROVE Known(s)
  BY Processes DEF Init, Known, NoObject, Idle, Svc
<1> QED BY <1>1, <1>2 DEF KnownInv

(* No call that changes NLB services is made by an ID or a pool that a      *)
(* restart would not find again: when users leave the two annotations to    *)
(* the provider, and a sync starts from the current object, then at every   *)
(* step of updateLoadBalancer the worker goes by what patchAnnotation has   *)
(* brought to the API server, whatever calls fail or are lost, however the  *)
(* user edits the Service meanwhile, and wherever the controller restarts.  *)
THEOREM PersistenceHolds ==
  ProviderID /\ ProviderPool /\ ListerLag = FALSE => (Spec => []PersistedBeforeUse)
<1> SUFFICES ASSUME ProviderID, ProviderPool, ListerLag = FALSE
             PROVE  Spec => []PersistedBeforeUse
  OBVIOUS
<1>1. KnownInv => PersistedBeforeUse
  BY DEF KnownInv, Known, Svc, PersistedBeforeUse
<1>2. KnownInv /\ [Next]_vars => KnownInv' BY NextKnown
<1> QED BY InitKnown, <1>1, <1>2, PTL DEF Spec

-----------------------------------------------------------------------------
(* No two Services refer to one NLB *)

(* Users neither name an NLB by its ID nor mark one external. *)
AllManaged == \A s \in Service : \A m \in Manifests[s] : ~m.ext /\ m.id = NoID

(* The NLBs that anything the controller or the provider has says are those *)
(* of s: the API server's object, the copies of it, the working copies, and *)
(* an NLB just created.                                                     *)
Refs(s) ==
  {api[s].m.id, lister[s].m.id, cache[s].m.id, Svc(s).m.id, Svc(s).nid, Nod(s).m.id}

(* No more NLBs are referred to than before, but one just created. *)
RefsKept(s) == Refs(s)' \subseteq Refs(s) \cup {NoID}

RefsGrow(s) ==
  /\ Creating(s) /\ Local(s) /\ lastNLB' = lastNLB + 1
  /\ Refs(s)' \subseteq Refs(s) \cup {NoID, lastNLB + 1}

(* Services refer to NLBs that were created for them, never to another's. *)
RefsInv ==
  /\ CopiesInv
  /\ \A s \in Service :
       /\ Svc(s).pc # "resolve"
       /\ \A i \in Refs(s) : i = NoID \/ (Provisioned < i /\ i <= lastNLB)
  /\ \A s, t \in Service : s # t => Refs(s) \cap Refs(t) \subseteq {NoID}

(* A manifest that was submitted is not of an external NLB. *)
LEMMA ManagedCopies ==
  ASSUME AllManaged, NEW s \in Service, NEW m, Submitted(s, m)
  PROVE  ~m.ext /\ AfterFinal(m) # "resolve"
<1>1. ~m.ext BY DEF AllManaged, Submitted, Alike
<1> QED BY <1>1 DEF AfterFinal, AfterResolve

(* What is referred to is an ID, or none. *)
LEMMA RefsType ==
  ASSUME TypeOK, NEW s \in Service
  PROVE  Refs(s) \subseteq ID \cup {NoID}
<1>1. /\ <<s, "svc">> \in Proc /\ <<s, "node">> \in Proc
      /\ api[s] \in Object /\ lister[s] \in Object /\ cache[s] \in Object
  BY Processes DEF TypeOK
<1>2. \A m \in Manifest : m.id \in ID \cup {NoID} BY DEF Manifest
<1>3. \A o \in Object : o.m \in Manifest BY DEF Object
<1>4. \A r \in Process : r.m \in Manifest /\ r.nid \in ID \cup {NoID} BY DEF Process
<1>5. Svc(s) \in Process /\ Nod(s) \in Process BY <1>1 DEF TypeOK, Svc, Nod
<1> QED BY <1>1, <1>2, <1>3, <1>4, <1>5 DEF Refs

LEMMA RefsObject ==
  ASSUME AllManaged, TypeOK, NEW s \in Service, ObjectStep(s), Copies(s), Svc(s).pc # "resolve"
  PROVE  /\ Svc(s)'.pc # "resolve"
         /\ RefsGrow(s) \/ (RefsKept(s) /\ lastNLB' = lastNLB)
<1> DEFINE p == <<s, "svc">>
           d == <<s, "node">>
<1>0. p \in Proc /\ d \in Proc /\ p # d BY Processes
<1>n. NoManifest.id = NoID /\ NoObject.m = NoManifest /\ Idle.m = NoManifest /\ Idle.nid = NoID
      /\ Idle.pc = "idle"
  BY DEF NoManifest, NoObject, Idle
<1>m. Svc(s).pc # "idle" => AfterFinal(Svc(s).m) # "resolve"
  BY ManagedCopies DEF Copies, Svc, Idle
<1>1. CASE Finalizing(s)
  <2>1. Svc(s).pc = "final" BY <1>1 DEF Finalizing, Svc
  <2> QED BY <1>0, <1>1, <1>m, <1>n, <2>1
          DEF Finalizing, RefsKept, Refs, Becomes, Others, Svc, Nod, cloud
<1>2. CASE Patching(s)
  <2> DEFINE q == proc[p]
             nid == IF q.pc = "adopt" THEN NoID ELSE q.nid
  <2>1. PICK m, found :
          /\ Value(q, found, m)
          /\ cache' = cache \/ RememberedAs(s, m)
          /\ api' = api \/ PatchedTo(s, m)
          /\ proc'[p] = Idle \/ Becomes(q, proc'[p], AfterPatch(q, m), m, nid)
    BY <1>2 DEF Patching
  <2>2. q.pc \in {"pool", "adopt"} /\ lister' = lister /\ lastNLB' = lastNLB /\ Others(p)
    BY <1>2 DEF Patching, Svc, cloud
  <2>3. m.id \in {q.m.id, q.nid} BY <2>1, <2>2 DEF Value
  <2>4. /\ api'[s].m.id \in {api[s].m.id, m.id} /\ cache'[s].m.id \in {cache[s].m.id, m.id}
        /\ proc'[p].m.id \in {NoID, m.id} /\ proc'[p].nid \in {NoID, q.nid}
        /\ proc'[p].pc # "resolve"
    BY <1>n, <2>1, <2>2 DEF PatchedTo, RememberedAs, Becomes, AfterPatch
  <2>5. proc'[d] = proc[d] BY <1>0, <2>2 DEF Others
  <2> QED BY <2>2, <2>3, <2>4, <2>5 DEF RefsKept, Refs, Svc, Nod
<1>3. CASE Fetching(s)
  BY <1>0, <1>3, <1>n DEF Fetching, RefsKept, Refs, Becomes, Others, Svc, Nod, cloud
<1>4. CASE Creating(s)
  BY <1>0, <1>1, <1>4, <1>n
     DEF Creating, RefsKept, RefsGrow, Refs, Becomes, Others, Svc, Nod, ObjectStep
<1>5. CASE Returning(s) \/ Unfinalizing(s) \/ Forgetting(s)
  BY <1>0, <1>5, <1>n
     DEF Returning, Unfinalizing, Forgetting, RefsKept, Refs, Others, Svc, Nod, cloud
<1>6. CASE Syncing(s)
  <2>1. lister[s].phase \in {"live", "deleting"} => AfterFinal(lister[s].m) # "resolve"
    BY ManagedCopies DEF Copies, Genuine
  <2> QED BY <1>0, <1>6, <1>n, <2>1 DEF Syncing, RefsKept, Refs, Starts, Others, Svc, Nod, cloud
<1>7. CASE Delivering(s) BY <1>7 DEF Delivering, RefsKept, Refs, Svc, Nod, cloud
<1>8. CASE NodeSyncing(s) \/ NodeReturning(s)
  BY <1>0, <1>8, <1>n
     DEF NodeSyncing, NodeReturning, RefsKept, Refs, Starts, Others, Svc, Nod, cloud
<1>9. CASE Submitting(s)
  <2>1. UNCHANGED <<lister, cache, proc>> /\ lastNLB' = lastNLB BY <1>9 DEF Submitting, cloud
  <2>2. api'[s].m.id \in {api[s].m.id, NoID} BY <1>9, <1>n DEF Submitting, AllManaged
  <2> QED BY <2>1, <2>2 DEF RefsKept, Refs, Svc, Nod
<1> QED BY <1>1, <1>2, <1>3, <1>4, <1>5, <1>6, <1>7, <1>8, <1>9 DEF ObjectStep

(* What a step does to the NLBs that Services refer to. *)
LEMMA RefsStep ==
  ASSUME AllManaged, RefsInv, [Next]_vars
  PROVE  /\ \A s \in Service : Svc(s)'.pc # "resolve"
         /\ \/ (\A s \in Service : RefsKept(s)) /\ lastNLB' = lastNLB
            \/ \E s \in Service : RefsGrow(s) /\ \A t \in Service \ {s} : RefsKept(t)
<1>t. TypeOK /\ Fresh BY DEF RefsInv, CopiesInv
<1>n. NoManifest.id = NoID /\ Idle.m = NoManifest /\ Idle.nid = NoID /\ Idle.pc = "idle"
      /\ NoObject.m = NoManifest
  BY DEF NoManifest, Idle, NoObject
<1>s. ASSUME NEW s \in Service, Same(s) PROVE RefsKept(s) /\ Svc(s)'.pc # "resolve"
  BY <1>s DEF RefsInv, RefsKept, Refs, Same, Svc, Nod
<1>1. ASSUME NEW s \in Service, ObjectStep(s)
      PROVE  /\ \A t \in Service : Svc(t)'.pc # "resolve"
             /\ \/ (\A t \in Service : RefsKept(t)) /\ lastNLB' = lastNLB
                \/ RefsGrow(s) /\ \A t \in Service \ {s} : RefsKept(t)
  <2>1. /\ Svc(s)'.pc # "resolve" /\ (RefsGrow(s) \/ (RefsKept(s) /\ lastNLB' = lastNLB))
    BY <1>1, <1>t, RefsObject DEF RefsInv, CopiesInv
  <2>2. ASSUME NEW t \in Service \ {s} PROVE RefsKept(t) /\ Svc(t)'.pc # "resolve"
    BY <1>1, <1>s, LocalSame DEF ObjectStep
  <2> QED BY <2>1, <2>2
<1>2. ASSUME NEW p \in Proc, NEW t \in Service, Update(p) \/ (p = <<t, "svc">> /\ Withdraw(t))
      PROVE  lastNLB' = lastNLB /\ \A s \in Service : RefsKept(s) /\ Svc(s)'.pc # "resolve"
  <2>1. /\ UNCHANGED <<api, lister, cache>> /\ lastNLB' = lastNLB /\ Others(p)
        /\ \/ proc'[p] = Idle
           \/ proc'[p].m = proc[p].m /\ proc'[p].nid = proc[p].nid
    BY <1>2, <1>t, WorkGoesOn
  <2>2. proc'[p].pc # "resolve"
    <3>1. proc[p].end \in {"unfinal", "forget"} BY <1>t DEF TypeOK, Process
    <3> QED BY <1>2, <1>n, <3>1 DEF Update, Advances, Updating, Withdraw, Withdraws, AfterPrune
  <2>3. ASSUME NEW s \in Service PROVE RefsKept(s) /\ Svc(s)'.pc # "resolve"
    <3>1. p = <<s, "svc">> \/ p = <<s, "node">> \/ Same(s)
      BY <2>1, Processes DEF Others, Same
    <3>2. CASE p = <<s, "svc">>
      BY <1>n, <2>1, <2>2, <3>2, Processes DEF RefsKept, Refs, Svc, Nod, Others
    <3>3. CASE p = <<s, "node">>
      BY <1>n, <2>1, <3>3, Processes DEF RefsInv, RefsKept, Refs, Svc, Nod, Others
    <3> QED BY <1>s, <3>1, <3>2, <3>3
  <2> QED BY <2>1, <2>3
<1>3. CASE Drifts BY <1>3, <1>s DEF Drifts, Same
<1>4. CASE Restarts
  <2>1. ASSUME NEW s \in Service PROVE RefsKept(s) /\ Svc(s)'.pc # "resolve"
    <3>1. /\ api'[s] = api[s] /\ lister'[s] = api[s] /\ cache'[s] = NoObject
          /\ proc'[<<s, "svc">>] = Idle /\ proc'[<<s, "node">>] = Idle
      BY <1>4, Processes DEF Restarts
    <3> QED BY <1>n, <3>1 DEF RefsKept, Refs, Svc, Nod
  <2> QED BY <1>4, <2>1 DEF Restarts, cloud
<1>5. CASE \E p \in Proc : Update(p)
  <2>1. PICK p \in Proc : Update(p) BY <1>5
  <2>2. p[1] \in Service BY DEF Proc
  <2> QED BY <1>2, <2>1, <2>2
<1>6. CASE \E t \in Service : Withdraw(t) BY <1>2, <1>6, Processes
<1> QED BY <1>1, <1>3, <1>4, <1>5, <1>6, <1>t, Steps

LEMMA NextRefs ==
  ASSUME AllManaged, RefsInv, [Next]_vars
  PROVE  RefsInv'
<1>1. CopiesInv' BY NextCopies DEF RefsInv
<1>t. lastNLB \in Nat /\ Provisioned \in Nat /\ lastNLB >= Provisioned
  BY BoundsAssumption DEF RefsInv, CopiesInv, TypeOK
<1> DEFINE Bound(s) == \A i \in Refs(s) : i = NoID \/ (Provisioned < i /\ i <= lastNLB)
<1>b. \A s \in Service : Bound(s) BY DEF RefsInv
<1>k. ASSUME NEW s \in Service, RefsKept(s), lastNLB' = lastNLB PROVE Bound(s)'
  BY <1>b, <1>k DEF RefsKept
<1>2. CASE (\A s \in Service : RefsKept(s)) /\ lastNLB' = lastNLB
  <2>1. \A s \in Service : Bound(s)' BY <1>2, <1>k
  <2>2. \A s, t \in Service : s # t => Refs(s)' \cap Refs(t)' \subseteq {NoID}
    BY <1>2 DEF RefsInv, RefsKept
  <2> QED BY <1>1, <2>1, <2>2, RefsStep DEF RefsInv
<1>3. ASSUME NEW s \in Service, RefsGrow(s), \A t \in Service \ {s} : RefsKept(t)
      PROVE  RefsInv'
  <2>0. lastNLB' = lastNLB + 1 /\ Refs(s)' \subseteq Refs(s) \cup {NoID, lastNLB + 1}
    BY <1>3 DEF RefsGrow
  <2>c. NoID = 0 BY DEF NoID
  <2>1. ASSUME NEW t \in Service, NEW i \in Refs(t)'
        PROVE  i = NoID \/ (Provisioned < i /\ i <= lastNLB')
    <3>1. i \in Refs(t) \/ i = NoID \/ i = lastNLB + 1 BY <1>3, <2>0, <2>1 DEF RefsKept
    <3>2. i = NoID \/ i = lastNLB + 1 \/ (i \in Int /\ Provisioned < i /\ i <= lastNLB)
      <4>1. CASE i \in Refs(t)
        <5>1. i \in ID \cup {NoID} BY <2>1, <4>1, RefsType DEF RefsInv, CopiesInv
        <5> QED BY <1>b, <4>1, <5>1 DEF ID, NoID
      <4> QED BY <3>1, <4>1
    <3> QED BY <1>t, <2>0, <3>2
  <2>2. ASSUME NEW t \in Service PROVE lastNLB + 1 \notin Refs(t)
    BY <1>b, <1>t DEF NoID
  <2>3. ASSUME NEW a \in Service, NEW b \in Service, a # b
        PROVE  Refs(a)' \cap Refs(b)' \subseteq {NoID}
    <3>1. Refs(a) \cap Refs(b) \subseteq {NoID} BY <2>3 DEF RefsInv
    <3>2. CASE a = s BY <1>3, <2>0, <2>2, <2>3, <3>1, <3>2 DEF RefsKept
    <3>3. CASE b = s BY <1>3, <2>0, <2>2, <2>3, <3>1, <3>3 DEF RefsKept
    <3>4. CASE a # s /\ b # s BY <1>3, <3>1, <3>4 DEF RefsKept
    <3> QED BY <3>2, <3>3, <3>4
  <2>4. \A t \in Service : Svc(t)'.pc # "resolve" BY RefsStep
  <2> QED BY <1>1, <2>1, <2>3, <2>4 DEF RefsInv
<1> QED BY <1>2, <1>3, RefsStep

LEMMA InitRefs == Init => RefsInv
<1> SUFFICES ASSUME Init PROVE RefsInv OBVIOUS
<1>1. CopiesInv BY InitCopies
<1>2. ASSUME NEW s \in Service PROVE Svc(s).pc # "resolve" /\ Refs(s) = {NoID}
  BY Processes DEF Init, Refs, Svc, Nod, NoObject, NoManifest, Idle
<1> QED BY <1>1, <1>2 DEF RefsInv

-----------------------------------------------------------------------------
(* A Service has one NLB at most *)

(* No user gives an NLB, and none had before, the name that the provider    *)
(* gives to the NLB of a Service.                                           *)
OwnNames ==
  /\ Name \cap Service = {}
  /\ \A i \in 1 .. Provisioned : Preset[i].live => Preset[i].name \notin Service

(* The NLBs that are those of s, by a reference or by their name. *)
Mine(s) == {i \in ID : nlb[i].live /\ (i \in Refs(s) \/ nlb[i].name = s)}

(* Only an NLB of s is given the name of s. *)
LEMMA NamedAfter ==
  ASSUME OwnNames, TypeOK, NEW p \in Proc, NEW s \in Service,
         GetLoadBalancerName(p[1], proc[p].m) = s
  PROVE  p[1] = s
<1>1. proc[p].m \in Manifest BY DEF TypeOK, Process
<1>2. proc[p].m.name \in Name \cup {None} BY <1>1 DEF Manifest
<1> QED BY <1>2 DEF GetLoadBalancerName, OwnNames

(* No step makes an NLB one of s, but its creation for s. *)
LEMMA MineStep ==
  ASSUME AllManaged, OwnNames, RefsInv, [Next]_vars, NEW s \in Service
  PROVE  \/ Mine(s)' \subseteq Mine(s)
         \/ RefsGrow(s) /\ Mine(s)' \subseteq Mine(s) \cup {lastNLB + 1}
<1>t. /\ TypeOK /\ Fresh /\ CloudOK /\ lastNLB \in Nat /\ lastNLB + 1 # lastNLB
  BY TypeParts DEF RefsInv, CopiesInv, CloudOK
<1>n. NoID \notin ID BY DEF NoID, ID
<1>d. ASSUME NEW i \in ID, nlb' = [nlb EXCEPT ![i] = NoNLB]
      PROVE  \A j \in ID : nlb'[j].live => nlb[j].live /\ nlb'[j].name = nlb[j].name
  BY <1>d, <1>t DEF CloudOK, NoNLB
<1>k. ASSUME NEW t \in Service, RefsKept(t),
             \A j \in ID : nlb'[j].live =>
               nlb[j].live /\ (nlb'[j].name = t => nlb[j].name = t \/ j \in Refs(t))
      PROVE  Mine(t)' \subseteq Mine(t)
  BY <1>k, <1>n DEF Mine, RefsKept
<1>1. CASE (\A t \in Service : RefsKept(t)) /\ lastNLB' = lastNLB
  <2> DEFINE Kept == \A j \in ID : nlb'[j].live =>
                       nlb[j].live /\ (nlb'[j].name = s => nlb[j].name = s \/ j \in Refs(s))
  <2>1. ASSUME nlb' = nlb PROVE Kept BY <2>1
  <2>2. ASSUME NEW p \in Proc, Calls(p) PROVE Kept
    <3>1. ASSUME NEW j \in ID, nlb'[j].name = s, nlb'[j].name # nlb[j].name PROVE j \in Refs(s)
      <4>1. j = proc[p].m.id /\ GetLoadBalancerName(p[1], proc[p].m) = s
        BY <1>t, <2>2, <3>1, CallsKeep
      <4>2. p[1] = s BY <1>t, <4>1, NamedAfter
      <4>3. p = <<s, "svc">> \/ p = <<s, "node">> BY <4>2 DEF Proc
      <4> QED BY <4>1, <4>3 DEF Refs, Svc, Nod
    <3> QED BY <1>t, <2>2, <3>1, CallsKeep
  <2>3. ASSUME NEW t \in Service, Withdraw(t) PROVE Kept
    <3>1. <<t, "svc">> \in Proc BY Processes
    <3>2. CASE Calls(<<t, "svc">>) BY <2>2, <3>1, <3>2
    <3>3. CASE Destroys(<<t, "svc">>) BY <1>d, <3>3 DEF Destroys, Live
    <3> QED BY <2>3, <3>2, <3>3 DEF Withdraw
  <2>4. ASSUME NEW t \in Service, ObjectStep(t) PROVE nlb' = nlb
    <3>1. UNCHANGED cloud \/ Creating(t)
      BY <2>4 DEF ObjectStep, Finalizing, Patching, Fetching, Returning, Unfinalizing, Forgetting,
                  Syncing, Delivering, NodeSyncing, NodeReturning, Submitting
    <3> QED BY <1>1, <1>t, <3>1 DEF Creating, cloud
  <2>5. ASSUME Drifts PROVE Kept BY <1>d, <2>1, <2>5 DEF Drifts
  <2>6. ASSUME Restarts PROVE Kept BY <2>1, <2>6 DEF Restarts, cloud
  <2>7. Kept
    <3>1. ASSUME NEW p \in Proc, Update(p) PROVE Kept BY <2>2, <3>1 DEF Update
    <3> HIDE DEF Kept
    <3> QED BY <1>t, <2>1, <2>3, <2>4, <2>5, <2>6, <3>1, Steps
  <2> QED BY <1>1, <1>k, <2>7
<1>2. ASSUME NEW t \in Service, RefsGrow(t), \A u \in Service \ {t} : RefsKept(u)
      PROVE  \/ Mine(s)' \subseteq Mine(s)
             \/ RefsGrow(s) /\ Mine(s)' \subseteq Mine(s) \cup {lastNLB + 1}
  <2> DEFINE p == <<t, "svc">>
             i == lastNLB + 1
             n == [live |-> TRUE, name |-> GetLoadBalancerName(t, proc[p].m),
                   desc |-> proc[p].m.desc, svcs |-> {}]
  <2>1. i \in ID /\ nlb' = [nlb EXCEPT ![i] = n] BY <1>2, <1>t DEF RefsGrow, Creating
  <2>2. \A j \in ID : j # i => nlb'[j] = nlb[j] BY <1>t, <2>1 DEF CloudOK
  <2>3. CASE t = s
    <3>1. Refs(s)' \subseteq Refs(s) \cup {NoID, i} BY <1>2, <2>3 DEF RefsGrow
    <3> HIDE DEF i
    <3>2. Mine(s)' \subseteq Mine(s) \cup {i} BY <1>n, <2>2, <3>1 DEF Mine
    <3> QED BY <1>2, <2>3, <3>2 DEF i
  <2>4. CASE t # s
    <3>1. nlb'[i].name = GetLoadBalancerName(t, proc[p].m) BY <1>t, <2>1 DEF CloudOK
    <3>2. nlb'[i].name # s
      <4>1. p \in Proc /\ p[1] = t BY Processes
      <4> QED BY <1>t, <2>4, <3>1, <4>1, NamedAfter
    <3>3. i \notin Refs(s)
      <4>1. \A j \in Refs(s) : j = NoID \/ j <= lastNLB BY DEF RefsInv
      <4> QED BY <1>n, <1>t, <2>1, <4>1
    <3>4. RefsKept(s) BY <1>2, <2>4
    <3> HIDE DEF i
    <3>5. i \notin Mine(s)' BY <1>n, <2>1, <3>2, <3>3, <3>4 DEF Mine, RefsKept
    <3>6. ASSUME NEW j \in Mine(s)' PROVE j \in Mine(s)
      <4>1. j \in ID /\ j # i /\ nlb'[j] = nlb[j] BY <2>2, <3>5, <3>6 DEF Mine
      <4> QED BY <1>n, <3>4, <3>6, <4>1 DEF Mine, RefsKept
    <3> QED BY <3>6
  <2> QED BY <2>3, <2>4
<1> QED BY <1>1, <1>2, RefsStep

(* EnsureLoadBalancer, once the finalizer is there. *)
Ensuring == Updating \cup {"resolve", "pool", "fetch", "create", "adopt", "get", "done"}

(* The NLB that is about to be patched into the annotations. *)
Adopting(s) == IF Svc(s).pc = "adopt" THEN {Svc(s).nid} ELSE {}

(* The NLB of s is the one its object has, or the one about to be; it is    *)
(* created only when there is none.                                         *)
Own(s) ==
  /\ Svc(s).pc \in Ensuring => Exists(s) /\ api[s].fin
  /\ \A i, j \in Mine(s) : i = j
  /\ api[s].phase # "gone" => Mine(s) \subseteq {api[s].m.id} \cup Adopting(s)
  /\ Svc(s).pc = "create" => Mine(s) = {}

OwnInv == KnownInv /\ RefsInv /\ \A s \in Service : Own(s)

(* Users leave the NLBs and their default names to the provider, a sync     *)
(* starts from the current object, and neither the creation of an NLB nor   *)
(* the patch of its ID is cut short.                                        *)
OneEach ==
  /\ AllManaged /\ OwnNames /\ ListerLag = FALSE
  /\ {"create", "adopt"} \subseteq Reliable

LEMMA OwnObject ==
  ASSUME OneEach, TypeOK, NEW s \in Service, ObjectStep(s),
         Copies(s), Known(s), Own(s), Svc(s).pc # "resolve",
         \/ Mine(s)' \subseteq Mine(s)
         \/ Creating(s) /\ Mine(s)' \subseteq Mine(s) \cup {lastNLB + 1}
  PROVE  Own(s)'
<1> DEFINE p == <<s, "svc">>
<1>0. p \in Proc /\ <<s, "node">> \in Proc /\ p # <<s, "node">> BY Processes
<1>i. /\ Idle.pc = "idle" /\ "idle" \notin Ensuring /\ "final" \notin Ensuring
      /\ "exists" \notin Ensuring /\ "delfetch" \notin Ensuring /\ "forget" \notin Ensuring
      /\ "unfinal" \notin Ensuring
      /\ {"pool", "fetch", "create", "adopt", "get"} \subseteq Ensuring
  BY DEF Idle, Ensuring, Updating
<1>f. \A m : AfterResolve(m) \in {"pool", "fetch"} /\ AfterFinal(m) \in {"resolve", "pool", "fetch"}
  BY DEF AfterResolve, AfterFinal
<1>n. NoManifest.id = NoID /\ NoID \notin ID BY DEF NoManifest, NoID, ID
<1>e. api[s].phase = "none" => Mine(s) = {} /\ Svc(s).pc = "idle"
  <2>1. api[s].phase = "none" => Svc(s).pc = "idle" /\ api[s].m = NoManifest
    BY DEF Known, Copies, Genuine, Svc
  <2> QED BY <1>n, <2>1 DEF Own, Adopting, Mine
<1>k. ASSUME Mine(s)' \subseteq Mine(s), api'[s].m.id = api[s].m.id, api'[s].phase = api[s].phase,
             Svc(s).pc # "adopt" \/ Svc(s)' = Svc(s),
             Svc(s)'.pc # "create" \/ Mine(s) = {},
             Svc(s)'.pc \in Ensuring => Exists(s)' /\ api'[s].fin
      PROVE  Own(s)'
  BY <1>k DEF Own, Adopting
<1>1. CASE Finalizing(s)
  <2>1. /\ Mine(s)' \subseteq Mine(s) /\ Svc(s).pc = "final" /\ Svc(s)'.pc # "create"
        /\ api'[s].m.id = api[s].m.id /\ api'[s].phase = api[s].phase
        /\ Svc(s)'.pc \in Ensuring => Exists(s)' /\ api'[s].fin
    BY <1>1, <1>i, <1>f DEF Finalizing, Becomes, Creating, Svc, Exists
  <2> QED BY <1>k, <2>1
<1>2. CASE Patching(s)
  <2> DEFINE q == proc[p]
             r == proc'[p]
             nid == IF q.pc = "adopt" THEN NoID ELSE q.nid
  <2>0. /\ q.pc \in {"pool", "adopt"} /\ Mine(s)' \subseteq Mine(s) /\ Svc(s) = q /\ Svc(s)' = r
        /\ Exists(s) /\ api[s].fin /\ q.m.id = api[s].m.id /\ UNCHANGED cloud
    BY <1>2, <1>i DEF Patching, Creating, Own, Known, Svc
  <2>1. PICK m, found :
          /\ Value(q, found, m)
          /\ \/ /\ found /\ ((api' = api /\ m = q.m) \/ PatchedTo(s, m))
                /\ Becomes(q, r, AfterPatch(q, m), m, nid)
             \/ r = Idle /\ q.pc = "adopt" /\ ~found /\ UNCHANGED api
             \/ r = Idle /\ q.pc = "pool" /\ (UNCHANGED api \/ PatchedTo(s, m))
    BY <1>2, <2>0 DEF Patching, OneEach
  <2>2. /\ api'[s].phase = api[s].phase /\ Exists(s)' /\ api'[s].fin
    BY <2>0, <2>1 DEF PatchedTo, Exists
  <2>3. r.pc # "create" /\ r.pc # "adopt" BY <1>f, <1>i, <2>0, <2>1 DEF Becomes, AfterPatch
  <2>4. CASE q.pc = "pool"
    <3>1. api'[s].m.id = api[s].m.id BY <2>0, <2>1, <2>4 DEF PatchedTo, Value
    <3> QED BY <1>k, <2>0, <2>2, <2>3, <2>4, <3>1
  <2>5. CASE q.pc = "adopt" /\ ~found
    <3>1. ~Live(q.nid) /\ UNCHANGED api BY <2>1, <2>5 DEF Value
    <3>2. q.nid \notin Mine(s) BY <3>1 DEF Mine, Live
    <3>3. Mine(s) \subseteq {api[s].m.id} BY <2>0, <2>5, <3>2 DEF Own, Adopting, Exists
    <3> QED BY <1>i, <2>0, <2>2, <2>3, <3>1, <3>3 DEF Own, Adopting
  <2>6. CASE q.pc = "adopt" /\ found
    <3>1. /\ Live(q.nid) /\ m.id = q.nid /\ ((api' = api /\ m = q.m) \/ PatchedTo(s, m))
      BY <2>1, <2>6 DEF Value
    <3>2. api'[s].m.id = q.nid BY <2>0, <2>6, <3>1 DEF PatchedTo
    <3>3. q.nid \in Mine(s) BY <2>0, <3>1 DEF Mine, Live, Refs
    <3>4. Mine(s) \subseteq {q.nid} BY <3>3 DEF Own
    <3> QED BY <2>0, <2>2, <2>3, <3>2, <3>4 DEF Own, Adopting
  <2> QED BY <2>0, <2>1, <2>4, <2>5, <2>6 DEF Value
<1>3. CASE Fetching(s)
  <2>1. /\ Mine(s)' \subseteq Mine(s) /\ Svc(s).pc = "fetch" /\ UNCHANGED api
        /\ Exists(s) /\ api[s].fin /\ Svc(s).m.id = api[s].m.id
    BY <1>3, <1>i DEF Fetching, Creating, Svc, Own, Known
  <2>2. Svc(s)'.pc = "create" => ~Live(api[s].m.id)
    BY <1>3, <1>i, <2>1 DEF Fetching, Becomes, Svc
  <2>3. ~Live(api[s].m.id) => Mine(s) = {} BY <2>1 DEF Own, Adopting, Exists, Mine, Live
  <2>4. Exists(s)' /\ api'[s].fin BY <2>1 DEF Exists
  <2> QED BY <1>k, <2>1, <2>2, <2>3, <2>4
<1>4. CASE Creating(s)
  <2>1. /\ Svc(s).pc = "create" /\ UNCHANGED api /\ Exists(s) /\ api[s].fin /\ Mine(s) = {}
    BY <1>4, <1>i DEF Creating, Svc, Own
  <2>2. Svc(s)'.pc = "adopt" /\ Svc(s)'.nid = lastNLB + 1
    BY <1>4, <2>1 DEF Creating, OneEach, Becomes, Svc
  <2>3. Mine(s)' \subseteq {lastNLB + 1} BY <2>1
  <2>4. Exists(s)' /\ api'[s].fin BY <2>1 DEF Exists
  <2> QED BY <2>2, <2>3, <2>4 DEF Own, Adopting
<1>5. CASE Returning(s) \/ Forgetting(s)
  <2>1. /\ Mine(s)' \subseteq Mine(s) /\ Svc(s).pc # "adopt" /\ Svc(s)'.pc = "idle"
        /\ api'[s].m.id = api[s].m.id /\ api'[s].phase = api[s].phase
    BY <1>5, <1>i DEF Returning, Forgetting, Creating, Svc
  <2> QED BY <1>i, <1>k, <2>1
<1>6. CASE Unfinalizing(s)
  <2>1. /\ Mine(s)' \subseteq Mine(s) /\ Svc(s).pc = "unfinal" /\ Svc(s)'.pc = "idle"
        /\ \/ api'[s].m.id = api[s].m.id /\ api'[s].phase = api[s].phase
           \/ api'[s].phase = "gone"
    BY <1>6, <1>i DEF Unfinalizing, Creating, Svc
  <2> QED BY <1>i, <2>1 DEF Own, Adopting
<1>7. CASE Syncing(s)
  <2>1. /\ Mine(s)' \subseteq Mine(s) /\ Svc(s).pc = "idle" /\ UNCHANGED api
        /\ lister[s] = api[s]
    BY <1>7 DEF Syncing, Creating, Svc, OneEach
  <2>2. \/ Svc(s)'.pc \notin Ensuring /\ Svc(s)'.pc # "create"
        \/ Exists(s) /\ api[s].fin /\ Svc(s)'.pc # "create"
    BY <1>7, <1>i, <1>f, <2>1 DEF Syncing, Starts, Svc, Exists
  <2> QED BY <1>k, <2>1, <2>2 DEF Exists
<1>8. CASE Delivering(s) \/ NodeSyncing(s) \/ NodeReturning(s)
  <2>1. Mine(s)' \subseteq Mine(s) /\ Svc(s)' = Svc(s) /\ UNCHANGED api
    <3>1. Svc(s)' = Svc(s) /\ UNCHANGED api
      BY <1>0, <1>8 DEF Delivering, NodeSyncing, NodeReturning, Others, Svc
    <3>2. Creating(s) => nlb' = nlb
      BY <1>8, <3>1 DEF Delivering, NodeSyncing, NodeReturning, cloud
    <3>3. UNCHANGED cloud BY <1>8 DEF Delivering, NodeSyncing, NodeReturning
    <3>4. ~Creating(s)
      <4>1. Svc(s).pc = "create" => ~(Svc(s)'.pc = "adopt") BY <3>1
      <4> QED BY <1>i, <4>1 DEF Creating, OneEach, Becomes, Svc
    <3> QED BY <3>1, <3>4
  <2> QED BY <2>1 DEF Own, Adopting, Exists
<1>9. CASE Submitting(s)
  <2>1. Mine(s)' \subseteq Mine(s) /\ Svc(s)' = Svc(s)
    <3>1. Svc(s)' = Svc(s) BY <1>9 DEF Submitting, Svc
    <3>2. ~Creating(s) BY <1>i, <3>1 DEF Creating, OneEach, Becomes, Svc
    <3> QED BY <3>1, <3>2
  <2>2. CASE api[s].phase = "none"
    <3>1. Mine(s)' = {} /\ Svc(s)'.pc = "idle" BY <1>e, <2>1, <2>2
    <3> QED BY <1>i, <3>1 DEF Own
  <2>3. CASE api[s].phase # "none" /\ api'[s].phase # "gone"
    <3>1. /\ api[s].phase = "live" /\ Exists(s)' /\ api'[s].m.id = api[s].m.id
          /\ api'[s].fin = api[s].fin
      BY <1>9, <2>3 DEF Submitting, Exists, OneEach, AllManaged
    <3> QED BY <2>1, <3>1 DEF Own, Adopting
  <2>4. CASE api'[s].phase = "gone"
    <3>1. ~api[s].fin BY <1>9, <2>4 DEF Submitting
    <3>2. Svc(s).pc \notin Ensuring BY <3>1 DEF Own
    <3> QED BY <2>1, <2>4, <3>2, <1>i DEF Own
  <2> QED BY <2>2, <2>3, <2>4
<1> QED BY <1>1, <1>2, <1>3, <1>4, <1>5, <1>6, <1>7, <1>8, <1>9 DEF ObjectStep

LEMMA NextOwn ==
  ASSUME OneEach, OwnInv, [Next]_vars
  PROVE  OwnInv'
<1>h. AllManaged /\ OwnNames /\ ProviderID /\ ListerLag = FALSE
  BY DEF OneEach, AllManaged, ProviderID
<1>t. TypeOK /\ Fresh /\ \A s \in Service : Copies(s) /\ Known(s) /\ Own(s) /\ Svc(s).pc # "resolve"
  BY DEF OwnInv, KnownInv, RefsInv, CopiesInv
<1>i. KnownInv' /\ RefsInv'
  BY <1>h, NextKnown, NextRefs DEF OwnInv
<1>m. ASSUME NEW s \in Service
      PROVE  \/ Mine(s)' \subseteq Mine(s)
             \/ RefsGrow(s) /\ Mine(s)' \subseteq Mine(s) \cup {lastNLB + 1}
  BY <1>h, MineStep DEF OwnInv
<1>g. ASSUME NEW s \in Service, Svc(s)' = Svc(s) PROVE ~RefsGrow(s)
  BY <1>g DEF RefsGrow, Creating, OneEach, Becomes, Svc, Idle
<1>u. ASSUME NEW s \in Service, api'[s] = api[s], Mine(s)' \subseteq Mine(s),
             \/ Svc(s)' = Svc(s)
             \/ Svc(s)'.pc \notin Ensuring /\ Svc(s).pc # "adopt"
             \/ /\ Svc(s).pc \in Ensuring \ {"adopt"}
                /\ Svc(s)'.pc \in Ensuring \ {"create"}
      PROVE  Own(s)'
  BY <1>t, <1>u DEF Own, Adopting, Exists, Ensuring
<1>1. ASSUME NEW s \in Service PROVE Own(s)'
  <2>1. CASE Same(s) BY <1>g, <1>m, <1>u, <2>1 DEF Same, Svc
  <2>2. ASSUME NEW t \in Service, ObjectStep(t) PROVE Own(s)'
    <3>1. CASE t = s BY <1>m, <1>t, <2>2, <3>1, OwnObject DEF RefsGrow
    <3>2. CASE t # s BY <2>1, <2>2, <3>2, LocalSame DEF ObjectStep
    <3> QED BY <3>1, <3>2
  <2>3. ASSUME NEW p \in Proc, NEW t \in Service, Update(p) \/ (p = <<t, "svc">> /\ Withdraw(t))
        PROVE  Own(s)'
    <3>1. UNCHANGED <<api, lister, cache>> /\ lastNLB' = lastNLB /\ Others(p)
      BY <1>t, <2>3, WorkGoesOn
    <3>2. ~RefsGrow(s)
      <4>1. lastNLB \in Nat BY <1>t DEF TypeOK
      <4> QED BY <3>1, <4>1 DEF RefsGrow
    <3>3. Mine(s)' \subseteq Mine(s) BY <1>m, <3>2
    <3>4. CASE p # <<s, "svc">>
      BY <1>u, <3>1, <3>3, <3>4, Processes DEF Others, Svc
    <3>5. CASE p = <<s, "svc">>
      <4>1. Idle.pc = "idle" BY DEF Idle
      <4>2. proc[p].end \in {"unfinal", "forget"} BY <1>t DEF TypeOK, Process
      <4>3. CASE Update(p)
        BY <1>u, <3>1, <3>3, <3>5, <4>1, <4>3 DEF Update, Advances, Updating, Ensuring, Svc
      <4>4. CASE p = <<t, "svc">> /\ Withdraw(t)
        <5>1. Svc(s).pc # "adopt" /\ Svc(s)'.pc \notin Ensuring
          BY <3>5, <4>1, <4>2, <4>4 DEF Withdraw, Withdraws, AfterPrune, Ensuring, Updating, Svc
        <5> QED BY <1>u, <3>1, <3>3, <5>1
      <4> QED BY <2>3, <4>3, <4>4
    <3> QED BY <3>4, <3>5
  <2>4. CASE Drifts BY <2>1, <2>4 DEF Drifts, Same
  <2>5. CASE Restarts
    <3>1. /\ api'[s] = api[s] /\ Svc(s)'.pc = "idle" /\ Svc(s).pc # "adopt" /\ UNCHANGED cloud
      <4>1. proc'[<<s, "svc">>] = Idle /\ proc[<<s, "svc">>].pc \notin Reliable
        BY <2>5, Processes DEF Restarts
      <4> QED BY <2>5, <4>1 DEF Restarts, Svc, OneEach, Idle
    <3>2. ~RefsGrow(s)
      <4>1. lastNLB \in Nat BY <1>t DEF TypeOK
      <4> QED BY <3>1, <4>1 DEF RefsGrow, cloud
    <3> QED BY <1>m, <1>u, <3>1, <3>2 DEF Ensuring, Updating
  <2>6. ASSUME NEW p \in Proc, Update(p) PROVE Own(s)' BY <1>1, <2>3, <2>6
  <2>7. ASSUME NEW t \in Service, Withdraw(t) PROVE Own(s)' BY <2>3, <2>7, Processes
  <2> QED BY <1>t, <2>2, <2>4, <2>5, <2>6, <2>7, Steps
<1> QED BY <1>1, <1>i DEF OwnInv

LEMMA InitOwn ==
  ASSUME OneEach, Init
  PROVE  OwnInv
<1>1. KnownInv /\ RefsInv BY InitKnown, InitRefs
<1>2. ASSUME NEW s \in Service PROVE Mine(s) = {}
  <2>1. Refs(s) = {NoID} BY Processes DEF Init, Refs, Svc, Nod, NoObject, NoManifest, Idle
  <2>2. ASSUME NEW i \in ID, nlb[i].live PROVE nlb[i].name # s
    <3>1. i <= Provisioned /\ nlb[i] = Preset[i] BY <2>2 DEF Init, NoNLB
    <3>2. i \in 1 .. Provisioned BY <3>1, BoundsAssumption DEF ID
    <3> QED BY <2>2, <3>1, <3>2 DEF OneEach, OwnNames
  <2> QED BY <2>1, <2>2 DEF Mine, NoID, ID
<1>3. ASSUME NEW s \in Service PROVE Own(s)
  <2>1. Svc(s).pc = "idle" BY Processes DEF Init, Svc, Idle
  <2> QED BY <1>2, <2>1 DEF Own, Ensuring, Updating
<1> QED BY <1>1, <1>3 DEF OwnInv

-----------------------------------------------------------------------------
(* What an NLB too many costs *)

(* The failed calls and the restarts so far. *)
Paid == faults + crashes

(* No step takes a failure or a restart back. *)
LEMMA PaidGrows ==
  ASSUME TypeOK, [Next]_vars
  PROVE  /\ Paid \in Nat /\ Paid' \in Nat /\ Paid <= Paid'
         /\ faults' \in Nat /\ faults <= faults'
         /\ crashes' \in Nat /\ crashes <= crashes'
<1> DEFINE F == faults' = faults \/ faults' = faults + 1
           C == crashes' = crashes
<1>t. faults \in Nat /\ crashes \in Nat BY DEF TypeOK
<1>f. \A p : Fault(p) => F BY DEF Fault
<1>r. ASSUME NEW p, NEW ok, NEW r, Read(p, ok, r) PROVE F BY <1>f, <1>r DEF Read
<1>w. ASSUME NEW p, NEW ok, NEW c, NEW r, Write(p, ok, c, r) PROVE F BY <1>f, <1>w DEF Write
<1>a. ASSUME NEW s, NEW found, NEW n, NEW a, NEW r, PatchAnnotation(s, found, n, a, r) PROVE F
  BY <1>f, <1>a DEF PatchAnnotation
<1> SUFFICES F /\ (C \/ crashes' = crashes + 1) BY <1>t DEF Paid
<1>1. ASSUME NEW p \in Proc, UpdateStep(p) PROVE F /\ C
  <2>1. CASE GetCurrent(p) BY <1>r, <2>1 DEF GetCurrent, budget
  <2>2. CASE UpdateTopLevel(p) BY <1>w, <2>2 DEF UpdateTopLevel, budget
  <2>3. CASE PruneService(p) BY <1>w, <2>3 DEF PruneService, budget
  <2>4. CASE ApplyService(p) BY <1>w, <2>4 DEF ApplyService, AddService, budget
  <2>5. CASE ReaddService(p) BY <1>w, <2>5 DEF ReaddService, AddService, budget
  <2>6. CASE VerifyService(p) BY <1>r, <2>6 DEF VerifyService, budget
  <2> QED BY <1>1, <2>1, <2>2, <2>3, <2>4, <2>5, <2>6 DEF UpdateStep
<1>2. ASSUME NEW s \in Service, ServiceStep(s) PROVE F /\ C
  <2>1. CASE AddFinalizer(s) BY <1>f, <2>1 DEF AddFinalizer, budget
  <2>2. CASE ResolveExternal(s) BY <1>a, <2>2 DEF ResolveExternal, budget
  <2>3. CASE InferPool(s) BY <1>a, <2>3 DEF InferPool, budget
  <2>4. CASE Fetch(s) BY <1>r, <2>4 DEF Fetch, budget
  <2>5. CASE CreateLoadBalancer(s) BY <1>w, <2>5 DEF CreateLoadBalancer, budget
  <2>6. CASE AdoptLoadBalancer(s) BY <1>a, <2>6 DEF AdoptLoadBalancer, budget
  <2>7. CASE EnsureReturns(s) BY <1>f, <2>7 DEF EnsureReturns, budget
  <2>8. CASE GetLoadBalancer(s) BY <1>r, <2>8 DEF GetLoadBalancer, budget
  <2>9. CASE DeleteFetch(s) BY <1>r, <2>9 DEF DeleteFetch, budget
  <2>10. CASE DeleteServices(s) BY <1>w, <2>10 DEF DeleteServices, budget
  <2>11. CASE DeleteLoadBalancer(s) BY <1>w, <2>11 DEF DeleteLoadBalancer, budget
  <2>12. CASE RemoveFinalizer(s) BY <1>f, <2>12 DEF RemoveFinalizer, budget
  <2>13. CASE ForgetService(s) BY <2>13 DEF ForgetService, budget
  <2>14. CASE UpdateStep(<<s, "svc">>) BY <1>1, <2>14, Processes
  <2> QED BY <1>2, <2>1, <2>2, <2>3, <2>4, <2>5, <2>6, <2>7, <2>8, <2>9, <2>10, <2>11, <2>12,
             <2>13, <2>14 DEF ServiceStep
<1>3. ASSUME NEW s \in Service, NodeStep(s) \/ SyncService(s) \/ Deliver(s) PROVE F /\ C
  <2>1. CASE NodeSyncReturns(s) BY <2>1 DEF NodeSyncReturns, budget
  <2>2. CASE UpdateStep(<<s, "node">>) BY <1>1, <2>2, Processes
  <2>3. CASE SyncService(s) \/ Deliver(s) BY <2>3 DEF SyncService, Deliver, budget
  <2> QED BY <1>3, <2>1, <2>2, <2>3 DEF NodeStep
<1>4. CASE Environment
  BY <1>4 DEF Environment, UserCreates, UserEdits, UserDeletes, NodeSync, ClusterChanges,
              CloudDeletes, Crash, budget
<1>5. CASE UNCHANGED vars BY <1>5 DEF vars, budget
<1> QED BY <1>2, <1>3, <1>4, <1>5 DEF Next

(* Each failure and each restart is paid for once. *)
LEMMA PaidMore ==
  ASSUME TypeOK, [Next]_vars, faults' = faults + 1 \/ crashes' = crashes + 1
  PROVE  Paid < Paid'
<1>1. ASSUME NEW a \in Nat, NEW b \in Nat, NEW c \in Nat, NEW d \in Nat,
             a <= c, b <= d, c = a + 1 \/ d = b + 1
      PROVE  a + b < c + d
  BY <1>1
<1>2. faults \in Nat /\ crashes \in Nat BY DEF TypeOK
<1>3. faults' \in Nat /\ faults <= faults' /\ crashes' \in Nat /\ crashes <= crashes'
  BY PaidGrows
<1>4. faults + crashes < faults' + crashes' BY <1>1, <1>2, <1>3
<1> QED BY <1>4 DEF Paid

(* Sets of NLBs are finite. *)
LEMMA CountNLBs ==
  ASSUME NEW S \in SUBSET ID, NEW T, NEW x
  PROVE  /\ Cardinality(S) \in Nat
         /\ T \subseteq S => Cardinality(T) <= Cardinality(S) /\ Cardinality(T) \in Nat
         /\ T \subseteq S \cup {x} => Cardinality(T) <= Cardinality(S) + 1 /\ Cardinality(T) \in Nat
<1>1. IsFiniteSet(ID) BY BoundsAssumption, FS_Interval DEF ID
<1>2. IsFiniteSet(S) BY <1>1, FS_Subset
<1>3. Cardinality(S) \in Nat BY <1>2, FS_CardinalityType
<1>4. ASSUME NEW A, NEW B, IsFiniteSet(B), A \subseteq B
      PROVE  Cardinality(A) <= Cardinality(B) /\ Cardinality(A) \in Nat
  <2>1. IsFiniteSet(A) /\ Cardinality(A) <= Cardinality(B) BY <1>4, FS_Subset
  <2> QED BY <2>1, FS_CardinalityType
<1>5. IsFiniteSet(S \cup {x}) /\ Cardinality(S \cup {x}) <= Cardinality(S) + 1
      /\ Cardinality(S \cup {x}) \in Nat
  <2>1. /\ IsFiniteSet(S \cup {x})
        /\ Cardinality(S \cup {x}) = IF x \in S THEN Cardinality(S) ELSE Cardinality(S) + 1
    BY <1>2, FS_AddElement
  <2> QED BY <1>3, <2>1
<1>6. ASSUME T \subseteq S \cup {x} PROVE Cardinality(T) <= Cardinality(S) + 1 /\ Cardinality(T) \in Nat
  <2>1. Cardinality(T) <= Cardinality(S \cup {x}) /\ Cardinality(T) \in Nat BY <1>4, <1>5, <1>6
  <2> QED BY <1>3, <1>5, <2>1
<1> QED BY <1>2, <1>3, <1>4, <1>6

(* Users leave the NLBs and their default names to the provider, and a sync *)
(* starts from the current object; any call may fail and the program may    *)
(* exit anywhere.                                                           *)
Sequential == AllManaged /\ OwnNames /\ ListerLag = FALSE

(* The NLBs of s that a sync of s would not find. *)
Extra(s) == Mine(s) \ ({api[s].m.id} \cup Adopting(s))

(* The extra NLBs of s are paid for, and another is only created when the   *)
(* one that the object has is gone.                                         *)
Counted(s) ==
  /\ Svc(s).pc \in Ensuring => Exists(s) /\ api[s].fin
  /\ Svc(s).pc \in {"create", "adopt"} => ~Live(api[s].m.id)
  /\ api[s].phase # "gone" => Cardinality(Extra(s)) <= Paid
  /\ api[s].phase = "gone" => Cardinality(Mine(s)) <= Paid + 1

CountInv == KnownInv /\ RefsInv /\ \A s \in Service : Counted(s)

LEMMA MineType ==
  ASSUME NEW s
  PROVE  Mine(s) \in SUBSET ID /\ Extra(s) \in SUBSET ID
  BY DEF Mine, Extra

(* A step that adds at most one extra NLB, and pays for it if it does. *)
LEMMA CountedStep ==
  ASSUME NEW s \in Service, Counted(s), Paid \in Nat, Paid' \in Nat, Paid <= Paid',
         api[s].phase # "gone", api'[s].phase # "gone",
         Svc(s)'.pc \in Ensuring => Exists(s)' /\ api'[s].fin,
         Svc(s)'.pc \in {"create", "adopt"} => ~Live(api[s].m.id)',
         \/ Extra(s)' \subseteq Extra(s)
         \/ Paid < Paid' /\ \E x : Extra(s)' \subseteq Extra(s) \cup {x}
  PROVE  Counted(s)'
<1>0. Extra(s) \in SUBSET ID BY MineType
<1>1. Cardinality(Extra(s)) <= Paid /\ Cardinality(Extra(s)) \in Nat
  BY <1>0, CountNLBs DEF Counted
<1>2. Cardinality(Extra(s)') <= Paid'
  <2>1. CASE Extra(s)' \subseteq Extra(s)
    <3>1. Cardinality(Extra(s)') <= Cardinality(Extra(s)) /\ Cardinality(Extra(s)') \in Nat
      BY <1>0, <2>1, CountNLBs
    <3> QED BY <1>1, <3>1
  <2>2. CASE Paid < Paid' /\ \E x : Extra(s)' \subseteq Extra(s) \cup {x}
    <3>1. Cardinality(Extra(s)') <= Cardinality(Extra(s)) + 1 /\ Cardinality(Extra(s)') \in Nat
      BY <1>0, <2>2, CountNLBs
    <3> QED BY <1>1, <2>2, <3>1
  <2> QED BY <2>1, <2>2
<1> QED BY <1>2 DEF Counted

(* A step that leaves the object's NLB as it is. *)
LEMMA CountedKept ==
  ASSUME NEW s \in Service, Counted(s), Paid \in Nat, Paid' \in Nat, Paid <= Paid',
         Mine(s)' \subseteq Mine(s),
         api'[s].phase = api[s].phase, api'[s].m.id = api[s].m.id,
         Svc(s)'.pc \in Ensuring => Exists(s)' /\ api'[s].fin,
         \/ Svc(s)' = Svc(s)
         \/ /\ Svc(s)'.pc # "adopt" /\ (Svc(s)'.pc = "create" => ~Live(api[s].m.id))
            /\ Svc(s).pc # "adopt" \/ Paid < Paid' \/ Svc(s).nid \notin Mine(s)
  PROVE  Counted(s)'
<1>1. Live(api[s].m.id)' => Live(api[s].m.id)
  <2>1. Live(api[s].m.id)' => api'[s].m.id \in Mine(s)' BY DEF Live, Mine, Refs
  <2> QED BY <2>1 DEF Live, Mine
<1>2. \/ Extra(s)' \subseteq Extra(s)
      \/ Paid < Paid' /\ Extra(s)' \subseteq Extra(s) \cup {Svc(s).nid}
  BY DEF Extra, Adopting
<1>3. Svc(s)'.pc \in {"create", "adopt"} => ~Live(api[s].m.id)' BY <1>1 DEF Counted
<1>4. CASE api[s].phase # "gone" BY <1>2, <1>3, <1>4, CountedStep
<1>5. CASE api[s].phase = "gone"
  <2>1. Mine(s) \in SUBSET ID BY MineType
  <2>2. Cardinality(Mine(s)) <= Paid + 1 BY <1>5 DEF Counted
  <2>3. Cardinality(Mine(s)') <= Cardinality(Mine(s)) /\ Cardinality(Mine(s)) \in Nat
        /\ Cardinality(Mine(s)') \in Nat
    BY <2>1, CountNLBs
  <2>4. Cardinality(Mine(s)') <= Paid' + 1 BY <2>2, <2>3
  <2> QED BY <1>3, <1>5, <2>4 DEF Counted
<1> QED BY <1>4, <1>5

(* The object goes: the NLB that it had is now one that nothing finds. *)
LEMMA CountedGone ==
  ASSUME NEW s \in Service, Counted(s), Paid \in Nat, Paid' \in Nat, Paid <= Paid',
         Mine(s)' \subseteq Mine(s), api[s].phase # "gone", api'[s].phase = "gone",
         Svc(s).pc # "adopt", Svc(s)'.pc \notin Ensuring
  PROVE  Counted(s)'
<1>0. Extra(s) \in SUBSET ID BY MineType
<1>1. Mine(s)' \subseteq Extra(s) \cup {api[s].m.id} BY DEF Extra, Adopting
<1>2. /\ Cardinality(Mine(s)') <= Cardinality(Extra(s)) + 1 /\ Cardinality(Extra(s)) \in Nat
      /\ Cardinality(Mine(s)') \in Nat
  BY <1>0, <1>1, CountNLBs
<1>3. Cardinality(Extra(s)) <= Paid BY DEF Counted
<1>4. Cardinality(Mine(s)') <= Paid' + 1 BY <1>2, <1>3
<1>5. {"create", "adopt"} \subseteq Ensuring BY DEF Ensuring
<1> QED BY <1>4, <1>5 DEF Counted

LEMMA CountedObject ==
  ASSUME Sequential, CountInv, [Next]_vars, NEW s \in Service, ObjectStep(s)
  PROVE  Counted(s)'
<1> DEFINE p == <<s, "svc">>
<1>0. p \in Proc /\ <<s, "node">> \in Proc /\ p # <<s, "node">> BY Processes
<1>t. /\ TypeOK /\ Copies(s) /\ Known(s) /\ Counted(s) /\ RefsInv /\ AllManaged /\ OwnNames
      /\ ListerLag = FALSE /\ Svc(s).pc # "resolve"
  BY DEF CountInv, KnownInv, CopiesInv, RefsInv, Sequential
<1>p. Paid \in Nat /\ Paid' \in Nat /\ Paid <= Paid' BY <1>t, PaidGrows
<1>i. /\ Idle.pc = "idle" /\ "idle" \notin Ensuring /\ "final" \notin Ensuring
      /\ "exists" \notin Ensuring /\ "delfetch" \notin Ensuring /\ "forget" \notin Ensuring
      /\ "unfinal" \notin Ensuring
      /\ {"pool", "fetch", "create", "adopt", "get"} \subseteq Ensuring
  BY DEF Idle, Ensuring, Updating
<1>f. \A m : AfterResolve(m) \in {"pool", "fetch"} /\ AfterFinal(m) \in {"resolve", "pool", "fetch"}
  BY DEF AfterResolve, AfterFinal
<1>n. NoManifest.id = NoID /\ NoID \notin ID BY DEF NoManifest, NoID, ID
<1>c. Creating(s) => Svc(s).pc = "create" /\ Svc(s)'.pc \in {"adopt", "idle"}
  BY <1>i DEF Creating, Becomes, Svc
<1>m. ~Creating(s) => Mine(s)' \subseteq Mine(s) BY <1>t, MineStep DEF RefsGrow
<1>1. CASE Finalizing(s)
  <2>1. /\ Svc(s).pc = "final" /\ Svc(s)'.pc \notin {"create", "adopt"}
        /\ api'[s].m.id = api[s].m.id /\ api'[s].phase = api[s].phase
        /\ Svc(s)'.pc \in Ensuring => Exists(s)' /\ api'[s].fin
    BY <1>1, <1>i, <1>f DEF Finalizing, Becomes, Svc, Exists
  <2> QED BY <1>c, <1>m, <1>p, <1>t, <2>1, CountedKept
<1>2. CASE Patching(s)
  <2> DEFINE q == proc[p]
             r == proc'[p]
             nid == IF q.pc = "adopt" THEN NoID ELSE q.nid
  <2>0. /\ q.pc \in {"pool", "adopt"} /\ Svc(s) = q /\ Svc(s)' = r
        /\ Exists(s) /\ api[s].fin /\ q.m.id = api[s].m.id
        /\ Mine(s)' \subseteq Mine(s)
    BY <1>2, <1>c, <1>i, <1>m, <1>t DEF Patching, Counted, Known, Svc
  <2>1. PICK m, found :
          /\ Value(q, found, m)
          /\ \/ /\ found /\ ((api' = api /\ m = q.m) \/ PatchedTo(s, m))
                /\ Becomes(q, r, AfterPatch(q, m), m, nid)
             \/ r = Idle /\ ~found /\ UNCHANGED api
             \/ r = Idle /\ faults' = faults + 1 /\ UNCHANGED api
             \/ r = Idle /\ found /\ PatchedTo(s, m)
    BY <1>2, <2>0 DEF Patching
  <2>2. /\ api'[s].phase = api[s].phase /\ Exists(s)' /\ api'[s].fin
    BY <2>0, <2>1 DEF PatchedTo, Exists
  <2>3. r.pc # "create" /\ r.pc # "adopt" BY <1>f, <1>i, <2>0, <2>1 DEF Becomes, AfterPatch
  <2>4. CASE q.pc = "pool"
    <3>1. api'[s].m.id = api[s].m.id BY <2>0, <2>1, <2>4 DEF PatchedTo, Value
    <3> QED BY <1>p, <1>t, <2>0, <2>2, <2>3, <2>4, <3>1, CountedKept
  <2>5. CASE q.pc = "adopt" /\ UNCHANGED api /\ ~found
    <3>1. q.nid \notin Mine(s) BY <2>1, <2>5 DEF Value, Mine, Live
    <3> QED BY <1>p, <1>t, <2>0, <2>2, <2>3, <2>5, <3>1, CountedKept
  <2>6. CASE q.pc = "adopt" /\ UNCHANGED api /\ faults' = faults + 1
    <3>1. Paid < Paid' BY <1>t, <2>6, PaidMore
    <3> QED BY <1>p, <1>t, <2>0, <2>2, <2>3, <2>6, <3>1, CountedKept
  <2>7. CASE q.pc = "adopt" /\ found /\ ((api' = api /\ m = q.m) \/ PatchedTo(s, m))
    <3>1. m.id = q.nid BY <2>1, <2>7 DEF Value
    <3>2. api'[s].m.id = q.nid BY <2>0, <2>7, <3>1 DEF PatchedTo
    <3>3. api[s].m.id \notin Mine(s) BY <1>t, <2>0, <2>7 DEF Counted, Mine, Live
    <3>4. Extra(s)' \subseteq Extra(s) BY <2>0, <2>3, <2>7, <3>2, <3>3 DEF Extra, Adopting
    <3>5. api[s].phase # "gone" /\ api'[s].phase # "gone" BY <2>0, <2>2 DEF Exists
    <3> QED BY <1>p, <1>t, <2>0, <2>2, <2>3, <3>4, <3>5, CountedStep
  <2> QED BY <2>0, <2>1, <2>4, <2>5, <2>6, <2>7 DEF Value
<1>3. CASE Fetching(s)
  <2>1. /\ Svc(s).pc = "fetch" /\ UNCHANGED api
        /\ Exists(s) /\ api[s].fin /\ Svc(s).m.id = api[s].m.id
    BY <1>3, <1>i, <1>t DEF Fetching, Svc, Counted, Known
  <2>2. Svc(s)'.pc # "adopt" /\ (Svc(s)'.pc = "create" => ~Live(api[s].m.id))
    BY <1>3, <1>i, <2>1 DEF Fetching, Becomes, Svc
  <2>3. Exists(s)' /\ api'[s].fin BY <2>1 DEF Exists
  <2> QED BY <1>c, <1>m, <1>p, <1>t, <2>1, <2>2, <2>3, CountedKept
<1>4. CASE Creating(s)
  <2>1. /\ Svc(s).pc = "create" /\ UNCHANGED api /\ Exists(s) /\ api[s].fin /\ ~Live(api[s].m.id)
    BY <1>4, <1>i, <1>t DEF Creating, Svc, Counted
  <2>2. Exists(s)' /\ api'[s].fin BY <2>1 DEF Exists
  <2>3. ~Live(api[s].m.id)'
    <3>1. api[s].m.id \in ID \cup {NoID} /\ lastNLB \in Nat
      BY <1>t, RefsType DEF Refs, TypeOK
    <3>2. api[s].m.id # lastNLB + 1
      <4>1. api[s].m.id = NoID \/ api[s].m.id <= lastNLB BY <1>t DEF RefsInv, Refs
      <4> QED BY <3>1, <4>1 DEF NoID, ID
    <3>3. nlb \in [ID -> NLB] BY <1>t DEF TypeOK
    <3>4. api[s].m.id \in ID => nlb'[api[s].m.id] = nlb[api[s].m.id]
      <4>1. nlb' = nlb \/ \E n : nlb' = [nlb EXCEPT ![lastNLB + 1] = n] BY <1>4 DEF Creating
      <4> QED BY <3>2, <3>3, <4>1
    <3> QED BY <2>1, <3>4 DEF Live
  <2>4. Mine(s)' \subseteq Mine(s) \cup {lastNLB + 1} BY <1>t, MineStep
  <2>5. \/ Svc(s)'.pc = "adopt" /\ Svc(s)'.nid = lastNLB + 1
        \/ Svc(s)'.pc = "idle" /\ faults' = faults + 1
    BY <1>4, <1>i DEF Creating, Becomes, Svc
  <2>6. CASE Svc(s)'.pc = "adopt" /\ Svc(s)'.nid = lastNLB + 1
    <3>1. Extra(s)' \subseteq Extra(s) BY <2>1, <2>4, <2>6 DEF Extra, Adopting
    <3> QED BY <1>p, <1>t, <2>1, <2>2, <2>3, <3>1, CountedStep DEF Exists
  <2>7. CASE Svc(s)'.pc = "idle" /\ faults' = faults + 1
    <3>1. Paid < Paid' BY <1>t, <2>7, PaidMore
    <3>2. Extra(s)' \subseteq Extra(s) \cup {lastNLB + 1}
      BY <2>1, <2>4, <2>7 DEF Extra, Adopting
    <3> QED BY <1>p, <1>t, <2>1, <2>2, <2>3, <3>1, <3>2, CountedStep DEF Exists
  <2> QED BY <2>5, <2>6, <2>7
<1>5. CASE Returning(s) \/ Forgetting(s)
  <2>1. /\ Svc(s).pc \notin {"create", "adopt"} /\ Svc(s)'.pc = "idle"
        /\ api'[s].m.id = api[s].m.id /\ api'[s].phase = api[s].phase
    BY <1>5, <1>i DEF Returning, Forgetting, Svc
  <2> QED BY <1>c, <1>i, <1>m, <1>p, <1>t, <2>1, CountedKept
<1>6. CASE Unfinalizing(s)
  <2>1. /\ Svc(s).pc = "unfinal" /\ Svc(s)'.pc = "idle"
        /\ \/ api'[s].m.id = api[s].m.id /\ api'[s].phase = api[s].phase
           \/ api[s].phase # "gone" /\ api'[s].phase = "gone"
    BY <1>6, <1>i DEF Unfinalizing, Svc
  <2> QED BY <1>c, <1>i, <1>m, <1>p, <1>t, <2>1, CountedKept, CountedGone
<1>7. CASE Syncing(s)
  <2>1. /\ Svc(s).pc = "idle" /\ UNCHANGED api /\ lister[s] = api[s]
    BY <1>7, <1>t DEF Syncing, Svc
  <2>2. /\ Svc(s)'.pc \notin {"create", "adopt"}
        /\ Svc(s)'.pc \in Ensuring => Exists(s) /\ api[s].fin
    BY <1>7, <1>i, <1>f, <2>1 DEF Syncing, Starts, Svc, Exists
  <2> QED BY <1>c, <1>m, <1>p, <1>t, <2>1, <2>2, CountedKept DEF Exists
<1>8. CASE Delivering(s) \/ NodeSyncing(s) \/ NodeReturning(s)
  <2>1. Svc(s)' = Svc(s) /\ UNCHANGED api
    BY <1>0, <1>8 DEF Delivering, NodeSyncing, NodeReturning, Others, Svc
  <2>2. Svc(s)'.pc \in Ensuring => Exists(s)' /\ api'[s].fin BY <1>t, <2>1 DEF Counted, Exists
  <2> QED BY <1>c, <1>m, <1>p, <1>t, <2>1, <2>2, CountedKept
<1>9. CASE Submitting(s)
  <2>1. Svc(s)' = Svc(s) BY <1>9 DEF Submitting, Svc
  <2>2. Mine(s)' \subseteq Mine(s) BY <1>c, <1>m, <2>1
  <2>3. CASE api[s].phase = "none"
    <3>1. Svc(s).pc = "idle" /\ api[s].m = NoManifest
      BY <1>t, <2>3 DEF Known, Copies, Genuine, Svc
    <3>2. api'[s].phase = "live" /\ api'[s].m.id = NoID
      BY <1>9, <1>t, <2>3 DEF Submitting, AllManaged
    <3>3. Extra(s)' \subseteq Extra(s) BY <1>n, <2>1, <2>2, <3>1, <3>2 DEF Extra, Adopting
    <3> QED BY <1>i, <1>p, <1>t, <2>1, <2>3, <3>1, <3>2, <3>3, CountedStep
  <2>4. CASE api[s].phase # "none" /\ api'[s].phase # "gone"
    <3>1. /\ api[s].phase = "live" /\ Exists(s)' /\ api'[s].m.id = api[s].m.id
          /\ api'[s].fin = api[s].fin
      BY <1>9, <1>t, <2>4 DEF Submitting, Exists, AllManaged
    <3>2. Extra(s)' \subseteq Extra(s) BY <2>1, <2>2, <3>1 DEF Extra, Adopting
    <3>3. Svc(s)'.pc \in {"create", "adopt"} => ~Live(api[s].m.id)'
      BY <1>9, <1>t, <2>1, <3>1 DEF Counted, Submitting, Live, cloud
    <3>4. Svc(s)'.pc \in Ensuring => Exists(s)' /\ api'[s].fin BY <1>t, <2>1, <3>1 DEF Counted
    <3> QED BY <1>p, <1>t, <2>4, <3>1, <3>2, <3>3, <3>4, CountedStep
  <2>5. CASE api'[s].phase = "gone"
    <3>1. ~api[s].fin /\ api[s].phase = "live" BY <1>9, <2>5 DEF Submitting
    <3>2. Svc(s).pc \notin Ensuring BY <1>t, <3>1 DEF Counted
    <3> QED BY <1>i, <1>p, <1>t, <2>1, <2>2, <2>5, <3>1, <3>2, CountedGone
  <2> QED BY <2>3, <2>4, <2>5
<1> QED BY <1>1, <1>2, <1>3, <1>4, <1>5, <1>6, <1>7, <1>8, <1>9 DEF ObjectStep

LEMMA NextCount ==
  ASSUME Sequential, CountInv, [Next]_vars
  PROVE  CountInv'
<1>h. AllManaged /\ OwnNames /\ ProviderID /\ ListerLag = FALSE
  BY DEF Sequential, AllManaged, ProviderID
<1>t. TypeOK /\ Fresh /\ lastNLB \in Nat /\ \A s \in Service : Counted(s)
  BY DEF CountInv, KnownInv, CopiesInv, TypeOK
<1>p. Paid \in Nat /\ Paid' \in Nat /\ Paid <= Paid' BY <1>t, PaidGrows
<1>i. KnownInv' /\ RefsInv' BY <1>h, NextKnown, NextRefs DEF CountInv
<1>m. ASSUME NEW s \in Service, Svc(s)' = Svc(s) \/ lastNLB' = lastNLB
      PROVE  Mine(s)' \subseteq Mine(s)
  <2>1. ~RefsGrow(s) BY <1>m, <1>t DEF RefsGrow, Creating, Becomes, Svc, Idle
  <2> QED BY <1>h, <2>1, MineStep DEF CountInv
<1>s. ASSUME NEW s \in Service, api'[s] = api[s], Svc(s)' = Svc(s) PROVE Counted(s)'
  <2>1. Svc(s)'.pc \in Ensuring => Exists(s)' /\ api'[s].fin BY <1>s, <1>t DEF Counted, Exists
  <2> QED BY <1>m, <1>p, <1>s, <1>t, <2>1, CountedKept
<1>1. ASSUME NEW s \in Service PROVE Counted(s)'
  <2>1. ASSUME NEW t \in Service, ObjectStep(t) PROVE Counted(s)'
    <3>1. CASE t = s BY <2>1, <3>1, CountedObject
    <3>2. CASE t # s BY <1>s, <2>1, <3>2, LocalSame DEF ObjectStep, Same, Svc
    <3> QED BY <3>1, <3>2
  <2>2. ASSUME NEW p \in Proc, NEW t \in Service, Update(p) \/ (p = <<t, "svc">> /\ Withdraw(t))
        PROVE  Counted(s)'
    <3>1. UNCHANGED <<api, lister, cache>> /\ lastNLB' = lastNLB /\ Others(p)
      BY <1>t, <2>2, WorkGoesOn
    <3>2. Mine(s)' \subseteq Mine(s) BY <1>m, <3>1
    <3>3. CASE p # <<s, "svc">>
      <4>1. Svc(s)' = Svc(s) BY <3>1, <3>3, Processes DEF Others, Svc
      <4> QED BY <1>s, <3>1, <4>1
    <3>4. CASE p = <<s, "svc">>
      <4>1. Idle.pc = "idle" BY DEF Idle
      <4>2. proc[p].end \in {"unfinal", "forget"} BY <1>t DEF TypeOK, Process
      <4>3. /\ Svc(s).pc # "adopt" /\ Svc(s)'.pc \notin {"create", "adopt"}
            /\ Svc(s)'.pc \in Ensuring => Svc(s).pc \in Ensuring
        <5>1. CASE Update(p)
          BY <3>4, <4>1, <5>1 DEF Update, Advances, Updating, Ensuring, Svc
        <5>2. CASE p = <<t, "svc">> /\ Withdraw(t)
          BY <3>4, <4>1, <4>2, <5>2 DEF Withdraw, Withdraws, AfterPrune, Ensuring, Updating, Svc
        <5> QED BY <2>2, <5>1, <5>2
      <4>4. Svc(s)'.pc \in Ensuring => Exists(s)' /\ api'[s].fin
        BY <1>t, <3>1, <4>3 DEF Counted, Exists
      <4> QED BY <1>p, <1>t, <3>1, <3>2, <4>3, <4>4, CountedKept
    <3> QED BY <3>3, <3>4
  <2>3. CASE Drifts BY <1>s, <2>3 DEF Drifts, Svc
  <2>4. CASE Restarts
    <3>1. /\ api' = api /\ lastNLB' = lastNLB /\ Svc(s)'.pc = "idle" /\ crashes' = crashes + 1
      <4>1. /\ api' = api /\ lastNLB' = lastNLB /\ proc'[<<s, "svc">>] = Idle
            /\ crashes' = crashes + 1
        BY <2>4, Processes DEF Restarts, cloud
      <4> QED BY <4>1 DEF Svc, Idle
    <3>2. Paid < Paid' BY <1>t, <3>1, PaidMore
    <3> QED BY <1>m, <1>p, <1>t, <3>1, <3>2, CountedKept DEF Ensuring, Updating
  <2>5. ASSUME NEW p \in Proc, Update(p) PROVE Counted(s)' BY <1>1, <2>2, <2>5
  <2>6. ASSUME NEW t \in Service, Withdraw(t) PROVE Counted(s)' BY <2>2, <2>6, Processes
  <2> QED BY <1>t, <2>1, <2>3, <2>4, <2>5, <2>6, Steps
<1> QED BY <1>1, <1>i DEF CountInv

LEMMA InitCount ==
  ASSUME Sequential, Init
  PROVE  CountInv
<1>1. KnownInv /\ RefsInv BY InitKnown, InitRefs
<1>2. ASSUME NEW s \in Service PROVE Extra(s) = {}
  <2>1. Refs(s) = {NoID} BY Processes DEF Init, Refs, Svc, Nod, NoObject, NoManifest, Idle
  <2>2. ASSUME NEW i \in ID, nlb[i].live PROVE nlb[i].name # s
    <3>1. i <= Provisioned /\ nlb[i] = Preset[i] BY <2>2 DEF Init, NoNLB
    <3>2. i \in 1 .. Provisioned BY <3>1, BoundsAssumption DEF ID
    <3> QED BY <2>2, <3>1, <3>2 DEF Sequential, OwnNames
  <2> QED BY <2>1, <2>2 DEF Extra, Mine, NoID, ID
<1>3. Paid = 0 BY DEF Init, Paid
<1>4. ASSUME NEW s \in Service PROVE Counted(s)
  <2>1. Svc(s).pc = "idle" /\ api[s].phase = "none" BY Processes DEF Init, Svc, Idle, NoObject
  <2>2. Cardinality(Extra(s)) = 0 BY <1>2, FS_EmptySet
  <2> QED BY <1>3, <2>1, <2>2 DEF Counted, Ensuring, Updating
<1> QED BY <1>1, <1>4 DEF CountInv

(* The NLBs of a Service that a failure or a restart has not paid for: one. *)
LEMMA CountedNames ==
  ASSUME CountInv, NEW s \in Service
  PROVE  Cardinality({i \in ID : nlb[i].live /\ nlb[i].name = s}) <= 1 + faults + crashes
<1> DEFINE N == {i \in ID : nlb[i].live /\ nlb[i].name = s}
<1>0. Counted(s) /\ Paid \in Nat /\ faults \in Nat /\ crashes \in Nat
  BY DEF CountInv, KnownInv, CopiesInv, TypeOK, Paid
<1>1. N \subseteq Mine(s) BY DEF Mine
<1>2. Mine(s) \in SUBSET ID /\ Extra(s) \in SUBSET ID BY MineType
<1>3. Cardinality(N) <= Paid + 1
  <2>1. CASE api[s].phase = "gone"
    <3>1. /\ Cardinality(N) <= Cardinality(Mine(s)) /\ Cardinality(N) \in Nat
          /\ Cardinality(Mine(s)) \in Nat
      BY <1>1, <1>2, CountNLBs
    <3> QED BY <1>0, <2>1, <3>1 DEF Counted
  <2>2. CASE api[s].phase # "gone"
    <3>1. \E x : N \subseteq Extra(s) \cup {x}
      <4>1. CASE Svc(s).pc = "adopt"
        <5>1. api[s].m.id \notin Mine(s) BY <1>0, <4>1 DEF Counted, Mine, Live
        <5> QED BY <1>1, <4>1, <5>1 DEF Extra, Adopting
      <4>2. CASE Svc(s).pc # "adopt" BY <1>1, <4>2 DEF Extra, Adopting
      <4> QED BY <4>1, <4>2
    <3>2. /\ Cardinality(N) <= Cardinality(Extra(s)) + 1 /\ Cardinality(N) \in Nat
          /\ Cardinality(Extra(s)) \in Nat
      BY <1>2, <3>1, CountNLBs
    <3> QED BY <1>0, <2>2, <3>2 DEF Counted
  <2> QED BY <2>1, <2>2
<1> HIDE DEF N
<1>4. Cardinality(N) <= 1 + faults + crashes BY <1>0, <1>3 DEF Paid
<1> QED BY <1>4 DEF N

(* DuplicatesPaidFor, wherever a call fails or the program exits (before,   *)
(* during or after the creation of the NLB and the patch of its ID           *)
(* included) and however often: EnsureLoadBalancer creates an NLB only when  *)
(* the one in the object's annotation is gone, so that an NLB that no sync   *)
(* finds is left only by a failure or a restart, one by each.  It is assumed *)
(* that users leave the NLBs and their default names to the provider and     *)
(* that a sync starts from the current object: one that starts from a copy   *)
(* without the ID creates again, without any failure.                        *)
THEOREM DuplicatesBounded == Sequential => (Spec => []DuplicatesPaidFor)
<1> SUFFICES ASSUME Sequential PROVE Spec => []DuplicatesPaidFor OBVIOUS
<1>1. CountInv => DuplicatesPaidFor BY CountedNames DEF DuplicatesPaidFor
<1>2. CountInv /\ [Next]_vars => CountInv' BY NextCount
<1>3. Init => CountInv BY InitCount
<1> QED BY <1>1, <1>2, <1>3, PTL DEF Spec

-----------------------------------------------------------------------------
(* A Service leaves no NLB behind *)

(* The ports of a Service do not change. *)
FixedPorts == \A s \in Service : \A m, n \in Manifests[s] : m.ports = n.ports

LEMMA SubmittedPorts ==
  ASSUME FixedPorts, NEW s \in Service, NEW m, Submitted(s, m)
  PROVE  m.ports = Ports(s)
<1>1. PICK n \in Manifests[s] : m.ports = n.ports BY DEF Submitted, Alike
<1>2. \A o \in Manifests[s] : o.ports = n.ports BY DEF FixedPorts
<1> QED BY <1>1, <1>2 DEF Ports

(* The NLB of s has NLB services on the ports of s only, so that they all   *)
(* go with it; it is gone when the finalizer is to be removed, and there is *)
(* none without a finalizer.                                                *)
Tidy(s) ==
  /\ \A i \in Mine(s) : \A x \in nlb[i].svcs : x.key \in Ports(s)
  /\ Svc(s).pc = "unfinal" => Mine(s) = {}
  /\ Svc(s).pc = "delprune" => Svc(s).last
  /\ api[s].phase = "gone" => Mine(s) = {}
  /\ Exists(s) /\ ~api[s].fin => Mine(s) = {}

TidyInv == OwnInv /\ PlansInv /\ \A s \in Service : Tidy(s)

(* Nobody but s adds NLB services to an NLB of s, and only on its ports. *)
LEMMA MineKeys ==
  ASSUME OneEach, TidyInv, [Next]_vars, NEW s \in Service, NEW i \in Mine(s)', NEW x \in nlb'[i].svcs
  PROVE  x.key \in Ports(s)
<1>t. TypeOK /\ Fresh /\ CloudOK /\ RefsInv /\ Own(s) /\ Tidy(s) /\ AllManaged /\ OwnNames
  BY TypeParts DEF TidyInv, OwnInv, KnownInv, CopiesInv, OneEach
<1>n. NoID \notin ID BY DEF NoID, ID
<1>0. i \in ID BY DEF Mine
<1>r. i \in Mine(s) => i \in Refs(s)
  <2>1. i \in Mine(s) => i \in {api[s].m.id} \cup Adopting(s) BY <1>t DEF Tidy, Own
  <2> QED BY <2>1 DEF Adopting, Refs
<1>1. CASE i \notin Mine(s)
  <2>1. Creating(s) /\ i = lastNLB + 1 /\ lastNLB' = lastNLB + 1
    BY <1>t, <1>1, MineStep DEF RefsGrow
  <2>2. PICK n : nlb' = [nlb EXCEPT ![i] = n] /\ n.svcs = {}
    <3>1. lastNLB # lastNLB + 1 BY <1>t DEF CloudOK
    <3> QED BY <2>1, <3>1 DEF Creating
  <2> QED BY <1>0, <1>t, <2>2 DEF CloudOK
<1>2. CASE i \in Mine(s) /\ nlb'[i].svcs = nlb[i].svcs BY <1>2, <1>t DEF Tidy
<1>3. ASSUME NEW p \in Proc, Calls(p), i \in Mine(s), nlb'[i].svcs # nlb[i].svcs
      PROVE  x.key \in Ports(s)
  <2>1. i = proc[p].m.id BY <1>0, <1>3, <1>t, CallsKeep
  <2>2. PICK t \in Service, k \in {"svc", "node"} : p = <<t, k>> BY DEF Proc
  <2>3. t = s
    <3>1. i \in Refs(t) BY <2>1, <2>2 DEF Refs, Svc, Nod
    <3> QED BY <1>0, <1>3, <1>n, <1>r, <1>t, <3>1 DEF RefsInv
  <2>4. \A y \in nlb[i].svcs : y.key \in Ports(s) BY <1>3, <1>t DEF Tidy
  <2>5. \A u \in proc[p].todo \cup proc[p].doing : u.want.key \in Ports(s)
    BY <2>2, <2>3 DEF TidyInv, PlansInv, Plans
  <2>6. CASE Renames(p)
    <3>1. nlb'[i].svcs = nlb[i].svcs BY <1>0, <1>t, <2>1, <2>6 DEF Renames, CloudOK, NLB
    <3> QED BY <1>3, <3>1
  <2>7. CASE Removes(p)
    <3>1. PICK sid : nlb' = Without(i, sid) BY <2>1, <2>7 DEF Removes
    <3>2. x \in nlb[i].svcs BY <1>0, <1>t, <3>1, ServiceCalls DEF CloudOK
    <3> QED BY <2>4, <3>2
  <2>8. CASE Alters(p)
    <3>1. PICK sid, w : nlb' = Updated(i, sid, w) BY <2>1, <2>8 DEF Alters
    <3>2. \E y \in nlb[i].svcs : x.key = y.key BY <1>0, <1>t, <3>1, UpdatedServices DEF CloudOK
    <3> QED BY <2>4, <3>2
  <2>9. CASE Adds(p)
    <3>1. PICK u \in proc[p].todo \cup proc[p].doing : nlb' = With(i, u.want)
      BY <2>1, <2>9 DEF Adds
    <3>2. x \in nlb[i].svcs \cup {[sid |-> lastSid + 1, key |-> u.want.key, own |-> u.want.own,
                                   pool |-> u.want.pool, cfg |-> u.want.cfg]}
      BY <1>0, <1>t, <3>1, ServiceCalls DEF CloudOK
    <3>3. x \in nlb[i].svcs \/ x.key = u.want.key BY <3>2
    <3> QED BY <2>4, <2>5, <3>3
  <2> QED BY <1>3, <2>6, <2>7, <2>8, <2>9 DEF Calls
<1>d. ASSUME NEW j \in ID, nlb' = [nlb EXCEPT ![j] = NoNLB], i \in Mine(s)
      PROVE  nlb'[i].svcs = nlb[i].svcs
  BY <1>0, <1>d, <1>t DEF CloudOK, NoNLB, Mine
<1>4. ASSUME NEW t \in Service, ObjectStep(t), i \in Mine(s) PROVE nlb'[i].svcs = nlb[i].svcs
  <2>1. UNCHANGED cloud \/ Creating(t)
    BY <1>4 DEF ObjectStep, Finalizing, Patching, Fetching, Returning, Unfinalizing, Forgetting,
                Syncing, Delivering, NodeSyncing, NodeReturning, Submitting
  <2>2. i # lastNLB + 1 BY <1>0, <1>4, <1>t DEF Mine, Fresh, CloudOK, ID
  <2>3. CASE UNCHANGED cloud BY <2>3 DEF cloud
  <2>4. CASE Creating(t)
    <3>1. nlb' = nlb \/ \E n : nlb' = [nlb EXCEPT ![lastNLB + 1] = n] BY <2>4 DEF Creating
    <3> QED BY <1>0, <1>t, <2>2, <3>1 DEF CloudOK
  <2> QED BY <2>1, <2>3, <2>4
<1>5. ASSUME NEW t \in Service, Withdraw(t), i \in Mine(s) PROVE x.key \in Ports(s)
  <2>1. CASE Calls(<<t, "svc">>) BY <1>2, <1>3, <1>5, <2>1, Processes
  <2>2. CASE Destroys(<<t, "svc">>) BY <1>2, <1>5, <1>d, <2>2 DEF Destroys, Live
  <2> QED BY <1>5, <2>1, <2>2 DEF Withdraw
<1>6. ASSUME NEW p \in Proc, Update(p), i \in Mine(s) PROVE x.key \in Ports(s)
  BY <1>2, <1>3, <1>6 DEF Update
<1>7. CASE i \in Mine(s) /\ Drifts BY <1>2, <1>7, <1>d DEF Drifts
<1>8. CASE i \in Mine(s) /\ Restarts BY <1>2, <1>8 DEF Restarts, cloud
<1> QED BY <1>1, <1>2, <1>4, <1>5, <1>6, <1>7, <1>8, <1>t, Steps

(* s is tidy after a step of its own objects. *)
LEMMA TidyObject ==
  ASSUME OneEach, TidyInv, NEW s \in Service, ObjectStep(s), [Next]_vars
  PROVE  Tidy(s)'
<1> DEFINE p == <<s, "svc">>
<1>0. p \in Proc /\ <<s, "node">> \in Proc /\ p # <<s, "node">> BY Processes
<1>t. /\ TypeOK /\ Copies(s) /\ Known(s) /\ Own(s) /\ Tidy(s) /\ AllManaged /\ OwnNames /\ RefsInv
      /\ Svc(s).pc # "resolve"
  BY DEF TidyInv, OwnInv, KnownInv, CopiesInv, OneEach, RefsInv
<1>i. Idle.pc = "idle" BY DEF Idle
<1>f. \A m : AfterResolve(m) \in {"pool", "fetch"} /\ AfterFinal(m) \in {"resolve", "pool", "fetch"}
  BY DEF AfterResolve, AfterFinal
<1>k. \A i \in Mine(s)' : \A x \in nlb'[i].svcs : x.key \in Ports(s) BY MineKeys
<1>m. ~Creating(s) => Mine(s)' \subseteq Mine(s) BY <1>t, MineStep DEF RefsGrow
<1>q. ASSUME NEW q, NEW r, NEW pc, NEW m, NEW nid, Becomes(q, r, pc, m, nid) PROVE r.pc = pc
  BY <1>q DEF Becomes
<1>w. ASSUME Mine(s)' \subseteq Mine(s),
             Svc(s)'.pc \notin {"unfinal", "delprune"} \/ Svc(s)' = Svc(s),
             api'[s].phase # "gone" \/ Mine(s) = {} \/ api[s].phase = "gone",
             ~Exists(s)' \/ api'[s].fin \/ Mine(s) = {} \/ (Exists(s) /\ ~api[s].fin)
      PROVE  Tidy(s)'
  BY <1>k, <1>t, <1>w DEF Tidy
<1>1. CASE Finalizing(s)
  <2>1. /\ Mine(s)' \subseteq Mine(s) /\ Svc(s)'.pc \notin {"unfinal", "delprune"}
        /\ api'[s].phase = api[s].phase /\ api'[s].m = api[s].m
        /\ api'[s].fin = api[s].fin \/ api'[s].fin
    <3>1. ~Creating(s) BY <1>1 DEF Finalizing, Creating
    <3> QED BY <1>1, <1>f, <1>i, <1>m, <1>q, <3>1 DEF Finalizing, Svc
  <2> QED BY <1>w, <2>1 DEF Exists
<1>2. CASE Patching(s)
  <2> DEFINE q == proc[p]
  <2>0. q.pc \in {"pool", "adopt"} /\ ~Creating(s) BY <1>2, <1>t DEF Patching, Creating, Svc
  <2>1. /\ api'[s].phase = api[s].phase /\ api'[s].fin = api[s].fin
        /\ \/ proc'[p] = Idle
           \/ \E m, nid : Becomes(q, proc'[p], AfterPatch(q, m), m, nid)
    BY <1>2 DEF Patching, PatchedTo
  <2>2. Svc(s)'.pc \notin {"unfinal", "delprune"}
    BY <1>f, <1>i, <1>q, <2>0, <2>1 DEF AfterPatch, Svc
  <2> QED BY <1>m, <1>w, <2>0, <2>1, <2>2 DEF Exists
<1>3. CASE Fetching(s)
  <2>1. Svc(s)'.pc \notin {"unfinal", "delprune"} /\ UNCHANGED api /\ ~Creating(s)
    BY <1>3, <1>i, <1>q DEF Fetching, Creating, Svc
  <2> QED BY <1>m, <1>w, <2>1 DEF Exists
<1>4. CASE Creating(s)
  <2>1. UNCHANGED api /\ Exists(s) /\ api[s].fin
    BY <1>4, <1>t DEF Creating, Own, Svc, Ensuring
  <2>2. Svc(s)'.pc \notin {"unfinal", "delprune"} BY <1>4, <1>i, <1>q DEF Creating, Svc
  <2> QED BY <1>k, <2>1, <2>2 DEF Tidy, Exists
<1>5. CASE Returning(s) \/ Forgetting(s)
  <2>1. /\ ~Creating(s) /\ Svc(s)'.pc = "idle"
        /\ api'[s].phase = api[s].phase /\ api'[s].fin = api[s].fin
    BY <1>5, <1>i DEF Returning, Forgetting, Creating, Svc
  <2> QED BY <1>m, <1>w, <2>1 DEF Exists
<1>6. CASE Unfinalizing(s)
  <2>1. Svc(s).pc = "unfinal" /\ Svc(s)'.pc = "idle" BY <1>6, <1>i DEF Unfinalizing, Svc
  <2>2. Mine(s) = {} /\ ~Creating(s) BY <1>t, <2>1 DEF Tidy, Creating, Svc
  <2> QED BY <1>m, <1>w, <2>1, <2>2
<1>7. CASE Syncing(s)
  <2>1. Svc(s)'.pc \notin {"unfinal", "delprune"} /\ UNCHANGED api /\ ~Creating(s)
    BY <1>7, <1>f, <1>i DEF Syncing, Creating, Starts, Svc
  <2> QED BY <1>m, <1>w, <2>1 DEF Exists
<1>8. CASE Delivering(s) \/ NodeSyncing(s) \/ NodeReturning(s)
  <2>1. Svc(s)' = Svc(s) /\ UNCHANGED api
    BY <1>0, <1>8 DEF Delivering, NodeSyncing, NodeReturning, Others, Svc
  <2>2. ~Creating(s) BY <1>i, <2>1 DEF Creating, OneEach, Becomes, Svc
  <2> QED BY <1>m, <1>w, <2>1, <2>2 DEF Exists
<1>9. CASE Submitting(s)
  <2>1. Svc(s)' = Svc(s) BY <1>9 DEF Submitting, Svc
  <2>2. ~Creating(s) BY <1>i, <2>1 DEF Creating, OneEach, Becomes, Svc
  <2>3. api[s].phase = "none" => Mine(s) = {}
    <3>1. api[s].phase = "none" => Svc(s).pc = "idle" /\ api[s].m = NoManifest
      BY <1>t DEF Known, Copies, Genuine, Svc
    <3>2. NoManifest.id = NoID /\ NoID \notin ID BY DEF NoManifest, NoID, ID
    <3> QED BY <1>t, <3>1, <3>2 DEF Own, Adopting, Mine
  <2>4. api[s].phase = "live" /\ ~api[s].fin => Mine(s) = {} BY <1>t DEF Tidy, Exists
  <2>5. \/ api[s].phase = "none" /\ api'[s].phase = "live"
        \/ api[s].phase = "live" /\ ~api[s].fin
        \/ api[s].phase = "live" /\ api'[s].phase \in {"live", "deleting"} /\ api'[s].fin
    BY <1>9 DEF Submitting
  <2> QED BY <1>m, <1>w, <2>1, <2>2, <2>3, <2>4, <2>5
<1> QED BY <1>1, <1>2, <1>3, <1>4, <1>5, <1>6, <1>7, <1>8, <1>9 DEF ObjectStep

(* s is tidy after a step of EnsureLoadBalancerDeleted for it. *)
LEMMA TidyWithdraw ==
  ASSUME OneEach, FixedPorts, TidyInv, NEW s \in Service, Withdraw(s), [Next]_vars,
         Mine(s)' \subseteq Mine(s)
  PROVE  Tidy(s)'
<1> DEFINE p == <<s, "svc">>
           q == proc[p]
           r == proc'[p]
           i == q.m.id
<1>0. p \in Proc /\ p[1] = s BY Processes
<1>t. /\ TypeOK /\ CloudOK /\ CopiesInv /\ Copies(s) /\ Known(s) /\ Own(s) /\ Tidy(s) /\ AllManaged
  BY TypeParts DEF TidyInv, OwnInv, KnownInv, CopiesInv, OneEach, RefsInv
<1>k. \A j \in Mine(s)' : \A x \in nlb'[j].svcs : x.key \in Ports(s) BY MineKeys
<1>1. /\ q.pc \in {"exists", "delfetch", "delprune", "dellb"} /\ UNCHANGED api
      /\ r = Idle \/ Withdraws(p, r)
      /\ q.end \in {"unfinal", "forget"} /\ Idle.pc = "idle"
  BY <1>0, <1>t DEF Withdraw, TypeOK, Process, Idle
<1>2. Submitted(s, q.m) BY <1>0, <1>1, <1>t, WorkSubmitted
<1>3. ~q.m.ext /\ q.m.ports = Ports(s) BY <1>2, <1>t, ManagedCopies, SubmittedPorts
<1>4. Mine(s) \subseteq {i}
  <2>1. api[s].phase # "none" BY <1>1, <1>t DEF Known, Copies, Svc
  <2>2. api[s].phase \in {"none", "live", "deleting", "gone"} BY <1>t DEF TypeOK, Object
  <2>3. CASE api[s].phase = "gone" BY <1>t, <2>3 DEF Tidy
  <2>4. CASE Exists(s) BY <1>1, <1>t, <2>4 DEF Own, Adopting, Known, Exists, Svc
  <2> QED BY <2>1, <2>2, <2>3, <2>4 DEF Exists
<1>5. Live(i) => i \in Mine(s) BY DEF Live, Mine, Refs, Svc
<1>6. Live(i) => {x \in nlb[i].svcs : x.key \in q.m.ports} = nlb[i].svcs
  BY <1>3, <1>5, <1>t DEF Tidy
<1>7. ~Live(i) => Mine(s) = {} BY <1>4 DEF Live, Mine
<1>8. ASSUME Withdraws(p, r), r.pc = "unfinal" PROVE Mine(s)' = {}
  <2>0. r.m = q.m BY <1>8 DEF Withdraws
  <2>1. CASE q.pc = "exists" BY <1>7, <1>8, <2>1 DEF Withdraws
  <2>2. CASE q.pc = "delfetch"
    <3>1. CASE ~Live(i) BY <1>7, <3>1
    <3>2. CASE Live(i)
      <4>1. r.last /\ (r.pc = "delprune" \/ r.pc = AfterPrune(r)) BY <1>6, <1>8, <2>2, <3>2 DEF Withdraws
      <4> QED BY <1>3, <1>8, <2>0, <4>1 DEF AfterPrune
    <3> QED BY <3>1, <3>2
  <2>3. CASE q.pc = "delprune"
    <3>1. r.last /\ r.pc = AfterPrune(r) BY <1>8, <1>t, <2>3 DEF Withdraws, Tidy, Svc
    <3> QED BY <1>3, <1>8, <2>0, <3>1 DEF AfterPrune
  <2>4. CASE q.pc = "dellb"
    <3>1. nlb' = [nlb EXCEPT ![i] = NoNLB] BY <1>8, <2>4 DEF Withdraws
    <3>2. i \in ID => ~nlb'[i].live BY <1>t, <3>1 DEF CloudOK, NoNLB
    <3>3. i \notin Mine(s)' BY <3>2 DEF Mine
    <3> QED BY <1>4, <3>3
  <2> QED BY <1>1, <2>1, <2>2, <2>3, <2>4
<1>9. ASSUME Withdraws(p, r), r.pc = "delprune" PROVE r.last
  <2>1. CASE q.pc = "delprune" BY <1>9, <1>t, <2>1 DEF Withdraws, Tidy, Svc
  <2>2. CASE q.pc = "delfetch" /\ Live(i) BY <1>6, <1>9, <2>2 DEF Withdraws
  <2> QED BY <1>1, <1>9, <2>1, <2>2 DEF Withdraws
<1> QED BY <1>1, <1>8, <1>9, <1>k, <1>t DEF Tidy, Svc, Exists

LEMMA NextTidy ==
  ASSUME OneEach, FixedPorts, TidyInv, [Next]_vars
  PROVE  TidyInv'
<1>t. TypeOK /\ Fresh /\ RefsInv /\ AllManaged /\ OwnNames /\ \A s \in Service : Tidy(s)
  BY DEF TidyInv, OwnInv, KnownInv, CopiesInv, OneEach
<1>p. OwnInv' /\ PlansInv' BY NextOwn, NextPlans DEF TidyInv
<1>g. ASSUME NEW s \in Service, Svc(s)' = Svc(s) \/ lastNLB' = lastNLB
      PROVE  Mine(s)' \subseteq Mine(s)
  <2>1. lastNLB + 1 # lastNLB BY <1>t DEF TypeOK
  <2>2. ~RefsGrow(s) BY <1>g, <2>1 DEF RefsGrow, Creating, OneEach, Becomes, Svc, Idle
  <2> QED BY <1>t, <2>2, MineStep
<1>w. ASSUME NEW s \in Service, api'[s] = api[s],
             Svc(s)' = Svc(s) \/ (lastNLB' = lastNLB /\ Svc(s)'.pc \notin {"unfinal", "delprune"})
      PROVE  Tidy(s)'
  <2>1. \A i \in Mine(s)' : \A x \in nlb'[i].svcs : x.key \in Ports(s) BY MineKeys
  <2>2. Mine(s)' \subseteq Mine(s) BY <1>g, <1>w
  <2> QED BY <1>t, <1>w, <2>1, <2>2 DEF Tidy, Exists
<1>1. ASSUME NEW s \in Service PROVE Tidy(s)'
  <2>1. ASSUME NEW t \in Service, ObjectStep(t) PROVE Tidy(s)'
    <3>1. CASE t = s BY <2>1, <3>1, TidyObject
    <3>2. CASE t # s BY <1>w, <2>1, <3>2, LocalSame DEF ObjectStep, Same, Svc
    <3> QED BY <3>1, <3>2
  <2>2. ASSUME NEW p \in Proc, Update(p) PROVE Tidy(s)'
    <3>1. UNCHANGED <<api, lister, cache>> /\ lastNLB' = lastNLB /\ Others(p) BY <2>2 DEF Update
    <3>2. p = <<s, "svc">> => Svc(s)'.pc \notin {"unfinal", "delprune"}
      BY <2>2 DEF Update, Advances, Updating, Idle, Svc
    <3>3. p # <<s, "svc">> => Svc(s)' = Svc(s) BY <3>1, Processes DEF Others, Svc
    <3> QED BY <1>w, <3>1, <3>2, <3>3
  <2>3. ASSUME NEW t \in Service, Withdraw(t) PROVE Tidy(s)'
    <3>1. UNCHANGED <<api, lister, cache>> /\ lastNLB' = lastNLB /\ Others(<<t, "svc">>)
      BY <2>3 DEF Withdraw
    <3>2. CASE t = s BY <1>g, <2>3, <3>1, <3>2, TidyWithdraw
    <3>3. CASE t # s
      <4>1. Svc(s)' = Svc(s) BY <3>1, <3>3, Processes DEF Others, Svc
      <4> QED BY <1>w, <3>1, <4>1
    <3> QED BY <3>2, <3>3
  <2>4. CASE Drifts BY <1>w, <2>4 DEF Drifts, Svc
  <2>5. CASE Restarts
    <3>1. proc'[<<s, "svc">>] = Idle /\ api' = api /\ lastNLB' = lastNLB
      BY <2>5, Processes DEF Restarts, cloud
    <3> QED BY <1>w, <3>1 DEF Svc, Idle
  <2> QED BY <1>t, <2>1, <2>2, <2>3, <2>4, <2>5, Steps
<1> QED BY <1>1, <1>p DEF TidyInv

LEMMA InitTidy ==
  ASSUME OneEach, Init
  PROVE  TidyInv
<1>1. OwnInv /\ PlansInv BY InitOwn, InitPlans
<1>2. ASSUME NEW s \in Service PROVE Tidy(s)
  <2>1. Svc(s).pc = "idle" /\ api[s].phase = "none" BY Processes DEF Init, Svc, Idle, NoObject
  <2>2. Mine(s) = {}
    <3>1. api[s].m.id = NoID BY DEF Init, NoObject, NoManifest
    <3>2. Own(s) BY <1>1 DEF OwnInv
    <3> QED BY <2>1, <3>1, <3>2 DEF Own, Adopting, Mine, NoID, ID
  <2> QED BY <2>1, <2>2 DEF Tidy
<1> QED BY <1>1, <1>2 DEF TidyInv

(* EnsureLoadBalancerDeleted is thorough: of a Service that is gone no NLB  *)
(* is left in the cloud, provided that its ports never change (then every   *)
(* NLB service of the NLB matches a port, and the NLB goes with the last of *)
(* them), that users leave the NLBs and their default names to the provider, *)
(* that a sync starts from the current object, and that neither the creation *)
(* of the NLB nor the patch of its ID was cut short (what was created and    *)
(* not recorded is not found again).  Other failed and lost calls, restarts  *)
(* in the middle of the deletion, node syncs that still update the NLB,      *)
(* users who delete the Service at any time or change its type do no harm.   *)
THEOREM NothingLeaks == OneEach /\ FixedPorts => (Spec => []NoLeak)
<1> SUFFICES ASSUME OneEach, FixedPorts PROVE Spec => []NoLeak OBVIOUS
<1>1. TidyInv => NoLeak BY DEF TidyInv, Tidy, Mine, NoLeak
<1>2. TidyInv /\ [Next]_vars => TidyInv' BY NextTidy
<1>3. Init => TidyInv BY InitTidy
<1> QED BY <1>1, <1>2, <1>3, PTL DEF Spec

=============================================================================
