------------------------- MODULE LoadBalancerProofs -------------------------
(***************************************************************************)
(* Proofs about LoadBalancer, for any set of Services, ports, pools and    *)
(* manifests, and for any number of edits, failed calls and restarts.      *)
(***************************************************************************)
EXTENDS LoadBalancer, TLAPS

(* The parts of TypeOK, by who changes them. *)
KubeOK ==
  api \in [Service -> Object] /\ lister \in [Service -> Object] /\ cache \in [Service -> Object]

ProcOK == proc \in [Proc -> Process] /\ queue \subseteq Service

CloudOK == nlb \in [ID -> NLB] /\ lastNLB \in 0 .. MaxNLB /\ lastSid \in 0 .. MaxSid

RestOK ==
  /\ cluster \in Clusters
  /\ edits \in Nat /\ faults \in Nat /\ crashes \in Nat /\ nodeSyncs \in Nat
  /\ drift \in Nat

(* TypeOK is the conjunction of its parts. *)
LEMMA TypeParts ==
  /\ TypeOK <=> KubeOK /\ ProcOK /\ CloudOK /\ RestOK
  /\ TypeOK' <=> KubeOK' /\ ProcOK' /\ CloudOK' /\ RestOK'
  BY DEF TypeOK, KubeOK, ProcOK, CloudOK, RestOK

(* The default values have their types. *)
LEMMA Defaults ==
  /\ NoManifest \in Manifest /\ NoObject \in Object /\ NoNLB \in NLB /\ Idle \in Process
<1>1. NoManifest \in Manifest BY DEF NoManifest, Manifest, NoID
<1>2. NoObject \in Object BY <1>1 DEF NoObject, Object
<1>3. NoNLB \in NLB BY DEF NoNLB, NLB
<1>4. Idle \in Process BY <1>1 DEF Idle, Process, PC
<1> QED BY <1>1, <1>2, <1>3, <1>4

(* The initial state is well typed. *)
LEMMA InitType == Init => TypeOK
<1> SUFFICES ASSUME Init PROVE TypeOK OBVIOUS
<1>1. KubeOK /\ ProcOK /\ RestOK BY Defaults DEF Init, KubeOK, ProcOK, RestOK
<1>2. CloudOK BY Defaults, BoundsAssumption DEF Init, CloudOK, ID
<1> QED BY <1>1, <1>2, TypeParts

(* Fields of a process that a step assigns keep the process well typed. *)
LEMMA ProcessFields ==
  ASSUME NEW r \in Process
  PROVE  /\ \A pc \in PC : [r EXCEPT !.pc = pc] \in Process
         /\ \A m \in Manifest : [r EXCEPT !.m = m] \in Process
         /\ \A i \in ID \cup {NoID} : [r EXCEPT !.nid = i] \in Process
         /\ \A d \in Desc \cup {None} : [r EXCEPT !.cdesc = d] \in Process
         /\ \A x \in SUBSET NLBService : [r EXCEPT !.prune = x] \in Process
         /\ \A t \in SUBSET Task : [r EXCEPT !.todo = t] \in Process /\ [r EXCEPT !.doing = t] \in Process
         /\ \A b \in BOOLEAN : [r EXCEPT !.last = b] \in Process
         /\ \A e \in {"unfinal", "forget"} : [r EXCEPT !.end = e] \in Process
  BY DEF Process

(* So do the fields of a Service object that are patched. *)
LEMMA ObjectFields ==
  ASSUME NEW f \in [Service -> Object], NEW s \in Service
  PROVE  /\ \A m \in Manifest : [f EXCEPT ![s].m = m] \in [Service -> Object]
         /\ \A i \in ID \cup {NoID} : [f EXCEPT ![s].m.id = i] \in [Service -> Object]
         /\ \A q \in Pool \cup {None} : [f EXCEPT ![s].m.pool = q] \in [Service -> Object]
<1>1. \A m \in Manifest : [f EXCEPT ![s].m = m] \in [Service -> Object] BY DEF Object
<1>2. f[s].m \in Manifest BY DEF Object
<1>3. ASSUME NEW i \in ID \cup {NoID} PROVE [f EXCEPT ![s].m.id = i] \in [Service -> Object]
  <2>1. [f[s].m EXCEPT !.id = i] \in Manifest BY <1>2 DEF Manifest
  <2>2. [f EXCEPT ![s].m.id = i] = [f EXCEPT ![s].m = [f[s].m EXCEPT !.id = i]] OBVIOUS
  <2> QED BY <1>1, <2>1, <2>2
<1>4. ASSUME NEW q \in Pool \cup {None} PROVE [f EXCEPT ![s].m.pool = q] \in [Service -> Object]
  <2>1. [f[s].m EXCEPT !.pool = q] \in Manifest BY <1>2 DEF Manifest
  <2>2. [f EXCEPT ![s].m.pool = q] = [f EXCEPT ![s].m = [f[s].m EXCEPT !.pool = q]] OBVIOUS
  <2> QED BY <1>1, <2>1, <2>2
<1> QED BY <1>1, <1>3, <1>4

-----------------------------------------------------------------------------
(* The two processes of a Service. *)
LEMMA Processes ==
  /\ \A s \in Service : <<s, "svc">> \in Proc /\ <<s, "node">> \in Proc
  /\ \A p \in Proc : p[1] \in Service
  BY DEF Proc

(* A step of one process leaves every process well typed. *)
LEMMA GotoType ==
  ASSUME ProcOK, NEW p \in Proc, NEW r \in Process, Goto(p, r)
  PROVE  ProcOK'
  BY DEF ProcOK, Goto

(* An error ends the call and may queue the Service again. *)
LEMMA FailType ==
  ASSUME ProcOK, NEW p \in Proc, Fail(p)
  PROVE  ProcOK'
  BY Defaults, Processes DEF ProcOK, Fail

(* A read call of a process keeps the types, provided that its result does. *)
LEMMA ReadType ==
  ASSUME ProcOK, faults \in Nat, NEW p \in Proc, NEW ok \in BOOLEAN, NEW r,
         ok => r \in Process, Read(p, ok, r)
  PROVE  ProcOK' /\ faults' \in Nat
  BY GotoType, FailType DEF Read, Fault

(* So does a call that writes. *)
LEMMA WriteType ==
  ASSUME ProcOK, faults \in Nat, nlb \in [ID -> NLB], NEW p \in Proc, NEW ok \in BOOLEAN,
         NEW c, NEW r, ok => c \in [ID -> NLB] /\ r \in Process, Write(p, ok, c, r)
  PROVE  ProcOK' /\ faults' \in Nat /\ nlb' \in [ID -> NLB]
  BY GotoType, FailType DEF Write, Fault

(* So does the patch of an annotation. *)
LEMMA PatchType ==
  ASSUME ProcOK, KubeOK, faults \in Nat, NEW s \in Service, NEW found \in BOOLEAN, NEW n, NEW a, NEW r,
         found => /\ n \in Manifest /\ r \in Process
                  /\ Exists(s) => a \in [Service -> Object],
         PatchAnnotation(s, found, n, a, r), UNCHANGED lister
  PROVE  ProcOK' /\ KubeOK' /\ faults' \in Nat
<1> DEFINE p == <<s, "svc">>
<1>0. p \in Proc BY Processes
<1>1. \A m \in Manifest : [cache EXCEPT ![s].m = m] \in [Service -> Object]
  BY DEF KubeOK, Object
<1>2. CASE found /\ n = proc[p].m /\ Goto(p, r) /\ UNCHANGED <<api, cache, faults>>
  BY <1>0, <1>2, GotoType DEF KubeOK
<1>3. CASE /\ found /\ n # proc[p].m /\ Exists(s) /\ cache' = [cache EXCEPT ![s].m = n] /\ api' = a
           /\ \/ Goto(p, r) /\ UNCHANGED faults
              \/ Fail(p) /\ Fault(p)
  BY <1>0, <1>1, <1>3, GotoType, FailType DEF KubeOK, Fault
<1>4. CASE /\ found /\ n # proc[p].m /\ cache' = [cache EXCEPT ![s].m = n] /\ UNCHANGED api
           /\ Fail(p) /\ IF Exists(s) THEN Fault(p) ELSE UNCHANGED faults
  BY <1>0, <1>1, <1>4, FailType DEF KubeOK, Fault
<1>5. CASE /\ Fail(p) /\ IF found THEN Fault(p) ELSE UNCHANGED faults
           /\ UNCHANGED <<api, cache>>
  BY <1>0, <1>5, FailType DEF KubeOK, Fault
<1> QED BY <1>2, <1>3, <1>4, <1>5 DEF PatchAnnotation

-----------------------------------------------------------------------------
(* Where a process continues is a control point. *)
LEMMA NextPC ==
  /\ \A m : AfterResolve(m) \in PC /\ AfterFinal(m) \in PC
  /\ \A x, t : LoopPC(x, t) \in PC
  /\ \A r \in Process : AfterPrune(r) \in PC /\ r.end \in PC
<1>1. \A m : AfterResolve(m) \in PC BY DEF AfterResolve, PC
<1>2. \A m : AfterFinal(m) \in PC BY <1>1 DEF AfterFinal, PC
<1>3. \A x, t : LoopPC(x, t) \in PC BY DEF LoopPC, PC
<1>4. \A r \in Process : AfterPrune(r) \in PC /\ r.end \in PC BY DEF AfterPrune, PC, Process
<1> QED BY <1>1, <1>2, <1>3, <1>4

(* What the two loops of updateLoadBalancer plan is well typed. *)
LEMMA PlanType ==
  ASSUME NEW s \in Service, NEW m \in Manifest, NEW cur \in NLB
  PROVE  Stale(m, cur) \subseteq NLBService /\ Tasks(s, m, cur) \subseteq Task
<1>1. Stale(m, cur) \subseteq NLBService BY DEF Stale, NLB
<1>2. Wanted(s, m) \subseteq Want BY DEF Wanted, Want, Manifest
<1>3. \A x \in cur.svcs : x.sid \in SID BY DEF NLB, NLBService
<1>4. Tasks(s, m, cur) \subseteq Task BY <1>2, <1>3 DEF Tasks, Task
<1> QED BY <1>1, <1>4

(* The calls that change NLB services leave a well typed cloud. *)
LEMMA CloudCalls ==
  ASSUME nlb \in [ID -> NLB], lastSid \in 0 .. MaxSid, NEW i \in ID
  PROVE  /\ \A sid : Without(i, sid) \in [ID -> NLB]
         /\ \A w \in Want : lastSid < MaxSid => With(i, w) \in [ID -> NLB]
         /\ \A sid, w : w \in Want => Updated(i, sid, w) \in [ID -> NLB]
<1>0. \A X \in SUBSET NLBService : [nlb EXCEPT ![i].svcs = X] \in [ID -> NLB] BY DEF NLB
<1>1. nlb[i].svcs \subseteq NLBService BY DEF NLB
<1>2. \A sid : Without(i, sid) \in [ID -> NLB] BY <1>0, <1>1 DEF Without
<1>3. ASSUME NEW w \in Want, lastSid < MaxSid PROVE With(i, w) \in [ID -> NLB]
  <2>1. lastSid + 1 \in SID BY <1>3, BoundsAssumption DEF SID
  <2>2. [sid |-> lastSid + 1, key |-> w.key, own |-> w.own, pool |-> w.pool, cfg |-> w.cfg] \in NLBService
    BY <2>1 DEF NLBService, Want
  <2> QED BY <1>0, <1>1, <2>2 DEF With
<1>4. ASSUME NEW sid, NEW w \in Want PROVE Updated(i, sid, w) \in [ID -> NLB]
  <2>1. \A x \in NLBService : [x EXCEPT !.own = w.own, !.cfg = w.cfg] \in NLBService
    BY DEF NLBService, Want
  <2> DEFINE X == {IF x.sid = sid THEN [x EXCEPT !.own = w.own, !.cfg = w.cfg] ELSE x
                     : x \in nlb[i].svcs}
  <2>2. X \in SUBSET NLBService BY <1>1, <2>1
  <2>3. Updated(i, sid, w) = [nlb EXCEPT ![i].svcs = X] BY DEF Updated
  <2> QED BY <1>0, <2>2, <2>3
<1> QED BY <1>2, <1>3, <1>4

-----------------------------------------------------------------------------
(* The steps of EnsureLoadBalancer keep the types. *)
LEMMA EnsureType ==
  ASSUME TypeOK, NEW s \in Service,
         \/ AddFinalizer(s) \/ ResolveExternal(s) \/ InferPool(s) \/ Fetch(s)
         \/ CreateLoadBalancer(s) \/ AdoptLoadBalancer(s) \/ EnsureReturns(s)
  PROVE  TypeOK'
<1> DEFINE p == <<s, "svc">>
<1>0. p \in Proc /\ proc[p] \in Process /\ proc[p].m \in Manifest
  BY Processes DEF TypeOK, Process
<1>t. KubeOK /\ ProcOK /\ CloudOK /\ RestOK BY TypeParts
<1>f. \A q : Fault(q) => faults' \in Nat BY <1>t DEF Fault, RestOK
<1> USE DEF cloud, budget
<1>1. CASE AddFinalizer(s)
  <2>1. [proc[p] EXCEPT !.pc = AfterFinal(proc[p].m)] \in Process BY <1>0, ProcessFields, NextPC
  <2>2. [api EXCEPT ![s].fin = TRUE] \in [Service -> Object] BY <1>t DEF KubeOK, Object
  <2>3. KubeOK' BY <1>1, <1>t, <2>2 DEF AddFinalizer, KubeOK
  <2>4. ProcOK' BY <1>0, <1>1, <1>t, <2>1, GotoType, FailType DEF AddFinalizer
  <2>5. CloudOK' /\ RestOK' BY <1>1, <1>t, <1>f DEF AddFinalizer, CloudOK, RestOK
  <2> QED BY <2>3, <2>4, <2>5, TypeParts
<1>2. CASE ResolveExternal(s)
  <2>0. PICK found \in BOOLEAN, i \in ID \cup {NoID} :
          LET n == [proc[p].m EXCEPT !.id = i]
          IN  PatchAnnotation(s, found, n, [api EXCEPT ![s].m.id = i],
                              [proc[p] EXCEPT !.m = n, !.pc = AfterResolve(n)])
    BY <1>2 DEF ResolveExternal
  <2> DEFINE n == [proc[p].m EXCEPT !.id = i]
  <2>1. n \in Manifest BY <1>0 DEF Manifest
  <2>2. [proc[p] EXCEPT !.m = n, !.pc = AfterResolve(n)] \in Process
    BY <1>0, <2>1, NextPC DEF Process
  <2>3. [api EXCEPT ![s].m.id = i] \in [Service -> Object]
    BY <1>t, ObjectFields DEF KubeOK
  <2>4. UNCHANGED <<lister, cloud, cluster, budget>> BY <1>2 DEF ResolveExternal
  <2>5. ProcOK' /\ KubeOK' /\ faults' \in Nat
    BY <1>t, <2>0, <2>1, <2>2, <2>3, <2>4, PatchType DEF RestOK
  <2>6. CloudOK' /\ RestOK' BY <1>t, <2>4, <2>5 DEF CloudOK, RestOK
  <2> QED BY <2>5, <2>6, TypeParts
<1>3. CASE InferPool(s)
  <2>0. PICK found \in BOOLEAN, q \in Pool \cup {None} :
          LET n == [proc[p].m EXCEPT !.pool = q]
          IN  PatchAnnotation(s, found, n, [api EXCEPT ![s].m.pool = q],
                              [proc[p] EXCEPT !.m = n, !.pc = "fetch"])
    BY <1>3 DEF InferPool
  <2> DEFINE n == [proc[p].m EXCEPT !.pool = q]
  <2>1. n \in Manifest BY <1>0 DEF Manifest
  <2>2. [proc[p] EXCEPT !.m = n, !.pc = "fetch"] \in Process
    BY <1>0, <2>1 DEF Process, PC
  <2>3. [api EXCEPT ![s].m.pool = q] \in [Service -> Object]
    BY <1>t, ObjectFields DEF KubeOK
  <2>4. UNCHANGED <<lister, cloud, cluster, budget>> BY <1>3 DEF InferPool
  <2>5. ProcOK' /\ KubeOK' /\ faults' \in Nat
    BY <1>t, <2>0, <2>1, <2>2, <2>3, <2>4, PatchType DEF RestOK
  <2>6. CloudOK' /\ RestOK' BY <1>t, <2>4, <2>5 DEF CloudOK, RestOK
  <2> QED BY <2>5, <2>6, TypeParts
<1>4. CASE Fetch(s)
  <2> DEFINE pc == IF Live(proc[p].m.id) THEN "get" ELSE "create"
  <2>1. [proc[p] EXCEPT !.pc = pc] \in Process BY <1>0, ProcessFields DEF PC
  <2>2. ProcOK' /\ faults' \in Nat
    BY <1>0, <1>4, <1>t, <2>1, ReadType DEF Fetch, RestOK
  <2>3. KubeOK' /\ CloudOK' /\ RestOK' BY <1>4, <1>t, <2>2 DEF Fetch, KubeOK, CloudOK, RestOK
  <2> QED BY <2>2, <2>3, TypeParts
<1>5. CASE CreateLoadBalancer(s)
  <2> DEFINE i == lastNLB + 1
             n == [live |-> TRUE, name |-> GetLoadBalancerName(s, proc[p].m),
                   desc |-> proc[p].m.desc, svcs |-> {}]
  <2>0. i \in ID /\ i \in 0 .. MaxNLB
    BY <1>5, <1>t, BoundsAssumption DEF CreateLoadBalancer, CloudOK, ID
  <2>1. n \in NLB BY <1>0 DEF NLB, NLBName, GetLoadBalancerName, Manifest
  <2>2. [nlb EXCEPT ![i] = n] \in [ID -> NLB] BY <1>t, <2>0, <2>1 DEF CloudOK
  <2>3. [proc[p] EXCEPT !.pc = "adopt", !.nid = i] \in Process BY <1>0, <2>0 DEF Process, PC
  <2>4. Write(p, TRUE, [nlb EXCEPT ![i] = n], [proc[p] EXCEPT !.pc = "adopt", !.nid = i])
    BY <1>5 DEF CreateLoadBalancer
  <2>5. ProcOK' /\ faults' \in Nat /\ nlb' \in [ID -> NLB]
    BY <1>0, <1>t, <2>2, <2>3, <2>4, WriteType DEF RestOK, CloudOK
  <2>6. CloudOK' BY <1>5, <1>t, <2>0, <2>5 DEF CreateLoadBalancer, CloudOK
  <2>7. KubeOK' /\ RestOK' BY <1>5, <1>t, <2>5 DEF CreateLoadBalancer, KubeOK, RestOK
  <2> QED BY <2>5, <2>6, <2>7, TypeParts
<1>6. CASE AdoptLoadBalancer(s)
  <2> DEFINE i == proc[p].nid
             n == [proc[p].m EXCEPT !.id = i]
             r == [proc[p] EXCEPT !.m = n, !.nid = NoID, !.pc = "get"]
  <2>0. i \in ID \cup {NoID} BY <1>0 DEF Process
  <2>1. n \in Manifest BY <1>0, <2>0 DEF Manifest
  <2>2. r \in Process BY <1>0, <2>1 DEF Process, PC
  <2>3. [api EXCEPT ![s].m.id = i] \in [Service -> Object]
    BY <1>t, <2>0, ObjectFields DEF KubeOK
  <2>4. /\ PatchAnnotation(s, Live(i), n, [api EXCEPT ![s].m.id = i], r)
        /\ UNCHANGED <<lister, cloud, cluster, budget>>
    BY <1>6 DEF AdoptLoadBalancer
  <2>l. Live(i) \in BOOLEAN BY DEF Live
  <2> HIDE DEF r, n, i
  <2>5. ProcOK' /\ KubeOK' /\ faults' \in Nat
    BY <1>t, <2>l, <2>1, <2>2, <2>3, <2>4, PatchType DEF RestOK
  <2>6. CloudOK' /\ RestOK' BY <1>t, <2>4, <2>5 DEF CloudOK, RestOK
  <2> QED BY <2>5, <2>6, TypeParts
<1>7. CASE EnsureReturns(s)
  <2>1. proc[p].m.id \in ID \cup {NoID} BY <1>0 DEF Manifest
  <2>2. [api EXCEPT ![s].ip = proc[p].m.id] \in [Service -> Object]
    BY <1>t, <2>1 DEF KubeOK, Object
  <2>3. KubeOK' BY <1>7, <1>t, <2>2 DEF EnsureReturns, KubeOK
  <2>4. ProcOK' BY <1>0, <1>7, <1>t, Defaults, GotoType, FailType DEF EnsureReturns
  <2>5. CloudOK' /\ RestOK' BY <1>7, <1>t, <1>f DEF EnsureReturns, CloudOK, RestOK
  <2> QED BY <2>3, <2>4, <2>5, TypeParts
<1> QED BY <1>1, <1>2, <1>3, <1>4, <1>5, <1>6, <1>7

(* The steps of updateLoadBalancer keep the types. *)
LEMMA UpdateType ==
  ASSUME TypeOK, NEW p \in Proc, UpdateStep(p)
  PROVE  TypeOK'
<1> DEFINE i == proc[p].m.id
<1>0. proc[p] \in Process /\ proc[p].m \in Manifest BY DEF TypeOK, Process
<1>t. KubeOK /\ ProcOK /\ CloudOK /\ RestOK BY TypeParts
<1>k. KubeOK' /\ lastNLB' = lastNLB /\ UNCHANGED <<cluster, budget>>
  BY <1>t DEF UpdateStep, GetCurrent, UpdateTopLevel, PruneService, ApplyService,
       ReaddService, VerifyService, KubeOK, cloud
<1>q. ASSUME ProcOK' /\ CloudOK' /\ faults' \in Nat PROVE TypeOK'
  BY <1>q, <1>k, <1>t, TypeParts DEF RestOK, budget
<1>l. Live(i) => i \in ID BY DEF Live
<1>b. Live(i) \in BOOLEAN /\ \A sid : Has(i, sid) \in BOOLEAN /\ (Has(i, sid) => i \in ID)
  BY DEF Live, Has
<1>1. CASE GetCurrent(p)
  <2> DEFINE cur == nlb[i]
             prune == Stale(proc[p].m, cur)
             todo == Tasks(p[1], proc[p].m, cur)
             pc == IF ~proc[p].m.ext /\ isLoadBalancerUpdated(p[1], proc[p].m, cur)
                   THEN "top" ELSE LoopPC(prune, todo)
             ok == Parses(proc[p].m) /\ Live(i)
             r == [proc[p] EXCEPT !.prune = prune, !.todo = todo, !.cdesc = cur.desc, !.pc = pc]
  <2>1. pc \in PC BY NextPC DEF PC
  <2>2. ASSUME ok PROVE r \in Process
    <3>1. cur \in NLB BY <1>t, <1>l, <2>2 DEF CloudOK
    <3>2. prune \subseteq NLBService /\ todo \subseteq Task BY <3>1, <1>0, PlanType, Processes
    <3>3. cur.desc \in Desc \cup {None} BY <3>1 DEF NLB
    <3> HIDE DEF prune, todo, cur, pc
    <3> QED BY <1>0, <2>1, <3>2, <3>3 DEF Process
  <2>3. Read(p, ok, r) /\ UNCHANGED cloud BY <1>1 DEF GetCurrent
  <2>4. ok \in BOOLEAN OBVIOUS
  <2> HIDE DEF ok, r
  <2>5. ProcOK' /\ faults' \in Nat BY <1>t, <2>2, <2>3, <2>4, ReadType DEF RestOK
  <2>6. CloudOK' BY <2>3, <1>t DEF CloudOK, cloud
  <2> QED BY <1>q, <2>5, <2>6
<1>w. ASSUME NEW ok \in BOOLEAN, NEW c, NEW r, ok => c \in [ID -> NLB] /\ r \in Process,
             Write(p, ok, c, r), lastSid' \in 0 .. MaxSid
      PROVE  TypeOK'
  BY <1>w, <1>q, <1>k, <1>t, WriteType DEF RestOK, CloudOK
<1>s. lastSid' = lastSid => lastSid' \in 0 .. MaxSid BY <1>t DEF CloudOK
<1>2. CASE UpdateTopLevel(p)
  <2> DEFINE c == [nlb EXCEPT ![i].name = GetLoadBalancerName(p[1], proc[p].m),
                              ![i].desc = proc[p].cdesc]
             r == [proc[p] EXCEPT !.pc = LoopPC(proc[p].prune, proc[p].todo)]
  <2>1. Write(p, Live(i), c, r) /\ lastSid' = lastSid BY <1>2 DEF UpdateTopLevel
  <2>2. GetLoadBalancerName(p[1], proc[p].m) \in NLBName
    BY <1>0, Processes DEF GetLoadBalancerName, NLBName, Manifest
  <2>3. proc[p].cdesc \in Desc \cup {None} BY <1>0 DEF Process
  <2>4. ASSUME Live(i) PROVE c \in [ID -> NLB]
    BY <1>t, <1>l, <2>2, <2>3, <2>4 DEF CloudOK, NLB
  <2>5. r \in Process BY <1>0, NextPC, ProcessFields
  <2> HIDE DEF c, r
  <2> QED BY <1>w, <1>s, <1>b, <2>1, <2>4, <2>5
<1>3. CASE PruneService(p)
  <2>0. PICK x \in proc[p].prune :
          LET rest == proc[p].prune \ {x}
          IN  Write(p, Has(i, x.sid), Without(i, x.sid),
                    [proc[p] EXCEPT !.prune = rest, !.pc = LoopPC(rest, proc[p].todo)])
    BY <1>3 DEF PruneService
  <2> DEFINE rest == proc[p].prune \ {x}
             r == [proc[p] EXCEPT !.prune = rest, !.pc = LoopPC(rest, proc[p].todo)]
  <2>1. r \in Process BY <1>0, NextPC DEF Process
  <2>2. Has(i, x.sid) => Without(i, x.sid) \in [ID -> NLB] BY <1>b, <1>t, CloudCalls DEF CloudOK
  <2>3. lastSid' = lastSid BY <1>3 DEF PruneService
  <2>4. Write(p, Has(i, x.sid), Without(i, x.sid), r) BY <2>0
  <2> HIDE DEF r
  <2> QED BY <1>w, <1>s, <1>b, <2>1, <2>2, <2>3, <2>4
<1>4. ASSUME NEW t \in Task, AddService(p, t) PROVE TypeOK'
  <2> DEFINE r == [proc[p] EXCEPT !.todo = @ \ {t}, !.doing = {t}, !.pc = "verify"]
             ok == CanAdd(i, t.want)
             c == With(i, t.want)
  <2>1. r \in Process BY <1>0 DEF Process, PC
  <2>2. ok \in BOOLEAN /\ (ok => i \in ID) BY <1>l DEF CanAdd
  <2>3. t.want \in Want BY DEF Task
  <2>4. lastSid < MaxSid BY <1>4 DEF AddService
  <2>5. ok => c \in [ID -> NLB] BY <1>t, <2>2, <2>3, <2>4, CloudCalls DEF CloudOK
  <2>6. lastSid' \in 0 .. MaxSid BY <1>4, <1>t, <2>4, BoundsAssumption DEF AddService, CloudOK
  <2>7. Write(p, ok, c, r) BY <1>4 DEF AddService
  <2> HIDE DEF r, ok, c
  <2> QED BY <1>w, <2>1, <2>2, <2>5, <2>6, <2>7
<1>5. CASE ApplyService(p)
  <2>0. PICK t \in proc[p].todo :
          LET rest == proc[p].todo \ {t}
          IN  \/ t.op = "add" /\ AddService(p, t)
              \/ /\ t.op = "replace" /\ UNCHANGED lastSid
                 /\ Write(p, Has(i, t.sid), Without(i, t.sid),
                          [proc[p] EXCEPT !.todo = rest, !.doing = {t}, !.pc = "readd"])
              \/ /\ t.op = "update" /\ UNCHANGED lastSid
                 /\ Write(p, Has(i, t.sid), Updated(i, t.sid, t.want),
                          [proc[p] EXCEPT !.todo = rest, !.pc = LoopPC({}, rest)])
    BY <1>5 DEF ApplyService
  <2>1. t \in Task /\ t.want \in Want BY <1>0 DEF Process, Task
  <2> DEFINE rest == proc[p].todo \ {t}
             r1 == [proc[p] EXCEPT !.todo = rest, !.doing = {t}, !.pc = "readd"]
             r2 == [proc[p] EXCEPT !.todo = rest, !.pc = LoopPC({}, rest)]
  <2>2. r1 \in Process BY <1>0, <2>1 DEF Process, PC
  <2>3. r2 \in Process BY <1>0, NextPC DEF Process
  <2>4. Has(i, t.sid) => /\ Without(i, t.sid) \in [ID -> NLB]
                         /\ Updated(i, t.sid, t.want) \in [ID -> NLB]
    BY <1>b, <1>t, <2>1, CloudCalls DEF CloudOK
  <2>5. \/ AddService(p, t)
        \/ UNCHANGED lastSid /\ Write(p, Has(i, t.sid), Without(i, t.sid), r1)
        \/ UNCHANGED lastSid /\ Write(p, Has(i, t.sid), Updated(i, t.sid, t.want), r2)
    BY <2>0
  <2> HIDE DEF r1, r2
  <2>6. CASE AddService(p, t) BY <1>4, <2>1, <2>6
  <2>7. CASE UNCHANGED lastSid /\ Write(p, Has(i, t.sid), Without(i, t.sid), r1)
    BY <1>w, <1>s, <1>b, <2>2, <2>4, <2>7
  <2>8. CASE UNCHANGED lastSid /\ Write(p, Has(i, t.sid), Updated(i, t.sid, t.want), r2)
    BY <1>w, <1>s, <1>b, <2>3, <2>4, <2>8
  <2> QED BY <2>5, <2>6, <2>7, <2>8
<1>6. CASE ReaddService(p)
  <2>1. PICK t \in proc[p].doing : AddService(p, t) BY <1>6 DEF ReaddService
  <2>2. t \in Task BY <1>0 DEF Process
  <2> QED BY <1>4, <2>1, <2>2
<1>7. CASE VerifyService(p)
  <2>0. PICK t \in proc[p].doing :
          Read(p,
               /\ Live(i)
               /\ \E x \in nlb[i].svcs : x.key = t.want.key /\ x.own = t.want.own,
               [proc[p] EXCEPT !.doing = {}, !.pc = LoopPC({}, proc[p].todo)])
    BY <1>7 DEF VerifyService
  <2> DEFINE ok == Live(i) /\ \E x \in nlb[i].svcs : x.key = t.want.key /\ x.own = t.want.own
             r == [proc[p] EXCEPT !.doing = {}, !.pc = LoopPC({}, proc[p].todo)]
  <2>1. r \in Process BY <1>0, NextPC DEF Process
  <2>2. ok \in BOOLEAN /\ Read(p, ok, r) BY <2>0
  <2> HIDE DEF ok, r
  <2>3. ProcOK' /\ faults' \in Nat BY <1>t, <2>1, <2>2, ReadType DEF RestOK
  <2>4. CloudOK' BY <1>7, <1>t DEF VerifyService, CloudOK, cloud
  <2> QED BY <1>q, <2>3, <2>4
<1> QED BY <1>1, <1>2, <1>3, <1>5, <1>6, <1>7 DEF UpdateStep

(* The steps of EnsureLoadBalancerDeleted, and of the service controller    *)
(* around it, keep the types.                                               *)
LEMMA DeleteType ==
  ASSUME TypeOK, NEW s \in Service,
         \/ GetLoadBalancer(s) \/ DeleteFetch(s) \/ DeleteServices(s)
         \/ DeleteLoadBalancer(s) \/ RemoveFinalizer(s) \/ ForgetService(s)
  PROVE  TypeOK'
<1> DEFINE p == <<s, "svc">>
           i == proc[p].m.id
<1>0. p \in Proc /\ proc[p] \in Process BY Processes DEF TypeOK
<1>t. KubeOK /\ ProcOK /\ CloudOK /\ RestOK BY TypeParts
<1>f. \A q : Fault(q) => faults' \in Nat BY <1>t DEF Fault, RestOK
<1>b. /\ Live(i) \in BOOLEAN /\ (Live(i) => i \in ID)
      /\ \A sid : Has(i, sid) \in BOOLEAN /\ (Has(i, sid) => i \in ID)
  BY DEF Live, Has
<1> HIDE DEF i
<1>r. ASSUME NEW r \in Process, Read(p, TRUE, r),
             UNCHANGED <<api, lister, cache, cloud, cluster, budget>>
      PROVE  TypeOK'
  <2>1. ProcOK' /\ faults' \in Nat BY <1>r, <1>0, <1>t, ReadType DEF RestOK
  <2> QED BY <1>r, <1>t, <2>1, TypeParts DEF KubeOK, CloudOK, RestOK, cloud, budget
<1>w. ASSUME NEW ok \in BOOLEAN, NEW c, NEW r \in Process, ok => c \in [ID -> NLB],
             Write(p, ok, c, r),
             UNCHANGED <<api, lister, cache, lastNLB, lastSid, cluster, budget>>
      PROVE  TypeOK'
  <2>1. ProcOK' /\ faults' \in Nat /\ nlb' \in [ID -> NLB]
    BY <1>w, <1>0, <1>t, WriteType DEF RestOK, CloudOK
  <2> QED BY <1>w, <1>t, <2>1, TypeParts DEF KubeOK, CloudOK, RestOK, budget
<1>1. CASE GetLoadBalancer(s)
  <2> DEFINE pc == IF Live(i) THEN "delfetch" ELSE "unfinal"
  <2>1. [proc[p] EXCEPT !.pc = pc] \in Process BY <1>0, ProcessFields DEF PC
  <2> QED BY <1>1, <1>r, <2>1 DEF GetLoadBalancer, i
<1>2. CASE DeleteFetch(s)
  <2> DEFINE mine == {x \in nlb[i].svcs : x.key \in proc[p].m.ports}
             r0 == [proc[p] EXCEPT !.prune = mine, !.last = (mine = nlb[i].svcs)]
             r == IF ~Live(i) THEN [proc[p] EXCEPT !.pc = proc[p].end]
                  ELSE [r0 EXCEPT !.pc = IF mine # {} THEN "delprune" ELSE AfterPrune(r0)]
  <2>1. ASSUME Live(i) PROVE r0 \in Process
    <3>1. mine \subseteq NLBService BY <1>t, <1>b, <2>1 DEF CloudOK, NLB
    <3>2. (mine = nlb[i].svcs) \in BOOLEAN OBVIOUS
    <3> QED BY <1>0, <3>1, <3>2 DEF Process
  <2>2. r \in Process
    <3>1. CASE ~Live(i) BY <1>0, <3>1, NextPC, ProcessFields
    <3>2. CASE Live(i)
      <4>1. r0 \in Process BY <2>1, <3>2
      <4> HIDE DEF mine, r0
      <4>2. (IF mine # {} THEN "delprune" ELSE AfterPrune(r0)) \in PC BY <4>1, NextPC DEF PC
      <4> QED BY <3>2, <4>1, <4>2, ProcessFields
    <3> QED BY <3>1, <3>2
  <2>3. Read(p, TRUE, r) /\ UNCHANGED <<api, lister, cache, cloud, cluster, budget>>
    BY <1>2 DEF DeleteFetch, i
  <2> HIDE DEF r
  <2> QED BY <1>r, <2>2, <2>3
<1>3. CASE DeleteServices(s)
  <2>0. PICK x \in proc[p].prune :
          LET rest == proc[p].prune \ {x}
          IN  Write(p, Has(i, x.sid), Without(i, x.sid),
                    [proc[p] EXCEPT !.prune = rest,
                       !.pc = IF rest # {} THEN "delprune" ELSE AfterPrune(proc[p])])
    BY <1>3 DEF DeleteServices, i
  <2> DEFINE rest == proc[p].prune \ {x}
             pc == IF rest # {} THEN "delprune" ELSE AfterPrune(proc[p])
             r == [proc[p] EXCEPT !.prune = rest, !.pc = pc]
  <2>1. pc \in PC BY <1>0, NextPC DEF PC
  <2>2. r \in Process
    <3> HIDE DEF pc
    <3> QED BY <1>0, <2>1 DEF Process
  <2>3. Has(i, x.sid) => Without(i, x.sid) \in [ID -> NLB] BY <1>b, <1>t, CloudCalls DEF CloudOK
  <2>4. /\ Write(p, Has(i, x.sid), Without(i, x.sid), r)
        /\ UNCHANGED <<api, lister, cache, lastNLB, lastSid, cluster, budget>>
    BY <1>3, <2>0 DEF DeleteServices
  <2> HIDE DEF r
  <2> QED BY <1>w, <1>b, <2>2, <2>3, <2>4
<1>4. CASE DeleteLoadBalancer(s)
  <2>1. [proc[p] EXCEPT !.pc = proc[p].end] \in Process BY <1>0, NextPC, ProcessFields
  <2>2. Live(i) => [nlb EXCEPT ![i] = NoNLB] \in [ID -> NLB] BY <1>b, <1>t, Defaults DEF CloudOK
  <2> QED BY <1>4, <1>w, <1>b, <2>1, <2>2 DEF DeleteLoadBalancer, i
<1>5. CASE RemoveFinalizer(s)
  <2> DEFINE freed == IF ~cache[s].fin THEN api[s]
                      ELSE IF api[s].phase = "deleting"
                           THEN [NoObject EXCEPT !.phase = "gone"]
                           ELSE [api[s] EXCEPT !.fin = FALSE]
             done == [freed EXCEPT !.ip = IF cache[s].ip # NoID THEN NoID ELSE @]
  <2>1. freed \in Object BY <1>t, Defaults DEF KubeOK, Object
  <2>2. done \in Object
    <3> HIDE DEF freed
    <3> QED BY <2>1 DEF Object
  <2>3. /\ \/ api' = [api EXCEPT ![s] = done] \/ api' = api \/ api' = [api EXCEPT ![s] = freed]
        /\ cache' = [cache EXCEPT ![s] = NoObject] \/ cache' = cache
        /\ Goto(p, Idle) \/ Fail(p)
        /\ Fault(p) \/ UNCHANGED faults
        /\ UNCHANGED <<lister, cloud, cluster, budget>>
    BY <1>5 DEF RemoveFinalizer
  <2> HIDE DEF freed, done
  <2>4. KubeOK' BY <1>t, <2>1, <2>2, <2>3, Defaults DEF KubeOK
  <2>5. ProcOK' BY <1>0, <1>t, <2>3, Defaults, GotoType, FailType
  <2>6. CloudOK' /\ RestOK' BY <1>t, <1>f, <2>3 DEF CloudOK, RestOK, cloud, budget
  <2> QED BY <2>4, <2>5, <2>6, TypeParts
<1>6. CASE ForgetService(s)
  <2>1. KubeOK' BY <1>6, <1>t, Defaults DEF ForgetService, KubeOK
  <2>2. ProcOK' BY <1>0, <1>6, <1>t, Defaults, GotoType DEF ForgetService
  <2>3. CloudOK' /\ RestOK' BY <1>6, <1>t DEF ForgetService, CloudOK, RestOK, cloud, budget
  <2> QED BY <2>1, <2>2, <2>3, TypeParts
<1> QED BY <1>1, <1>2, <1>3, <1>4, <1>5, <1>6

(* The service controller's queue, informer and node sync keep the types. *)
LEMMA ControllerType ==
  ASSUME TypeOK, NEW s \in Service,
         SyncService(s) \/ Deliver(s) \/ NodeSync(s) \/ NodeSyncReturns(s)
  PROVE  TypeOK'
<1>0. <<s, "svc">> \in Proc /\ <<s, "node">> \in Proc BY Processes
<1>t. KubeOK /\ ProcOK /\ CloudOK /\ RestOK BY TypeParts
<1>o. lister[s].m \in Manifest /\ cache[s].m \in Manifest BY <1>t DEF KubeOK, Object
<1>1. CASE SyncService(s)
  <2> DEFINE p == <<s, "svc">>
  <2>1. \A pc \in PC : [Idle EXCEPT !.pc = pc, !.m = lister[s].m] \in Process
    BY <1>o, Defaults DEF Process
  <2>2. \A pc \in PC : [Idle EXCEPT !.m = cache[s].m, !.end = "forget", !.pc = pc] \in Process
    BY <1>o, Defaults DEF Process
  <2>3. \E r \in Process : proc' = [proc EXCEPT ![p] = r]
    <3>1. CASE lister[s].phase \in {"live", "deleting"}
      <4> DEFINE pc == IF ~lister[s].m.lb \/ (lister[s].fin /\ lister[s].phase = "deleting")
                       THEN "exists"
                       ELSE IF lister[s].fin THEN AfterFinal(lister[s].m) ELSE "final"
      <4>1. pc \in PC BY NextPC DEF PC
      <4>2. proc' = [proc EXCEPT ![p] = [Idle EXCEPT !.pc = pc, !.m = lister[s].m]]
        BY <1>1, <3>1 DEF SyncService
      <4> HIDE DEF pc
      <4> QED BY <2>1, <4>1, <4>2
    <3>2. CASE lister[s].phase \notin {"live", "deleting"}
      <4> DEFINE pc == IF cache[s].m.lb THEN "delfetch" ELSE "forget"
      <4>1. pc \in PC BY DEF PC
      <4>2. proc' = [proc EXCEPT ![p] =
              IF cache[s].phase = "none" THEN Idle
              ELSE [Idle EXCEPT !.m = cache[s].m, !.end = "forget", !.pc = pc]]
        BY <1>1, <3>2 DEF SyncService
      <4> HIDE DEF pc
      <4> QED BY <2>2, <4>1, <4>2, Defaults
    <3> QED BY <3>1, <3>2
  <2>4. ProcOK' BY <1>0, <1>1, <1>t, <2>3 DEF SyncService, ProcOK
  <2>5. KubeOK' BY <1>1, <1>t DEF SyncService, KubeOK
  <2>6. CloudOK' /\ RestOK' BY <1>1, <1>t DEF SyncService, CloudOK, RestOK, cloud, budget
  <2> QED BY <2>4, <2>5, <2>6, TypeParts
<1>2. CASE Deliver(s)
  BY <1>2, <1>t, TypeParts DEF Deliver, KubeOK, ProcOK, CloudOK, RestOK, cloud, budget
<1>3. CASE NodeSync(s)
  <2>1. [Idle EXCEPT !.pc = "get", !.m = cache[s].m] \in Process
    BY <1>o, Defaults DEF Process, PC
  <2>2. ProcOK' BY <1>0, <1>3, <1>t, <2>1, GotoType DEF NodeSync
  <2> QED BY <1>3, <1>t, <2>2, TypeParts DEF NodeSync, KubeOK, CloudOK, RestOK, cloud
<1>4. CASE NodeSyncReturns(s)
  <2>1. ProcOK' BY <1>0, <1>4, <1>t, Defaults, GotoType DEF NodeSyncReturns
  <2> QED BY <1>4, <1>t, <2>1, TypeParts
        DEF NodeSyncReturns, KubeOK, CloudOK, RestOK, cloud, budget
<1> QED BY <1>1, <1>2, <1>3, <1>4

(* Users, the cloud and restarts keep the types. *)
LEMMA EnvironmentType ==
  ASSUME TypeOK, Environment
  PROVE  TypeOK'
<1>t. KubeOK /\ ProcOK /\ CloudOK /\ RestOK BY TypeParts
<1>m. \A s \in Service : Manifests[s] \subseteq Manifest BY ConstantsAssumption
<1>1. ASSUME NEW s \in Service, UserCreates(s) PROVE TypeOK'
  <2>1. \A m \in Manifest : [NoObject EXCEPT !.phase = "live", !.m = m] \in Object
    BY Defaults DEF Object
  <2>2. PICK o \in Object : api' = [api EXCEPT ![s] = o] BY <1>1, <1>m, <2>1 DEF UserCreates
  <2>3. KubeOK' BY <1>1, <1>t, <2>2 DEF UserCreates, KubeOK
  <2> QED BY <1>1, <1>t, <2>3, TypeParts DEF UserCreates, ProcOK, CloudOK, RestOK, cloud, budget
<1>2. ASSUME NEW s \in Service, UserEdits(s) PROVE TypeOK'
  <2>1. PICK m \in Manifests[s] :
          api' = [api EXCEPT ![s].m =
                    [m EXCEPT !.id = IF m.id = NoID THEN api[s].m.id ELSE m.id,
                              !.pool = IF m.pool = None THEN api[s].m.pool ELSE m.pool]]
    BY <1>2 DEF UserEdits
  <2>2. m \in Manifest /\ api[s].m \in Manifest BY <1>m, <1>t DEF KubeOK, Object
  <2>3. [m EXCEPT !.id = IF m.id = NoID THEN api[s].m.id ELSE m.id,
                  !.pool = IF m.pool = None THEN api[s].m.pool ELSE m.pool] \in Manifest
    BY <2>2 DEF Manifest
  <2>4. KubeOK' BY <1>2, <1>t, <2>1, <2>3, ObjectFields DEF UserEdits, KubeOK
  <2> QED BY <1>2, <1>t, <2>4, TypeParts DEF UserEdits, ProcOK, CloudOK, RestOK, cloud
<1>3. ASSUME NEW s \in Service, UserDeletes(s) PROVE TypeOK'
  <2>1. /\ [api[s] EXCEPT !.phase = "deleting"] \in Object
        /\ [NoObject EXCEPT !.phase = "gone"] \in Object
    BY <1>t, Defaults DEF KubeOK, Object
  <2>2. PICK o \in Object : api' = [api EXCEPT ![s] = o] BY <1>3, <2>1 DEF UserDeletes
  <2>3. KubeOK' BY <1>3, <1>t, <2>2 DEF UserDeletes, KubeOK
  <2> QED BY <1>3, <1>t, <2>3, TypeParts DEF UserDeletes, ProcOK, CloudOK, RestOK, cloud
<1>4. CASE ClusterChanges
  BY <1>4, <1>t, TypeParts DEF ClusterChanges, KubeOK, ProcOK, CloudOK, RestOK, k8s, cloud
<1>5. CASE CloudDeletes
  <2>1. CloudOK' BY <1>5, <1>t, Defaults DEF CloudDeletes, CloudOK
  <2> QED BY <1>5, <1>t, <2>1, TypeParts DEF CloudDeletes, KubeOK, ProcOK, RestOK, k8s
<1>6. CASE Crash
  <2>1. KubeOK' BY <1>6, <1>t, Defaults DEF Crash, KubeOK
  <2>2. ProcOK' BY <1>6, Defaults DEF Crash, ProcOK
  <2> QED BY <1>6, <1>t, <2>1, <2>2, TypeParts DEF Crash, CloudOK, RestOK, cloud
<1>7. ASSUME NEW s \in Service, NodeSync(s) PROVE TypeOK'
  BY <1>7, ControllerType
<1> QED BY <1>1, <1>2, <1>3, <1>4, <1>5, <1>6, <1>7 DEF Environment

(* Every step of the system keeps the types. *)
LEMMA NextType == TypeOK /\ [Next]_vars => TypeOK'
<1> SUFFICES ASSUME TypeOK, [Next]_vars PROVE TypeOK' OBVIOUS
<1>1. ASSUME NEW s \in Service, ServiceStep(s) PROVE TypeOK'
  BY <1>1, EnsureType, DeleteType, UpdateType, Processes DEF ServiceStep
<1>2. ASSUME NEW s \in Service, NodeStep(s) PROVE TypeOK'
  BY <1>2, ControllerType, UpdateType, Processes DEF NodeStep
<1>3. ASSUME NEW s \in Service, SyncService(s) \/ Deliver(s) PROVE TypeOK'
  BY <1>3, ControllerType
<1>4. CASE Environment BY <1>4, EnvironmentType
<1>5. CASE UNCHANGED vars BY <1>5 DEF TypeOK, vars, k8s, cloud, budget
<1> QED BY <1>1, <1>2, <1>3, <1>4, <1>5 DEF Next

(* Every variable of the provider, of the service controller and of the     *)
(* cloud has its type: whatever fails, the plans that updateLoadBalancer    *)
(* carries from call to call stay plans for NLB services of this cluster,   *)
(* and the IDs handed out stay within their bounds.                         *)
THEOREM TypeCorrect == Spec => []TypeOK
  BY InitType, NextType, PTL DEF Spec

=============================================================================
