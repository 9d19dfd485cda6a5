--------------------------- MODULE ExternalProofs ---------------------------
(***************************************************************************)
(* The promise of the external annotation, proved for any number of        *)
(* Services, manifests, edits, failed calls and restarts: an NLB that only *)
(* external Services refer to is neither deleted nor renamed, and what is  *)
(* on it besides their ports stays.                                        *)
(*                                                                         *)
(* ExternalUntouched speaks of the cloud alone.  What makes it inductive   *)
(* is what every copy of a Service may say of such an NLB (the object, the *)
(* informer's, the controller's and the one a process works on), where a   *)
(* process may be with it, and that an NLB just created is none of them.   *)
(***************************************************************************)
EXTENDS StepProofs

(* What a copy m of Service s says of a protected NLB. *)
ManifestSafe(s, m) ==
  \A i \in ID : Protected(i) =>
    /\ AlwaysExternal(s) => m.ext \/ m.id # i
    /\ NeverOn(s, i) => ~m.ext /\ m.id # i

(* Where a process may be: it looks an NLB up by name only if it is         *)
(* external, updates or deletes an NLB only if it is not.                   *)
RecordSafe(p, r) ==
  /\ ManifestSafe(p[1], r.m)
  /\ r.pc = "resolve" => r.m.ext
  /\ r.pc \in {"top", "dellb"} => ~r.m.ext
  /\ r.nid \notin 1 .. Provisioned

(* A Service object; one that exists has one of its user's manifests. *)
ObjectSafe(s, o) ==
  /\ ManifestSafe(s, o.m)
  /\ AlwaysExternal(s) /\ o.phase \in {"live", "deleting"} => o.m.ext

(* The protected NLBs among n are as they were. *)
CloudSafe(n) ==
  \A i \in ID : Protected(i) =>
    n[i].live = Preset[i].live /\ n[i].name = Preset[i].name /\ n[i].desc = Preset[i].desc

KubeSafe ==
  \A s \in Service : /\ ObjectSafe(s, api[s])
                     /\ ObjectSafe(s, lister[s])
                     /\ ManifestSafe(s, cache[s].m)

ProcSafe == \A p \in Proc : RecordSafe(p, proc[p])

ExternalInv ==
  TypeOK /\ KubeSafe /\ ProcSafe /\ CloudSafe(nlb) /\ lastNLB >= Provisioned

-----------------------------------------------------------------------------
(* The default values are safe. *)
LEMMA SafeDefaults ==
  /\ \A s : ManifestSafe(s, NoManifest) /\ ObjectSafe(s, NoObject)
  /\ \A p : RecordSafe(p, Idle)
<1>1. \A s : ManifestSafe(s, NoManifest) BY DEF ManifestSafe, NoManifest, NoID, ID
<1>2. \A s : ObjectSafe(s, NoObject) BY <1>1 DEF ObjectSafe, NoObject
<1>3. \A p : RecordSafe(p, Idle) BY <1>1 DEF RecordSafe, Idle, NoID
<1> QED BY <1>1, <1>2, <1>3

(* Initially nothing refers to any NLB. *)
LEMMA InitExternal == Init => ExternalInv
<1> SUFFICES ASSUME Init PROVE ExternalInv OBVIOUS
<1>1. KubeSafe BY SafeDefaults DEF Init, KubeSafe, NoObject, ObjectSafe
<1>2. ProcSafe BY SafeDefaults DEF Init, ProcSafe
<1>3. CloudSafe(nlb) BY BoundsAssumption DEF Init, CloudSafe, Protected, ID
<1>4. lastNLB >= Provisioned BY BoundsAssumption DEF Init
<1> QED BY <1>1, <1>2, <1>3, <1>4, InitType DEF ExternalInv

(* A process that stays with its Service and goes to none of the places     *)
(* where it matters is safe.                                                *)
LEMMA SameManifest ==
  ASSUME NEW p, NEW q, NEW r, RecordSafe(p, q), r.m = q.m, r.nid = q.nid,
         r.pc \notin {"resolve", "top", "dellb"}
  PROVE  RecordSafe(p, r)
  BY DEF RecordSafe

(* A step of a process to a safe record keeps all processes safe. *)
LEMMA GotoSafe ==
  ASSUME ProcOK, ProcSafe, NEW p \in Proc, NEW r, RecordSafe(p, r), Goto(p, r)
  PROVE  ProcSafe'
  BY DEF ProcOK, ProcSafe, Goto

(* So does an error. *)
LEMMA FailSafe ==
  ASSUME ProcOK, ProcSafe, NEW p \in Proc, Fail(p)
  PROVE  ProcSafe'
  BY SafeDefaults DEF ProcOK, ProcSafe, Fail

(* So does a call that reads. *)
LEMMA ReadSafe ==
  ASSUME ProcOK, ProcSafe, NEW p \in Proc, NEW ok \in BOOLEAN, NEW r, ok => RecordSafe(p, r),
         Read(p, ok, r)
  PROVE  ProcSafe'
  BY GotoSafe, FailSafe DEF Read

(* A call that writes changes the cloud as it says, or not at all. *)
LEMMA WriteSafe ==
  ASSUME ProcOK, ProcSafe, CloudSafe(nlb), NEW p \in Proc, NEW ok \in BOOLEAN, NEW c, NEW r,
         ok => RecordSafe(p, r) /\ CloudSafe(c), Write(p, ok, c, r)
  PROVE  ProcSafe' /\ CloudSafe(nlb')
  BY GotoSafe, FailSafe DEF Write

(* A change of NLB services leaves the rest of the NLB alone. *)
LEMMA ServicesOnly ==
  ASSUME nlb \in [ID -> NLB], CloudSafe(nlb), NEW i \in ID
  PROVE  /\ \A sid : CloudSafe(Without(i, sid))
         /\ \A w : CloudSafe(With(i, w))
         /\ \A sid, w : CloudSafe(Updated(i, sid, w))
<1>1. ASSUME NEW X, NEW c, c = [nlb EXCEPT ![i].svcs = X]
      PROVE  CloudSafe(c)
  <2>1. \A j \in ID : c[j].live = nlb[j].live /\ c[j].name = nlb[j].name /\ c[j].desc = nlb[j].desc
    BY <1>1 DEF NLB
  <2> QED BY <2>1 DEF CloudSafe
<1> QED BY <1>1 DEF Without, With, Updated

-----------------------------------------------------------------------------
(* Steps that leave the Service objects alone keep what they say. *)
LEMMA KubeKept == KubeSafe /\ UNCHANGED <<api, lister, cache>> => KubeSafe'
  BY DEF KubeSafe

(* Where the two loops of updateLoadBalancer, and a sync, continue. *)
LEMMA Harmless ==
  /\ \A x, t : LoopPC(x, t) \notin {"resolve", "top", "dellb"}
  /\ \A m : AfterResolve(m) \notin {"resolve", "top", "dellb"}
  /\ \A m : AfterFinal(m) \notin {"top", "dellb"} /\ (AfterFinal(m) = "resolve" => m.ext)
<1>1. \A x, t : LoopPC(x, t) \notin {"resolve", "top", "dellb"} BY DEF LoopPC
<1>2. \A m : AfterResolve(m) \notin {"resolve", "top", "dellb"} BY DEF AfterResolve
<1>3. \A m : AfterFinal(m) \notin {"top", "dellb"} /\ (AfterFinal(m) = "resolve" => m.ext)
  BY <1>2 DEF AfterFinal
<1> QED BY <1>1, <1>2, <1>3

(* The steps of updateLoadBalancer respect protected NLBs: only the update  *)
(* of the name touches more than NLB services, and only a Service that is   *)
(* not external gets there.                                                 *)
LEMMA UpdateExternal ==
  ASSUME ExternalInv, NEW p \in Proc, UpdateStep(p)
  PROVE  ProcSafe' /\ CloudSafe(nlb')
<1> DEFINE i == proc[p].m.id
<1>0. proc[p] \in Process /\ RecordSafe(p, proc[p]) BY DEF ExternalInv, TypeOK, ProcSafe
<1>t. ProcOK /\ ProcSafe /\ CloudSafe(nlb) /\ nlb \in [ID -> NLB]
  BY TypeParts DEF ExternalInv, CloudOK
<1>b. /\ Live(i) \in BOOLEAN /\ (Live(i) => i \in ID)
      /\ \A sid : Has(i, sid) \in BOOLEAN /\ (Has(i, sid) => i \in ID)
  BY DEF Live, Has
<1> HIDE DEF i
<1>1. CASE GetCurrent(p)
  <2> DEFINE cur == nlb[i]
             prune == Stale(proc[p].m, cur)
             todo == Tasks(p[1], proc[p].m, cur)
             upd == isLoadBalancerUpdated(p[1], proc[p].m, cur)
             pc == IF ~proc[p].m.ext /\ upd THEN "top" ELSE LoopPC(prune, todo)
             ok == Parses(proc[p].m) /\ Live(i)
             r == [proc[p] EXCEPT !.prune = prune, !.todo = todo, !.cdesc = cur.desc, !.pc = pc]
  <2>1. Read(p, ok, r) /\ nlb' = nlb BY <1>1 DEF GetCurrent, cloud, i
  <2>2. pc # "resolve" /\ (pc \in {"top", "dellb"} => ~proc[p].m.ext) BY Harmless
  <2>3. r.m = proc[p].m /\ r.nid = proc[p].nid /\ r.pc = pc
    <3> HIDE DEF prune, todo, cur, pc
    <3> QED BY <1>0 DEF Process
  <2>4. ok \in BOOLEAN OBVIOUS
  <2> HIDE DEF ok, r, pc
  <2>5. RecordSafe(p, r) BY <1>0, <2>2, <2>3 DEF RecordSafe
  <2> QED BY <1>t, <2>1, <2>4, <2>5, ReadSafe
<1>2. CASE UpdateTopLevel(p)
  <2> DEFINE name == GetLoadBalancerName(p[1], proc[p].m)
             c == [nlb EXCEPT ![i].name = name, ![i].desc = proc[p].cdesc]
             pc == LoopPC(proc[p].prune, proc[p].todo)
             r == [proc[p] EXCEPT !.pc = pc]
  <2>1. Write(p, Live(i), c, r) BY <1>2 DEF UpdateTopLevel, i
  <2>2. ~proc[p].m.ext BY <1>0, <1>2 DEF UpdateTopLevel, RecordSafe
  <2>3. ASSUME NEW j \in ID, Protected(j) PROVE i # j
    BY <1>0, <2>2, <2>3, Processes DEF RecordSafe, ManifestSafe, Protected, i
  <2>4. ASSUME Live(i) PROVE CloudSafe(c)
    <3>1. ASSUME NEW j \in ID, Protected(j) PROVE c[j] = nlb[j] BY <1>t, <2>3, <3>1
    <3> QED BY <1>t, <3>1 DEF CloudSafe
  <2>5. RecordSafe(p, r)
    <3> HIDE DEF pc
    <3>1. r.m = proc[p].m /\ r.nid = proc[p].nid /\ r.pc = pc BY <1>0 DEF Process
    <3>2. pc \notin {"resolve", "top", "dellb"} BY Harmless DEF pc
    <3> HIDE DEF r
    <3> QED BY <1>0, <3>1, <3>2, SameManifest
  <2> HIDE DEF c, r
  <2> QED BY <1>t, <1>b, <2>1, <2>4, <2>5, WriteSafe
<1>w. ASSUME NEW ok \in BOOLEAN, NEW c, NEW r, ok => CloudSafe(c), Write(p, ok, c, r),
             r.m = proc[p].m, r.nid = proc[p].nid, r.pc \notin {"resolve", "top", "dellb"}
      PROVE  ProcSafe' /\ CloudSafe(nlb')
  BY <1>0, <1>t, <1>w, SameManifest, WriteSafe
<1>3. CASE PruneService(p)
  <2>0. PICK x \in proc[p].prune :
          LET rest == proc[p].prune \ {x}
          IN  Write(p, Has(i, x.sid), Without(i, x.sid),
                    [proc[p] EXCEPT !.prune = rest, !.pc = LoopPC(rest, proc[p].todo)])
    BY <1>3 DEF PruneService, i
  <2> DEFINE rest == proc[p].prune \ {x}
             r == [proc[p] EXCEPT !.prune = rest, !.pc = LoopPC(rest, proc[p].todo)]
  <2>1. r.m = proc[p].m /\ r.nid = proc[p].nid /\ r.pc \notin {"resolve", "top", "dellb"}
    BY <1>0, Harmless DEF Process
  <2>2. Has(i, x.sid) => CloudSafe(Without(i, x.sid)) BY <1>b, <1>t, ServicesOnly
  <2>3. Write(p, Has(i, x.sid), Without(i, x.sid), r) BY <2>0
  <2> HIDE DEF r
  <2> QED BY <1>w, <1>b, <2>1, <2>2, <2>3
<1>4. ASSUME NEW t, AddService(p, t) PROVE ProcSafe' /\ CloudSafe(nlb')
  <2> DEFINE r == [proc[p] EXCEPT !.todo = @ \ {t}, !.doing = {t}, !.pc = "verify"]
             ok == CanAdd(i, t.want)
             c == With(i, t.want)
  <2>1. r.m = proc[p].m /\ r.nid = proc[p].nid /\ r.pc \notin {"resolve", "top", "dellb"}
    BY <1>0 DEF Process
  <2>2. ok \in BOOLEAN /\ (ok => i \in ID) BY <1>b DEF CanAdd
  <2>3. ok => CloudSafe(c) BY <1>t, <2>2, ServicesOnly
  <2>4. Write(p, ok, c, r) BY <1>4 DEF AddService, i
  <2> HIDE DEF r, ok, c
  <2> QED BY <1>w, <2>1, <2>2, <2>3, <2>4
<1>5. CASE ApplyService(p)
  <2>0. PICK t \in proc[p].todo :
          LET rest == proc[p].todo \ {t}
          IN  \/ t.op = "add" /\ AddService(p, t)
              \/ /\ t.op = "replace" /\ UNCHANGED lastSid
                 /\ Write(p, Has(i, t.sid), Without(i, t.sid),
                          [proc[p] EXCEPT !.todo = rest, !.doing = {t}, !.pc = "readd"])
              \/ /\ t.op = "update" /\ UNCHANGED lastSid
                 /\ Write(p, Has(i, t.sid), Updated(i, t.sid, t.want),
                          [proc[p] EXCEPT !.todo = rest, !.pc = LoopPC({}, rest)])
    BY <1>5 DEF ApplyService, i
  <2> DEFINE rest == proc[p].todo \ {t}
             r1 == [proc[p] EXCEPT !.todo = rest, !.doing = {t}, !.pc = "readd"]
             r2 == [proc[p] EXCEPT !.todo = rest, !.pc = LoopPC({}, rest)]
  <2>1. r1.m = proc[p].m /\ r1.nid = proc[p].nid /\ r1.pc \notin {"resolve", "top", "dellb"}
    BY <1>0 DEF Process
  <2>2. r2.m = proc[p].m /\ r2.nid = proc[p].nid /\ r2.pc \notin {"resolve", "top", "dellb"}
    BY <1>0, Harmless DEF Process
  <2>3. Has(i, t.sid) => CloudSafe(Without(i, t.sid)) /\ CloudSafe(Updated(i, t.sid, t.want))
    BY <1>b, <1>t, ServicesOnly
  <2>4. \/ AddService(p, t)
        \/ Write(p, Has(i, t.sid), Without(i, t.sid), r1)
        \/ Write(p, Has(i, t.sid), Updated(i, t.sid, t.want), r2)
    BY <2>0
  <2> HIDE DEF r1, r2
  <2> QED BY <1>w, <1>b, <1>4, <2>1, <2>2, <2>3, <2>4
<1>6. CASE ReaddService(p) BY <1>4, <1>6 DEF ReaddService
<1>7. CASE VerifyService(p)
  <2>0. PICK t \in proc[p].doing :
          Read(p,
               /\ Live(i)
               /\ \E x \in nlb[i].svcs : x.key = t.want.key /\ x.own = t.want.own,
               [proc[p] EXCEPT !.doing = {}, !.pc = LoopPC({}, proc[p].todo)])
    BY <1>7 DEF VerifyService, i
  <2> DEFINE ok == Live(i) /\ \E x \in nlb[i].svcs : x.key = t.want.key /\ x.own = t.want.own
             r == [proc[p] EXCEPT !.doing = {}, !.pc = LoopPC({}, proc[p].todo)]
  <2>1. r.m = proc[p].m /\ r.nid = proc[p].nid /\ r.pc \notin {"resolve", "top", "dellb"}
    BY <1>0, Harmless DEF Process
  <2>2. ok \in BOOLEAN /\ Read(p, ok, r) BY <2>0
  <2>3. nlb' = nlb BY <1>7 DEF VerifyService, cloud
  <2> HIDE DEF ok, r
  <2> QED BY <1>0, <1>t, <2>1, <2>2, <2>3, SameManifest, ReadSafe
<1> QED BY <1>1, <1>2, <1>3, <1>5, <1>6, <1>7 DEF UpdateStep

(* The patch of an annotation to a safe manifest is safe. *)
LEMMA PatchSafe ==
  ASSUME TypeOK, ProcSafe, KubeSafe, NEW s \in Service, NEW found \in BOOLEAN,
         NEW n, NEW o, NEW r,
         found => /\ ManifestSafe(s, n) /\ RecordSafe(<<s, "svc">>, r)
                  /\ Exists(s) => ObjectSafe(s, o),
         PatchAnnotation(s, found, n, [api EXCEPT ![s] = o], r), UNCHANGED lister
  PROVE  ProcSafe' /\ KubeSafe'
<1> DEFINE p == <<s, "svc">>
           a == [api EXCEPT ![s] = o]
<1>0. p \in Proc /\ ProcOK /\ KubeOK BY Processes, TypeParts
<1>1. ProcSafe' BY <1>0, GotoSafe, FailSafe DEF PatchAnnotation
<1>2. /\ api' = api \/ (api' = a /\ found /\ Exists(s))
      /\ cache' = cache \/ (found /\ cache' = [cache EXCEPT ![s].m = n])
  BY DEF PatchAnnotation
<1>3. \A t \in Service : ObjectSafe(t, api'[t]) BY <1>0, <1>2 DEF KubeSafe, KubeOK
<1>4. \A t \in Service : ManifestSafe(t, cache'[t].m)
  <2>1. CASE cache' = cache BY <2>1 DEF KubeSafe
  <2>2. CASE found /\ cache' = [cache EXCEPT ![s].m = n]
    <3>1. \A t \in Service : cache'[t].m = IF t = s THEN n ELSE cache[t].m
      BY <1>0, <2>2 DEF KubeOK, Object
    <3> QED BY <2>2, <3>1 DEF KubeSafe
  <2> QED BY <1>2, <2>1, <2>2
<1> QED BY <1>1, <1>3, <1>4 DEF KubeSafe

(* A manifest that differs in the ID, or in the pool, only. *)
LEMMA ManifestChange ==
  ASSUME NEW m \in Manifest
  PROVE  /\ \A i : [m EXCEPT !.id = i].id = i /\ [m EXCEPT !.id = i].ext = m.ext
         /\ \A q : [m EXCEPT !.pool = q].id = m.id /\ [m EXCEPT !.pool = q].ext = m.ext
  BY DEF Manifest

(* An object that differs in its manifest only. *)
LEMMA ObjectChange ==
  ASSUME NEW s, NEW o \in Object, ObjectSafe(s, o), NEW m, ManifestSafe(s, m), m.ext = o.m.ext
  PROVE  ObjectSafe(s, [o EXCEPT !.m = m])
  BY DEF ObjectSafe, Object

(* The steps of EnsureLoadBalancer respect protected NLBs: an ID is found by *)
(* name for an external Service only, and the ID of a new NLB is not theirs. *)
LEMMA EnsureExternal ==
  ASSUME ExternalInv, NEW s \in Service,
         \/ AddFinalizer(s) \/ ResolveExternal(s) \/ InferPool(s) \/ Fetch(s)
         \/ CreateLoadBalancer(s) \/ AdoptLoadBalancer(s) \/ EnsureReturns(s)
  PROVE  KubeSafe' /\ ProcSafe' /\ CloudSafe(nlb') /\ lastNLB' >= Provisioned
<1> DEFINE p == <<s, "svc">>
           m == proc[p].m
<1>0. p \in Proc /\ proc[p] \in Process /\ RecordSafe(p, proc[p]) /\ p[1] = s
  BY Processes DEF ExternalInv, TypeOK, ProcSafe
<1>m. m \in Manifest /\ ManifestSafe(s, m) BY <1>0 DEF RecordSafe, Process
<1>a. /\ api[s] \in Object /\ api[s].m \in Manifest
      /\ ObjectSafe(s, api[s]) /\ ManifestSafe(s, api[s].m)
  BY DEF ExternalInv, TypeOK, KubeSafe, ObjectSafe, Object
<1>t. /\ TypeOK /\ ProcOK /\ KubeOK /\ ProcSafe /\ KubeSafe /\ CloudSafe(nlb)
      /\ lastNLB >= Provisioned
  BY TypeParts DEF ExternalInv
<1>c. UNCHANGED cloud => CloudSafe(nlb') /\ lastNLB' >= Provisioned BY <1>t DEF cloud
<1>o. ASSUME NEW o, ObjectSafe(s, o), api' \in {api, [api EXCEPT ![s] = o]},
             UNCHANGED <<lister, cache>>
      PROVE  KubeSafe'
  BY <1>o, <1>t DEF KubeSafe, KubeOK
<1>1. CASE AddFinalizer(s)
  <2> DEFINE r == [proc[p] EXCEPT !.pc = AfterFinal(m)]
             o == [api[s] EXCEPT !.fin = TRUE]
  <2>1. r.m = m /\ r.nid = proc[p].nid /\ r.pc = AfterFinal(m) BY <1>0 DEF Process
  <2>2. RecordSafe(p, r) BY <1>0, <2>1, Harmless DEF RecordSafe
  <2>3. o.m = api[s].m /\ o.phase = api[s].phase BY <1>a DEF Object
  <2>4. ObjectSafe(s, o) BY <1>a, <2>3 DEF ObjectSafe
  <2>5. api' \in {api, [api EXCEPT ![s] = o]} /\ UNCHANGED <<lister, cache>> /\ UNCHANGED cloud
    BY <1>1 DEF AddFinalizer
  <2>6. Goto(p, r) \/ Fail(p) BY <1>1 DEF AddFinalizer
  <2> HIDE DEF r, o
  <2>7. ProcSafe' BY <1>0, <1>t, <2>2, <2>6, GotoSafe, FailSafe
  <2> QED BY <1>c, <1>o, <2>4, <2>5, <2>7
<1>2. CASE ResolveExternal(s)
  <2>0. PICK found \in BOOLEAN, i \in ID \cup {NoID} :
          LET n == [m EXCEPT !.id = i]
          IN  PatchAnnotation(s, found, n, [api EXCEPT ![s].m.id = i],
                              [proc[p] EXCEPT !.m = n, !.pc = AfterResolve(n)])
    BY <1>2 DEF ResolveExternal
  <2> DEFINE n == [m EXCEPT !.id = i]
             r == [proc[p] EXCEPT !.m = n, !.pc = AfterResolve(n)]
             k == [api[s].m EXCEPT !.id = i]
             o == [api[s] EXCEPT !.m = k]
  <2>1. m.ext BY <1>0, <1>2 DEF ResolveExternal, RecordSafe
  <2>2. \A j \in ID : Protected(j) => AlwaysExternal(s) /\ ~NeverOn(s, j)
    BY <1>m, <2>1 DEF ManifestSafe, Protected
  <2>3. n.ext = m.ext /\ k.ext = api[s].m.ext BY <1>m, <1>a, ManifestChange
  <2>4. ManifestSafe(s, n) BY <2>1, <2>2, <2>3 DEF ManifestSafe
  <2>5. RecordSafe(p, r)
    <3>1. r.m = n /\ r.nid = proc[p].nid /\ r.pc = AfterResolve(n) BY <1>0 DEF Process
    <3> QED BY <1>0, <2>4, <3>1, Harmless DEF RecordSafe
  <2>6. ASSUME Exists(s) PROVE ObjectSafe(s, o)
    <3>1. AlwaysExternal(s) => api[s].m.ext BY <1>a, <2>6 DEF ObjectSafe, Exists
    <3>2. ManifestSafe(s, k) BY <2>2, <2>3, <3>1 DEF ManifestSafe
    <3> QED BY <1>a, <2>3, <3>2, ObjectChange
  <2>7. [api EXCEPT ![s].m.id = i] = [api EXCEPT ![s] = o] OBVIOUS
  <2>8. UNCHANGED lister /\ UNCHANGED cloud BY <1>2 DEF ResolveExternal
  <2>9. PatchAnnotation(s, found, n, [api EXCEPT ![s] = o], r) BY <2>0, <2>7
  <2> HIDE DEF n, r, k, o
  <2> QED BY <1>t, <1>c, <2>4, <2>5, <2>6, <2>8, <2>9, PatchSafe
<1>3. CASE InferPool(s)
  <2>0. PICK found \in BOOLEAN, q \in Pool \cup {None} :
          LET n == [m EXCEPT !.pool = q]
          IN  PatchAnnotation(s, found, n, [api EXCEPT ![s].m.pool = q],
                              [proc[p] EXCEPT !.m = n, !.pc = "fetch"])
    BY <1>3 DEF InferPool
  <2> DEFINE n == [m EXCEPT !.pool = q]
             r == [proc[p] EXCEPT !.m = n, !.pc = "fetch"]
             k == [api[s].m EXCEPT !.pool = q]
             o == [api[s] EXCEPT !.m = k]
  <2>1. n.ext = m.ext /\ n.id = m.id /\ k.ext = api[s].m.ext /\ k.id = api[s].m.id
    BY <1>m, <1>a, ManifestChange
  <2>2. ManifestSafe(s, n) /\ ManifestSafe(s, k) BY <1>m, <1>a, <2>1 DEF ManifestSafe
  <2>3. RecordSafe(p, r)
    <3>1. r.m = n /\ r.nid = proc[p].nid /\ r.pc = "fetch" BY <1>0 DEF Process
    <3> QED BY <1>0, <2>2, <3>1 DEF RecordSafe
  <2>4. ObjectSafe(s, o) BY <1>a, <2>1, <2>2, ObjectChange
  <2>5. [api EXCEPT ![s].m.pool = q] = [api EXCEPT ![s] = o] OBVIOUS
  <2>6. UNCHANGED lister /\ UNCHANGED cloud BY <1>3 DEF InferPool
  <2>7. PatchAnnotation(s, found, n, [api EXCEPT ![s] = o], r) BY <2>0, <2>5
  <2> HIDE DEF n, r, k, o
  <2> QED BY <1>t, <1>c, <2>2, <2>3, <2>4, <2>6, <2>7, PatchSafe
<1>4. CASE Fetch(s)
  <2> DEFINE pc == IF Live(m.id) THEN "get" ELSE "create"
             r == [proc[p] EXCEPT !.pc = pc]
             ok == Parses(m) /\ (Live(m.id) \/ ~m.ext)
  <2>1. r.m = m /\ r.nid = proc[p].nid /\ r.pc = pc BY <1>0 DEF Process
  <2>2. RecordSafe(p, r)
    <3>1. pc \notin {"resolve", "top", "dellb"} OBVIOUS
    <3> HIDE DEF pc, r
    <3> QED BY <1>0, <2>1, <3>1, SameManifest
  <2>3. /\ ok \in BOOLEAN /\ Read(p, ok, r)
        /\ UNCHANGED <<api, lister, cache>> /\ UNCHANGED cloud
    BY <1>4 DEF Fetch
  <2> HIDE DEF ok, r
  <2> QED BY <1>0, <1>t, <1>c, <2>2, <2>3, KubeKept, ReadSafe
<1>5. CASE CreateLoadBalancer(s)
  <2> DEFINE i == lastNLB + 1
             n == [live |-> TRUE, name |-> GetLoadBalancerName(s, m), desc |-> m.desc,
                   svcs |-> {}]
             c == [nlb EXCEPT ![i] = n]
             r == [proc[p] EXCEPT !.pc = "adopt", !.nid = i]
  <2>1. i > Provisioned /\ i >= Provisioned
    BY <1>t, BoundsAssumption DEF TypeOK
  <2>2. RecordSafe(p, r)
    <3>1. r.m = m /\ r.nid = i /\ r.pc = "adopt" BY <1>0 DEF Process
    <3>2. i \notin 1 .. Provisioned BY <2>1, <1>t, BoundsAssumption DEF TypeOK
    <3> HIDE DEF r, i
    <3> QED BY <1>0, <3>1, <3>2 DEF RecordSafe
  <2>3. CloudSafe(c)
    <3>1. ASSUME NEW j \in ID, Protected(j) PROVE c[j] = nlb[j]
      <4>1. j # i BY <2>1, <3>1, <1>t, BoundsAssumption DEF Protected, TypeOK
      <4> QED BY <4>1, <1>t DEF TypeOK
    <3> QED BY <1>t, <3>1 DEF CloudSafe
  <2>4. /\ Write(p, TRUE, c, r) /\ UNCHANGED <<api, lister, cache>>
        /\ lastNLB' \in {lastNLB, i}
    BY <1>5 DEF CreateLoadBalancer
  <2>5. lastNLB' >= Provisioned BY <1>t, <2>1, <2>4
  <2> HIDE DEF c, r
  <2> QED BY <1>0, <1>t, <2>2, <2>3, <2>4, <2>5, KubeKept, WriteSafe
<1>6. CASE AdoptLoadBalancer(s)
  <2> DEFINE i == proc[p].nid
             n == [m EXCEPT !.id = i]
             r == [proc[p] EXCEPT !.m = n, !.nid = NoID, !.pc = "get"]
             k == [api[s].m EXCEPT !.id = i]
             o == [api[s] EXCEPT !.m = k]
  <2>1. i \notin 1 .. Provisioned BY <1>0 DEF RecordSafe
  <2>2. /\ n.ext = m.ext /\ n.id = i /\ k.ext = api[s].m.ext /\ k.id = i
    BY <1>m, <1>a, ManifestChange
  <2>3. ManifestSafe(s, n) /\ ManifestSafe(s, k)
    <3> HIDE DEF n, k, i
    <3> QED BY <1>m, <1>a, <2>1, <2>2 DEF ManifestSafe, Protected
  <2>4. RecordSafe(p, r)
    <3>1. r.m = n /\ r.nid = NoID /\ r.pc = "get" BY <1>0 DEF Process
    <3> HIDE DEF r, n
    <3> QED BY <1>0, <2>3, <3>1 DEF RecordSafe, NoID
  <2>5. ObjectSafe(s, o) BY <1>a, <2>2, <2>3, ObjectChange
  <2>6. [api EXCEPT ![s].m.id = i] = [api EXCEPT ![s] = o] OBVIOUS
  <2>7. Live(i) \in BOOLEAN BY DEF Live
  <2>8. /\ PatchAnnotation(s, Live(i), n, [api EXCEPT ![s].m.id = i], r)
        /\ UNCHANGED lister /\ UNCHANGED cloud
    BY <1>6 DEF AdoptLoadBalancer
  <2>9. PatchAnnotation(s, Live(i), n, [api EXCEPT ![s] = o], r) BY <2>6, <2>8
  <2> HIDE DEF n, r, k, o, i
  <2> QED BY <1>t, <1>c, <2>3, <2>4, <2>5, <2>7, <2>8, <2>9, PatchSafe
<1>7. CASE EnsureReturns(s)
  <2> DEFINE o == [api[s] EXCEPT !.ip = m.id]
  <2>1. o.m = api[s].m /\ o.phase = api[s].phase BY <1>a DEF Object
  <2>2. ObjectSafe(s, o) BY <1>a, <2>1 DEF ObjectSafe
  <2>3. api' \in {api, [api EXCEPT ![s] = o]} /\ UNCHANGED <<lister, cache>> /\ UNCHANGED cloud
    BY <1>7 DEF EnsureReturns
  <2>4. Goto(p, Idle) \/ Fail(p) BY <1>7 DEF EnsureReturns
  <2>5. ProcSafe' BY <1>0, <1>t, <2>4, SafeDefaults, GotoSafe, FailSafe
  <2> HIDE DEF o
  <2> QED BY <1>c, <1>o, <2>2, <2>3, <2>5
<1> QED BY <1>1, <1>2, <1>3, <1>4, <1>5, <1>6, <1>7

(* A deletion respects protected NLBs: it deletes the NLB itself only for a *)
(* Service that is not external.                                            *)
LEMMA DeleteExternal ==
  ASSUME ExternalInv, NEW s \in Service,
         \/ GetLoadBalancer(s) \/ DeleteFetch(s) \/ DeleteServices(s)
         \/ DeleteLoadBalancer(s) \/ RemoveFinalizer(s) \/ ForgetService(s)
  PROVE  KubeSafe' /\ ProcSafe' /\ CloudSafe(nlb') /\ lastNLB' >= Provisioned
<1> DEFINE p == <<s, "svc">>
           m == proc[p].m
           i == m.id
<1>0. p \in Proc /\ proc[p] \in Process /\ RecordSafe(p, proc[p]) /\ p[1] = s
  BY Processes DEF ExternalInv, TypeOK, ProcSafe
<1>t. /\ ProcOK /\ KubeOK /\ ProcSafe /\ KubeSafe /\ CloudSafe(nlb)
      /\ lastNLB >= Provisioned /\ nlb \in [ID -> NLB]
  BY TypeParts DEF ExternalInv, CloudOK
<1>b. /\ Live(i) \in BOOLEAN /\ (Live(i) => i \in ID)
      /\ \A sid : Has(i, sid) \in BOOLEAN /\ (Has(i, sid) => i \in ID)
  BY DEF Live, Has
<1>c. UNCHANGED cloud => CloudSafe(nlb') /\ lastNLB' >= Provisioned BY <1>t DEF cloud
<1>e. proc[p].end \notin {"resolve", "top", "dellb"} BY <1>0 DEF Process
<1> HIDE DEF i
<1>r. ASSUME NEW r, RecordSafe(p, r), Read(p, TRUE, r),
             UNCHANGED <<api, lister, cache>>, UNCHANGED cloud
      PROVE  KubeSafe' /\ ProcSafe' /\ CloudSafe(nlb') /\ lastNLB' >= Provisioned
  BY <1>0, <1>c, <1>r, <1>t, KubeKept, ReadSafe
<1>w. ASSUME NEW ok \in BOOLEAN, NEW c, NEW r, ok => RecordSafe(p, r) /\ CloudSafe(c),
             Write(p, ok, c, r), UNCHANGED <<api, lister, cache>>, UNCHANGED lastNLB
      PROVE  KubeSafe' /\ ProcSafe' /\ CloudSafe(nlb') /\ lastNLB' >= Provisioned
  BY <1>0, <1>t, <1>w, KubeKept, WriteSafe
<1>1. CASE GetLoadBalancer(s)
  <2> DEFINE pc == IF Live(i) THEN "delfetch" ELSE "unfinal"
             r == [proc[p] EXCEPT !.pc = pc]
  <2>1. /\ Read(p, TRUE, r) /\ UNCHANGED <<api, lister, cache>> /\ UNCHANGED cloud
    BY <1>1 DEF GetLoadBalancer, i
  <2>2. pc \notin {"resolve", "top", "dellb"} OBVIOUS
  <2> HIDE DEF pc
  <2>3. r.m = m /\ r.nid = proc[p].nid /\ r.pc = pc BY <1>0 DEF Process
  <2> HIDE DEF r
  <2> QED BY <1>0, <1>r, <2>1, <2>2, <2>3, SameManifest
<1>2. CASE DeleteFetch(s)
  <2> DEFINE mine == {x \in nlb[i].svcs : x.key \in m.ports}
             r0 == [proc[p] EXCEPT !.prune = mine, !.last = (mine = nlb[i].svcs)]
             pc == IF mine # {} THEN "delprune" ELSE AfterPrune(r0)
             r1 == [r0 EXCEPT !.pc = pc]
             r2 == [proc[p] EXCEPT !.pc = proc[p].end]
             r == IF ~Live(i) THEN r2 ELSE r1
  <2>1. /\ Read(p, TRUE, r) /\ UNCHANGED <<api, lister, cache>> /\ UNCHANGED cloud
    BY <1>2 DEF DeleteFetch, i
  <2>2. RecordSafe(p, r2)
    <3>1. r2.m = m /\ r2.nid = proc[p].nid /\ r2.pc = proc[p].end BY <1>0 DEF Process
    <3> HIDE DEF r2
    <3> QED BY <1>0, <1>e, <3>1, SameManifest
  <2>3. r0.m = m /\ r0.end = proc[p].end BY <1>0 DEF Process
  <2>4. pc # "resolve" /\ pc # "top" /\ (pc = "dellb" => ~m.ext)
    <3> HIDE DEF mine, r0
    <3> QED BY <1>e, <2>3 DEF AfterPrune
  <2>5. r1.m = m /\ r1.nid = proc[p].nid /\ r1.pc = pc
    <3> HIDE DEF mine, pc
    <3> QED BY <1>0 DEF Process
  <2>6. RecordSafe(p, r1)
    <3> HIDE DEF r1, pc
    <3> QED BY <1>0, <2>4, <2>5 DEF RecordSafe
  <2>7. RecordSafe(p, r)
    <3> HIDE DEF r1, r2
    <3> QED BY <2>2, <2>6
  <2> HIDE DEF r
  <2> QED BY <1>r, <2>1, <2>7
<1>3. CASE DeleteServices(s)
  <2>0. PICK x \in proc[p].prune :
          LET rest == proc[p].prune \ {x}
          IN  Write(p, Has(i, x.sid), Without(i, x.sid),
                    [proc[p] EXCEPT !.prune = rest,
                       !.pc = IF rest # {} THEN "delprune" ELSE AfterPrune(proc[p])])
    BY <1>3 DEF DeleteServices, i
  <2> DEFINE rest == proc[p].prune \ {x}
             pc == IF rest # {} THEN "delprune" ELSE AfterPrune(proc[p])
             r == [proc[p] EXCEPT !.prune = rest, !.pc = pc]
  <2>1. pc # "resolve" /\ pc # "top" /\ (pc = "dellb" => ~m.ext)
    BY <1>e DEF AfterPrune
  <2>2. Write(p, Has(i, x.sid), Without(i, x.sid), r) BY <2>0
  <2>3. r.m = m /\ r.nid = proc[p].nid /\ r.pc = pc
    <3> HIDE DEF pc
    <3> QED BY <1>0 DEF Process
  <2> HIDE DEF r, pc
  <2>4. RecordSafe(p, r) BY <1>0, <2>1, <2>3 DEF RecordSafe
  <2>5. Has(i, x.sid) => CloudSafe(Without(i, x.sid)) BY <1>b, <1>t, ServicesOnly
  <2>6. UNCHANGED <<api, lister, cache>> /\ UNCHANGED lastNLB BY <1>3 DEF DeleteServices
  <2> QED BY <1>b, <1>w, <2>2, <2>4, <2>5, <2>6
<1>4. CASE DeleteLoadBalancer(s)
  <2> DEFINE r == [proc[p] EXCEPT !.pc = proc[p].end]
             c == [nlb EXCEPT ![i] = NoNLB]
  <2>1. /\ Write(p, Live(i), c, r) /\ UNCHANGED <<api, lister, cache>> /\ UNCHANGED lastNLB
    BY <1>4 DEF DeleteLoadBalancer, i
  <2>2. r.m = m /\ r.nid = proc[p].nid /\ r.pc = proc[p].end BY <1>0 DEF Process
  <2>3. RecordSafe(p, r)
    <3> HIDE DEF r
    <3> QED BY <1>0, <1>e, <2>2, SameManifest
  <2>4. ~m.ext BY <1>0, <1>4 DEF DeleteLoadBalancer, RecordSafe
  <2>5. ASSUME NEW j \in ID, Protected(j) PROVE c[j] = nlb[j]
    <3>1. i # j BY <1>0, <2>4, <2>5 DEF RecordSafe, ManifestSafe, Protected, i
    <3> QED BY <1>t, <3>1
  <2>6. CloudSafe(c) BY <1>t, <2>5 DEF CloudSafe
  <2> HIDE DEF c, r
  <2> QED BY <1>b, <1>w, <2>1, <2>3, <2>6
<1>5. CASE RemoveFinalizer(s)
  <2> DEFINE gone == [NoObject EXCEPT !.phase = "gone"]
             freed == IF ~cache[s].fin THEN api[s]
                      ELSE IF api[s].phase = "deleting" THEN gone
                           ELSE [api[s] EXCEPT !.fin = FALSE]
             done == [freed EXCEPT !.ip = IF cache[s].ip # NoID THEN NoID ELSE @]
  <2>0. api[s] \in Object /\ ObjectSafe(s, api[s]) BY <1>t DEF KubeOK, KubeSafe
  <2>1. gone \in Object /\ ObjectSafe(s, gone)
    <3>1. gone \in Object /\ gone.m = NoObject.m /\ gone.phase = "gone"
      BY Defaults DEF Object
    <3> QED BY <3>1, SafeDefaults DEF ObjectSafe
  <2>2. freed \in Object /\ ObjectSafe(s, freed)
    <3>1. /\ [api[s] EXCEPT !.fin = FALSE] \in Object
          /\ [api[s] EXCEPT !.fin = FALSE].m = api[s].m
          /\ [api[s] EXCEPT !.fin = FALSE].phase = api[s].phase
      BY <2>0 DEF Object
    <3> HIDE DEF gone
    <3> QED BY <2>0, <2>1, <3>1 DEF ObjectSafe
  <2>3. ObjectSafe(s, done)
    <3> HIDE DEF freed
    <3>1. done.m = freed.m /\ done.phase = freed.phase BY <2>2 DEF Object
    <3> QED BY <2>2, <3>1 DEF ObjectSafe
  <2>4. /\ \/ api' = [api EXCEPT ![s] = done] \/ api' = api \/ api' = [api EXCEPT ![s] = freed]
        /\ cache' = [cache EXCEPT ![s] = NoObject] \/ cache' = cache
        /\ Goto(p, Idle) \/ Fail(p)
        /\ UNCHANGED lister /\ UNCHANGED cloud
    BY <1>5 DEF RemoveFinalizer
  <2> HIDE DEF freed, done
  <2>5. \A t \in Service : ObjectSafe(t, api'[t]) BY <1>t, <2>2, <2>3, <2>4 DEF KubeSafe, KubeOK
  <2>6. \A t \in Service : ManifestSafe(t, cache'[t].m)
    BY <1>t, <2>4, SafeDefaults DEF KubeSafe, KubeOK, ObjectSafe
  <2>7. KubeSafe' BY <1>t, <2>4, <2>5, <2>6 DEF KubeSafe
  <2>8. ProcSafe' BY <1>0, <1>t, <2>4, SafeDefaults, GotoSafe, FailSafe
  <2> QED BY <1>c, <2>4, <2>7, <2>8
<1>6. CASE ForgetService(s)
  <2>1. /\ Goto(p, Idle) /\ cache' = [cache EXCEPT ![s] = NoObject]
        /\ UNCHANGED <<api, lister>> /\ UNCHANGED cloud
    BY <1>6 DEF ForgetService
  <2>2. \A t \in Service : ManifestSafe(t, cache'[t].m)
    BY <1>t, <2>1, SafeDefaults DEF KubeSafe, KubeOK, ObjectSafe
  <2>3. KubeSafe' BY <1>t, <2>1, <2>2 DEF KubeSafe
  <2>4. ProcSafe' BY <1>0, <1>t, <2>1, SafeDefaults, GotoSafe
  <2> QED BY <1>c, <2>1, <2>3, <2>4
<1> QED BY <1>1, <1>2, <1>3, <1>4, <1>5, <1>6

(* The service controller passes safe copies of a Service on. *)
LEMMA ControllerExternal ==
  ASSUME ExternalInv, NEW s \in Service,
         SyncService(s) \/ Deliver(s) \/ NodeSync(s) \/ NodeSyncReturns(s)
  PROVE  KubeSafe' /\ ProcSafe' /\ CloudSafe(nlb') /\ lastNLB' >= Provisioned
<1>0. <<s, "svc">> \in Proc /\ <<s, "node">> \in Proc BY Processes
<1>t. /\ ProcOK /\ KubeOK /\ ProcSafe /\ KubeSafe /\ CloudSafe(nlb) /\ lastNLB >= Provisioned
  BY TypeParts DEF ExternalInv
<1>c. CloudSafe(nlb') /\ lastNLB' >= Provisioned
  BY <1>t DEF SyncService, Deliver, NodeSync, NodeSyncReturns, cloud
<1>o. ManifestSafe(s, lister[s].m) /\ ManifestSafe(s, cache[s].m)
  BY <1>t DEF KubeSafe, ObjectSafe
<1>i. Idle.nid \notin 1 .. Provisioned BY DEF Idle, NoID
<1>1. CASE SyncService(s)
  <2> DEFINE p == <<s, "svc">>
             pc1 == IF ~lister[s].m.lb \/ (lister[s].fin /\ lister[s].phase = "deleting")
                    THEN "exists"
                    ELSE IF lister[s].fin THEN AfterFinal(lister[s].m) ELSE "final"
             r1 == [Idle EXCEPT !.pc = pc1, !.m = lister[s].m]
             pc2 == IF cache[s].m.lb THEN "delfetch" ELSE "forget"
             r2 == [Idle EXCEPT !.m = cache[s].m, !.end = "forget", !.pc = pc2]
  <2>1. /\ cache' \in {cache, [cache EXCEPT ![s] = lister[s]]} /\ UNCHANGED <<api, lister>>
        /\ \/ proc' = [proc EXCEPT ![p] = r1]
           \/ proc' = [proc EXCEPT ![p] = IF cache[s].phase = "none" THEN Idle ELSE r2]
    BY <1>1 DEF SyncService
  <2>2. pc1 \notin {"top", "dellb"} /\ (pc1 = "resolve" => lister[s].m.ext) BY Harmless
  <2>3. pc2 \notin {"resolve", "top", "dellb"} OBVIOUS
  <2> HIDE DEF pc1, pc2
  <2>4. RecordSafe(p, r1)
    <3>1. r1.m = lister[s].m /\ r1.nid = Idle.nid /\ r1.pc = pc1 BY DEF Idle
    <3> HIDE DEF r1
    <3> QED BY <1>i, <1>o, <2>2, <3>1 DEF RecordSafe
  <2>5. RecordSafe(p, r2)
    <3>1. r2.m = cache[s].m /\ r2.nid = Idle.nid /\ r2.pc = pc2 BY DEF Idle
    <3> HIDE DEF r2
    <3> QED BY <1>i, <1>o, <2>3, <3>1 DEF RecordSafe
  <2> HIDE DEF r1, r2
  <2>6. ProcSafe' BY <1>0, <1>t, <2>1, <2>4, <2>5, SafeDefaults DEF ProcSafe, ProcOK
  <2>7. KubeSafe' BY <1>o, <1>t, <2>1 DEF KubeSafe, KubeOK
  <2> QED BY <1>c, <2>6, <2>7
<1>2. CASE Deliver(s)
  <2>1. /\ lister' = [lister EXCEPT ![s] = api[s]] /\ UNCHANGED <<api, cache>> /\ UNCHANGED proc
    BY <1>2 DEF Deliver
  <2>2. KubeSafe' BY <1>t, <2>1 DEF KubeSafe, KubeOK
  <2>3. ProcSafe' BY <1>t, <2>1 DEF ProcSafe
  <2> QED BY <1>c, <2>2, <2>3
<1>3. CASE NodeSync(s)
  <2> DEFINE p == <<s, "node">>
             r == [Idle EXCEPT !.pc = "get", !.m = cache[s].m]
  <2>1. Goto(p, r) /\ UNCHANGED <<api, lister, cache>> BY <1>3 DEF NodeSync
  <2>2. r.m = cache[s].m /\ r.nid = Idle.nid /\ r.pc = "get" BY DEF Idle
  <2> HIDE DEF r
  <2>3. RecordSafe(p, r) BY <1>i, <1>o, <2>2 DEF RecordSafe
  <2> QED BY <1>0, <1>c, <1>t, <2>1, <2>3, GotoSafe, KubeKept
<1>4. CASE NodeSyncReturns(s)
  <2>1. Goto(<<s, "node">>, Idle) /\ UNCHANGED <<api, lister, cache>> BY <1>4 DEF NodeSyncReturns
  <2> QED BY <1>0, <1>c, <1>t, <2>1, SafeDefaults, GotoSafe, KubeKept
<1> QED BY <1>1, <1>2, <1>3, <1>4

(* What users submit is safe, and the rest of the environment adds nothing. *)
LEMMA EnvironmentExternal ==
  ASSUME ExternalInv, Environment
  PROVE  KubeSafe' /\ ProcSafe' /\ CloudSafe(nlb') /\ lastNLB' >= Provisioned
<1>t. /\ KubeOK /\ ProcSafe /\ KubeSafe /\ CloudSafe(nlb) /\ lastNLB >= Provisioned
      /\ nlb \in [ID -> NLB]
  BY TypeParts DEF ExternalInv, CloudOK
<1>m. \A s \in Service : Manifests[s] \subseteq Manifest BY ConstantsAssumption
<1>u. ASSUME NEW s \in Service, NEW o, ObjectSafe(s, o), api' = [api EXCEPT ![s] = o],
             UNCHANGED <<lister, cache>>, UNCHANGED proc, UNCHANGED cloud
      PROVE  KubeSafe' /\ ProcSafe' /\ CloudSafe(nlb') /\ lastNLB' >= Provisioned
  <2>1. KubeSafe' BY <1>t, <1>u DEF KubeSafe, KubeOK
  <2>2. ProcSafe' BY <1>t, <1>u DEF ProcSafe
  <2> QED BY <1>t, <1>u, <2>1, <2>2 DEF cloud
<1>1. ASSUME NEW s \in Service, UserCreates(s)
      PROVE  KubeSafe' /\ ProcSafe' /\ CloudSafe(nlb') /\ lastNLB' >= Provisioned
  <2>1. PICK m \in Manifests[s] :
          api' = [api EXCEPT ![s] = [NoObject EXCEPT !.phase = "live", !.m = m]]
    BY <1>1 DEF UserCreates
  <2> DEFINE o == [NoObject EXCEPT !.phase = "live", !.m = m]
  <2>2. o.m = m BY DEF NoObject
  <2>3. ManifestSafe(s, m) /\ (AlwaysExternal(s) => m.ext)
    BY DEF ManifestSafe, AlwaysExternal, NeverOn
  <2>4. ObjectSafe(s, o)
    <3> HIDE DEF o
    <3> QED BY <2>2, <2>3 DEF ObjectSafe
  <2>5. UNCHANGED <<lister, cache>> /\ UNCHANGED proc /\ UNCHANGED cloud BY <1>1 DEF UserCreates
  <2>6. api' = [api EXCEPT ![s] = o] BY <2>1
  <2> HIDE DEF o
  <2> QED BY <1>u, <2>4, <2>5, <2>6
<1>2. ASSUME NEW s \in Service, UserEdits(s)
      PROVE  KubeSafe' /\ ProcSafe' /\ CloudSafe(nlb') /\ lastNLB' >= Provisioned
  <2>1. PICK m \in Manifests[s] :
          api' = [api EXCEPT ![s].m =
                    [m EXCEPT !.id = IF m.id = NoID THEN api[s].m.id ELSE m.id,
                              !.pool = IF m.pool = None THEN api[s].m.pool ELSE m.pool]]
    BY <1>2 DEF UserEdits
  <2> DEFINE n == [m EXCEPT !.id = IF m.id = NoID THEN api[s].m.id ELSE m.id,
                            !.pool = IF m.pool = None THEN api[s].m.pool ELSE m.pool]
             o == [api[s] EXCEPT !.m = n]
  <2>2. n.ext = m.ext /\ n.id \in {m.id, api[s].m.id} BY <1>m DEF Manifest
  <2>3. ManifestSafe(s, api[s].m) BY <1>t DEF KubeSafe, ObjectSafe
  <2>4. ManifestSafe(s, n) /\ (AlwaysExternal(s) => n.ext)
    <3> HIDE DEF n
    <3> QED BY <2>2, <2>3 DEF ManifestSafe, AlwaysExternal, NeverOn
  <2>5. o.m = n BY <1>t DEF KubeOK, Object
  <2>6. ObjectSafe(s, o)
    <3> HIDE DEF n, o
    <3> QED BY <2>4, <2>5 DEF ObjectSafe
  <2>7. UNCHANGED <<lister, cache>> /\ UNCHANGED proc /\ UNCHANGED cloud BY <1>2 DEF UserEdits
  <2>8. api' = [api EXCEPT ![s] = o] BY <2>1
  <2> HIDE DEF o
  <2> QED BY <1>u, <2>6, <2>7, <2>8
<1>3. ASSUME NEW s \in Service, UserDeletes(s)
      PROVE  KubeSafe' /\ ProcSafe' /\ CloudSafe(nlb') /\ lastNLB' >= Provisioned
  <2> DEFINE o1 == [api[s] EXCEPT !.phase = "deleting"]
             o2 == [NoObject EXCEPT !.phase = "gone"]
  <2>1. ObjectSafe(s, o1)
    <3>1. o1.m = api[s].m BY <1>t DEF KubeOK, Object
    <3>2. api[s].phase = "live" BY <1>3 DEF UserDeletes
    <3> HIDE DEF o1
    <3> QED BY <1>t, <3>1, <3>2 DEF KubeSafe, ObjectSafe
  <2>2. ObjectSafe(s, o2)
    <3>1. o2.m = NoObject.m /\ o2.phase = "gone" BY DEF NoObject
    <3> QED BY <3>1, SafeDefaults DEF ObjectSafe
  <2>3. /\ api' = [api EXCEPT ![s] = o1] \/ api' = [api EXCEPT ![s] = o2]
        /\ UNCHANGED <<lister, cache>> /\ UNCHANGED proc /\ UNCHANGED cloud
    BY <1>3 DEF UserDeletes
  <2> HIDE DEF o1, o2
  <2> QED BY <1>u, <2>1, <2>2, <2>3
<1>4. CASE ClusterChanges
  BY <1>4, <1>t, KubeKept DEF ClusterChanges, k8s, cloud, ProcSafe
<1>5. CASE CloudDeletes
  <2>1. PICK i \in ID : i > Provisioned /\ nlb' = [nlb EXCEPT ![i] = NoNLB]
    BY <1>5 DEF CloudDeletes
  <2>2. \A j \in ID : Protected(j) => nlb'[j] = nlb[j]
    BY <1>t, <2>1, BoundsAssumption DEF Protected, ID
  <2>3. CloudSafe(nlb') BY <1>t, <2>2 DEF CloudSafe
  <2> QED BY <1>5, <1>t, <2>3, KubeKept DEF CloudDeletes, k8s, ProcSafe
<1>6. CASE Crash
  <2>1. ProcSafe' BY <1>6, SafeDefaults DEF Crash, ProcSafe
  <2>2. KubeSafe' BY <1>6, <1>t, SafeDefaults DEF Crash, KubeSafe, ObjectSafe
  <2> QED BY <1>6, <1>t, <2>1, <2>2 DEF Crash, cloud
<1>7. ASSUME NEW s \in Service, NodeSync(s)
      PROVE  KubeSafe' /\ ProcSafe' /\ CloudSafe(nlb') /\ lastNLB' >= Provisioned
  BY <1>7, ControllerExternal
<1> QED BY <1>1, <1>2, <1>3, <1>4, <1>5, <1>6, <1>7 DEF Environment

(* ExternalInv is inductive. *)
LEMMA NextExternal == ExternalInv /\ [Next]_vars => ExternalInv'
<1> SUFFICES ASSUME ExternalInv, [Next]_vars PROVE ExternalInv' OBVIOUS
<1>0. TypeOK' BY NextType DEF ExternalInv
<1>s. ASSUME KubeSafe' /\ ProcSafe' /\ CloudSafe(nlb') /\ lastNLB' >= Provisioned
      PROVE  ExternalInv'
  BY <1>0, <1>s DEF ExternalInv, CloudSafe
<1>u. ASSUME NEW p \in Proc, UpdateStep(p) PROVE ExternalInv'
  <2>1. ProcSafe' /\ CloudSafe(nlb') BY <1>u, UpdateExternal
  <2>2. UNCHANGED <<api, lister, cache>> /\ UNCHANGED lastNLB
    BY <1>u DEF UpdateStep, GetCurrent, UpdateTopLevel, PruneService, ApplyService,
                ReaddService, VerifyService, cloud
  <2>3. KubeSafe' /\ lastNLB' >= Provisioned BY <2>2, KubeKept DEF ExternalInv
  <2> QED BY <1>s, <2>1, <2>3
<1>1. ASSUME NEW s \in Service, ServiceStep(s) PROVE ExternalInv'
  BY <1>1, <1>s, <1>u, EnsureExternal, DeleteExternal, Processes DEF ServiceStep
<1>2. ASSUME NEW s \in Service, NodeStep(s) PROVE ExternalInv'
  BY <1>2, <1>s, <1>u, ControllerExternal, Processes DEF NodeStep
<1>3. ASSUME NEW s \in Service, SyncService(s) \/ Deliver(s) PROVE ExternalInv'
  BY <1>3, <1>s, ControllerExternal
<1>4. CASE Environment BY <1>4, <1>s, EnvironmentExternal
<1>5. CASE UNCHANGED vars
  <2>1. KubeSafe' BY <1>5, KubeKept DEF ExternalInv, vars, k8s
  <2>2. ProcSafe' BY <1>5 DEF ExternalInv, ProcSafe, vars
  <2>3. CloudSafe(nlb') /\ lastNLB' >= Provisioned BY <1>5 DEF ExternalInv, vars, cloud
  <2> QED BY <1>s, <2>1, <2>2, <2>3
<1> QED BY <1>1, <1>2, <1>3, <1>4, <1>5 DEF Next

(* The external annotation keeps its promise: whatever Services share the   *)
(* cluster, whatever fails and however often the provider restarts, it      *)
(* neither deletes nor renames an NLB that it did not create and that only  *)
(* Services marked external refer to (the guards on the annotation in       *)
(* updateLoadBalancer and EnsureLoadBalancerDeleted suffice, although they  *)
(* look at copies of the Service that may be out of date).                  *)
THEOREM ExternalSafety == Spec => []ExternalUntouched
<1>1. ExternalInv => ExternalUntouched BY DEF ExternalInv, CloudSafe, ExternalUntouched
<1> QED BY <1>1, InitExternal, NextExternal, PTL DEF Spec

-----------------------------------------------------------------------------
(* The NLB services of others *)

(* x is on a protected NLB, on a port that no Service of the cluster has. *)
Foreign(i, x) ==
  Protected(i) /\ x \in Preset[i].svcs /\ \A s \in Service : x.key \notin Ports(s)

(* Nothing that p has planned to delete or to update is x. *)
Spares(p, i, x) ==
  proc[p].m.id = i /\ proc[p].pc \in Updating \cup {"delprune"} =>
    /\ \A y \in proc[p].prune : y.sid # x.sid
    /\ \A t \in proc[p].todo : t.sid # x.sid

(* x is there, alone with its ID. *)
Stays(i, x) == x \in nlb[i].svcs /\ \A y \in nlb[i].svcs : y.sid = x.sid => y = x

ForeignInv ==
  /\ ExternalInv /\ PlansInv /\ lastSid >= PresetSid
  /\ \A i \in ID : \A x : Foreign(i, x) =>
       Stays(i, x) /\ \A p \in Proc : Spares(p, i, x)

(* A process that works on a protected NLB takes it for external. *)
LEMMA OnProtected ==
  ASSUME ExternalInv, NEW i \in ID, Protected(i), NEW p \in Proc, proc[p].m.id = i
  PROVE  proc[p].m.ext /\ proc[p].pc \notin {"top", "dellb"}
<1>1. p[1] \in Service BY DEF Proc
<1>2. RecordSafe(p, proc[p]) BY DEF ExternalInv, ProcSafe
<1>3. AlwaysExternal(p[1]) \/ NeverOn(p[1], i) BY <1>1 DEF Protected
<1> QED BY <1>2, <1>3 DEF RecordSafe, ManifestSafe

(* What a task changes is on a port of the Service. *)
LEMMA TaskSids ==
  ASSUME NEW s, NEW m, NEW cur, NEW t \in Tasks(s, m, cur)
  PROVE  t.sid = NoID \/ \E x \in cur.svcs : x.sid = t.sid /\ x.key \in m.ports
<1>1. \A w \in Wanted(s, m) : w.key \in m.ports BY DEF Wanted
<1> QED BY <1>1 DEF Tasks

(* No call touches x. *)
LEMMA StaysCalls ==
  ASSUME ForeignInv, NEW i \in ID, NEW x, Foreign(i, x), NEW p \in Proc, Calls(p)
  PROVE  Stays(i, x)'
<1> DEFINE q == proc[p]
<1>t. TypeOK /\ nlb \in [ID -> NLB] /\ ExternalInv /\ Plans(p)
  BY DEF ForeignInv, ExternalInv, TypeOK, PlansInv
<1>x. Stays(i, x) /\ Spares(p, i, x) BY DEF ForeignInv
<1>1. CASE q.m.id # i BY <1>1, <1>t, <1>x, CallsKeep DEF Stays
<1>2. CASE q.m.id = i
  <2>1. q.m.ext /\ q.pc \notin {"top", "dellb"} BY <1>2, <1>t, OnProtected DEF Foreign
  <2>2. CASE nlb' = nlb BY <1>x, <2>2 DEF Stays
  <2>3. CASE Removes(p)
    <3>1. PICK sid : nlb' = Without(i, sid) /\ sid # x.sid
      BY <1>2, <1>x, <2>3 DEF Removes, Spares, Updating
    <3>2. nlb'[i].svcs = {y \in nlb[i].svcs : y.sid # sid} BY <1>t, <3>1, ServiceCalls
    <3> QED BY <1>x, <3>1, <3>2 DEF Stays
  <2>4. CASE Alters(p)
    <3>1. PICK t \in q.todo : nlb' = Updated(i, t.sid, t.want) /\ t.sid # x.sid
      BY <1>2, <1>x, <2>4 DEF Alters, Spares, Updating
    <3>2. x \in nlb'[i].svcs
      <4>1. x \in nlb[i].svcs BY <1>x DEF Stays
      <4>2. x \in Updated(i, t.sid, t.want)[i].svcs BY <1>t, <3>1, <4>1, UpdatedServices
      <4> QED BY <3>1, <4>2
    <3>3. ASSUME NEW y \in nlb'[i].svcs, y.sid = x.sid PROVE y = x
      <4>1. PICK z \in nlb[i].svcs :
              (z.sid # t.sid /\ y = z) \/ (z.sid = t.sid /\ y = Renewed(z, t.want))
        BY <1>t, <3>1, <3>3, UpdatedServices
      <4>2. Renewed(z, t.want).sid = z.sid BY <1>t DEF Renewed, NLB, NLBService
      <4> QED BY <1>x, <3>1, <3>3, <4>1, <4>2 DEF Stays
    <3> QED BY <3>2, <3>3 DEF Stays
  <2>5. CASE Adds(p)
    <3>1. PICK t \in q.todo \cup q.doing : nlb' = With(i, t.want) BY <1>2, <2>5 DEF Adds
    <3> DEFINE n == [sid |-> lastSid + 1, key |-> t.want.key, own |-> t.want.own,
                     pool |-> t.want.pool, cfg |-> t.want.cfg]
    <3>2. nlb'[i].svcs = nlb[i].svcs \cup {n} BY <1>t, <3>1, ServiceCalls
    <3>3. n.sid # x.sid
      <4>1. i \in 1 .. Provisioned /\ x \in Preset[i].svcs BY DEF Foreign, Protected
      <4>2. x.sid \in Nat /\ x.sid <= PresetSid
        <5>1. Preset[i] \in NLB BY <4>1, BoundsAssumption
        <5>2. x \in NLBService BY <4>1, <5>1 DEF NLB
        <5>3. x.sid \in SID BY <5>2 DEF NLBService
        <5> QED BY <4>1, <5>3, BoundsAssumption DEF SID
      <4>3. lastSid \in Nat /\ PresetSid \in Nat /\ lastSid >= PresetSid
        BY <1>t, BoundsAssumption DEF ForeignInv, TypeOK
      <4> QED BY <4>2, <4>3
    <3> HIDE DEF n
    <3> QED BY <1>x, <3>2, <3>3 DEF Stays
  <2> QED BY <2>1, <2>2, <2>3, <2>4, <2>5 DEF Calls, Renames
<1> QED BY <1>1, <1>2

LEMMA NextForeign == ForeignInv /\ [Next]_vars => ForeignInv'
<1> SUFFICES ASSUME ForeignInv, [Next]_vars PROVE ForeignInv' OBVIOUS
<1>t. TypeOK /\ Fresh /\ CloudOK /\ ExternalInv /\ CopiesInv /\ lastSid \in Nat
      /\ lastNLB >= Provisioned /\ lastNLB \in Nat
  BY TypeParts DEF ForeignInv, ExternalInv, PlansInv, CopiesInv, CloudOK
<1>b. Provisioned \in Nat /\ PresetSid \in Nat BY BoundsAssumption
<1>p. ExternalInv' /\ PlansInv' BY NextExternal, NextPlans DEF ForeignInv
<1>c. ASSUME NEW s \in Service, ObjectStep(s) PROVE UNCHANGED cloud \/ Creating(s)
  BY <1>c DEF ObjectStep, Finalizing, Patching, Fetching, Returning, Unfinalizing, Forgetting,
              Syncing, Delivering, NodeSyncing, NodeReturning, Submitting
<1>l. lastSid' >= PresetSid
  <2>1. ASSUME NEW p \in Proc, Calls(p) \/ Destroys(p) PROVE lastSid' \in {lastSid, lastSid + 1}
    BY <2>1 DEF Calls, Destroys, Renames, Removes, Alters, Adds
  <2>2. lastSid' \in {lastSid, lastSid + 1}
    <3>1. ASSUME NEW s \in Service, ObjectStep(s) PROVE lastSid' = lastSid
      BY <1>c, <3>1 DEF cloud, Creating
    <3>2. ASSUME NEW p \in Proc, Update(p) PROVE lastSid' \in {lastSid, lastSid + 1}
      BY <2>1, <3>2 DEF Update
    <3>3. ASSUME NEW s \in Service, Withdraw(s) PROVE lastSid' \in {lastSid, lastSid + 1}
      BY <2>1, <3>3, Processes DEF Withdraw
    <3>4. Drifts \/ Restarts => lastSid' = lastSid BY DEF Drifts, Restarts, cloud
    <3> QED BY <1>t, <3>1, <3>2, <3>3, <3>4, Steps
  <2> QED BY <1>b, <1>t, <2>2 DEF ForeignInv
<1>1. ASSUME NEW i \in ID, NEW x, Foreign(i, x) PROVE Stays(i, x)'
  <2>0. i \in Nat /\ i <= Provisioned /\ Stays(i, x) BY <1>1, <1>b DEF Foreign, Protected, ForeignInv
  <2>1. ASSUME nlb'[i] = nlb[i] PROVE Stays(i, x)' BY <2>0, <2>1 DEF Stays
  <2>2. ASSUME NEW s \in Service, ObjectStep(s) PROVE Stays(i, x)'
    <3>1. UNCHANGED cloud \/ Creating(s) BY <1>c, <2>2
    <3>2. nlb' = nlb \/ \E n : nlb' = [nlb EXCEPT ![lastNLB + 1] = n] BY <3>1 DEF Creating, cloud
    <3>3. i # lastNLB + 1 BY <1>b, <1>t, <2>0
    <3> QED BY <1>t, <2>1, <3>2, <3>3 DEF CloudOK
  <2>3. ASSUME NEW p \in Proc, Update(p) PROVE Stays(i, x)'
    BY <1>1, <2>3, StaysCalls DEF Update
  <2>4. ASSUME NEW s \in Service, Withdraw(s) PROVE Stays(i, x)'
    <3> DEFINE p == <<s, "svc">>
    <3>0. p \in Proc BY Processes
    <3>1. CASE Calls(p) BY <1>1, <3>0, <3>1, StaysCalls
    <3>2. CASE Destroys(p)
      <4>1. proc[p].m.id # i BY <1>1, <1>t, <3>0, <3>2, OnProtected DEF Foreign, Destroys
      <4>2. nlb' = [nlb EXCEPT ![proc[p].m.id] = NoNLB] BY <3>2 DEF Destroys
      <4> QED BY <1>t, <2>1, <4>1, <4>2 DEF CloudOK
    <3> QED BY <2>4, <3>1, <3>2 DEF Withdraw
  <2>5. ASSUME Drifts PROVE Stays(i, x)'
    <3>1. nlb' = nlb \/ \E j \in ID : j # i /\ nlb' = [nlb EXCEPT ![j] = NoNLB]
      BY <1>b, <2>0, <2>5 DEF Drifts, ID
    <3> QED BY <1>t, <2>1, <3>1 DEF CloudOK
  <2>6. ASSUME Restarts PROVE Stays(i, x)' BY <2>1, <2>6 DEF Restarts, cloud
  <2> QED BY <1>t, <2>2, <2>3, <2>4, <2>5, <2>6, Steps
<1>2. ASSUME NEW i \in ID, NEW x, Foreign(i, x), NEW p \in Proc PROVE Spares(p, i, x)'
  <2> DEFINE q == proc[p]
             r == proc'[p]
  <2>0. Spares(p, i, x) /\ Stays(i, x) /\ Plans(p) BY <1>2 DEF ForeignInv, PlansInv
  <2>k. ASSUME NEW y \in nlb[i].svcs, y.key \in Ports(p[1]) PROVE y.sid # x.sid
    <3>1. p[1] \in Service BY DEF Proc
    <3> QED BY <1>2, <2>0, <2>k, <3>1 DEF Stays, Foreign
  <2>1. CASE r = q BY <2>0, <2>1 DEF Spares
  <2>2. CASE r.pc \in Planless \cup {"forget"} BY <2>2 DEF Spares, Planless, Updating
  <2>3. CASE Update(p) /\ Advances(p, r)
    <3>1. r.m = q.m /\ Planned(p, r) /\ q.pc # "idle" BY <2>3 DEF Advances, Update, Updating
    <3>2. CASE q.m.id # i BY <3>1, <3>2 DEF Spares
    <3>3. CASE q.m.id = i /\ q.pc \in Updating
      BY <2>0, <3>1, <3>3 DEF Planned, Spares, Updating
    <3>4. CASE q.m.id = i /\ q.pc = "get"
      <4>1. r.prune = Stale(q.m, nlb[i]) /\ r.todo = Tasks(p[1], q.m, nlb[i])
        BY <3>1, <3>4 DEF Planned, Updating
      <4>2. q.m.ext BY <1>2, <1>t, <3>4, OnProtected DEF Foreign
      <4>3. q.m.ports \subseteq Ports(p[1]) BY <1>t, <3>1, WorkSubmitted
      <4>4. x.sid # NoID
        <5>1. i \in 1 .. Provisioned /\ x \in Preset[i].svcs BY <1>2 DEF Foreign, Protected
        <5>2. Preset[i] \in NLB BY <5>1, BoundsAssumption
        <5>3. x.sid \in SID BY <5>1, <5>2 DEF NLB, NLBService
        <5> QED BY <5>3 DEF SID, NoID
      <4>5. \A t \in r.todo : t.sid # x.sid BY <2>k, <4>1, <4>3, <4>4, TaskSids
      <4>6. r.prune = {} BY <4>1, <4>2 DEF Stale
      <4> QED BY <4>5, <4>6 DEF Spares
    <3> QED BY <3>1, <3>2, <3>3, <3>4 DEF Planned
  <2>4. CASE \E s \in Service : p = <<s, "svc">> /\ Withdraw(s) /\ Withdraws(p, r)
    <3>1. /\ q.pc \in {"exists", "delfetch", "delprune", "dellb"} /\ Withdraws(p, r)
          /\ q.end \in {"unfinal", "forget"}
      BY <1>t, <2>4 DEF Withdraw, TypeOK, Process
    <3>2. r.m = q.m /\ r.todo = q.todo BY <3>1 DEF Withdraws
    <3>3. q.m.ports \subseteq Ports(p[1]) BY <1>t, <3>1, WorkSubmitted
    <3>4. SUFFICES ASSUME r.pc \in Updating \cup {"delprune"}, r.m.id = i
                   PROVE  /\ \A y \in r.prune : y.sid # x.sid
                          /\ \A t \in r.todo : t.sid # x.sid
      BY DEF Spares
    <3>5. r.pc = "delprune" BY <3>1, <3>4 DEF Withdraws, AfterPrune, Updating
    <3>6. CASE q.pc = "delprune"
      BY <2>0, <3>1, <3>2, <3>4, <3>6 DEF Spares, Withdraws
    <3>7. CASE q.pc = "delfetch"
      <4>1. r.prune = {y \in nlb[i].svcs : y.key \in q.m.ports}
        BY <3>1, <3>2, <3>4, <3>5, <3>7 DEF Withdraws
      <4>2. q.todo = {} BY <2>0, <3>7 DEF Plans, NoPlan, Planless
      <4> QED BY <2>k, <3>2, <3>3, <4>1, <4>2
    <3> QED BY <3>1, <3>5, <3>6, <3>7 DEF Withdraws, AfterPrune
  <2> QED BY <1>t, <2>1, <2>2, <2>3, <2>4, ProcessStep DEF Proceeds
<1> QED BY <1>1, <1>2, <1>l, <1>p DEF ForeignInv

LEMMA InitForeign == Init => ForeignInv
<1> SUFFICES ASSUME Init PROVE ForeignInv OBVIOUS
<1>1. ExternalInv /\ PlansInv BY InitExternal, InitPlans
<1>2. lastSid >= PresetSid BY BoundsAssumption DEF Init
<1>3. ASSUME NEW i \in ID, NEW x, Foreign(i, x) PROVE Stays(i, x)
  <2>1. i \in 1 .. Provisioned /\ x \in Preset[i].svcs BY <1>3 DEF Foreign, Protected
  <2>2. nlb[i] = Preset[i] BY <2>1 DEF Init
  <2> QED BY <2>1, <2>2, BoundsAssumption DEF Stays
<1>4. ASSUME NEW i \in ID, NEW x, NEW p \in Proc PROVE Spares(p, i, x)
  BY DEF Init, Spares, Idle, Updating
<1> QED BY <1>1, <1>2, <1>3, <1>4 DEF ForeignInv

(* What others have on a shared external NLB is safe: an NLB service on a   *)
(* port that no Service of the cluster declares is neither deleted nor      *)
(* altered by the provider, which plans from snapshots of the NLB and acts  *)
(* on the plans later, by ID, while other Services' workers and node syncs  *)
(* add, replace and delete NLB services of the same NLB.                    *)
THEOREM ForeignServicesSafe == Spec => []ForeignServicesKept
<1>1. ForeignInv => ForeignServicesKept
  BY DEF ForeignInv, ForeignServicesKept, Foreign, Stays, Ports
<1> QED BY <1>1, InitForeign, NextForeign, PTL DEF Spec

=============================================================================
