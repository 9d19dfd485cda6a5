----------------------------- MODULE SyncProofs -----------------------------
(***************************************************************************)
(* What updateLoadBalancer plans from one snapshot of the NLB is enough:   *)
(* at every step, what the NLB has and what is still to be done add up to  *)
(* what the Service asks for, so that EnsureLoadBalancer returns only when *)
(* the NLB is in that state.  And it is no more than enough: no plan, of   *)
(* whichever process and however old, deletes an NLB service that serves   *)
(* another Service or one whose manifest has not changed.                  *)
(***************************************************************************)
EXTENDS OwnershipProofs, ExternalProofs

(* Nobody but the service workers changes the NLBs, each those of its own   *)
(* Service.                                                                 *)
SoleActor == AllManaged /\ MaxNodeSyncs = 0 /\ MaxDrift = 0

-----------------------------------------------------------------------------
(* The IDs of NLB services are handed out once *)

Sids ==
  \A j \in ID : \A x \in nlb[j].svcs :
    x.sid <= lastSid /\ \A y \in nlb[j].svcs : y.sid = x.sid => y = x

LEMMA CallsSids ==
  ASSUME TypeOK, NEW p \in Proc, Calls(p), Sids
  PROVE  Sids' /\ lastSid <= lastSid'
<1> DEFINE i == proc[p].m.id
<1>t. /\ nlb \in [ID -> NLB] /\ lastSid \in Nat
      /\ \A j \in ID : \A x \in nlb[j].svcs : x \in NLBService /\ x.sid \in Nat
  BY BoundsAssumption DEF TypeOK, NLB, NLBService, SID
<1>o. ASSUME NEW j \in ID, j # i PROVE nlb'[j] = nlb[j] BY <1>o, CallsKeep
<1>s. ASSUME lastSid <= lastSid', lastSid' \in Nat, i \in ID,
             \A x \in nlb'[i].svcs :
               x.sid <= lastSid' /\ \A y \in nlb'[i].svcs : y.sid = x.sid => y = x
      PROVE  Sids'
  <2>1. ASSUME NEW j \in ID, NEW x \in nlb'[j].svcs
        PROVE  x.sid <= lastSid' /\ \A y \in nlb'[j].svcs : y.sid = x.sid => y = x
    <3>1. CASE j = i BY <1>s, <2>1, <3>1
    <3>2. CASE j # i BY <1>s, <1>o, <1>t, <2>1, <3>2 DEF Sids
    <3> QED BY <3>1, <3>2
  <2> QED BY <2>1 DEF Sids
<1>1. CASE nlb' = nlb /\ lastSid' = lastSid BY <1>1, <1>t DEF Sids
<1>2. CASE Live(i) /\ Renames(p)
  <2>1. /\ nlb' = [nlb EXCEPT ![i].name = GetLoadBalancerName(p[1], proc[p].m), ![i].desc = proc[p].cdesc]
        /\ i \in ID /\ lastSid' = lastSid
    BY <1>2 DEF Renames, Live
  <2>2. nlb'[i].svcs = nlb[i].svcs BY <1>t, <2>1 DEF NLB
  <2>3. i \in ID /\ lastSid' = lastSid BY <2>1
  <2> QED BY <1>s, <1>t, <2>2, <2>3 DEF Sids
<1>3. CASE Live(i) /\ Removes(p)
  <2>1. PICK sid : nlb' = Without(i, sid) BY <1>3 DEF Removes
  <2>2. i \in ID /\ lastSid' = lastSid BY <1>3 DEF Removes, Live
  <2>3. nlb'[i].svcs = {x \in nlb[i].svcs : x.sid # sid}
    <3>1. Without(i, sid)[i].svcs = {x \in nlb[i].svcs : x.sid # sid}
      BY <1>t, <2>2, ServiceCalls
    <3> QED BY <2>1, <3>1
  <2> QED BY <1>s, <1>t, <2>2, <2>3 DEF Sids
<1>4. CASE Live(i) /\ Alters(p)
  <2>1. PICK t : nlb' = Updated(i, t.sid, t.want) BY <1>4 DEF Alters
  <2>2. i \in ID /\ lastSid' = lastSid BY <1>4 DEF Alters, Live
  <2>3. ASSUME NEW x \in nlb'[i].svcs
        PROVE  \E z \in nlb[i].svcs :
                 x.sid = z.sid /\ ((z.sid # t.sid /\ x = z) \/ (z.sid = t.sid /\ x = Renewed(z, t.want)))
    <3>1. PICK z \in nlb[i].svcs :
            (z.sid # t.sid /\ x = z) \/ (z.sid = t.sid /\ x = Renewed(z, t.want))
      BY <1>t, <2>1, <2>2, <2>3, UpdatedServices
    <3>2. Renewed(z, t.want).sid = z.sid BY <1>t, <2>2 DEF Renewed, NLBService
    <3> QED BY <3>1, <3>2
  <2>4. ASSUME NEW x \in nlb'[i].svcs
        PROVE  x.sid <= lastSid' /\ \A y \in nlb'[i].svcs : y.sid = x.sid => y = x
    <3>1. PICK z \in nlb[i].svcs :
            x.sid = z.sid /\ ((z.sid # t.sid /\ x = z) \/ (z.sid = t.sid /\ x = Renewed(z, t.want)))
      BY <2>3
    <3>2. ASSUME NEW y \in nlb'[i].svcs, y.sid = x.sid PROVE y = x
      <4>1. PICK v \in nlb[i].svcs :
              y.sid = v.sid /\ ((v.sid # t.sid /\ y = v) \/ (v.sid = t.sid /\ y = Renewed(v, t.want)))
        BY <2>3
      <4>2. v = z BY <2>2, <3>1, <3>2, <4>1 DEF Sids
      <4> QED BY <3>1, <4>1, <4>2
    <3> QED BY <2>2, <3>1, <3>2 DEF Sids
  <2> QED BY <1>s, <1>t, <2>2, <2>4
<1>5. CASE Live(i) /\ Adds(p)
  <2>1. PICK t : nlb' = With(i, t.want) BY <1>5 DEF Adds
  <2> DEFINE n == [sid |-> lastSid + 1, key |-> t.want.key, own |-> t.want.own,
                   pool |-> t.want.pool, cfg |-> t.want.cfg]
  <2>2. i \in ID /\ lastSid' = lastSid + 1 BY <1>5 DEF Adds, Live
  <2>3. nlb'[i].svcs = nlb[i].svcs \cup {n} BY <1>t, <2>1, <2>2, ServiceCalls
  <2>4. n.sid = lastSid + 1 OBVIOUS
  <2> HIDE DEF n
  <2>5. ASSUME NEW x \in nlb'[i].svcs
        PROVE  x.sid <= lastSid' /\ \A y \in nlb'[i].svcs : y.sid = x.sid => y = x
    <3>1. \A z \in nlb[i].svcs : z.sid <= lastSid /\ z.sid \in Nat BY <1>t, <2>2 DEF Sids
    <3>2. CASE x = n BY <1>t, <2>2, <2>3, <2>4, <3>1, <3>2
    <3>3. CASE x \in nlb[i].svcs
      <4>1. x.sid <= lastSid /\ x.sid \in Nat BY <3>1, <3>3
      <4>2. \A y \in nlb[i].svcs : y.sid = x.sid => y = x BY <2>2, <3>3 DEF Sids
      <4> QED BY <1>t, <2>2, <2>3, <2>4, <4>1, <4>2
    <3> QED BY <2>3, <2>5, <3>2, <3>3
  <2> QED BY <1>s, <1>t, <2>2, <2>5
<1> QED BY <1>1, <1>2, <1>3, <1>4, <1>5 DEF Calls

LEMMA NextSids ==
  ASSUME CopiesInv, Sids, [Next]_vars
  PROVE  Sids' /\ lastSid <= lastSid'
<1>t. TypeOK /\ Fresh /\ nlb \in [ID -> NLB] /\ lastSid \in Nat
  BY BoundsAssumption DEF CopiesInv, TypeOK
<1>u. ASSUME nlb' = nlb, lastSid' = lastSid PROVE Sids' /\ lastSid <= lastSid'
  BY <1>t, <1>u DEF Sids
<1>d. ASSUME NEW i \in ID, NEW n, n.svcs = {}, nlb' = [nlb EXCEPT ![i] = n], lastSid' = lastSid
      PROVE  Sids' /\ lastSid <= lastSid'
  <2>1. ASSUME NEW j \in ID PROVE nlb'[j].svcs \subseteq nlb[j].svcs BY <1>t, <1>d
  <2> QED BY <1>d, <1>t, <2>1 DEF Sids
<1>n. NoNLB.svcs = {} BY DEF NoNLB
<1>1. ASSUME NEW s \in Service, ObjectStep(s) PROVE Sids' /\ lastSid <= lastSid'
  <2>1. CASE UNCHANGED cloud BY <1>u, <2>1 DEF cloud
  <2>2. CASE Creating(s)
    <3>1. CASE nlb' = nlb BY <1>u, <2>2, <3>1 DEF Creating
    <3>2. PICK n : n.svcs = {} /\ (nlb' = nlb \/ nlb' = [nlb EXCEPT ![lastNLB + 1] = n])
      BY <2>2 DEF Creating
    <3> QED BY <1>d, <2>2, <3>1, <3>2 DEF Creating
  <2> QED BY <1>1, <2>1, <2>2
          DEF ObjectStep, Finalizing, Patching, Fetching, Returning, Unfinalizing, Forgetting,
              Syncing, Delivering, NodeSyncing, NodeReturning, Submitting
<1>2. ASSUME NEW p \in Proc, Calls(p) PROVE Sids' /\ lastSid <= lastSid'
  BY <1>2, <1>t, CallsSids
<1>3. ASSUME NEW p \in Proc, Destroys(p) PROVE Sids' /\ lastSid <= lastSid'
  BY <1>3, <1>d, <1>n DEF Destroys, Live
<1>4. CASE Drifts BY <1>4, <1>d, <1>n, <1>u DEF Drifts
<1>5. CASE Restarts BY <1>5, <1>u DEF Restarts, cloud
<1> QED BY <1>1, <1>2, <1>3, <1>4, <1>5, <1>t, Steps, Processes DEF Update, Withdraw

LEMMA InitSids == Init => Sids
  BY BoundsAssumption DEF Init, Sids, NoNLB, ID

-----------------------------------------------------------------------------
(* What the NLB has and what is to be done add up *)

Matched(X, w) ==
  \E x \in X : x.key = w.key /\ x.own = w.own /\ x.pool = w.pool /\ x.cfg = w.cfg

(* X, the NLB services of the NLB of s: those that no port asks for are to  *)
(* be pruned; each that is wanted is there or is a task, perhaps one whose  *)
(* NLB service is already deleted (late); a prune or a task hits, by its ID, *)
(* what it is meant for; and no ID above last is known yet.                 *)
AddsUp(s, m, prune, todo, late, X, last) ==
  /\ \A x \in X : x.key \in m.ports \/ x \in prune
  /\ \A w \in Wanted(s, m) : Matched(X, w) \/ \E t \in todo \cup late : t.want = w
  /\ \A x \in prune : x.key \notin m.ports /\ \A y \in X : y.sid = x.sid => y = x
  /\ \A t \in todo \cup late : t.want \in Wanted(s, m)
  /\ \A t \in todo :
       /\ t.sid <= last
       /\ \A x \in X : x.sid = t.sid =>
            x.key = t.want.key /\ (t.op = "update" => x.pool = t.want.pool)

(* What is wanted is known by its port. *)
LEMMA WantedKeys ==
  ASSUME NEW s, NEW m
  PROVE  /\ \A w \in Wanted(s, m) : w.key \in m.ports
         /\ \A v, w \in Wanted(s, m) : v.key = w.key => v = w
  BY DEF Wanted

(* The plan made from a snapshot adds up with it. *)
LEMMA PlanAddsUp ==
  ASSUME NEW s, NEW m \in Manifest, ~m.ext, NEW n \in NLB, NEW last \in Nat,
         \A x \in n.svcs : x.sid <= last /\ \A y \in n.svcs : y.sid = x.sid => y = x
  PROVE  AddsUp(s, m, Stale(m, n), Tasks(s, m, n), {}, n.svcs, last)
<1> DEFINE X == n.svcs
           todo == Tasks(s, m, n)
           Add(w) == [op |-> "add", sid |-> NoID, want |-> w]
           Change(x, w) == [op |-> IF x.pool # w.pool THEN "replace" ELSE "update",
                            sid |-> x.sid, want |-> w]
           Differs(x, w) == x.pool # w.pool \/ isLoadBalancerServiceUpdated(x, w)
<1>s. \A x \in X : x.sid \in Nat /\ x.sid # NoID
  BY BoundsAssumption DEF NLB, NLBService, SID, NoID
<1>1. Stale(m, n) = {x \in X : x.key \notin m.ports} BY DEF Stale
<1>2. ASSUME NEW w \in Wanted(s, m), \A x \in X : x.key # w.key PROVE Add(w) \in todo
  BY <1>2 DEF Tasks
<1>3. ASSUME NEW x \in X, NEW w \in Wanted(s, m), w.key = x.key, Differs(x, w)
      PROVE  Change(x, w) \in todo
  <2> DEFINE Some(v) == {Change(v, u) : u \in {u \in Wanted(s, m) : u.key = v.key /\ Differs(v, u)}}
  <2>1. Change(x, w) \in Some(x) BY <1>3
  <2>2. UNION {Some(v) : v \in X} \subseteq todo BY DEF Tasks
  <2> HIDE DEF Some, Change, todo
  <2> QED BY <2>1, <2>2
<1>4. ASSUME NEW t \in todo
      PROVE  \/ t.sid = NoID
             \/ \E x \in X : /\ t.sid = x.sid /\ t.want.key = x.key
                             /\ t.op = "update" => x.pool = t.want.pool
  <2>1. \/ \E w \in Wanted(s, m) : t = Add(w)
        \/ \E x \in X : \E w \in Wanted(s, m) : t = Change(x, w) /\ w.key = x.key
    BY <1>4 DEF Tasks
  <2>2. CASE \E w \in Wanted(s, m) : t = Add(w) BY <2>2
  <2>3. CASE \E x \in X : \E w \in Wanted(s, m) : t = Change(x, w) /\ w.key = x.key BY <2>3
  <2> QED BY <2>1, <2>2, <2>3
<1>5. ASSUME NEW w \in Wanted(s, m) PROVE Matched(X, w) \/ \E t \in todo : t.want = w
  <2>1. CASE \A x \in X : x.key # w.key
    <3>1. Add(w).want = w OBVIOUS
    <3> HIDE DEF todo, Add
    <3> QED BY <1>2, <2>1, <3>1
  <2>2. CASE \E x \in X : w.key = x.key
    <3>1. PICK x \in X : w.key = x.key BY <2>2
    <3>2. CASE Differs(x, w)
      <4>1. Change(x, w).want = w OBVIOUS
      <4> HIDE DEF todo, Change, Differs
      <4> QED BY <1>3, <3>1, <3>2, <4>1
    <3>3. CASE ~Differs(x, w) BY <3>1, <3>3 DEF Matched, isLoadBalancerServiceUpdated
    <3> QED BY <3>2, <3>3
  <2> QED BY <2>1, <2>2
<1>6. \A t \in todo : t.want \in Wanted(s, m) BY TaskKeys
<1>7. ASSUME NEW t \in todo
      PROVE  /\ t.sid <= last
             /\ \A x \in X : x.sid = t.sid =>
                  x.key = t.want.key /\ (t.op = "update" => x.pool = t.want.pool)
  <2> HIDE DEF todo
  <2> QED BY <1>4, <1>7, <1>s DEF NoID
<1>8. /\ \A x \in X : x.key \in m.ports \/ x \in Stale(m, n)
      /\ \A x \in Stale(m, n) : x.key \notin m.ports /\ \A y \in X : y.sid = x.sid => y = x
  BY <1>1
<1> HIDE DEF todo, X
<1> QED BY <1>5, <1>6, <1>7, <1>8 DEF AddsUp, todo, X

(* ... and still does when an NLB service that is to go is gone, *)
LEMMA PruneAddsUp ==
  ASSUME NEW s, NEW m, NEW prune, NEW todo, NEW X, NEW last, NEW Y, NEW z \in prune,
         AddsUp(s, m, prune, todo, {}, X, last), \A x : x \in Y <=> x \in X /\ x.sid # z.sid
  PROVE  AddsUp(s, m, prune \ {z}, todo, {}, Y, last)
<1>1. ASSUME NEW w \in Wanted(s, m), Matched(X, w) PROVE Matched(Y, w)
  <2>1. w.key \in m.ports BY WantedKeys
  <2> QED BY <1>1, <2>1 DEF AddsUp, Matched
<1>2. \A x \in Y : x.key \in m.ports \/ x \in prune \ {z} BY DEF AddsUp
<1> QED BY <1>1, <1>2 DEF AddsUp

(* when one is deleted to be created anew, *)
LEMMA ReplaceAddsUp ==
  ASSUME NEW s, NEW m, NEW todo, NEW X, NEW last, NEW Y, NEW t \in todo,
         AddsUp(s, m, {}, todo, {}, X, last), \A x : x \in Y <=> x \in X /\ x.sid # t.sid
  PROVE  AddsUp(s, m, {}, todo \ {t}, {t}, Y, last)
<1>1. ASSUME NEW w \in Wanted(s, m), Matched(X, w), w # t.want PROVE Matched(Y, w)
  <2>1. w.key # t.want.key BY <1>1, WantedKeys DEF AddsUp
  <2> QED BY <1>1, <2>1 DEF AddsUp, Matched
<1> QED BY <1>1 DEF AddsUp

(* when one is created, *)
LEMMA AddAddsUp ==
  ASSUME NEW s, NEW m, NEW todo \in SUBSET Task, NEW late, NEW X, NEW last \in Nat, NEW Y,
         NEW t \in todo \cup late, late \subseteq {t}, NEW y,
         AddsUp(s, m, {}, todo, late, X, last), \A x : x \in Y <=> x \in X \/ x = y,
         y.sid = last + 1, y.key = t.want.key, y.own = t.want.own,
         y.pool = t.want.pool, y.cfg = t.want.cfg
  PROVE  AddsUp(s, m, {}, todo \ {t}, {}, Y, last + 1)
<1>1. y.key \in m.ports BY WantedKeys DEF AddsUp
<1>2. ASSUME NEW w \in Wanted(s, m) PROVE Matched(Y, w) \/ \E u \in todo \ {t} : u.want = w
  <2>1. CASE w = t.want BY <2>1 DEF Matched
  <2>2. CASE w # t.want BY <2>2 DEF AddsUp, Matched
  <2> QED BY <2>1, <2>2
<1>3. ASSUME NEW u \in todo
      PROVE  /\ u.sid <= last + 1
             /\ \A x \in Y : x.sid = u.sid =>
                  x.key = u.want.key /\ (u.op = "update" => x.pool = u.want.pool)
  <2>1. u.sid \in Int BY <1>3, BoundsAssumption DEF Task, SID, NoID
  <2>2. u.sid <= last BY DEF AddsUp
  <2>3. u.sid # y.sid BY <2>1, <2>2
  <2> QED BY <2>1, <2>2, <2>3 DEF AddsUp
<1> QED BY <1>1, <1>2, <1>3 DEF AddsUp

(* and when one is updated. *)
LEMMA UpdateAddsUp ==
  ASSUME NEW s, NEW m, NEW todo, NEW X \in SUBSET NLBService, NEW last, NEW Y, NEW t \in todo,
         AddsUp(s, m, {}, todo, {}, X, last), t.op = "update", \E x \in X : x.sid = t.sid,
         \A x \in Y : \E y \in X :
           (y.sid # t.sid /\ x = y) \/ (y.sid = t.sid /\ x = Renewed(y, t.want)),
         \A y \in X : (y.sid # t.sid => y \in Y) /\ (y.sid = t.sid => Renewed(y, t.want) \in Y)
  PROVE  AddsUp(s, m, {}, todo \ {t}, {}, Y, last)
<1>r. ASSUME NEW x \in X
      PROVE  /\ Renewed(x, t.want).sid = x.sid /\ Renewed(x, t.want).key = x.key
             /\ Renewed(x, t.want).pool = x.pool
             /\ Renewed(x, t.want).own = t.want.own /\ Renewed(x, t.want).cfg = t.want.cfg
  BY DEF Renewed, NLBService
<1>1. ASSUME NEW x \in Y PROVE \E y \in X : x.sid = y.sid /\ x.key = y.key /\ x.pool = y.pool
  BY <1>1, <1>r
<1>2. \A x \in Y : x.key \in m.ports BY <1>1 DEF AddsUp
<1>3. ASSUME NEW w \in Wanted(s, m) PROVE Matched(Y, w) \/ \E u \in todo \ {t} : u.want = w
  <2>1. CASE w = t.want
    <3>1. PICK x \in X : x.sid = t.sid OBVIOUS
    <3>2. x.key = w.key /\ x.pool = w.pool BY <2>1, <3>1 DEF AddsUp
    <3>3. Renewed(x, t.want) \in Y BY <3>1
    <3> QED BY <1>r, <2>1, <3>2, <3>3 DEF Matched
  <2>2. CASE w # t.want
    <3>1. w.key # t.want.key BY <2>2, WantedKeys DEF AddsUp
    <3>2. Matched(X, w) => Matched(Y, w) BY <3>1 DEF AddsUp, Matched
    <3> QED BY <2>2, <3>2 DEF AddsUp
  <2> QED BY <2>1, <2>2
<1>4. ASSUME NEW u \in todo
      PROVE  /\ u.sid <= last
             /\ \A x \in Y : x.sid = u.sid =>
                  x.key = u.want.key /\ (u.op = "update" => x.pool = u.want.pool)
  BY <1>1 DEF AddsUp
<1> QED BY <1>2, <1>3, <1>4 DEF AddsUp

-----------------------------------------------------------------------------
(* updateLoadBalancer keeps its plan in step with the NLB *)

(* The NLB service that a call creates. *)
Created(w) ==
  [sid |-> lastSid + 1, key |-> w.key, own |-> w.own, pool |-> w.pool, cfg |-> w.cfg]

(* What is on the NLB after a call. *)
LEMMA ServicesLeft ==
  ASSUME nlb \in [ID -> NLB], NEW i \in ID
  PROVE  /\ \A sid : /\ Without(i, sid)[i].live = nlb[i].live /\ Without(i, sid)[i].name = nlb[i].name
                     /\ \A x : x \in Without(i, sid)[i].svcs <=> x \in nlb[i].svcs /\ x.sid # sid
         /\ \A w : /\ With(i, w)[i].live = nlb[i].live /\ With(i, w)[i].name = nlb[i].name
                   /\ \A x : x \in With(i, w)[i].svcs <=> x \in nlb[i].svcs \/ x = Created(w)
         /\ \A sid, w : Updated(i, sid, w)[i].live = nlb[i].live /\ Updated(i, sid, w)[i].name = nlb[i].name
<1>s. ASSUME NEW X, NEW c, c = [nlb EXCEPT ![i].svcs = X]
      PROVE  c[i].live = nlb[i].live /\ c[i].name = nlb[i].name /\ c[i].svcs = X
  BY <1>s DEF NLB
<1>1. ASSUME NEW sid
      PROVE  /\ Without(i, sid)[i].live = nlb[i].live /\ Without(i, sid)[i].name = nlb[i].name
             /\ \A x : x \in Without(i, sid)[i].svcs <=> x \in nlb[i].svcs /\ x.sid # sid
  <2> DEFINE X == {x \in nlb[i].svcs : x.sid # sid}
             c == Without(i, sid)
  <2>1. c = [nlb EXCEPT ![i].svcs = X] BY DEF Without
  <2>2. \A x : x \in X <=> x \in nlb[i].svcs /\ x.sid # sid OBVIOUS
  <2> HIDE DEF X, c
  <2>3. c[i].live = nlb[i].live /\ c[i].name = nlb[i].name /\ c[i].svcs = X BY <1>s, <2>1
  <2> QED BY <2>2, <2>3 DEF c
<1>2. ASSUME NEW w
      PROVE  /\ With(i, w)[i].live = nlb[i].live /\ With(i, w)[i].name = nlb[i].name
             /\ With(i, w)[i].svcs = nlb[i].svcs \cup {Created(w)}
  BY <1>s DEF With, Created
<1>3. ASSUME NEW sid, NEW w
      PROVE  Updated(i, sid, w)[i].live = nlb[i].live /\ Updated(i, sid, w)[i].name = nlb[i].name
  <2> DEFINE c == Updated(i, sid, w)
  <2>1. PICK X : c = [nlb EXCEPT ![i].svcs = X] BY DEF Updated
  <2> HIDE DEF c
  <2> QED BY <1>s, <2>1 DEF c
<1> QED BY <1>1, <1>2, <1>3

(* The task whose NLB service is deleted and not yet created anew. *)
Late(q) == IF q.pc = "readd" THEN q.doing ELSE {}

(* The worker q of s and n, the NLB it works on. *)
Track(s, q, n, last) ==
  /\ n.live /\ q.m.id \in ID
  /\ q.pc # "top" => n.name = GetLoadBalancerName(s, q.m)
  /\ q.pc \in {"apply", "readd", "verify", "done"} => q.prune = {}
  /\ q.pc = "done" => q.todo = {}
  /\ q.pc = "readd" => \E t : q.doing = {t}
  /\ AddsUp(s, q.m, q.prune, q.todo, Late(q), n.svcs, last)

OnTrack(s) ==
  Svc(s).pc \in Updating \cup {"done"} => Track(s, Svc(s), nlb[Svc(s).m.id], lastSid)

(* The loops go on with what there is to do. *)
LEMMA LoopTrack ==
  ASSUME NEW s, NEW r, NEW n, NEW last, n.live, r.m.id \in ID,
         n.name = GetLoadBalancerName(s, r.m), r.pc = LoopPC(r.prune, r.todo),
         AddsUp(s, r.m, r.prune, r.todo, {}, n.svcs, last)
  PROVE  Track(s, r, n, last)
  BY DEF Track, LoopPC, Late

(* IDs handed out since do not matter. *)
LEMMA LaterTrack ==
  ASSUME NEW s, NEW q \in Process, NEW n, NEW last \in Nat, NEW later \in Nat, last <= later,
         Track(s, q, n, last)
  PROVE  Track(s, q, n, later)
<1>1. ASSUME NEW t \in q.todo PROVE t.sid <= later
  <2>1. t.sid \in Int BY BoundsAssumption DEF Process, Task, SID, NoID
  <2>2. t.sid <= last BY DEF Track, AddsUp
  <2> QED BY <2>1, <2>2
<1> QED BY <1>1 DEF Track, AddsUp

LEMMA TrackUpdate ==
  ASSUME TypeOK, Sids, NEW s \in Service, UpdateStep(<<s, "svc">>), ~Svc(s).m.ext, OnTrack(s)
  PROVE  OnTrack(s)'
<1> DEFINE p == <<s, "svc">>
           q == proc[p]
           i == q.m.id
           n == nlb[i]
<1>a. p \in Proc BY Processes
<1>c. nlb \in [ID -> NLB] /\ lastSid \in Nat BY BoundsAssumption DEF TypeOK
<1>q. q \in Process BY <1>a DEF TypeOK
<1>0. p \in Proc /\ q \in Process /\ q.m \in Manifest /\ nlb \in [ID -> NLB] /\ lastSid \in Nat
  BY <1>a, <1>c, <1>q DEF Process
<1>t. ProcOK /\ CloudOK BY TypeParts
<1>b. Live(i) \in BOOLEAN /\ \A sid : Has(i, sid) \in BOOLEAN /\ (Has(i, sid) => Live(i))
  BY DEF Live, Has
<1>f. ~q.m.ext /\ q.todo \in SUBSET Task /\ (q.pc \in Updating => Track(s, q, n, lastSid))
  BY <1>0 DEF Svc, OnTrack, Process
<1>e. ASSUME proc'[p] = Idle PROVE OnTrack(s)' BY <1>e DEF OnTrack, Svc, Idle, Updating
<1>r. ASSUME NEW r, proc'[p] = r, r.m = q.m, NEW c, nlb' = c, Track(s, r, c[i], lastSid')
      PROVE  OnTrack(s)'
  BY <1>r DEF OnTrack, Svc
<1>n. ASSUME Live(i) PROVE i \in ID /\ n.live /\ n \in NLB /\ n.svcs \in SUBSET NLBService
  BY <1>0, <1>n DEF Live, NLB
<1>1. CASE GetCurrent(p)
  <2> DEFINE prune == Stale(q.m, n)
             todo == Tasks(s, q.m, n)
             pc == IF ~q.m.ext /\ isLoadBalancerUpdated(s, q.m, n)
                   THEN "top" ELSE LoopPC(prune, todo)
             ok == Parses(q.m) /\ Live(i)
             r == [q EXCEPT !.prune = prune, !.todo = todo, !.cdesc = n.desc, !.pc = pc]
  <2>1. Read(p, ok, r) /\ nlb' = nlb /\ lastSid' = lastSid /\ q.pc = "get"
    BY <1>1 DEF GetCurrent, cloud
  <2>2. r.m = q.m /\ r.pc = pc /\ r.prune = prune /\ r.todo = todo
    <3> HIDE DEF prune, todo, n, pc
    <3> QED BY <1>0 DEF Process
  <2>3. ok \in BOOLEAN /\ (ok => Live(i)) OBVIOUS
  <2>4. (pc = "top" /\ Late(r) = {}) \/ (pc = LoopPC(prune, todo) /\ n.name = GetLoadBalancerName(s, q.m))
    <3> HIDE DEF r, prune, todo
    <3> QED BY <1>f, <2>2 DEF isLoadBalancerUpdated, Late
  <2> HIDE DEF ok, r, pc
  <2>5. Others(p) /\ ((ok /\ proc'[p] = r) \/ proc'[p] = Idle) BY <1>0, <1>t, <2>1, <2>3, ReadOutcome
  <2>6. CASE Live(i) /\ proc'[p] = r
    <3>1. \A x \in n.svcs : x.sid <= lastSid /\ \A y \in n.svcs : y.sid = x.sid => y = x
      BY <1>n, <2>6 DEF Sids
    <3>2. AddsUp(s, q.m, prune, todo, {}, n.svcs, lastSid)
      BY <1>0, <1>f, <1>n, <2>6, <3>1, PlanAddsUp
    <3> HIDE DEF prune, todo
    <3>3. CASE pc = "top" /\ Late(r) = {}
      BY <1>n, <1>r, <2>1, <2>2, <2>6, <3>2, <3>3 DEF Track
    <3>4. CASE pc = LoopPC(prune, todo) /\ n.name = GetLoadBalancerName(s, q.m)
      BY <1>n, <1>r, <2>1, <2>2, <2>6, <3>2, <3>4, LoopTrack
    <3> QED BY <2>4, <3>3, <3>4
  <2> QED BY <1>e, <2>3, <2>5, <2>6
<1>2. CASE UpdateTopLevel(p)
  <2> DEFINE c == [nlb EXCEPT ![i].name = GetLoadBalancerName(p[1], q.m), ![i].desc = q.cdesc]
             pc == LoopPC(q.prune, q.todo)
             r == [q EXCEPT !.pc = pc]
  <2>1. Write(p, Live(i), c, r) /\ lastSid' = lastSid /\ q.pc = "top" BY <1>2 DEF UpdateTopLevel
  <2>2. r.m = q.m /\ r.pc = pc /\ r.prune = q.prune /\ r.todo = q.todo
    <3> HIDE DEF pc
    <3> QED BY <1>0 DEF Process
  <2>3. i \in ID => /\ c[i].live = n.live /\ c[i].svcs = n.svcs
                    /\ c[i].name = GetLoadBalancerName(s, q.m)
    BY <1>0 DEF NLB
  <2> HIDE DEF c, r
  <2>4. \/ Live(i) /\ nlb' = c /\ proc'[p] = r
        \/ proc'[p] = Idle
    BY <1>0, <1>b, <1>t, <2>1, WriteOutcome
  <2>5. CASE Live(i) /\ nlb' = c /\ proc'[p] = r
    <3>1. AddsUp(s, q.m, q.prune, q.todo, {}, n.svcs, lastSid)
      BY <1>f, <2>1 DEF Track, Late, Updating
    <3> QED BY <1>n, <1>r, <2>1, <2>2, <2>3, <2>5, <3>1, LoopTrack
  <2> QED BY <1>e, <2>4, <2>5
<1>3. CASE PruneService(p)
  <2>0. PICK x \in q.prune :
          LET rest == q.prune \ {x}
          IN  Write(p, Has(i, x.sid), Without(i, x.sid),
                    [q EXCEPT !.prune = rest, !.pc = LoopPC(rest, q.todo)])
    BY <1>3 DEF PruneService
  <2> DEFINE rest == q.prune \ {x}
             pc == LoopPC(rest, q.todo)
             r == [q EXCEPT !.prune = rest, !.pc = pc]
             c == Without(i, x.sid)
  <2>1. Write(p, Has(i, x.sid), c, r) /\ lastSid' = lastSid /\ q.pc = "prune"
    BY <1>3, <2>0 DEF PruneService
  <2>2. r.m = q.m /\ r.pc = pc /\ r.prune = rest /\ r.todo = q.todo
    <3> HIDE DEF pc, rest
    <3> QED BY <1>0 DEF Process
  <2>3. i \in ID => /\ c[i].live = n.live /\ c[i].name = n.name
                    /\ \A y : y \in c[i].svcs <=> y \in n.svcs /\ y.sid # x.sid
    BY <1>0, ServicesLeft
  <2> HIDE DEF c, r
  <2>4. \/ Has(i, x.sid) /\ nlb' = c /\ proc'[p] = r
        \/ proc'[p] = Idle
    BY <1>0, <1>b, <1>t, <2>1, WriteOutcome
  <2>5. CASE Has(i, x.sid) /\ nlb' = c /\ proc'[p] = r
    <3>1. AddsUp(s, q.m, q.prune, q.todo, {}, n.svcs, lastSid) /\ n.name = GetLoadBalancerName(s, q.m)
      BY <1>f, <2>1 DEF Track, Late, Updating
    <3>2. i \in ID /\ n.live BY <1>b, <1>n, <2>5
    <3>3. AddsUp(s, q.m, rest, q.todo, {}, c[i].svcs, lastSid)
      BY <2>3, <3>1, <3>2, PruneAddsUp
    <3> HIDE DEF rest
    <3>4. Track(s, r, c[i], lastSid') BY <2>1, <2>2, <2>3, <3>1, <3>2, <3>3, LoopTrack
    <3> QED BY <1>r, <2>2, <2>5, <3>4
  <2> QED BY <1>e, <2>4, <2>5
<1>4. ASSUME NEW t \in q.todo \cup Late(q), Late(q) \subseteq {t}, AddService(p, t),
             q.pc \in {"apply", "readd"}
      PROVE  OnTrack(s)'
  <2> DEFINE r == [q EXCEPT !.todo = @ \ {t}, !.doing = {t}, !.pc = "verify"]
             ok == CanAdd(i, t.want)
             c == With(i, t.want)
             y == Created(t.want)
  <2>1. Write(p, ok, c, r) /\ lastSid' = (IF nlb' = nlb THEN lastSid ELSE lastSid + 1)
    BY <1>4 DEF AddService
  <2>2. r.m = q.m /\ r.pc = "verify" /\ r.prune = q.prune /\ r.todo = q.todo \ {t}
    BY <1>0 DEF Process
  <2>3. ok \in BOOLEAN /\ (ok => Live(i)) BY <1>b DEF CanAdd
  <2>4. i \in ID => /\ c[i].live = n.live /\ c[i].name = n.name
                    /\ \A x : x \in c[i].svcs <=> x \in n.svcs \/ x = y
    BY <1>0, ServicesLeft
  <2>5. /\ y.sid = lastSid + 1 /\ y.key = t.want.key /\ y.own = t.want.own
        /\ y.pool = t.want.pool /\ y.cfg = t.want.cfg
    BY DEF Created
  <2> HIDE DEF c, r, ok, y
  <2>6. \/ ok /\ nlb' = c /\ proc'[p] = r
        \/ proc'[p] = Idle
    BY <1>0, <1>t, <2>1, <2>3, WriteOutcome
  <2>7. CASE ok /\ nlb' = c /\ proc'[p] = r
    <3>1. /\ AddsUp(s, q.m, {}, q.todo, Late(q), n.svcs, lastSid)
          /\ n.name = GetLoadBalancerName(s, q.m) /\ q.prune = {}
      BY <1>4, <1>f DEF Track, Updating
    <3>2. i \in ID /\ n.live /\ n.svcs \in SUBSET NLBService BY <1>n, <2>3, <2>7
    <3>3. y \notin n.svcs
      <4>1. \A x \in n.svcs : x.sid <= lastSid BY <3>2 DEF Sids
      <4> QED BY <1>0, <2>5, <4>1
    <3>4. lastSid' = lastSid + 1
      <4>1. c[i].svcs # n.svcs BY <2>4, <3>2, <3>3
      <4> QED BY <2>1, <2>7, <4>1
    <3>5. AddsUp(s, q.m, {}, q.todo \ {t}, {}, c[i].svcs, lastSid + 1)
      BY <1>0, <1>4, <1>f, <2>4, <2>5, <3>1, <3>2, AddAddsUp
    <3>6. Track(s, r, c[i], lastSid')
      BY <2>2, <2>4, <3>1, <3>2, <3>4, <3>5 DEF Track, Late
    <3> QED BY <1>r, <2>2, <2>7, <3>6
  <2> QED BY <1>e, <2>6, <2>7
<1>5. CASE ApplyService(p)
  <2>0. PICK t \in q.todo :
          LET rest == q.todo \ {t}
          IN  \/ t.op = "add" /\ AddService(p, t)
              \/ /\ t.op = "replace" /\ UNCHANGED lastSid
                 /\ Write(p, Has(i, t.sid), Without(i, t.sid),
                          [q EXCEPT !.todo = rest, !.doing = {t}, !.pc = "readd"])
              \/ /\ t.op = "update" /\ UNCHANGED lastSid
                 /\ Write(p, Has(i, t.sid), Updated(i, t.sid, t.want),
                          [q EXCEPT !.todo = rest, !.pc = LoopPC({}, rest)])
    BY <1>5 DEF ApplyService
  <2> DEFINE rest == q.todo \ {t}
             pc == LoopPC({}, rest)
             r1 == [q EXCEPT !.todo = rest, !.doing = {t}, !.pc = "readd"]
             r2 == [q EXCEPT !.todo = rest, !.pc = pc]
             c1 == Without(i, t.sid)
             c2 == Updated(i, t.sid, t.want)
  <2>a. q.pc = "apply" BY <1>5 DEF ApplyService
  <2>b. /\ AddsUp(s, q.m, {}, q.todo, {}, n.svcs, lastSid) /\ Late(q) = {}
        /\ n.name = GetLoadBalancerName(s, q.m) /\ q.prune = {}
    BY <1>f, <2>a DEF Track, Late, Updating
  <2>1. CASE AddService(p, t) BY <1>4, <2>1, <2>a, <2>b
  <2>2. CASE lastSid' = lastSid /\ Write(p, Has(i, t.sid), c1, r1)
    <3>1. r1.m = q.m /\ r1.pc = "readd" /\ r1.prune = q.prune /\ r1.todo = rest /\ r1.doing = {t}
      BY <1>0 DEF Process
    <3>2. i \in ID => /\ c1[i].live = n.live /\ c1[i].name = n.name
                      /\ \A y : y \in c1[i].svcs <=> y \in n.svcs /\ y.sid # t.sid
      BY <1>0, ServicesLeft
    <3> HIDE DEF c1, r1
    <3>3. \/ Has(i, t.sid) /\ nlb' = c1 /\ proc'[p] = r1
          \/ proc'[p] = Idle
      BY <1>0, <1>b, <1>t, <2>2, WriteOutcome
    <3>4. CASE Has(i, t.sid) /\ nlb' = c1 /\ proc'[p] = r1
      <4>1. i \in ID /\ n.live BY <1>b, <1>n, <3>4
      <4>2. AddsUp(s, q.m, {}, rest, {t}, c1[i].svcs, lastSid)
        BY <2>b, <3>2, <4>1, ReplaceAddsUp
      <4> HIDE DEF rest
      <4>3. Track(s, r1, c1[i], lastSid')
        BY <2>2, <2>b, <3>1, <3>2, <4>1, <4>2 DEF Track, Late
      <4> QED BY <1>r, <3>1, <3>4, <4>3
    <3> QED BY <1>e, <3>3, <3>4
  <2>3. CASE t.op = "update" /\ lastSid' = lastSid /\ Write(p, Has(i, t.sid), c2, r2)
    <3>1. r2.m = q.m /\ r2.pc = pc /\ r2.prune = q.prune /\ r2.todo = rest
      <4> HIDE DEF pc
      <4> QED BY <1>0 DEF Process
    <3>2. i \in ID => c2[i].live = n.live /\ c2[i].name = n.name
      BY <1>0, ServicesLeft
    <3>3. i \in ID => /\ \A x \in c2[i].svcs : \E y \in n.svcs :
                           (y.sid # t.sid /\ x = y) \/ (y.sid = t.sid /\ x = Renewed(y, t.want))
                      /\ \A y \in n.svcs :
                           /\ y.sid # t.sid => y \in c2[i].svcs
                           /\ y.sid = t.sid => Renewed(y, t.want) \in c2[i].svcs
      BY <1>0, UpdatedServices
    <3> HIDE DEF c2, r2
    <3>4. \/ Has(i, t.sid) /\ nlb' = c2 /\ proc'[p] = r2
          \/ proc'[p] = Idle
      BY <1>0, <1>b, <1>t, <2>3, WriteOutcome
    <3>5. CASE Has(i, t.sid) /\ nlb' = c2 /\ proc'[p] = r2
      <4>1. i \in ID /\ n.live /\ n.svcs \in SUBSET NLBService BY <1>b, <1>n, <3>5
      <4>2. \E x \in n.svcs : x.sid = t.sid BY <3>5 DEF Has
      <4>3. AddsUp(s, q.m, {}, rest, {}, c2[i].svcs, lastSid)
        BY <2>3, <2>b, <3>3, <4>1, <4>2, UpdateAddsUp
      <4> HIDE DEF rest
      <4>4. Track(s, r2, c2[i], lastSid')
        BY <2>3, <2>b, <3>1, <3>2, <4>1, <4>3, LoopTrack
      <4> QED BY <1>r, <3>1, <3>5, <4>4
    <3> QED BY <1>e, <3>4, <3>5
  <2> QED BY <2>0, <2>1, <2>2, <2>3
<1>6. CASE ReaddService(p)
  <2>1. PICK t \in q.doing : AddService(p, t) BY <1>6 DEF ReaddService
  <2>2. q.pc = "readd" BY <1>6 DEF ReaddService
  <2>3. Late(q) = q.doing /\ \E u : q.doing = {u} BY <1>f, <2>2 DEF Track, Late, Updating
  <2> QED BY <1>4, <2>1, <2>2, <2>3
<1>7. CASE VerifyService(p)
  <2>0. PICK t \in q.doing :
          Read(p,
               /\ Live(i)
               /\ \E x \in nlb[i].svcs : x.key = t.want.key /\ x.own = t.want.own,
               [q EXCEPT !.doing = {}, !.pc = LoopPC({}, q.todo)])
    BY <1>7 DEF VerifyService
  <2> DEFINE ok == Live(i) /\ \E x \in nlb[i].svcs : x.key = t.want.key /\ x.own = t.want.own
             pc == LoopPC({}, q.todo)
             r == [q EXCEPT !.doing = {}, !.pc = pc]
  <2>1. ok \in BOOLEAN /\ Read(p, ok, r) BY <2>0
  <2>2. nlb' = nlb /\ lastSid' = lastSid /\ q.pc = "verify" BY <1>7 DEF VerifyService, cloud
  <2>3. r.m = q.m /\ r.pc = pc /\ r.prune = q.prune /\ r.todo = q.todo
    <3> HIDE DEF pc
    <3> QED BY <1>0 DEF Process
  <2> HIDE DEF ok, r
  <2>4. proc'[p] = r \/ proc'[p] = Idle BY <1>0, <1>t, <2>1, ReadOutcome
  <2>5. CASE proc'[p] = r
    <3>1. /\ AddsUp(s, q.m, {}, q.todo, {}, n.svcs, lastSid) /\ q.prune = {}
          /\ n.name = GetLoadBalancerName(s, q.m) /\ i \in ID /\ n.live
      BY <1>f, <2>2 DEF Track, Late, Updating
    <3>2. Track(s, r, n, lastSid') BY <2>2, <2>3, <3>1, LoopTrack
    <3> QED BY <1>r, <2>2, <2>3, <2>5, <3>2
  <2> QED BY <1>e, <2>4, <2>5
<1> QED BY <1>1, <1>2, <1>3, <1>5, <1>6, <1>7 DEF UpdateStep

-----------------------------------------------------------------------------
(* Nobody disturbs it *)

SyncInv ==
  /\ RefsInv /\ Sids
  /\ \A s \in Service : Nod(s) = Idle /\ OnTrack(s)

(* The worker of s and its NLB stay as they are. *)
Undisturbed(s) ==
  Svc(s)' = Svc(s) /\ nlb'[Svc(s).m.id] = nlb[Svc(s).m.id] /\ lastSid <= lastSid'

LEMMA StaysOnTrack ==
  ASSUME TypeOK, TypeOK', NEW s \in Service, OnTrack(s), Undisturbed(s)
  PROVE  OnTrack(s)'
<1>0. Svc(s) \in Process BY Processes DEF TypeOK, Svc
<1>1. Svc(s) \in Process /\ lastSid \in Nat /\ lastSid' \in Nat
  BY <1>0, BoundsAssumption DEF TypeOK
<1>2. CASE Svc(s).pc \in Updating \cup {"done"}
  <2>1. Track(s, Svc(s), nlb[Svc(s).m.id], lastSid') BY <1>1, <1>2, LaterTrack DEF OnTrack, Undisturbed
  <2> QED BY <2>1 DEF OnTrack, Undisturbed
<1>3. CASE Svc(s).pc \notin Updating \cup {"done"} BY <1>3 DEF OnTrack, Undisturbed
<1> QED BY <1>2, <1>3

(* A step that concerns s alone, other than one of updateLoadBalancer. *)
LEMMA TrackObject ==
  ASSUME TypeOK, NEW s \in Service, ObjectStep(s) \/ Withdraw(s),
         Svc(s)'.pc \in Updating \cup {"done"}
  PROVE  Svc(s)' = Svc(s) /\ nlb' = nlb /\ lastSid' = lastSid
<1> DEFINE p == <<s, "svc">>
           d == <<s, "node">>
<1>0. p \in Proc /\ d \in Proc /\ p # d BY Processes
<1>i. Idle.pc = "idle" BY DEF Idle
<1>a. \A m : AfterFinal(m) \in {"resolve", "pool", "fetch"} /\ AfterResolve(m) \in {"pool", "fetch"}
  BY DEF AfterFinal, AfterResolve
<1>p. proc'[p].pc \in {"top", "prune", "apply", "readd", "verify", "done"} BY DEF Svc, Updating
<1>1. CASE Finalizing(s) BY <1>1, <1>a, <1>i, <1>p DEF Finalizing, Becomes
<1>2. CASE Patching(s) BY <1>2, <1>a, <1>i, <1>p DEF Patching, Becomes, AfterPatch
<1>3. CASE Fetching(s) \/ Creating(s) BY <1>3, <1>i, <1>p DEF Fetching, Creating, Becomes
<1>4. CASE Returning(s) \/ Unfinalizing(s) \/ Forgetting(s)
  BY <1>4, <1>i, <1>p DEF Returning, Unfinalizing, Forgetting
<1>5. CASE Syncing(s) BY <1>5, <1>a, <1>i, <1>p DEF Syncing, Starts
<1>6. CASE Delivering(s) \/ Submitting(s) BY <1>6 DEF Delivering, Submitting, Svc, cloud
<1>7. CASE NodeSyncing(s) \/ NodeReturning(s)
  BY <1>0, <1>7 DEF NodeSyncing, NodeReturning, Others, Svc, cloud
<1>8. CASE Withdraw(s)
  <2>1. proc[p].end \in {"unfinal", "forget"} BY <1>0 DEF TypeOK, Process
  <2> QED BY <1>8, <1>i, <1>p, <2>1 DEF Withdraw, Withdraws, AfterPrune
<1> QED BY <1>1, <1>2, <1>3, <1>4, <1>5, <1>6, <1>7, <1>8 DEF ObjectStep

(* A step of another Service. *)
LEMMA OthersUndisturbed ==
  ASSUME RefsInv, NEW s \in Service, NEW t \in Service, s # t,
         Live(Svc(s).m.id), lastSid <= lastSid',
         ObjectStep(t) \/ Update(<<t, "svc">>) \/ Withdraw(t)
  PROVE  Undisturbed(s)
<1> DEFINE i == Svc(s).m.id
           p == <<t, "svc">>
<1>0. p \in Proc /\ i \in ID /\ TypeOK /\ Fresh /\ nlb \in [ID -> NLB] /\ nlb[i].live
  BY Processes DEF RefsInv, CopiesInv, TypeOK, Live
<1>1. i \in Refs(s) /\ i # NoID /\ i <= lastNLB /\ lastNLB \in Nat
  BY <1>0, BoundsAssumption DEF Refs, Fresh, TypeOK, ID, NoID
<1>2. proc[p].m.id \in Refs(t) BY DEF Refs, Svc
<1>3. proc[p].m.id # i BY <1>1, <1>2 DEF RefsInv
<1>4. CASE ObjectStep(t)
  <2>1. Svc(s)' = Svc(s) BY <1>4, LocalSame DEF ObjectStep, Same, Svc
  <2>2. CASE UNCHANGED cloud BY <2>1, <2>2 DEF cloud, Undisturbed
  <2>3. CASE Creating(t)
    <3>1. nlb'[i] = nlb[i]
      <4>1. nlb' = nlb \/ \E n : nlb' = [nlb EXCEPT ![lastNLB + 1] = n] BY <2>3 DEF Creating
      <4> QED BY <1>0, <1>1, <4>1
    <3> QED BY <2>1, <3>1 DEF Undisturbed
  <2> QED BY <1>4, <2>2, <2>3
          DEF ObjectStep, Finalizing, Patching, Fetching, Returning, Unfinalizing, Forgetting,
              Syncing, Delivering, NodeSyncing, NodeReturning, Submitting
<1>5. CASE Update(p) \/ Withdraw(t)
  <2>1. Others(p) /\ (Calls(p) \/ Destroys(p)) BY <1>5 DEF Update, Withdraw
  <2>2. Svc(s)' = Svc(s) BY <2>1, Processes DEF Others, Svc
  <2>3. CASE Calls(p) BY <1>0, <1>3, <2>2, <2>3, CallsKeep DEF Undisturbed
  <2>4. CASE Destroys(p) BY <1>0, <1>3, <2>2, <2>4 DEF Destroys, Live, Undisturbed
  <2> QED BY <2>1, <2>3, <2>4
<1> QED BY <1>4, <1>5

LEMMA NextSync ==
  ASSUME SoleActor, SyncInv, [Next]_vars
  PROVE  SyncInv'
<1>0. /\ AllManaged /\ RefsInv /\ CopiesInv /\ Sids /\ TypeOK /\ Fresh
      /\ nodeSyncs \in Nat /\ drift \in Nat
  BY DEF SoleActor, SyncInv, RefsInv, CopiesInv, TypeOK
<1>1. RefsInv' /\ Sids' /\ lastSid <= lastSid' BY <1>0, NextRefs, NextSids
<1>t. TypeOK' BY <1>1 DEF RefsInv, CopiesInv
<1>n. ASSUME NEW s \in Service PROVE Nod(s) = Idle BY DEF SyncInv
<1>s. ASSUME NEW p \in Proc, Update(p) PROVE \E t \in Service : p = <<t, "svc">>
  <2>1. PICK t \in Service, k \in {"svc", "node"} : p = <<t, k>> BY DEF Proc
  <2>2. proc[p].pc # "idle" BY <1>s DEF Update, Updating
  <2>3. k # "node" BY <1>n, <2>1, <2>2 DEF Nod, Idle
  <2> QED BY <2>1, <2>3
<1>i. Idle.pc = "idle" BY DEF Idle
<1>2. ASSUME NEW t \in Service, ObjectStep(t) \/ Update(<<t, "svc">>) \/ Withdraw(t),
             NEW s \in Service
      PROVE  Nod(s)' = Idle /\ OnTrack(s)'
  <2>n. Nod(s)' = Nod(s)
    <3>1. CASE Update(<<t, "svc">>) \/ Withdraw(t)
      BY <3>1, Processes DEF Update, Withdraw, Others, Nod
    <3>2. CASE ObjectStep(t) /\ s # t BY <3>2, LocalSame DEF ObjectStep, Same, Nod
    <3>3. CASE ObjectStep(t) /\ s = t
      <4>1. ~NodeSyncing(s) BY <1>0 DEF NodeSyncing, SoleActor
      <4>2. NodeReturning(s) => Nod(s)' = Idle BY DEF NodeReturning, Nod
      <4> QED BY <1>n, <3>3, <4>1, <4>2, Processes
              DEF ObjectStep, Finalizing, Patching, Fetching, Creating, Returning, Unfinalizing,
                  Forgetting, Syncing, Delivering, Submitting, Others, Nod
    <3> QED BY <1>2, <3>1, <3>2, <3>3
  <2> SUFFICES OnTrack(s)' BY <1>n, <2>n
  <2>1. CASE s # t
    <3>1. CASE Svc(s).pc \in Updating \cup {"done"}
      <4>1. Live(Svc(s).m.id) BY <3>1 DEF SyncInv, OnTrack, Track, Live
      <4>2. Undisturbed(s) BY <1>0, <1>1, <1>2, <2>1, <4>1, OthersUndisturbed
      <4> QED BY <1>0, <1>t, <4>2, StaysOnTrack DEF SyncInv
    <3>2. CASE Svc(s).pc \notin Updating \cup {"done"}
      <4>1. Svc(s)' = Svc(s)
        <5>1. CASE ObjectStep(t) BY <2>1, <5>1, LocalSame DEF ObjectStep, Same, Svc
        <5>2. CASE Update(<<t, "svc">>) \/ Withdraw(t)
          BY <2>1, <5>2, Processes DEF Update, Withdraw, Others, Svc
        <5> QED BY <1>2, <5>1, <5>2
      <4> QED BY <3>2, <4>1 DEF OnTrack
    <3> QED BY <3>1, <3>2
  <2>2. CASE s = t /\ Update(<<t, "svc">>)
    <3>1. Svc(s).pc # "idle" BY <2>2 DEF Update, Updating, Svc
    <3>2. <<s, "svc">> \in Proc /\ <<s, "svc">>[1] = s BY Processes
    <3>3. ~Svc(s).m.ext BY <1>0, <3>1, <3>2, WorkSubmitted, ManagedCopies DEF Svc
    <3>4. UpdateStep(<<s, "svc">>) /\ OnTrack(s) BY <2>2 DEF Update, SyncInv
    <3> QED BY <1>0, <3>3, <3>4, TrackUpdate
  <2>3. CASE s = t /\ (ObjectStep(t) \/ Withdraw(t))
    <3>1. CASE Svc(s)'.pc \in Updating \cup {"done"}
      <4>1. Undisturbed(s) BY <1>0, <1>1, <2>3, <3>1, TrackObject DEF Undisturbed
      <4> QED BY <1>0, <1>t, <4>1, StaysOnTrack DEF SyncInv
    <3>2. CASE Svc(s)'.pc \notin Updating \cup {"done"} BY <3>2 DEF OnTrack
    <3> QED BY <3>1, <3>2
  <2> QED BY <1>2, <2>1, <2>2, <2>3
<1>3. ASSUME Drifts, NEW s \in Service PROVE Nod(s)' = Idle /\ OnTrack(s)'
  <2>1. UNCHANGED proc /\ nlb' = nlb BY <1>0, <1>3 DEF Drifts, SoleActor
  <2>2. Undisturbed(s) /\ Nod(s)' = Nod(s) BY <1>1, <2>1 DEF Undisturbed, Svc, Nod
  <2> QED BY <1>0, <1>n, <1>t, <2>2, StaysOnTrack DEF SyncInv
<1>4. ASSUME Restarts, NEW s \in Service PROVE Nod(s)' = Idle /\ OnTrack(s)'
  BY <1>4, <1>i, Processes DEF Restarts, OnTrack, Svc, Nod, Updating
<1>5. ASSUME NEW s \in Service PROVE Nod(s)' = Idle /\ OnTrack(s)'
  <2>1. \/ \E t \in Service : ObjectStep(t) \/ Update(<<t, "svc">>) \/ Withdraw(t)
        \/ Drifts \/ Restarts
    BY <1>0, <1>s, Steps
  <2> QED BY <1>2, <1>3, <1>4, <2>1
<1> QED BY <1>1, <1>5 DEF SyncInv

(* When EnsureLoadBalancer is about to return without an error, the NLB has *)
(* the name, and one NLB service for each port and no other, that the       *)
(* Service it was given asks for: whatever calls failed or were lost in     *)
(* earlier syncs, whatever restarts left half done, however old the copy of *)
(* the Service is, and whatever the workers of other Services do meanwhile. *)
(* Without node syncs and drift, that is: a node sync may undo what the     *)
(* worker does.                                                             *)
THEOREM SyncIsComplete == SoleActor => (Spec => []EnsuredIsSynced)
<1> SUFFICES ASSUME SoleActor PROVE Spec => []EnsuredIsSynced OBVIOUS
<1>1. Init => SyncInv
  <2> SUFFICES ASSUME Init PROVE SyncInv OBVIOUS
  <2>1. ASSUME NEW s \in Service PROVE Nod(s) = Idle /\ Svc(s) = Idle
    BY Processes DEF Init, Nod, Svc
  <2>2. ASSUME NEW s \in Service PROVE OnTrack(s) BY <2>1 DEF OnTrack, Idle, Updating
  <2> QED BY <2>1, <2>2, InitRefs, InitSids DEF SyncInv
<1>2. SyncInv => EnsuredIsSynced
  <2> SUFFICES ASSUME SyncInv, NEW s \in Service, Svc(s).pc = "done" PROVE Synced(s, Svc(s).m)
    BY DEF EnsuredIsSynced, Svc
  <2>1. Track(s, Svc(s), nlb[Svc(s).m.id], lastSid) BY DEF SyncInv, OnTrack
  <2> QED BY <2>1 DEF Track, AddsUp, Late, Matched, Synced, Live
<1>3. SyncInv /\ [Next]_vars => SyncInv' BY NextSync
<1> QED BY <1>1, <1>2, <1>3, PTL DEF Spec

-----------------------------------------------------------------------------
(* The life of a Service goes one way *)

Ended(s) == api[s].phase \in {"deleting", "gone"}

Withdrawing == {"exists", "delfetch", "delprune", "dellb"}

(* A copy is not ahead of the object; an NLB is only worked on for a        *)
(* Service of type LoadBalancer, and for such a Service it is only given up *)
(* when the Service is deleted.                                             *)
Lifecycle(s) ==
  /\ lister[s].phase # "none" => api[s].phase # "none"
  /\ lister[s].phase = "deleting" => Ended(s)
  /\ lister[s].phase = "gone" => api[s].phase = "gone"
  /\ cache[s].phase # "none" => lister[s].phase # "none"
  /\ Nod(s).pc # "idle" => api[s].phase # "none" /\ Nod(s).m.lb
  /\ Nod(s).pc \notin Withdrawing
  /\ Svc(s).pc \in Ensuring \cup {"final"} => Svc(s).m.lb
  /\ Svc(s).pc \in Withdrawing => ~Svc(s).m.lb \/ Ended(s)

LEMMA LifeObject ==
  ASSUME TypeOK, NEW s \in Service, ObjectStep(s), Copies(s), Lifecycle(s)
  PROVE  Lifecycle(s)'
<1> DEFINE p == <<s, "svc">>
           d == <<s, "node">>
<1>0. p \in Proc /\ d \in Proc /\ p # d BY Processes
<1>i. /\ Idle.pc = "idle" /\ "idle" \notin Ensuring \cup {"final"} \cup Withdrawing
      /\ "exists" \notin Ensuring \cup {"final"} /\ "delfetch" \notin Ensuring \cup {"final"}
      /\ "forget" \notin Ensuring \cup {"final"} \cup Withdrawing
      /\ NoObject.phase = "none"
  BY DEF Idle, Ensuring, Updating, Withdrawing, NoObject
<1>a. \A m : AfterFinal(m) \notin Withdrawing /\ AfterFinal(m) \in Ensuring
             /\ AfterResolve(m) \notin Withdrawing /\ AfterResolve(m) \in Ensuring
  BY DEF AfterFinal, AfterResolve, Withdrawing, Ensuring
<1>b. {"fetch", "get", "create", "adopt", "resolve", "pool", "done"} \subseteq Ensuring
      /\ {"fetch", "get", "create", "adopt", "final"} \cap Withdrawing = {}
  BY DEF Ensuring, Withdrawing
<1>o. api[s].phase \in {"none", "live", "deleting", "gone"}
      /\ lister[s].phase \in {"none", "live", "deleting", "gone"}
  BY DEF TypeOK, Object
<1>1. CASE Finalizing(s)
  <2>1. /\ Svc(s).pc = "final" /\ Nod(s)' = Nod(s) /\ api'[s].phase = api[s].phase
        /\ UNCHANGED <<lister, cache>>
        /\ Svc(s)' = Idle \/ (Svc(s)'.pc = AfterFinal(Svc(s).m) /\ Svc(s)'.m = Svc(s).m)
    BY <1>0, <1>1 DEF Finalizing, Becomes, Others, Svc, Nod
  <2> QED BY <1>a, <1>i, <2>1 DEF Lifecycle, Ended
<1>2. CASE Patching(s)
  <2>1. PICK m, found :
          /\ Value(Svc(s), found, m)
          /\ cache' = cache \/ RememberedAs(s, m)
          /\ api' = api \/ PatchedTo(s, m)
          /\ \/ Svc(s)' = Idle
             \/ Svc(s)'.m = m /\ Svc(s)'.pc = AfterPatch(Svc(s), m)
    BY <1>2 DEF Patching, Svc, Becomes
  <2>2. /\ Svc(s).pc \in {"resolve", "pool", "adopt"} /\ lister' = lister /\ Nod(s)' = Nod(s)
    BY <1>0, <1>2 DEF Patching, Svc, Nod, Others
  <2>3. api'[s].phase = api[s].phase /\ cache'[s].phase = cache[s].phase
    BY <2>1 DEF PatchedTo, RememberedAs
  <2>4. m.lb = Svc(s).m.lb BY <2>1 DEF Value, Alike
  <2>5. AfterPatch(Svc(s), m) \notin Withdrawing BY <1>a, <1>b, <2>2 DEF AfterPatch
  <2>6. Svc(s).m.lb BY <1>b, <2>2 DEF Lifecycle
  <2> QED BY <1>i, <2>1, <2>2, <2>3, <2>4, <2>5, <2>6 DEF Lifecycle, Ended
<1>3. CASE Fetching(s) \/ Creating(s)
  <2>1. /\ Svc(s).pc \in {"fetch", "create"} /\ UNCHANGED <<api, lister, cache>> /\ Nod(s)' = Nod(s)
        /\ \/ Svc(s)' = Idle
           \/ Svc(s)'.pc \in {"get", "create", "adopt"} /\ Svc(s)'.m = Svc(s).m
    BY <1>0, <1>3 DEF Fetching, Creating, Becomes, Others, Svc, Nod
  <2> QED BY <1>b, <1>i, <2>1 DEF Lifecycle, Ended
<1>4. CASE Returning(s) \/ Unfinalizing(s) \/ Forgetting(s)
  <2>1. /\ Svc(s)' = Idle /\ Nod(s)' = Nod(s) /\ lister' = lister
        /\ cache'[s] \in {cache[s], NoObject}
        /\ \/ api'[s].phase = api[s].phase
           \/ api[s].phase = "deleting" /\ api'[s].phase = "gone"
    BY <1>0, <1>4 DEF Returning, Unfinalizing, Forgetting, Others, Svc, Nod
  <2> QED BY <1>i, <2>1 DEF Lifecycle, Ended
<1>5. CASE Syncing(s)
  <2> DEFINE r == Svc(s)'
  <2>1. /\ UNCHANGED <<api, lister>> /\ Nod(s)' = Nod(s)
        /\ \/ /\ lister[s].phase \in {"live", "deleting"} /\ cache'[s] = lister[s]
              /\ r.m = lister[s].m
              /\ \/ (~r.m.lb \/ lister[s].phase = "deleting") /\ r.pc = "exists"
                 \/ r.m.lb /\ r.pc \in {"final", AfterFinal(r.m)}
           \/ /\ lister[s].phase \notin {"live", "deleting"} /\ cache'[s] = cache[s]
              /\ \/ r = Idle
                 \/ cache[s].phase # "none" /\ r.pc \in {"delfetch", "forget"}
    BY <1>0, <1>5 DEF Syncing, Starts, Others, Svc, Nod
  <2> QED BY <1>a, <1>b, <1>i, <1>o, <2>1 DEF Lifecycle, Ended
<1>6. CASE Delivering(s)
  <2>1. Svc(s)' = Svc(s) /\ Nod(s)' = Nod(s) /\ UNCHANGED <<api, cache>> /\ lister'[s] = api[s]
    BY <1>6 DEF Delivering, Svc, Nod
  <2> QED BY <2>1 DEF Lifecycle, Ended
<1>7. CASE NodeSyncing(s) \/ NodeReturning(s)
  <2>1. /\ Svc(s)' = Svc(s) /\ UNCHANGED <<api, lister, cache>>
        /\ \/ Nod(s)' = Idle
           \/ /\ cache[s].phase # "none" /\ Nod(s)'.m = cache[s].m /\ cache[s].m.lb
              /\ Nod(s)'.pc = "get"
    BY <1>0, <1>7 DEF NodeSyncing, NodeReturning, Starts, Others, Svc, Nod
  <2> QED BY <1>b, <1>i, <2>1 DEF Lifecycle, Ended
<1>8. CASE Submitting(s)
  <2>1. Svc(s)' = Svc(s) /\ Nod(s)' = Nod(s) /\ UNCHANGED <<lister, cache>>
    BY <1>8 DEF Submitting, Svc, Nod
  <2>2. \/ api[s].phase = "none" /\ api'[s].phase = "live"
        \/ api[s].phase = "live" /\ api'[s].phase \in {"live", "deleting", "gone"}
    BY <1>8 DEF Submitting
  <2> QED BY <2>1, <2>2 DEF Lifecycle, Ended
<1> QED BY <1>1, <1>2, <1>3, <1>4, <1>5, <1>6, <1>7, <1>8 DEF ObjectStep

LifeInv == CopiesInv /\ \A s \in Service : Lifecycle(s)

(* A step of updateLoadBalancer or of EnsureLoadBalancerDeleted, seen from  *)
(* a Service.                                                               *)
LEMMA WorkSeen ==
  ASSUME TypeOK, NEW p \in Proc, NEW t \in Service, NEW s \in Service,
         Update(p) \/ (p = <<t, "svc">> /\ Withdraw(t))
  PROVE  /\ UNCHANGED <<api, lister, cache>> /\ UNCHANGED lastNLB
         /\ \/ Svc(s)' = Svc(s) \/ Svc(s)' = Idle
            \/ /\ Svc(s)'.m = Svc(s).m /\ Svc(s)'.nid = Svc(s).nid
               /\ \/ /\ Svc(s).pc \in Updating \cup {"get"}
                     /\ Svc(s)'.pc \in Updating \cup {"done"}
                  \/ /\ Svc(s).pc \in Withdrawing
                     /\ Svc(s)'.pc \in {"delfetch", "delprune", "dellb", "unfinal", "forget"}
         /\ \/ Nod(s)' = Nod(s) \/ Nod(s)' = Idle
            \/ /\ Nod(s)'.m = Nod(s).m
               /\ Nod(s).pc \in Updating \cup {"get"}
               /\ Nod(s)'.pc \in Updating \cup {"done"}
<1>0. <<s, "svc">> \in Proc /\ <<s, "node">> \in Proc /\ <<s, "svc">> # <<s, "node">>
      /\ proc[p].end \in {"unfinal", "forget"}
  BY Processes DEF TypeOK, Process
<1>1. CASE Update(p)
  <2>1. /\ UNCHANGED <<api, lister, cache>> /\ UNCHANGED lastNLB /\ Others(p)
        /\ proc[p].pc \in Updating \cup {"get"}
        /\ \/ proc'[p] = Idle
           \/ /\ proc'[p].m = proc[p].m /\ proc'[p].nid = proc[p].nid
              /\ proc'[p].pc \in Updating \cup {"done"}
    BY <1>1 DEF Update, Advances
  <2> QED BY <1>0, <2>1 DEF Others, Svc, Nod
<1>2. CASE p = <<t, "svc">> /\ Withdraw(t)
  <2>1. /\ UNCHANGED <<api, lister, cache>> /\ UNCHANGED lastNLB /\ Others(p)
        /\ proc[p].pc \in Withdrawing
        /\ \/ proc'[p] = Idle
           \/ /\ proc'[p].m = proc[p].m /\ proc'[p].nid = proc[p].nid
              /\ proc'[p].pc \in {"delfetch", "delprune", "dellb", "unfinal", "forget"}
    BY <1>0, <1>2 DEF Withdraw, Withdraws, AfterPrune, Withdrawing
  <2> QED BY <1>0, <1>2, <2>1, Processes DEF Others, Svc, Nod
<1> QED BY <1>1, <1>2

LEMMA NextLife == LifeInv /\ [Next]_vars => LifeInv'
<1> SUFFICES ASSUME LifeInv, [Next]_vars, NEW s \in Service PROVE Lifecycle(s)'
  BY NextCopies DEF LifeInv
<1>t. TypeOK /\ Fresh /\ Copies(s) /\ Lifecycle(s) BY DEF LifeInv, CopiesInv
<1>i. Idle.pc = "idle" /\ "idle" \notin Ensuring \cup {"final"} \cup Withdrawing
      /\ NoObject.phase = "none"
  BY DEF Idle, Ensuring, Updating, Withdrawing, NoObject
<1>s. ASSUME Same(s) PROVE Lifecycle(s)'
  BY <1>s, <1>t DEF Lifecycle, Same, Svc, Nod, Ended
<1>1. ASSUME NEW t \in Service, ObjectStep(t) PROVE Lifecycle(s)'
  <2>1. CASE s = t BY <1>1, <1>t, <2>1, LifeObject
  <2>2. CASE s # t BY <1>1, <1>s, <2>2, LocalSame DEF ObjectStep
  <2> QED BY <2>1, <2>2
<1>2. ASSUME NEW p \in Proc, NEW t \in Service, Update(p) \/ (p = <<t, "svc">> /\ Withdraw(t))
      PROVE  Lifecycle(s)'
  <2>1. /\ UNCHANGED <<api, lister, cache>>
        /\ \/ Svc(s)' = Svc(s) \/ Svc(s)' = Idle
           \/ /\ Svc(s)'.m = Svc(s).m
              /\ \/ /\ Svc(s).pc \in Updating \cup {"get"}
                    /\ Svc(s)'.pc \in Updating \cup {"done"}
                 \/ /\ Svc(s).pc \in Withdrawing
                    /\ Svc(s)'.pc \in {"delfetch", "delprune", "dellb", "unfinal", "forget"}
        /\ \/ Nod(s)' = Nod(s) \/ Nod(s)' = Idle
           \/ /\ Nod(s)'.m = Nod(s).m
              /\ Nod(s).pc \in Updating \cup {"get"}
              /\ Nod(s)'.pc \in Updating \cup {"done"}
    BY <1>2, <1>t, WorkSeen
  <2>2. Nod(s).pc \in Updating \cup {"get"} => Nod(s).pc # "idle" BY DEF Updating
  <2>3. /\ Svc(s).pc \in Updating \cup {"get"} => Svc(s).pc \in Ensuring
        /\ (Updating \cup {"done"}) \cap Withdrawing = {}
        /\ Svc(s)'.pc \in {"delfetch", "delprune", "dellb", "unfinal", "forget"}
             => Svc(s)'.pc \notin Ensuring \cup {"final"}
    BY DEF Updating, Ensuring, Withdrawing
  <2> QED BY <1>i, <1>t, <2>1, <2>2, <2>3 DEF Lifecycle, Ended
<1>3. CASE Drifts BY <1>3, <1>s DEF Drifts, Same
<1>4. CASE Restarts
  <2>1. /\ api' = api /\ lister' = api /\ cache'[s] = NoObject /\ Svc(s)' = Idle /\ Nod(s)' = Idle
    BY <1>4, Processes DEF Restarts, Svc, Nod
  <2> QED BY <1>i, <2>1 DEF Lifecycle, Ended
<1>5. ASSUME NEW p \in Proc, Update(p) PROVE Lifecycle(s)' BY <1>2, <1>5
<1>6. ASSUME NEW t \in Service, Withdraw(t) PROVE Lifecycle(s)' BY <1>2, <1>6, Processes
<1> QED BY <1>1, <1>3, <1>4, <1>5, <1>6, <1>t, Steps

LEMMA InitLife == Init => LifeInv
<1> SUFFICES ASSUME Init, NEW s \in Service PROVE Lifecycle(s) BY InitCopies DEF LifeInv
<1>1. Svc(s) = Idle /\ Nod(s) = Idle /\ api[s] = NoObject /\ lister[s] = NoObject /\ cache[s] = NoObject
  BY Processes DEF Init, Svc, Nod
<1> QED BY <1>1 DEF Lifecycle, Idle, NoObject, Ensuring, Updating, Withdrawing

-----------------------------------------------------------------------------
(* The Instance Pool of a Service stays the same *)

(* The user of s has the one manifest m, and does not use SKS node pools. *)
Only(s, m) == Manifests[s] = {m} /\ m.sks = "none"

(* If it gives the pool, every copy has that pool, and none is inferred. *)
Given(s) ==
  \A m : Only(s, m) /\ m.pool # None =>
    /\ api[s].phase \in {"live", "deleting"} => api[s].m.pool = m.pool
    /\ lister[s].phase \in {"live", "deleting"} => lister[s].m.pool = m.pool
    /\ cache[s].phase # "none" => cache[s].m.pool = m.pool
    /\ Svc(s).pc # "idle" => Svc(s).m.pool = m.pool
    /\ Nod(s).pc # "idle" => Nod(s).m.pool = m.pool
    /\ Svc(s).pc # "pool"

LEMMA GivenObject ==
  ASSUME TypeOK, NEW s \in Service, ObjectStep(s), Copies(s), Given(s)
  PROVE  Given(s)'
<1> SUFFICES ASSUME NEW m, Only(s, m), m.pool # None
             PROVE  /\ api'[s].phase \in {"live", "deleting"} => api'[s].m.pool = m.pool
                    /\ lister'[s].phase \in {"live", "deleting"} => lister'[s].m.pool = m.pool
                    /\ cache'[s].phase # "none" => cache'[s].m.pool = m.pool
                    /\ Svc(s)'.pc # "idle" => Svc(s)'.m.pool = m.pool
                    /\ Nod(s)'.pc # "idle" => Nod(s)'.m.pool = m.pool
                    /\ Svc(s)'.pc # "pool"
  BY DEF Given, Only
<1> DEFINE p == <<s, "svc">>
           d == <<s, "node">>
<1>0. p \in Proc /\ d \in Proc /\ p # d BY Processes
<1>g. /\ api[s].phase \in {"live", "deleting"} => api[s].m.pool = m.pool
      /\ lister[s].phase \in {"live", "deleting"} => lister[s].m.pool = m.pool
      /\ cache[s].phase # "none" => cache[s].m.pool = m.pool
      /\ Svc(s).pc # "idle" => Svc(s).m.pool = m.pool
      /\ Nod(s).pc # "idle" => Nod(s).m.pool = m.pool
      /\ Svc(s).pc # "pool"
  BY DEF Given
<1>i. Idle.pc = "idle" /\ NoObject.phase = "none" BY DEF Idle, NoObject
<1>f. ASSUME NEW n, Submitted(s, n), n.pool = m.pool
      PROVE  AfterFinal(n) # "pool" /\ AfterResolve(n) # "pool"
  BY <1>f DEF Submitted, Alike, Only, AfterFinal, AfterResolve, NeedsPool
<1>c. Svc(s).pc # "idle" => Submitted(s, Svc(s).m) BY DEF Copies, Svc, Idle
<1>1. CASE Finalizing(s)
  <2>1. /\ Svc(s).pc = "final" /\ Nod(s)' = Nod(s)
        /\ api'[s].phase = api[s].phase /\ api'[s].m = api[s].m /\ UNCHANGED <<lister, cache>>
        /\ Svc(s)' = Idle \/ (Svc(s)'.pc = AfterFinal(Svc(s).m) /\ Svc(s)'.m = Svc(s).m)
    BY <1>0, <1>1 DEF Finalizing, Becomes, Others, Svc, Nod
  <2> QED BY <1>c, <1>f, <1>g, <1>i, <2>1
<1>2. CASE Patching(s)
  <2>1. PICK n, found :
          /\ Value(Svc(s), found, n)
          /\ cache' = cache \/ RememberedAs(s, n)
          /\ api' = api \/ PatchedTo(s, n)
          /\ \/ Svc(s)' = Idle
             \/ Svc(s)'.m = n /\ Svc(s)'.pc = AfterPatch(Svc(s), n)
    BY <1>2 DEF Patching, Svc, Becomes
  <2>2. /\ Svc(s).pc \in {"resolve", "adopt"} /\ lister' = lister /\ Nod(s)' = Nod(s)
    BY <1>0, <1>2, <1>g DEF Patching, Svc, Nod, Others
  <2>3. /\ api'[s].phase = api[s].phase /\ cache'[s].phase = cache[s].phase
        /\ api'[s].m.pool = api[s].m.pool /\ cache'[s].m \in {cache[s].m, n}
    BY <2>1, <2>2 DEF PatchedTo, RememberedAs, Svc
  <2>4. n.pool = Svc(s).m.pool /\ Alike(n, Svc(s).m) BY <2>1, <2>2 DEF Value
  <2>5. n.pool = m.pool BY <1>g, <2>2, <2>4
  <2>6. Submitted(s, n) BY <1>c, <2>2, <2>4, SubmittedAlike
  <2>7. AfterPatch(Svc(s), n) # "pool" BY <1>f, <2>2, <2>5, <2>6 DEF AfterPatch
  <2> QED BY <1>g, <1>i, <2>1, <2>2, <2>3, <2>5, <2>7
<1>3. CASE Fetching(s) \/ Creating(s)
  <2>1. /\ Svc(s).pc \in {"fetch", "create"} /\ UNCHANGED <<api, lister, cache>> /\ Nod(s)' = Nod(s)
        /\ \/ Svc(s)' = Idle
           \/ Svc(s)'.pc \in {"get", "create", "adopt"} /\ Svc(s)'.m = Svc(s).m
    BY <1>0, <1>3 DEF Fetching, Creating, Becomes, Others, Svc, Nod
  <2> QED BY <1>g, <1>i, <2>1
<1>4. CASE Returning(s) \/ Unfinalizing(s) \/ Forgetting(s)
  <2>1. /\ Svc(s)' = Idle /\ Nod(s)' = Nod(s) /\ lister' = lister
        /\ cache'[s] \in {cache[s], NoObject}
        /\ \/ api'[s].phase = api[s].phase /\ api'[s].m = api[s].m
           \/ api'[s].phase = "gone"
    BY <1>0, <1>4 DEF Returning, Unfinalizing, Forgetting, Others, Svc, Nod
  <2> QED BY <1>g, <1>i, <2>1
<1>5. CASE Syncing(s)
  <2> DEFINE r == Svc(s)'
  <2>1. /\ UNCHANGED <<api, lister>> /\ Nod(s)' = Nod(s)
        /\ \/ /\ lister[s].phase \in {"live", "deleting"} /\ cache'[s] = lister[s]
              /\ r.m = lister[s].m /\ r.pc \in {"exists", "final", AfterFinal(r.m)}
           \/ /\ cache'[s] = cache[s]
              /\ \/ r = Idle
                 \/ cache[s].phase # "none" /\ r.m = cache[s].m /\ r.pc \in {"delfetch", "forget"}
    BY <1>0, <1>5 DEF Syncing, Starts, Others, Svc, Nod
  <2>2. lister[s].phase \in {"live", "deleting"} => AfterFinal(lister[s].m) # "pool"
    BY <1>f, <1>g DEF Copies, Genuine
  <2> QED BY <1>g, <1>i, <2>1, <2>2
<1>6. CASE Delivering(s)
  <2>1. Svc(s)' = Svc(s) /\ Nod(s)' = Nod(s) /\ UNCHANGED <<api, cache>> /\ lister'[s] = api[s]
    BY <1>6 DEF Delivering, Svc, Nod
  <2> QED BY <1>g, <2>1
<1>7. CASE NodeSyncing(s) \/ NodeReturning(s)
  <2>1. /\ Svc(s)' = Svc(s) /\ UNCHANGED <<api, lister, cache>>
        /\ \/ Nod(s)' = Idle
           \/ cache[s].phase # "none" /\ Nod(s)'.m = cache[s].m
    BY <1>0, <1>7 DEF NodeSyncing, NodeReturning, Starts, Others, Svc, Nod
  <2> QED BY <1>g, <1>i, <2>1
<1>8. CASE Submitting(s)
  <2>1. Svc(s)' = Svc(s) /\ Nod(s)' = Nod(s) /\ UNCHANGED <<lister, cache>>
    BY <1>8 DEF Submitting, Svc, Nod
  <2>2. api'[s].phase \in {"live", "deleting"} => api'[s].m.pool = m.pool
    BY <1>8, <1>g DEF Submitting, Only
  <2> QED BY <1>g, <2>1, <2>2
<1> QED BY <1>1, <1>2, <1>3, <1>4, <1>5, <1>6, <1>7, <1>8 DEF ObjectStep

(* If it leaves the pool to the provider, the pool is in the API server's   *)
(* object before the ID of the NLB is in any copy: a copy with an ID has    *)
(* the pool that the API server has.                                        *)
Inferred(s) ==
  (\E m : Only(s, m) /\ m.pool = None) /\ Exists(s) =>
    /\ Svc(s).pc # "idle" => Svc(s).m.pool = api[s].m.pool
    /\ Svc(s).pc \in Ensuring => (Svc(s).pc = "pool" <=> Svc(s).m.pool = None)
    /\ \A c \in {api[s].m, cache[s].m, Svc(s).m, Nod(s).m} :
         c.id # NoID => c.pool = api[s].m.pool /\ c.pool # None

LEMMA InferredObject ==
  ASSUME AllManaged, ListerLag = FALSE, TypeOK, NEW s \in Service, ObjectStep(s),
         Copies(s), Lifecycle(s), Svc(s).pc # "resolve", Inferred(s)
  PROVE  Inferred(s)'
<1> SUFFICES ASSUME NEW m, Only(s, m), m.pool = None, Exists(s)'
             PROVE  /\ Svc(s)'.pc # "idle" => Svc(s)'.m.pool = api'[s].m.pool
                    /\ Svc(s)'.pc \in Ensuring => (Svc(s)'.pc = "pool" <=> Svc(s)'.m.pool = None)
                    /\ \A c \in {api'[s].m, cache'[s].m, Svc(s)'.m, Nod(s)'.m} :
                         c.id # NoID => c.pool = api'[s].m.pool /\ c.pool # None
  BY DEF Inferred, Only
<1> DEFINE p == <<s, "svc">>
           d == <<s, "node">>
<1>0. p \in Proc /\ d \in Proc /\ p # d BY Processes
<1>i. /\ Idle.pc = "idle" /\ NoObject.phase = "none" /\ Idle.m = NoManifest /\ NoObject.m = NoManifest
      /\ NoManifest.id = NoID /\ {"idle", "final", "exists", "delfetch", "forget"} \cap Ensuring = {}
      /\ {"fetch", "create", "adopt", "pool", "get"} \subseteq Ensuring
  BY DEF Idle, NoObject, NoManifest, Ensuring, Updating
<1>g. ASSUME Exists(s)
      PROVE  /\ Svc(s).pc # "idle" => Svc(s).m.pool = api[s].m.pool
             /\ Svc(s).pc \in Ensuring => (Svc(s).pc = "pool" <=> Svc(s).m.pool = None)
             /\ \A c \in {api[s].m, cache[s].m, Svc(s).m, Nod(s).m} :
                  c.id # NoID => c.pool = api[s].m.pool /\ c.pool # None
  BY <1>g DEF Inferred
<1>f. ASSUME NEW n, Submitted(s, n)
      PROVE  AfterFinal(n) \in Ensuring /\ (AfterFinal(n) = "pool" <=> n.pool = None)
  <2>1. n.sks = "none" /\ ~n.ext BY <1>f DEF Submitted, Alike, Only, AllManaged
  <2> QED BY <1>i, <2>1 DEF AfterFinal, AfterResolve, NeedsPool
<1>c. Svc(s).pc # "idle" => Submitted(s, Svc(s).m) BY DEF Copies, Svc, Idle
<1>1. CASE Finalizing(s)
  <2>1. /\ Svc(s).pc = "final" /\ Nod(s)' = Nod(s) /\ Exists(s)
        /\ api'[s].m = api[s].m /\ UNCHANGED <<lister, cache>>
        /\ Svc(s)' = Idle \/ (Svc(s)'.pc = AfterFinal(Svc(s).m) /\ Svc(s)'.m = Svc(s).m)
    BY <1>0, <1>1 DEF Finalizing, Becomes, Others, Svc, Nod, Exists
  <2> QED BY <1>c, <1>f, <1>g, <1>i, <2>1
<1>2. CASE Patching(s)
  <2>1. PICK n, found :
          /\ Value(Svc(s), found, n)
          /\ \/ cache' = cache /\ api' = api
             \/ found /\ RememberedAs(s, n) /\ (api' = api \/ PatchedTo(s, n))
          /\ \/ Svc(s)' = Idle
             \/ /\ found /\ Svc(s)'.m = n /\ Svc(s)'.pc = AfterPatch(Svc(s), n)
                /\ PatchedTo(s, n) \/ (api' = api /\ n = Svc(s).m)
    BY <1>2 DEF Patching, Svc, Becomes
  <2>2. /\ Svc(s).pc \in {"pool", "adopt"} /\ lister' = lister /\ Nod(s)' = Nod(s)
    BY <1>0, <1>2 DEF Patching, Svc, Nod, Others
  <2>3. Exists(s)
    <3>1. api'[s].phase = api[s].phase BY <2>1 DEF PatchedTo
    <3> QED BY <3>1 DEF Exists
  <2>4. cache'[s].m = cache[s].m \/ (found /\ cache'[s].m = n) BY <2>1 DEF RememberedAs
  <2>5. CASE Svc(s).pc = "pool"
    <3>1. n.id = Svc(s).m.id /\ (found => n.pool \in Pool) BY <2>1, <2>5 DEF Value
    <3>2. Svc(s).m.pool = None /\ api[s].m.pool = None BY <1>g, <1>i, <2>3, <2>5
    <3>3. \A c \in {api[s].m, cache[s].m, Svc(s).m, Nod(s).m} : c.id = NoID BY <1>g, <2>3, <3>2
    <3>4. api'[s].m.id = NoID
      BY <2>1, <2>5, <3>3 DEF PatchedTo, Svc
    <3>5. \A c \in {api'[s].m, cache'[s].m, Svc(s)'.m, Nod(s)'.m} : c.id = NoID
      BY <1>i, <2>1, <2>2, <2>4, <3>1, <3>3, <3>4
    <3>6. ASSUME Svc(s)' # Idle
          PROVE  Svc(s)'.pc = "fetch" /\ Svc(s)'.m.pool # None /\ Svc(s)'.m.pool = api'[s].m.pool
      <4>1. found /\ Svc(s)'.m = n /\ Svc(s)'.pc = AfterPatch(Svc(s), n)
            /\ (PatchedTo(s, n) \/ (api' = api /\ n = Svc(s).m))
        BY <2>1, <3>6
      <4>2. Svc(s)'.pc = "fetch" BY <2>5, <4>1 DEF AfterPatch
      <4>3. n.pool \in Pool /\ None \notin Pool BY <3>1, <4>1, ConstantsAssumption
      <4>4. api'[s].m.pool = n.pool BY <2>5, <3>2, <4>1, <4>3 DEF PatchedTo, Svc
      <4> QED BY <4>1, <4>2, <4>3, <4>4
    <3> QED BY <1>i, <3>5, <3>6
  <2>6. CASE Svc(s).pc = "adopt"
    <3>1. n.pool = Svc(s).m.pool BY <2>1, <2>6 DEF Value
    <3>2. Svc(s).m.pool # None /\ Svc(s).m.pool = api[s].m.pool BY <1>g, <1>i, <2>3, <2>6
    <3>3. api'[s].m.pool = api[s].m.pool BY <2>1, <2>6 DEF PatchedTo, Svc
    <3>4. Svc(s)' = Idle \/ (Svc(s)'.pc = "get" /\ Svc(s)'.m = n) BY <2>1, <2>6 DEF AfterPatch
    <3> QED BY <1>g, <1>i, <2>2, <2>3, <2>4, <3>1, <3>2, <3>3, <3>4
  <2> QED BY <2>2, <2>5, <2>6
<1>3. CASE Fetching(s) \/ Creating(s)
  <2>1. /\ Svc(s).pc \in {"fetch", "create"} /\ UNCHANGED <<api, lister, cache>> /\ Nod(s)' = Nod(s)
        /\ Exists(s)
        /\ \/ Svc(s)' = Idle
           \/ Svc(s)'.pc \in {"get", "create", "adopt"} /\ Svc(s)'.m = Svc(s).m
    BY <1>0, <1>3 DEF Fetching, Creating, Becomes, Others, Svc, Nod, Exists
  <2> QED BY <1>g, <1>i, <2>1
<1>4. CASE Returning(s) \/ Unfinalizing(s) \/ Forgetting(s)
  <2>1. /\ Svc(s)' = Idle /\ Nod(s)' = Nod(s) /\ Exists(s)
        /\ cache'[s] \in {cache[s], NoObject} /\ api'[s].m = api[s].m
    BY <1>0, <1>4 DEF Returning, Unfinalizing, Forgetting, Others, Svc, Nod, Exists
  <2> QED BY <1>g, <1>i, <2>1
<1>5. CASE Syncing(s)
  <2> DEFINE r == Svc(s)'
  <2>1. /\ api' = api /\ Nod(s)' = Nod(s) /\ Exists(s) /\ lister[s] = api[s]
        /\ cache'[s] = api[s] /\ r.m = api[s].m /\ r.pc \in {"exists", "final", AfterFinal(r.m)}
    BY <1>0, <1>5 DEF Syncing, Starts, Others, Svc, Nod, Exists
  <2>2. Submitted(s, api[s].m) BY <2>1 DEF Copies, Genuine, Exists
  <2>3. AfterFinal(r.m) \in Ensuring /\ (AfterFinal(r.m) = "pool" <=> r.m.pool = None)
    BY <1>f, <2>1, <2>2
  <2> HIDE DEF r
  <2>4. r.pc \in Ensuring => (r.pc = "pool" <=> r.m.pool = None) BY <1>i, <2>1, <2>3
  <2> QED BY <1>g, <1>i, <2>1, <2>4 DEF r
<1>6. CASE Delivering(s)
  <2>1. Svc(s)' = Svc(s) /\ Nod(s)' = Nod(s) /\ UNCHANGED <<api, cache>> /\ Exists(s)
    BY <1>6 DEF Delivering, Svc, Nod, Exists
  <2> QED BY <1>g, <2>1
<1>7. CASE NodeSyncing(s) \/ NodeReturning(s)
  <2>1. /\ Svc(s)' = Svc(s) /\ UNCHANGED <<api, lister, cache>> /\ Exists(s)
        /\ Nod(s)' = Idle \/ Nod(s)'.m = cache[s].m
    BY <1>0, <1>7 DEF NodeSyncing, NodeReturning, Starts, Others, Svc, Nod, Exists
  <2> QED BY <1>g, <1>i, <2>1
<1>8. CASE Submitting(s)
  <2>1. Svc(s)' = Svc(s) /\ Nod(s)' = Nod(s) /\ UNCHANGED <<lister, cache>>
    BY <1>8 DEF Submitting, Svc, Nod
  <2>2. CASE api[s].phase = "none"
    <3>1. cache[s].phase = "none" /\ Svc(s).pc = "idle" /\ Nod(s).pc = "idle"
      BY <2>2 DEF Lifecycle, Copies, Svc
    <3>2. Svc(s) = Idle /\ Nod(s) = Idle /\ cache[s].m = NoManifest
      BY <3>1 DEF Copies, Genuine, Svc, Nod
    <3>3. api'[s].m.id = NoID BY <1>8, <2>2 DEF Submitting, AllManaged
    <3> QED BY <1>i, <2>1, <3>2, <3>3
  <2>3. CASE api[s].phase # "none"
    <3>1. Exists(s) /\ api'[s].m.id = api[s].m.id /\ api'[s].m.pool = api[s].m.pool
      BY <1>8, <2>3 DEF Submitting, AllManaged, Only, Exists
    <3> QED BY <1>g, <2>1, <3>1
  <2> QED BY <2>2, <2>3
<1> QED BY <1>1, <1>2, <1>3, <1>4, <1>5, <1>6, <1>7, <1>8 DEF ObjectStep

GivenInv == CopiesInv /\ \A s \in Service : Given(s)

InferredInv == LifeInv /\ RefsInv /\ \A s \in Service : Inferred(s)

LEMMA NextGiven == GivenInv /\ [Next]_vars => GivenInv'
<1> SUFFICES ASSUME GivenInv, [Next]_vars, NEW s \in Service PROVE Given(s)'
  BY NextCopies DEF GivenInv
<1>t. TypeOK /\ Fresh /\ Copies(s) /\ Given(s) BY DEF GivenInv, CopiesInv
<1>i. Idle.pc = "idle" /\ NoObject.phase = "none" BY DEF Idle, NoObject
<1>s. ASSUME Same(s) PROVE Given(s)' BY <1>s, <1>t DEF Given, Only, Same, Svc, Nod
<1>1. ASSUME NEW t \in Service, ObjectStep(t) PROVE Given(s)'
  <2>1. CASE s = t BY <1>1, <1>t, <2>1, GivenObject
  <2>2. CASE s # t BY <1>1, <1>s, <2>2, LocalSame DEF ObjectStep
  <2> QED BY <2>1, <2>2
<1>2. ASSUME NEW p \in Proc, NEW t \in Service, Update(p) \/ (p = <<t, "svc">> /\ Withdraw(t))
      PROVE  Given(s)'
  <2>1. /\ UNCHANGED <<api, lister, cache>>
        /\ \/ Svc(s)' = Svc(s) \/ Svc(s)' = Idle
           \/ Svc(s)'.m = Svc(s).m /\ Svc(s).pc # "idle" /\ Svc(s)'.pc # "pool"
        /\ \/ Nod(s)' = Nod(s) \/ Nod(s)' = Idle
           \/ Nod(s)'.m = Nod(s).m /\ Nod(s).pc # "idle"
    BY <1>2, <1>t, WorkSeen DEF Updating, Withdrawing
  <2> QED BY <1>i, <1>t, <2>1 DEF Given, Only
<1>3. CASE Drifts BY <1>3, <1>s DEF Drifts, Same
<1>4. CASE Restarts
  <2>1. /\ api' = api /\ lister' = api /\ cache'[s] = NoObject /\ Svc(s)' = Idle /\ Nod(s)' = Idle
    BY <1>4, Processes DEF Restarts, Svc, Nod
  <2> QED BY <1>i, <1>t, <2>1 DEF Given, Only
<1>5. ASSUME NEW p \in Proc, Update(p) PROVE Given(s)' BY <1>2, <1>5
<1>6. ASSUME NEW t \in Service, Withdraw(t) PROVE Given(s)' BY <1>2, <1>6, Processes
<1> QED BY <1>1, <1>3, <1>4, <1>5, <1>6, <1>t, Steps

LEMMA NextInferred ==
  ASSUME AllManaged, ListerLag = FALSE, InferredInv, [Next]_vars
  PROVE  InferredInv'
<1> SUFFICES ASSUME NEW s \in Service PROVE Inferred(s)'
  BY NextLife, NextRefs DEF InferredInv
<1>t. /\ TypeOK /\ Fresh /\ Copies(s) /\ Lifecycle(s) /\ Svc(s).pc # "resolve" /\ Inferred(s)
  BY DEF InferredInv, LifeInv, RefsInv, CopiesInv
<1>i. Idle.pc = "idle" /\ NoObject.phase = "none" /\ Idle.m = NoManifest /\ NoObject.m = NoManifest
      /\ NoManifest.id = NoID /\ "idle" \notin Ensuring
  BY DEF Idle, NoObject, NoManifest, Ensuring, Updating
<1>s. ASSUME Same(s) PROVE Inferred(s)' BY <1>s, <1>t DEF Inferred, Only, Same, Svc, Nod, Exists
<1>1. ASSUME NEW t \in Service, ObjectStep(t) PROVE Inferred(s)'
  <2>1. CASE s = t BY <1>1, <1>t, <2>1, InferredObject
  <2>2. CASE s # t BY <1>1, <1>s, <2>2, LocalSame DEF ObjectStep
  <2> QED BY <2>1, <2>2
<1>2. ASSUME NEW p \in Proc, NEW t \in Service, Update(p) \/ (p = <<t, "svc">> /\ Withdraw(t))
      PROVE  Inferred(s)'
  <2>1. /\ UNCHANGED <<api, lister, cache>>
        /\ \/ Svc(s)' = Svc(s) \/ Svc(s)' = Idle
           \/ /\ Svc(s)'.m = Svc(s).m /\ Svc(s).pc # "idle"
              /\ \/ Svc(s).pc \in Ensuring \ {"pool"} /\ Svc(s)'.pc # "pool"
                 \/ Svc(s)'.pc \notin Ensuring
        /\ \/ Nod(s)' = Nod(s) \/ Nod(s)' = Idle
           \/ Nod(s)'.m = Nod(s).m
    BY <1>2, <1>t, WorkSeen DEF Updating, Withdrawing, Ensuring
  <2> QED BY <1>i, <1>t, <2>1 DEF Inferred, Only, Exists
<1>3. CASE Drifts BY <1>3, <1>s DEF Drifts, Same
<1>4. CASE Restarts
  <2>1. /\ api' = api /\ cache'[s] = NoObject /\ Svc(s)' = Idle /\ Nod(s)' = Idle
    BY <1>4, Processes DEF Restarts, Svc, Nod
  <2> QED BY <1>i, <1>t, <2>1 DEF Inferred, Only, Exists
<1>5. ASSUME NEW p \in Proc, Update(p) PROVE Inferred(s)' BY <1>2, <1>5
<1>6. ASSUME NEW t \in Service, Withdraw(t) PROVE Inferred(s)' BY <1>2, <1>6, Processes
<1> QED BY <1>1, <1>3, <1>4, <1>5, <1>6, <1>t, Steps

LEMMA InitPools == Init => GivenInv /\ InferredInv
<1> SUFFICES ASSUME Init PROVE GivenInv /\ InferredInv OBVIOUS
<1>1. ASSUME NEW s \in Service
      PROVE  /\ Svc(s) = Idle /\ Nod(s) = Idle
             /\ api[s] = NoObject /\ lister[s] = NoObject /\ cache[s] = NoObject
  BY Processes DEF Init, Svc, Nod
<1>i. Idle.pc = "idle" /\ NoObject.phase = "none" BY DEF Idle, NoObject
<1>2. ASSUME NEW s \in Service PROVE Given(s) /\ Inferred(s)
  BY <1>1, <1>i DEF Given, Inferred, Exists
<1> QED BY <1>2, InitCopies, InitLife, InitRefs DEF GivenInv, InferredInv

-----------------------------------------------------------------------------
(* What a step does to an NLB service *)

(* p renews an NLB service, or creates it: x is the result. *)
Makes(p, i, x) ==
  LET q == proc[p]
  IN  /\ q.m.id = i /\ Live(i) /\ q.pc \in {"apply", "readd"}
      /\ \/ \E t \in q.todo : \E z \in nlb[i].svcs :
              /\ q.pc = "apply" /\ t.op = "update" /\ z.sid = t.sid
              /\ x.sid = z.sid /\ x.key = z.key /\ x.pool = z.pool /\ x.own = t.want.own
         \/ \E t \in q.todo \cup q.doing :
              /\ x.sid = lastSid + 1 /\ lastSid' = lastSid + 1
              /\ x.key = t.want.key /\ x.pool = t.want.pool /\ x.own = t.want.own

(* p deletes x. *)
Takes(p, i, x) ==
  LET q == proc[p]
  IN  /\ q.m.id = i
      /\ \/ q.pc \in {"prune", "delprune"} /\ \E y \in q.prune : y.sid = x.sid
         \/ q.pc = "apply" /\ \E t \in q.todo : t.op = "replace" /\ t.sid = x.sid

(* No ID that is yet to be handed out has NLB services. *)
Unused == \A i \in ID : i > lastNLB => nlb[i].svcs = {}

LEMMA CallsServices ==
  ASSUME TypeOK, NEW p \in Proc, Calls(p), NEW i \in ID
  PROVE  /\ \A x \in nlb'[i].svcs : x \in nlb[i].svcs \/ Makes(p, i, x)
         /\ \A x \in nlb[i].svcs : (\E y \in nlb'[i].svcs : y.sid = x.sid) \/ Takes(p, i, x)
<1> DEFINE q == proc[p]
<1>t. nlb \in [ID -> NLB] BY DEF TypeOK
<1>1. CASE q.m.id # i BY <1>1, CallsKeep
<1>2. CASE nlb' = nlb BY <1>2
<1>3. CASE q.m.id = i /\ Live(i) /\ Renames(p)
  <2>1. nlb' = [nlb EXCEPT ![i].name = GetLoadBalancerName(p[1], q.m), ![i].desc = q.cdesc]
    BY <1>3 DEF Renames
  <2>2. nlb'[i].svcs = nlb[i].svcs BY <1>t, <2>1 DEF NLB
  <2> QED BY <2>2
<1>4. CASE q.m.id = i /\ Live(i) /\ Removes(p)
  <2>1. PICK sid : /\ nlb' = Without(i, sid)
                   /\ \A x : x.sid = sid => Takes(p, i, x)
    BY <1>4 DEF Removes, Takes
  <2>2. \A x : x \in nlb'[i].svcs <=> x \in nlb[i].svcs /\ x.sid # sid
    <3>1. \A x : x \in Without(i, sid)[i].svcs <=> x \in nlb[i].svcs /\ x.sid # sid
      BY <1>t, ServicesLeft
    <3> QED BY <2>1, <3>1
  <2>3. \A x \in nlb[i].svcs : (\E y \in nlb'[i].svcs : y.sid = x.sid) \/ Takes(p, i, x)
    BY <2>1, <2>2
  <2> QED BY <2>2, <2>3
<1>5. CASE q.m.id = i /\ Live(i) /\ Alters(p)
  <2>1. PICK t \in q.todo : t.op = "update" /\ nlb' = Updated(i, t.sid, t.want)
    BY <1>5 DEF Alters
  <2>2. q.pc = "apply" BY <1>5 DEF Alters
  <2>3. /\ \A x \in nlb'[i].svcs : \E z \in nlb[i].svcs :
              x = z \/ (z.sid = t.sid /\ x = Renewed(z, t.want))
        /\ \A z \in nlb[i].svcs : z \in nlb'[i].svcs \/ Renewed(z, t.want) \in nlb'[i].svcs
        /\ \A z \in nlb[i].svcs :
             /\ Renewed(z, t.want).sid = z.sid /\ Renewed(z, t.want).key = z.key
             /\ Renewed(z, t.want).pool = z.pool /\ Renewed(z, t.want).own = t.want.own
    BY <1>t, <2>1, UpdatedServices
  <2>4. ASSUME NEW x \in nlb'[i].svcs PROVE x \in nlb[i].svcs \/ Makes(p, i, x)
    BY <1>5, <2>1, <2>2, <2>3, <2>4 DEF Makes
  <2>5. ASSUME NEW x \in nlb[i].svcs PROVE \E y \in nlb'[i].svcs : y.sid = x.sid
    BY <2>3, <2>5
  <2> QED BY <2>4, <2>5
<1>6. CASE q.m.id = i /\ Live(i) /\ Adds(p)
  <2>1. PICK t \in q.todo \cup q.doing : nlb' = With(i, t.want) BY <1>6 DEF Adds
  <2>2. q.pc \in {"apply", "readd"} /\ lastSid' = lastSid + 1 BY <1>6 DEF Adds
  <2>3. \A x : x \in nlb'[i].svcs <=> x \in nlb[i].svcs \/ x = Created(t.want)
    <3>1. \A x : x \in With(i, t.want)[i].svcs <=> x \in nlb[i].svcs \/ x = Created(t.want)
      BY <1>t, ServicesLeft
    <3> QED BY <2>1, <3>1
  <2>4. /\ Created(t.want).sid = lastSid + 1 /\ Created(t.want).key = t.want.key
        /\ Created(t.want).pool = t.want.pool /\ Created(t.want).own = t.want.own
    BY DEF Created
  <2>5. Makes(p, i, Created(t.want)) BY <1>6, <2>1, <2>2, <2>4 DEF Makes
  <2> QED BY <2>3, <2>5
<1> QED BY <1>1, <1>2, <1>3, <1>4, <1>5, <1>6 DEF Calls

LEMMA NextServices ==
  ASSUME CopiesInv, Unused, [Next]_vars, NEW i \in ID
  PROVE  /\ \A x \in nlb'[i].svcs : x \in nlb[i].svcs \/ \E p \in Proc : Makes(p, i, x)
         /\ \A x \in nlb[i].svcs :
              \/ \E y \in nlb'[i].svcs : y.sid = x.sid
              \/ CloudDeletes
              \/ \E p \in Proc : Takes(p, i, x) \/ (proc[p].pc = "dellb" /\ proc[p].m.id = i)
<1> DEFINE Goal == /\ \A x \in nlb'[i].svcs : x \in nlb[i].svcs \/ \E p \in Proc : Makes(p, i, x)
                   /\ \A x \in nlb[i].svcs :
                        \/ \E y \in nlb'[i].svcs : y.sid = x.sid
                        \/ CloudDeletes
                        \/ \E p \in Proc : Takes(p, i, x) \/ (proc[p].pc = "dellb" /\ proc[p].m.id = i)
<1>t. TypeOK /\ Fresh /\ nlb \in [ID -> NLB] /\ lastNLB \in Nat
  BY BoundsAssumption DEF CopiesInv, TypeOK
<1>u. ASSUME nlb' = nlb, lastSid' = lastSid PROVE Goal BY <1>u
<1>d. ASSUME NEW j \in ID, NEW n, n.svcs = {},
             \/ CloudDeletes \/ nlb[j].svcs = {}
             \/ \E p \in Proc : proc[p].pc = "dellb" /\ proc[p].m.id = j,
             nlb' = [nlb EXCEPT ![j] = n], lastSid' = lastSid
      PROVE  Goal
  <2>1. CASE i = j
    <3>1. nlb'[i] = n BY <1>d, <1>t, <2>1
    <3> QED BY <1>d, <2>1, <3>1
  <2>2. CASE i # j
    <3>1. nlb'[i] = nlb[i] BY <1>d, <1>t, <2>2
    <3> QED BY <1>d, <3>1
  <2> QED BY <2>1, <2>2
<1>n. NoNLB.svcs = {} /\ ~NoNLB.live BY DEF NoNLB
<1>1. ASSUME NEW s \in Service, ObjectStep(s) PROVE Goal
  <2>1. CASE UNCHANGED cloud BY <1>u, <2>1 DEF cloud
  <2>2. CASE Creating(s)
    <3>1. CASE nlb' = nlb BY <1>u, <2>2, <3>1 DEF Creating
    <3>2. PICK n : n.svcs = {} /\ (nlb' = nlb \/ nlb' = [nlb EXCEPT ![lastNLB + 1] = n])
      BY <2>2 DEF Creating
    <3>3. lastNLB + 1 \in ID /\ lastSid' = lastSid BY <2>2 DEF Creating
    <3>4. nlb[lastNLB + 1].svcs = {} BY <1>t, <3>3 DEF Unused
    <3> QED BY <1>d, <3>1, <3>2, <3>3, <3>4
  <2> QED BY <1>1, <2>1, <2>2
          DEF ObjectStep, Finalizing, Patching, Fetching, Returning, Unfinalizing, Forgetting,
              Syncing, Delivering, NodeSyncing, NodeReturning, Submitting
<1>2. ASSUME NEW p \in Proc, Calls(p) PROVE Goal BY <1>2, <1>t, CallsServices
<1>3. ASSUME NEW p \in Proc, Destroys(p) PROVE Goal
  BY <1>3, <1>d, <1>n DEF Destroys, Live
<1>4. CASE Drifts BY <1>4, <1>d, <1>n, <1>u DEF Drifts
<1>5. CASE Restarts BY <1>5, <1>u DEF Restarts, cloud
<1> QED BY <1>1, <1>2, <1>3, <1>4, <1>5, <1>t, Steps, Processes DEF Update, Withdraw

LEMMA NextUnused ==
  ASSUME CopiesInv, Unused, [Next]_vars
  PROVE  Unused'
<1>t. TypeOK /\ Fresh /\ nlb \in [ID -> NLB] /\ lastNLB \in Nat
  BY BoundsAssumption DEF CopiesInv, TypeOK
<1>m. lastNLB' \in {lastNLB, lastNLB + 1}
  <2>1. ASSUME NEW s \in Service, ObjectStep(s) PROVE lastNLB' \in {lastNLB, lastNLB + 1}
    BY <2>1 DEF ObjectStep, Finalizing, Patching, Fetching, Creating, Returning, Unfinalizing,
                Forgetting, Syncing, Delivering, NodeSyncing, NodeReturning, Submitting, cloud
  <2> QED BY <1>t, <2>1, Steps DEF Update, Withdraw, Drifts, Restarts, cloud
<1> SUFFICES ASSUME NEW i \in ID, i > lastNLB', NEW x \in nlb'[i].svcs PROVE FALSE
  BY DEF Unused
<1>1. i > lastNLB /\ ~Live(i) BY <1>m, <1>t DEF ID, Fresh, Live
<1>2. nlb[i].svcs = {} BY <1>1 DEF Unused
<1>3. \E p \in Proc : Makes(p, i, x) BY <1>2, NextServices
<1> QED BY <1>1, <1>3 DEF Makes

-----------------------------------------------------------------------------
(* The plans are about the NLB services they were made from *)

(* The IDs in a plan are still those of the NLB services that were read, if *)
(* these exist at all: on the same port and, as far as it matters, of the   *)
(* same pool.                                                               *)
Meant(q, x) ==
  /\ \A y \in q.prune : y.sid = x.sid => y.key = x.key
  /\ \A t \in q.todo : t.sid = x.sid =>
       /\ t.want.key = x.key
       /\ t.op = "update" => t.want.pool = x.pool
       /\ t.op = "replace" => t.want.pool # x.pool

Faithful(p) ==
  LET q == proc[p]
  IN  /\ \A y \in q.prune : y.sid <= lastSid
      /\ \A t \in q.todo \cup q.doing :
           t.sid <= lastSid /\ t.want.own = p[1] /\ t.want.pool = q.m.pool
      /\ q.pc \in Updating => \A y \in q.prune : y.key \notin q.m.ports
      /\ q.m.id \in ID => \A x \in nlb[q.m.id].svcs : Meant(q, x)

FaithfulInv == PlansInv /\ Sids /\ Unused /\ \A p \in Proc : Faithful(p)

(* What the tasks say of the NLB services that they were made from. *)
LEMMA TaskMeans ==
  ASSUME NEW s, NEW m, NEW cur, NEW t \in Tasks(s, m, cur)
  PROVE  /\ t.want.own = s /\ t.want.pool = m.pool
         /\ \/ t.sid = NoID
            \/ \E x \in cur.svcs :
                 /\ x.sid = t.sid /\ x.key = t.want.key
                 /\ t.op = "update" => t.want.pool = x.pool
                 /\ t.op = "replace" => t.want.pool # x.pool
<1>1. \A w \in Wanted(s, m) : w.own = s /\ w.pool = m.pool BY DEF Wanted
<1>2. CASE t \in {[op |-> "add", sid |-> NoID, want |-> w] :
                     w \in {v \in Wanted(s, m) : \A x \in cur.svcs : x.key # v.key}}
  BY <1>1, <1>2
<1>3. CASE t \in UNION {{[op |-> IF x.pool # w.pool THEN "replace" ELSE "update",
                          sid |-> x.sid, want |-> w] :
                           w \in {v \in Wanted(s, m) :
                                    /\ v.key = x.key
                                    /\ x.pool # v.pool \/ isLoadBalancerServiceUpdated(x, v)}}
                        : x \in cur.svcs}
  <2>1. PICK x \in cur.svcs, w \in Wanted(s, m) :
          /\ w.key = x.key
          /\ t = [op |-> IF x.pool # w.pool THEN "replace" ELSE "update", sid |-> x.sid, want |-> w]
    BY <1>3
  <2>2. /\ t.sid = x.sid /\ t.want = w
        /\ t.op = IF x.pool # w.pool THEN "replace" ELSE "update"
    BY <2>1
  <2> QED BY <1>1, <2>1, <2>2
<1> QED BY <1>2, <1>3 DEF Tasks

(* Whatever the step does to the NLB, a plan that does not grow stays true. *)
LEMMA StaysFaithful ==
  ASSUME FaithfulInv, [Next]_vars, NEW p \in Proc, NEW r,
         r.m = proc[p].m, r.prune \subseteq proc[p].prune, r.todo \subseteq proc[p].todo,
         r.doing \subseteq proc[p].todo \cup proc[p].doing
  PROVE  /\ \A y \in r.prune : y.sid <= lastSid'
         /\ \A t \in r.todo \cup r.doing :
              t.sid <= lastSid' /\ t.want.own = p[1] /\ t.want.pool = r.m.pool
         /\ r.m.id \in ID => \A x \in nlb'[r.m.id].svcs : Meant(r, x)
<1> DEFINE q == proc[p]
<1>t. /\ CopiesInv /\ Unused /\ Faithful(p) /\ q \in Process /\ lastSid \in Nat
      /\ nlb \in [ID -> NLB]
  BY BoundsAssumption DEF FaithfulInv, PlansInv, CopiesInv, TypeOK
<1>y. /\ \A y \in q.prune : y.sid \in Nat
      /\ \A t \in q.todo \cup q.doing : t.sid \in Nat
  BY <1>t, BoundsAssumption DEF Process, NLBService, Task, SID, NoID
<1>s. lastSid <= lastSid' /\ lastSid' \in Nat
  <2>1. CopiesInv' BY <1>t, NextCopies
  <2>2. lastSid' \in Nat BY <2>1, BoundsAssumption DEF CopiesInv, TypeOK
  <2> QED BY <1>t, <2>2, NextSids DEF FaithfulInv
<1>1. \A y \in r.prune : y.sid <= lastSid'
  BY <1>s, <1>t, <1>y DEF Faithful
<1>2. \A t \in r.todo \cup r.doing :
        t.sid <= lastSid' /\ t.want.own = p[1] /\ t.want.pool = r.m.pool
  BY <1>s, <1>t, <1>y DEF Faithful
<1>3. ASSUME r.m.id \in ID, NEW x \in nlb'[r.m.id].svcs PROVE Meant(r, x)
  <2> DEFINE i == r.m.id
  <2>1. x \in nlb[i].svcs \/ \E a \in Proc : Makes(a, i, x) BY <1>3, <1>t, NextServices
  <2>2. CASE \E z \in nlb[i].svcs : z.sid = x.sid /\ z.key = x.key /\ z.pool = x.pool
    <3>1. PICK z \in nlb[i].svcs : z.sid = x.sid /\ z.key = x.key /\ z.pool = x.pool BY <2>2
    <3>2. Meant(q, z) BY <1>3, <1>t DEF Faithful
    <3> QED BY <3>1, <3>2 DEF Meant
  <2>3. CASE x.sid = lastSid + 1
    <3>1. /\ \A y \in q.prune : y.sid # x.sid
          /\ \A t \in q.todo : t.sid # x.sid
      BY <1>t, <1>y, <2>3 DEF Faithful
    <3> QED BY <3>1 DEF Meant
  <2> QED BY <2>1, <2>2, <2>3 DEF Makes
<1> QED BY <1>1, <1>2, <1>3

LEMMA NextFaithful == FaithfulInv /\ [Next]_vars => FaithfulInv'
<1> SUFFICES ASSUME FaithfulInv, [Next]_vars, NEW p \in Proc PROVE Faithful(p)'
  <2>1. FaithfulInv /\ [Next]_vars => PlansInv' /\ Sids' /\ Unused'
    BY NextPlans, NextSids, NextUnused DEF FaithfulInv, PlansInv
  <2> QED BY <2>1 DEF FaithfulInv
<1> DEFINE q == proc[p]
           r == proc'[p]
<1>t. /\ TypeOK /\ Fresh /\ CopiesInv /\ Plans(p) /\ Sids /\ Faithful(p)
      /\ q.end \in {"unfinal", "forget"}
  BY DEF FaithfulInv, PlansInv, CopiesInv, TypeOK, Process
<1>n. ASSUME NoPlan(r) PROVE Faithful(p)' BY <1>n DEF NoPlan, Faithful, Meant
<1>s. ASSUME r.m = q.m, r.prune \subseteq q.prune, r.todo \subseteq q.todo,
             r.doing \subseteq q.todo \cup q.doing, r.pc \in Updating => q.pc \in Updating
      PROVE  Faithful(p)'
  <2>1. /\ \A y \in r.prune : y.sid <= lastSid'
        /\ \A t \in r.todo \cup r.doing :
             t.sid <= lastSid' /\ t.want.own = p[1] /\ t.want.pool = r.m.pool
        /\ r.m.id \in ID => \A x \in nlb'[r.m.id].svcs : Meant(r, x)
    BY <1>s, StaysFaithful
  <2>2. r.pc \in Updating => \A y \in r.prune : y.key \notin r.m.ports BY <1>s, <1>t DEF Faithful
  <2> QED BY <2>1, <2>2 DEF Faithful, Meant
<1>g. ASSUME r.m = q.m, q.m.id \in ID, nlb' = nlb, lastSid' = lastSid,
             r.prune \subseteq nlb[q.m.id].svcs,
             r.pc \in Updating => \A y \in r.prune : y.key \notin q.m.ports,
             r.todo = {} \/ r.todo = Tasks(p[1], q.m, nlb[q.m.id]), r.doing = {}
      PROVE  Faithful(p)'
  <2> DEFINE cur == nlb[q.m.id]
  <2>0. /\ \A x \in cur.svcs : x.sid <= lastSid /\ x.sid \in SID
        /\ \A x, y \in cur.svcs : y.sid = x.sid => y = x
        /\ lastSid \in Nat
    BY <1>g, <1>t, BoundsAssumption DEF Sids, TypeOK, NLB, NLBService
  <2>1. ASSUME NEW t \in r.todo
        PROVE  /\ t.want.own = p[1] /\ t.want.pool = q.m.pool
               /\ \/ t.sid = NoID
                  \/ \E x \in cur.svcs :
                       /\ x.sid = t.sid /\ x.key = t.want.key
                       /\ t.op = "update" => t.want.pool = x.pool
                       /\ t.op = "replace" => t.want.pool # x.pool
    BY <1>g, <2>1, TaskMeans
  <2>2. \A t \in r.todo : t.sid <= lastSid
    <3>1. NoID <= lastSid BY <2>0 DEF NoID
    <3> QED BY <2>0, <2>1, <3>1
  <2>3. ASSUME NEW x \in cur.svcs PROVE Meant(r, x)
    <3>1. x.sid # NoID BY <2>0 DEF SID, NoID
    <3>2. \A y \in r.prune : y.sid = x.sid => y.key = x.key BY <1>g, <2>0
    <3>3. ASSUME NEW t \in r.todo, t.sid = x.sid
          PROVE  /\ t.want.key = x.key
                 /\ t.op = "update" => t.want.pool = x.pool
                 /\ t.op = "replace" => t.want.pool # x.pool
      BY <2>0, <2>1, <3>1, <3>3
    <3> QED BY <3>2, <3>3 DEF Meant
  <2> QED BY <1>g, <2>0, <2>1, <2>2, <2>3 DEF Faithful, Meant
<1>1. CASE r = q BY <1>1, <1>s
<1>2. CASE r.pc \in Planless \cup {"forget"} /\ NoPlan(r) BY <1>2, <1>n
<1>3. CASE /\ q.pc \in Planless /\ r.pc \in Planless
           /\ r.prune = q.prune /\ r.todo = q.todo /\ r.doing = q.doing
  BY <1>3, <1>n, <1>t DEF Plans, NoPlan
<1>4. CASE Update(p) /\ Advances(p, r)
  <2>1. r.m = q.m /\ Planned(p, r) /\ q.pc \in Updating \cup {"get"} BY <1>4 DEF Advances, Update
  <2>2. CASE q.pc = "get"
    <3>1. /\ Live(q.m.id) /\ r.prune = Stale(q.m, nlb[q.m.id]) /\ r.doing = {}
          /\ r.todo = Tasks(p[1], q.m, nlb[q.m.id])
      BY <1>t, <2>1, <2>2 DEF Planned, Updating, Plans, NoPlan, Planless
    <3>2. nlb' = nlb /\ lastSid' = lastSid
      BY <1>4, <2>2 DEF Update, Calls, Renames, Removes, Alters, Adds
    <3>3. r.prune \subseteq nlb[q.m.id].svcs /\ \A y \in r.prune : y.key \notin q.m.ports
      BY <3>1 DEF Stale
    <3>4. q.m.id \in ID BY <3>1 DEF Live
    <3> QED BY <1>g, <2>1, <3>1, <3>2, <3>3, <3>4
  <2>3. CASE q.pc \in Updating
    BY <1>s, <2>1, <2>3 DEF Planned, Updating
  <2> QED BY <2>1, <2>2, <2>3
<1>5. CASE \E s \in Service : p = <<s, "svc">> /\ Withdraw(s) /\ Withdraws(p, r)
  <2>1. /\ q.pc \in Withdrawing /\ Withdraws(p, r) /\ (Calls(p) \/ Destroys(p))
    BY <1>5 DEF Withdraw, Withdrawing
  <2>2. r.m = q.m /\ r.todo = q.todo /\ r.doing = q.doing BY <2>1 DEF Withdraws
  <2>3. r.pc \notin Updating BY <1>t, <2>1 DEF Withdraws, AfterPrune, Updating
  <2>4. CASE r.prune \subseteq q.prune BY <1>s, <2>2, <2>3, <2>4
  <2>5. CASE q.pc = "delfetch" /\ Live(q.m.id) /\ r.prune \subseteq nlb[q.m.id].svcs
    <3>1. nlb' = nlb /\ lastSid' = lastSid
      BY <2>1, <2>5 DEF Calls, Destroys, Renames, Removes, Alters, Adds
    <3>2. r.todo = {} /\ r.doing = {} BY <1>t, <2>2, <2>5 DEF Plans, NoPlan, Planless
    <3>3. q.m.id \in ID BY <2>5 DEF Live
    <3> QED BY <1>g, <2>2, <2>3, <2>5, <3>1, <3>2, <3>3
  <2>6. r.prune \subseteq q.prune \/ (q.pc = "delfetch" /\ Live(q.m.id) /\ r.prune \subseteq nlb[q.m.id].svcs)
    BY <2>1 DEF Withdraws
  <2> QED BY <2>4, <2>5, <2>6
<1> QED BY <1>t, <1>1, <1>2, <1>3, <1>4, <1>5, ProcessStep DEF Proceeds

LEMMA InitFaithful == Init => FaithfulInv
<1> SUFFICES ASSUME Init PROVE FaithfulInv OBVIOUS
<1>1. ASSUME NEW p \in Proc PROVE Faithful(p)
  <2>1. proc[p] = Idle BY DEF Init
  <2> QED BY <2>1 DEF Faithful, Meant, Idle
<1>2. Unused BY BoundsAssumption DEF Init, Unused, NoNLB, ID
<1> QED BY <1>1, <1>2, InitPlans, InitSids DEF FaithfulInv

-----------------------------------------------------------------------------
(* The NLB services of a Service *)

(* They are as its one manifest asks. *)
Serving(s) ==
  \A m : Steady(s) /\ Only(s, m) =>
    \A i \in ID : \A x \in nlb[i].svcs : x.own = s =>
      /\ api[s].phase # "none" /\ m.lb /\ x.key \in m.ports
      /\ Exists(s) => x.pool # None /\ x.pool = IF m.pool # None THEN m.pool ELSE api[s].m.pool

(* On an NLB that t refers to, no other Service has any. *)
Owned ==
  \A t \in Service : \A i \in Refs(t) \cap ID : \A x \in nlb[i].svcs :
    x.own \in Service => x.own = t

(* Either every Service is on NLBs that are managed elsewhere, or every NLB *)
(* is the provider's; in this case either a sync starts from the current    *)
(* object or no Instance Pool is left to be inferred.                       *)
Settled ==
  \/ \A s \in Service : AlwaysExternal(s)
  \/ /\ AllManaged
     /\ ListerLag = FALSE \/ \A s \in Service : \A m \in Manifests[s] : m.pool # None

(* No NLB service is a Service's before that Service exists. *)
Unserved == \A i \in 1 .. Provisioned : \A x \in Preset[i].svcs : x.own \notin Service

KeptInv ==
  /\ FaithfulInv /\ LifeInv /\ GivenInv /\ ExternalInv
  /\ \A s \in Service : Serving(s)
  /\ AllManaged => RefsInv /\ Owned
  /\ AllManaged /\ ListerLag = FALSE => InferredInv

(* The object of a Service does not come back, and its pool stays. *)
LEMMA ObjectKept ==
  ASSUME CopiesInv, [Next]_vars, NEW s \in Service, api[s].phase # "none"
  PROVE  /\ api'[s].phase # "none"
         /\ Exists(s)' => Exists(s)
         /\ \A m : /\ Only(s, m) /\ m.pool = None /\ Exists(s)' /\ Inferred(s)
                   /\ api[s].m.pool # None
                   => api'[s].m.pool = api[s].m.pool
<1>t. TypeOK /\ Fresh BY DEF CopiesInv
<1>u. ASSUME api'[s] = api[s] PROVE
         /\ api'[s].phase # "none" /\ (Exists(s)' => Exists(s)) /\ api'[s].m.pool = api[s].m.pool
  BY <1>u DEF Exists
<1>1. ASSUME ObjectStep(s)
      PROVE  /\ api'[s].phase # "none"
             /\ Exists(s)' => Exists(s)
             /\ \A m : /\ Only(s, m) /\ m.pool = None /\ Exists(s)' /\ Inferred(s)
                       /\ api[s].m.pool # None
                       => api'[s].m.pool = api[s].m.pool
  <2>1. CASE Finalizing(s) \/ Returning(s)
    BY <2>1 DEF Finalizing, Returning, Exists
  <2>2. CASE Patching(s)
    <3>1. PICK n : api' = api \/ PatchedTo(s, n) BY <2>2 DEF Patching
    <3>2. api'[s].phase = api[s].phase BY <3>1 DEF PatchedTo
    <3>3. ASSUME NEW m, Only(s, m), m.pool = None, Exists(s)', Inferred(s), api[s].m.pool # None
          PROVE  api'[s].m.pool = api[s].m.pool
      <4>1. Exists(s) BY <3>2, <3>3 DEF Exists
      <4>2. Svc(s).pc # "pool" BY <3>3, <4>1 DEF Inferred, Ensuring
      <4> QED BY <3>1, <4>2 DEF PatchedTo, Svc
    <3> QED BY <3>2, <3>3 DEF Exists
  <2>3. CASE Fetching(s) \/ Creating(s) \/ Forgetting(s) \/ Syncing(s) \/ Delivering(s)
             \/ NodeSyncing(s) \/ NodeReturning(s)
    BY <1>u, <2>3 DEF Fetching, Creating, Forgetting, Syncing, Delivering, NodeSyncing, NodeReturning
  <2>4. CASE Unfinalizing(s) BY <2>4 DEF Unfinalizing, Exists
  <2>5. CASE Submitting(s) BY <2>5 DEF Submitting, Exists, Only
  <2> QED BY <1>1, <2>1, <2>2, <2>3, <2>4, <2>5 DEF ObjectStep
<1>2. ASSUME NEW t \in Service, ObjectStep(t), t # s PROVE api'[s] = api[s]
  BY <1>2 DEF ObjectStep, Local
<1> QED BY <1>1, <1>2, <1>t, <1>u, Steps DEF Update, Withdraw, Drifts, Restarts

(* What a process of s that works on an NLB goes by. *)
LEMMA WorkSettled ==
  ASSUME Settled, KeptInv, NEW s \in Service, NEW k \in {"svc", "node"},
         proc[<<s, k>>].pc \in Updating, proc[<<s, k>>].m.id \in ID,
         NEW m, Steady(s), Only(s, m)
  PROVE  LET q == proc[<<s, k>>]
         IN  /\ api[s].phase # "none" /\ m.lb /\ q.m.ports = m.ports
             /\ Exists(s) => q.m.pool # None /\ q.m.pool = IF m.pool # None THEN m.pool ELSE api[s].m.pool
<1> DEFINE q == proc[<<s, k>>]
<1>0. Copies(s) /\ Lifecycle(s) /\ Given(s) BY DEF KeptInv, LifeInv, GivenInv, CopiesInv
<1>1. q.pc # "idle" /\ q.pc \in Ensuring BY DEF Updating, Ensuring
<1>2. Submitted(s, q.m) BY <1>0, <1>1 DEF Copies, Idle
<1>3. q.m.ports = m.ports /\ q.m.lb = m.lb BY <1>2 DEF Submitted, Alike, Only
<1>4. api[s].phase # "none" /\ q.m.lb
  <2>1. CASE k = "svc" BY <1>0, <1>1, <2>1 DEF Copies, Lifecycle, Svc
  <2>2. CASE k = "node" BY <1>0, <1>1, <2>2 DEF Lifecycle, Nod
  <2> QED BY <2>1, <2>2
<1>5. CASE m.pool # None
  <2>1. q.m.pool = m.pool BY <1>0, <1>1, <1>5 DEF Given, Svc, Nod
  <2> QED BY <1>3, <1>4, <1>5, <2>1
<1>6. CASE m.pool = None
  <2>1. m \in Manifests[s] BY DEF Only
  <2>2. ~m.ext BY <1>6, <2>1 DEF Steady, Only
  <2>3. AllManaged /\ ListerLag = FALSE BY <1>6, <2>1, <2>2 DEF Settled, AlwaysExternal
  <2>4. Inferred(s) BY <2>3 DEF KeptInv, InferredInv
  <2>5. q.m.id # NoID BY DEF ID, NoID
  <2>6. Exists(s) => q.m.pool = api[s].m.pool /\ q.m.pool # None
    BY <1>6, <2>4, <2>5 DEF Inferred, Svc, Nod
  <2> QED BY <1>3, <1>4, <1>6, <2>6
<1> QED BY <1>5, <1>6

(* An NLB service that a process renews or creates is its Service's, on a   *)
(* port that the Service asks for.                                          *)
LEMMA MadeAs ==
  ASSUME FaithfulInv, NEW p \in Proc, NEW i \in ID, NEW x, Makes(p, i, x)
  PROVE  /\ proc[p].pc \in Updating /\ proc[p].m.id = i
         /\ x.own = p[1] /\ x.key \in Ports(p[1]) /\ x.pool = proc[p].m.pool
<1> DEFINE q == proc[p]
<1>1. Plans(p) /\ Faithful(p) BY DEF FaithfulInv, PlansInv
<1>2. q.pc \in Updating /\ q.m.id = i BY DEF Makes, Updating
<1>3. PICK t \in q.todo \cup q.doing :
        x.own = t.want.own /\ x.key = t.want.key /\ x.pool = t.want.pool
  <2>1. CASE \E t \in q.todo : \E z \in nlb[i].svcs :
               /\ t.op = "update" /\ z.sid = t.sid
               /\ x.key = z.key /\ x.pool = z.pool /\ x.own = t.want.own
    <3>1. PICK t \in q.todo, z \in nlb[i].svcs :
               /\ t.op = "update" /\ z.sid = t.sid
               /\ x.key = z.key /\ x.pool = z.pool /\ x.own = t.want.own
      BY <2>1
    <3>2. Meant(q, z) BY <1>1, <1>2 DEF Faithful
    <3>3. t.want.key = z.key /\ t.want.pool = z.pool BY <3>1, <3>2 DEF Meant
    <3> QED BY <3>1, <3>3
  <2>2. CASE \E t \in q.todo \cup q.doing :
               x.own = t.want.own /\ x.key = t.want.key /\ x.pool = t.want.pool
    BY <2>2
  <2> QED BY <2>1, <2>2 DEF Makes
<1> QED BY <1>1, <1>2, <1>3 DEF Plans, Faithful

LEMMA OnlyPorts ==
  ASSUME NEW s, NEW m, Only(s, m)
  PROVE  Ports(s) = m.ports
<1>1. \A k : k \in Ports(s) <=> k \in m.ports BY DEF Ports, Only
<1> QED BY <1>1

LEMMA NextServing ==
  ASSUME Settled, KeptInv, [Next]_vars, NEW s \in Service
  PROVE  Serving(s)'
<1> SUFFICES ASSUME NEW m, Steady(s), Only(s, m), NEW i \in ID, NEW x \in nlb'[i].svcs, x.own = s
             PROVE  /\ api'[s].phase # "none" /\ m.lb /\ x.key \in m.ports
                    /\ Exists(s)' => /\ x.pool # None
                                     /\ x.pool = IF m.pool # None THEN m.pool ELSE api'[s].m.pool
  BY DEF Serving, Steady, Only
<1>0. CopiesInv /\ Unused /\ FaithfulInv /\ Serving(s)
  BY DEF KeptInv, FaithfulInv, PlansInv
<1>1. /\ api[s].phase # "none" /\ m.lb /\ x.key \in m.ports
      /\ Exists(s) => x.pool # None /\ x.pool = IF m.pool # None THEN m.pool ELSE api[s].m.pool
  <2>1. CASE x \in nlb[i].svcs BY <1>0, <2>1 DEF Serving
  <2>2. CASE \E p \in Proc : Makes(p, i, x)
    <3>1. PICK p \in Proc : Makes(p, i, x) BY <2>2
    <3>2. PICK k \in {"svc", "node"} : p = <<s, k>>
      <4>1. x.own = p[1] BY <1>0, <3>1, MadeAs
      <4> QED BY <4>1 DEF Proc
    <3>3. /\ proc[<<s, k>>].pc \in Updating /\ proc[<<s, k>>].m.id = i
          /\ x.key \in Ports(s) /\ x.pool = proc[<<s, k>>].m.pool
      BY <1>0, <3>1, <3>2, MadeAs
    <3>4. LET q == proc[<<s, k>>]
          IN  /\ api[s].phase # "none" /\ m.lb /\ q.m.ports = m.ports
              /\ Exists(s) => q.m.pool # None /\ q.m.pool = IF m.pool # None THEN m.pool ELSE api[s].m.pool
      BY <3>3, WorkSettled
    <3> QED BY <3>3, <3>4, OnlyPorts
  <2> QED BY <1>0, <2>1, <2>2, NextServices
<1>2. api'[s].phase # "none" /\ (Exists(s)' => Exists(s)) BY <1>0, <1>1, ObjectKept
<1>3. ASSUME Exists(s)', m.pool = None PROVE api'[s].m.pool = api[s].m.pool
  <2>1. m \in Manifests[s] /\ ~m.ext BY <1>3 DEF Steady, Only
  <2>2. AllManaged /\ ListerLag = FALSE BY <1>3, <2>1 DEF Settled, AlwaysExternal
  <2>3. Inferred(s) BY <2>2 DEF KeptInv, InferredInv
  <2>4. api[s].m.pool # None BY <1>1, <1>2, <1>3
  <2> QED BY <1>0, <1>1, <1>3, <2>3, <2>4, ObjectKept
<1> QED BY <1>1, <1>2, <1>3

LEMMA NextOwned ==
  ASSUME AllManaged, RefsInv, FaithfulInv, Owned, [Next]_vars
  PROVE  Owned'
<1> SUFFICES ASSUME NEW t \in Service, NEW i \in Refs(t)' \cap ID, NEW x \in nlb'[i].svcs,
                    x.own \in Service
             PROVE  x.own = t
  BY DEF Owned
<1>0. CopiesInv /\ Unused BY DEF FaithfulInv, PlansInv
<1>i. i # NoID BY DEF ID, NoID
<1>m. ASSUME NEW p \in Proc, Makes(p, i, x) PROVE x.own = t
  <2>1. x.own = p[1] /\ proc[p].m.id = i BY <1>m, MadeAs
  <2>2. p = <<p[1], "svc">> \/ p = <<p[1], "node">> BY DEF Proc
  <2>3. i \in Refs(p[1]) BY <2>1, <2>2 DEF Refs, Svc, Nod
  <2>4. Live(i) BY <1>m DEF Makes
  <2>5. i <= lastNLB /\ lastNLB \in Nat
    BY <1>0, <2>4, BoundsAssumption DEF CopiesInv, Fresh, Live, TypeOK
  <2>6. i \in Refs(t)
    BY <1>i, <2>5, RefsStep DEF RefsKept, RefsGrow, ID
  <2> QED BY <1>i, <2>1, <2>3, <2>6, Processes DEF RefsInv
<1>1. CASE i \in Refs(t)
  <2>1. CASE x \in nlb[i].svcs BY <1>1, <2>1 DEF Owned
  <2> QED BY <1>0, <1>m, <2>1, NextServices
<1>2. CASE i \notin Refs(t)
  <2>1. i = lastNLB + 1 BY <1>2, <1>i, RefsStep DEF RefsKept, RefsGrow
  <2>2. nlb[i].svcs = {}
    <3>1. lastNLB \in Nat BY <1>0, BoundsAssumption DEF CopiesInv, TypeOK
    <3> QED BY <1>0, <2>1, <3>1 DEF Unused
  <2> QED BY <1>0, <1>m, <2>2, NextServices
<1> QED BY <1>1, <1>2

LEMMA NextKept ==
  ASSUME Settled, KeptInv, [Next]_vars
  PROVE  KeptInv'
<1>1. FaithfulInv' /\ LifeInv' /\ GivenInv' /\ ExternalInv'
  BY NextFaithful, NextLife, NextGiven, NextExternal DEF KeptInv
<1>2. \A s \in Service : Serving(s)' BY NextServing
<1>3. AllManaged => RefsInv' /\ Owned' BY NextRefs, NextOwned DEF KeptInv
<1>4. AllManaged /\ ListerLag = FALSE => InferredInv' BY NextInferred DEF KeptInv
<1> QED BY <1>1, <1>2, <1>3, <1>4 DEF KeptInv, AllManaged

LEMMA InitKept == Unserved /\ Init => KeptInv
<1> SUFFICES ASSUME Unserved, Init PROVE KeptInv OBVIOUS
<1>1. ASSUME NEW i \in ID, NEW x \in nlb[i].svcs PROVE x.own \notin Service
  <2>1. nlb[i] = IF i <= Provisioned THEN Preset[i] ELSE NoNLB BY DEF Init
  <2>2. i \in 1 .. Provisioned BY <1>1, <2>1, BoundsAssumption DEF NoNLB, ID
  <2> QED BY <1>1, <2>1, <2>2 DEF Unserved
<1>2. ASSUME NEW s \in Service PROVE Serving(s) BY <1>1 DEF Serving
<1>3. Owned BY <1>1 DEF Owned
<1> QED BY <1>2, <1>3, InitFaithful, InitLife, InitPools, InitRefs, InitExternal DEF KeptInv

(* Whoever deletes an NLB service of s, on a port that only s wants, does   *)
(* so because s is being deleted.                                           *)
LEMMA TakenAtEnd ==
  ASSUME Settled, KeptInv, NEW s \in Service, Steady(s), NEW i \in ID,
         NEW x \in nlb[i].svcs, x.own = s, Exclusive(s, x.key),
         NEW p \in Proc, Takes(p, i, x)
  PROVE  Ended(s)
<1> DEFINE q == proc[p]
           u == p[1]
<1>0. /\ Plans(p) /\ Faithful(p) /\ CopiesInv /\ Lifecycle(s) /\ Serving(s)
      /\ u \in Service /\ q.m.id = i
  BY Processes DEF KeptInv, FaithfulInv, PlansInv, LifeInv, Takes
<1>1. PICK m : Only(s, m) BY DEF Steady, Only
<1>2. /\ api[s].phase # "none" /\ m.lb /\ x.key \in m.ports
      /\ Exists(s) => x.pool = IF m.pool # None THEN m.pool ELSE api[s].m.pool
  BY <1>0, <1>1 DEF Serving
<1>3. Meant(q, x) BY <1>0 DEF Faithful
<1>4. x.key \in Ports(u) => u = s BY <1>0 DEF Exclusive, Ports
<1>5. p = <<u, "svc">> \/ p = <<u, "node">> BY DEF Proc
<1>6. ASSUME u = s, q.pc \in Updating
      PROVE  /\ q.m.ports = m.ports
             /\ Exists(s) => q.m.pool = IF m.pool # None THEN m.pool ELSE api[s].m.pool
  <2>1. PICK k \in {"svc", "node"} : p = <<s, k>> BY <1>5, <1>6
  <2>2. proc[<<s, k>>].pc \in Updating /\ proc[<<s, k>>].m.id \in ID BY <1>0, <1>6, <2>1
  <2>3. LET r == proc[<<s, k>>]
        IN  /\ api[s].phase # "none" /\ m.lb /\ r.m.ports = m.ports
            /\ Exists(s) => r.m.pool # None /\ r.m.pool = IF m.pool # None THEN m.pool ELSE api[s].m.pool
    BY <1>1, <2>2, WorkSettled
  <2> QED BY <2>1, <2>3
<1>7. q.pc # "idle" => Submitted(u, q.m) BY <1>0, WorkSubmitted
<1>8. CASE q.pc = "prune" /\ \E y \in q.prune : y.sid = x.sid
  <2>0. q.pc \in Updating /\ q.pc # "idle" BY <1>8 DEF Updating
  <2>1. x.key \notin q.m.ports /\ q.prune # {} BY <1>0, <1>3, <1>8, <2>0 DEF Meant, Faithful
  <2>2. u # s BY <1>2, <1>6, <2>0, <2>1
  <2>3. CASE \A t \in Service : AlwaysExternal(t)
    <3>1. q.m.ext BY <1>0, <1>7, <2>0, <2>3 DEF AlwaysExternal, Submitted, Alike
    <3> QED BY <1>0, <2>0, <2>1, <3>1 DEF Plans
  <2>4. CASE AllManaged
    <3>1. i \in Refs(u) BY <1>0, <1>5 DEF Refs, Svc, Nod
    <3>2. Owned BY <2>4 DEF KeptInv
    <3> QED BY <1>0, <2>2, <3>1, <3>2 DEF Owned
  <2> QED BY <2>3, <2>4 DEF Settled
<1>9. CASE q.pc = "delprune" /\ \E y \in q.prune : y.sid = x.sid
  <2>1. x.key \in Ports(u) BY <1>0, <1>3, <1>9 DEF Meant, Plans
  <2>2. u = s BY <1>4, <2>1
  <2>3. q.m.lb BY <1>1, <1>2, <1>7, <1>9, <2>2 DEF Submitted, Alike, Only
  <2>4. "delprune" \in Withdrawing BY DEF Withdrawing
  <2> QED BY <1>0, <1>5, <1>9, <2>2, <2>3, <2>4 DEF Lifecycle, Svc, Nod
<1>10. CASE q.pc = "apply" /\ \E t \in q.todo : t.op = "replace" /\ t.sid = x.sid
  <2>1. PICK t \in q.todo : t.op = "replace" /\ t.sid = x.sid BY <1>10
  <2>2. /\ t.want.key = x.key /\ t.want.pool # x.pool /\ t.want.pool = q.m.pool
        /\ t.want.key \in Ports(u)
    BY <1>0, <1>3, <2>1 DEF Meant, Faithful, Plans
  <2>3. u = s /\ q.pc \in Updating BY <1>4, <1>10, <2>2 DEF Updating
  <2>4. ~Exists(s) BY <1>2, <1>6, <2>2, <2>3
  <2>5. api[s].phase \in {"none", "live", "deleting", "gone"} BY <1>0 DEF CopiesInv, TypeOK, Object
  <2> QED BY <1>2, <2>4, <2>5 DEF Exists, Ended
<1> QED BY <1>8, <1>9, <1>10 DEF Takes

(* The provider deletes an NLB that has an NLB service of s only when s is   *)
(* being deleted.                                                            *)
LEMMA DestroyedAtEnd ==
  ASSUME Settled, KeptInv, NEW s \in Service, Steady(s), NEW i \in ID,
         NEW x \in nlb[i].svcs, x.own = s,
         NEW p \in Proc, proc[p].pc = "dellb", proc[p].m.id = i
  PROVE  Ended(s)
<1> DEFINE q == proc[p]
           u == p[1]
<1>0. CopiesInv /\ Lifecycle(s) /\ Lifecycle(u) /\ Serving(s) /\ RecordSafe(p, q) /\ u \in Service
  BY Processes DEF KeptInv, LifeInv, ExternalInv, ProcSafe
<1>1. Submitted(u, q.m) /\ ~q.m.ext BY <1>0, WorkSubmitted DEF RecordSafe
<1>2. AllManaged /\ Owned
  <2>1. ~AlwaysExternal(u) BY <1>1 DEF AlwaysExternal, Submitted, Alike
  <2> QED BY <1>0, <2>1 DEF Settled, KeptInv
<1>3. p = <<u, "svc">> \/ p = <<u, "node">> BY DEF Proc
<1>4. u = s
  <2>1. i \in Refs(u) BY <1>3 DEF Refs, Svc, Nod
  <2> QED BY <1>0, <1>2, <2>1 DEF Owned
<1>5. PICK m : Only(s, m) BY DEF Steady, Only
<1>6. q.m.lb BY <1>0, <1>1, <1>4, <1>5 DEF Serving, Submitted, Alike, Only
<1>7. "dellb" \in Withdrawing BY DEF Withdrawing
<1> QED BY <1>0, <1>3, <1>4, <1>6, <1>7 DEF Lifecycle, Svc, Nod

(* Uninterrupted for every set of Services, NLBs and ports, and every bound *)
(* on edits, failures, crashes and node syncs: updateLoadBalancer neither   *)
(* prunes nor replaces an NLB service that serves a Service whose manifest  *)
(* does not change, and EnsureLoadBalancerDeleted takes it, or the NLB that *)
(* it is on, only at the end.                                               *)
THEOREM NeverInterrupted == Settled /\ Unserved => (Spec => Uninterrupted)
<1> SUFFICES ASSUME Settled, Unserved PROVE Spec => Uninterrupted OBVIOUS
<1> DEFINE Kept ==
      \A i \in ID : \A x \in nlb[i].svcs :
        /\ x.own \in Service /\ Steady(x.own) /\ Exclusive(x.own, x.key)
        /\ \A y \in nlb'[i].svcs : y.sid # x.sid
        => api[x.own].phase \in {"deleting", "gone"} \/ CloudDeletes
<1>1. Init => KeptInv BY InitKept
<1>2. KeptInv /\ [Next]_vars => KeptInv' BY NextKept
<1>3. KeptInv /\ [Next]_vars => [Kept]_vars
  <2> SUFFICES ASSUME KeptInv, [Next]_vars,
                      NEW i \in ID, NEW x \in nlb[i].svcs,
                      x.own \in Service, Steady(x.own), Exclusive(x.own, x.key),
                      \A y \in nlb'[i].svcs : y.sid # x.sid, ~CloudDeletes
               PROVE  Ended(x.own)
    BY DEF Ended
  <2>1. CopiesInv /\ Unused BY DEF KeptInv, FaithfulInv, PlansInv
  <2>2. PICK p \in Proc : Takes(p, i, x) \/ (proc[p].pc = "dellb" /\ proc[p].m.id = i)
    BY <2>1, NextServices
  <2> QED BY <2>2, TakenAtEnd, DestroyedAtEnd
<1>4. [][Kept]_vars => Uninterrupted BY PTL DEF Uninterrupted
<1> QED BY <1>1, <1>2, <1>3, <1>4, PTL DEF Spec

=============================================================================
