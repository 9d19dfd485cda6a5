----------------------------- MODULE StepProofs -----------------------------
(***************************************************************************)
(* What a step of LoadBalancer does, for the proofs that follow: to the    *)
(* cloud and to the plan of the process that takes it; and what all copies *)
(* of a Service have in common, however old they are.                      *)
(***************************************************************************)
EXTENDS LoadBalancerProofs

(* Only p moves. *)
Others(p) == \A q \in Proc \ {p} : proc'[q] = proc[q]

(* The places in updateLoadBalancer after its snapshot. *)
Updating == {"top", "prune", "apply", "readd", "verify"}

(* The plan is made from a snapshot, and what is done of it is taken off. *)
Planned(p, r) ==
  LET q == proc[p]
  IN  \/ /\ q.pc = "get" /\ Live(q.m.id)
         /\ r.prune = Stale(q.m, nlb[q.m.id])
         /\ r.todo = Tasks(p[1], q.m, nlb[q.m.id]) /\ r.doing = q.doing
      \/ /\ q.pc \in Updating
         /\ r.prune \subseteq q.prune /\ r.todo \subseteq q.todo
         /\ r.doing \subseteq q.todo \cup q.doing

(* updateLoadBalancer goes on, with the same Service. *)
Advances(p, r) ==
  LET q == proc[p]
  IN  /\ r \in Process /\ r.m = q.m /\ r.nid = q.nid /\ r.last = q.last /\ r.end = q.end
      /\ r.pc \in Updating \cup {"done"}
      /\ Planned(p, r)

(* The calls that change an NLB, by what p says of it. *)
Renames(p) ==
  LET i == proc[p].m.id
  IN  /\ proc[p].pc = "top"
      /\ nlb' = [nlb EXCEPT ![i].name = GetLoadBalancerName(p[1], proc[p].m),
                            ![i].desc = proc[p].cdesc]
      /\ lastSid' = lastSid

Removes(p) ==
  /\ \/ /\ proc[p].pc \in {"prune", "delprune"}
        /\ \E x \in proc[p].prune : nlb' = Without(proc[p].m.id, x.sid)
     \/ /\ proc[p].pc = "apply"
        /\ \E t \in proc[p].todo : t.op = "replace" /\ nlb' = Without(proc[p].m.id, t.sid)
  /\ lastSid' = lastSid

Alters(p) ==
  /\ proc[p].pc = "apply"
  /\ \E t \in proc[p].todo : t.op = "update" /\ nlb' = Updated(proc[p].m.id, t.sid, t.want)
  /\ lastSid' = lastSid

Adds(p) ==
  /\ proc[p].pc \in {"apply", "readd"}
  /\ \E t \in proc[p].todo \cup proc[p].doing : nlb' = With(proc[p].m.id, t.want)
  /\ lastSid' = lastSid + 1

Calls(p) ==
  \/ nlb' = nlb /\ lastSid' = lastSid
  \/ Live(proc[p].m.id) /\ (Renames(p) \/ Removes(p) \/ Alters(p) \/ Adds(p))

-----------------------------------------------------------------------------
(* What the calls do to the NLB services of the NLB, and that they do       *)
(* nothing else.                                                            *)
LEMMA ServiceCalls ==
  ASSUME nlb \in [ID -> NLB], NEW i \in ID
  PROVE  /\ \A sid : \A j \in ID :
              /\ Without(i, sid)[j].live = nlb[j].live /\ Without(i, sid)[j].name = nlb[j].name
              /\ Without(i, sid)[j].svcs =
                   IF j = i THEN {x \in nlb[i].svcs : x.sid # sid} ELSE nlb[j].svcs
         /\ \A w : \A j \in ID :
              /\ With(i, w)[j].live = nlb[j].live /\ With(i, w)[j].name = nlb[j].name
              /\ With(i, w)[j].svcs =
                   IF j = i
                   THEN nlb[i].svcs \cup {[sid |-> lastSid + 1, key |-> w.key, own |-> w.own,
                                           pool |-> w.pool, cfg |-> w.cfg]}
                   ELSE nlb[j].svcs
         /\ \A sid, w : \A j \in ID :
              /\ Updated(i, sid, w)[j].live = nlb[j].live
              /\ Updated(i, sid, w)[j].name = nlb[j].name
              /\ Updated(i, sid, w)[j].svcs =
                   IF j = i
                   THEN {IF x.sid = sid THEN [x EXCEPT !.own = w.own, !.cfg = w.cfg] ELSE x
                           : x \in nlb[i].svcs}
                   ELSE nlb[j].svcs
<1>1. ASSUME NEW X, NEW c, c = [nlb EXCEPT ![i].svcs = X], NEW j \in ID
      PROVE  /\ c[j].live = nlb[j].live /\ c[j].name = nlb[j].name
             /\ c[j].svcs = IF j = i THEN X ELSE nlb[j].svcs
  BY <1>1 DEF NLB
<1>2. ASSUME NEW sid, NEW j \in ID
      PROVE  /\ Without(i, sid)[j].live = nlb[j].live /\ Without(i, sid)[j].name = nlb[j].name
             /\ Without(i, sid)[j].svcs =
                  IF j = i THEN {x \in nlb[i].svcs : x.sid # sid} ELSE nlb[j].svcs
  BY <1>1 DEF Without
<1>3. ASSUME NEW w, NEW j \in ID
      PROVE  /\ With(i, w)[j].live = nlb[j].live /\ With(i, w)[j].name = nlb[j].name
             /\ With(i, w)[j].svcs =
                  IF j = i
                  THEN nlb[i].svcs \cup {[sid |-> lastSid + 1, key |-> w.key, own |-> w.own,
                                          pool |-> w.pool, cfg |-> w.cfg]}
                  ELSE nlb[j].svcs
  BY <1>1 DEF With
<1>4. ASSUME NEW sid, NEW w, NEW j \in ID
      PROVE  /\ Updated(i, sid, w)[j].live = nlb[j].live
             /\ Updated(i, sid, w)[j].name = nlb[j].name
             /\ Updated(i, sid, w)[j].svcs =
                  IF j = i
                  THEN {IF x.sid = sid THEN [x EXCEPT !.own = w.own, !.cfg = w.cfg] ELSE x
                          : x \in nlb[i].svcs}
                  ELSE nlb[j].svcs
  <2> DEFINE X == {IF x.sid = sid THEN [x EXCEPT !.own = w.own, !.cfg = w.cfg] ELSE x
                     : x \in nlb[i].svcs}
             c == Updated(i, sid, w)
  <2>1. c = [nlb EXCEPT ![i].svcs = X] BY DEF Updated
  <2> HIDE DEF X, c
  <2>2. /\ c[j].live = nlb[j].live /\ c[j].name = nlb[j].name
        /\ c[j].svcs = IF j = i THEN X ELSE nlb[j].svcs
    BY <1>1, <2>1
  <2> QED BY <2>2 DEF X, c
<1> QED BY <1>2, <1>3, <1>4

(* An NLB service after an update. *)
Renewed(y, w) == [y EXCEPT !.own = w.own, !.cfg = w.cfg]

(* The NLB services after an update, one by one. *)
LEMMA UpdatedServices ==
  ASSUME nlb \in [ID -> NLB], NEW i \in ID, NEW sid, NEW w
  PROVE  /\ \A x \in Updated(i, sid, w)[i].svcs : \E y \in nlb[i].svcs :
              (y.sid # sid /\ x = y) \/ (y.sid = sid /\ x = Renewed(y, w))
         /\ \A y \in nlb[i].svcs :
              /\ y.sid # sid => y \in Updated(i, sid, w)[i].svcs
              /\ y.sid = sid => Renewed(y, w) \in Updated(i, sid, w)[i].svcs
         /\ \A y \in nlb[i].svcs :
              /\ Renewed(y, w).sid = y.sid /\ Renewed(y, w).key = y.key
              /\ Renewed(y, w).pool = y.pool
              /\ Renewed(y, w).own = w.own /\ Renewed(y, w).cfg = w.cfg
<1> DEFINE X == {IF x.sid = sid THEN [x EXCEPT !.own = w.own, !.cfg = w.cfg] ELSE x
                   : x \in nlb[i].svcs}
           c == Updated(i, sid, w)
<1>1. c = [nlb EXCEPT ![i].svcs = X] BY DEF Updated
<1>2. c[i].svcs = X
  <2> HIDE DEF X, c
  <2> QED BY <1>1 DEF NLB
<1>3. \A y \in nlb[i].svcs : y \in NLBService BY DEF NLB
<1>4. \A y \in NLBService :
        /\ Renewed(y, w).sid = y.sid /\ Renewed(y, w).key = y.key
        /\ Renewed(y, w).pool = y.pool
        /\ Renewed(y, w).own = w.own /\ Renewed(y, w).cfg = w.cfg
  BY DEF NLBService, Renewed
<1>5. \A x \in X : \E y \in nlb[i].svcs :
        (y.sid # sid /\ x = y) \/ (y.sid = sid /\ x = Renewed(y, w))
  BY DEF Renewed
<1>6. \A y \in nlb[i].svcs :
        (y.sid # sid => y \in X) /\ (y.sid = sid => Renewed(y, w) \in X)
  BY DEF Renewed
<1> HIDE DEF X, c
<1>7. /\ \A x \in c[i].svcs : \E y \in nlb[i].svcs :
           (y.sid # sid /\ x = y) \/ (y.sid = sid /\ x = Renewed(y, w))
      /\ \A y \in nlb[i].svcs :
           (y.sid # sid => y \in c[i].svcs) /\ (y.sid = sid => Renewed(y, w) \in c[i].svcs)
  BY <1>2, <1>5, <1>6
<1> QED BY <1>3, <1>4, <1>7 DEF c

(* A write succeeds and the cloud is as it says, or fails. *)
LEMMA WriteOutcome ==
  ASSUME ProcOK, NEW p \in Proc, NEW ok \in BOOLEAN, NEW c, NEW r, Write(p, ok, c, r)
  PROVE  /\ Others(p)
         /\ \/ ok /\ nlb' = c /\ proc'[p] = r
            \/ ok /\ nlb' = c /\ proc'[p] = Idle
            \/ nlb' = nlb /\ proc'[p] = Idle
  BY DEF Write, Goto, Fail, Others, ProcOK

(* A read gets what it asks for, or fails. *)
LEMMA ReadOutcome ==
  ASSUME ProcOK, NEW p \in Proc, NEW ok \in BOOLEAN, NEW r, Read(p, ok, r)
  PROVE  Others(p) /\ ((ok /\ proc'[p] = r) \/ proc'[p] = Idle)
  BY DEF Read, Goto, Fail, Others, ProcOK

(* A step of updateLoadBalancer, or a failure of it. *)
LEMMA UpdateSummary ==
  ASSUME TypeOK, NEW p \in Proc, UpdateStep(p)
  PROVE  /\ UNCHANGED <<api, lister, cache>> /\ UNCHANGED lastNLB /\ Others(p)
         /\ proc[p].pc \in Updating \cup {"get"}
         /\ proc'[p] = Idle \/ Advances(p, proc'[p])
         /\ Calls(p)
<1> DEFINE i == proc[p].m.id
           q == proc[p]
<1>0. q \in Process /\ q.m \in Manifest BY DEF TypeOK, Process
<1>t. ProcOK /\ CloudOK BY TypeParts
<1>p. ProcOK' BY UpdateType, TypeParts
<1>k. UNCHANGED <<api, lister, cache>> /\ UNCHANGED lastNLB
  BY DEF UpdateStep, GetCurrent, UpdateTopLevel, PruneService, ApplyService,
         ReaddService, VerifyService, cloud
<1>r. proc'[p] \in Process BY <1>p DEF ProcOK
<1>b. Live(i) \in BOOLEAN /\ \A sid : Has(i, sid) \in BOOLEAN /\ (Has(i, sid) => Live(i))
  BY DEF Live, Has
<1>l. \A x, t : LoopPC(x, t) \in Updating \cup {"done"} BY DEF LoopPC, Updating
<1>1. CASE GetCurrent(p)
  <2> DEFINE cur == nlb[i]
             prune == Stale(q.m, cur)
             todo == Tasks(p[1], q.m, cur)
             pc == IF ~q.m.ext /\ isLoadBalancerUpdated(p[1], q.m, cur)
                   THEN "top" ELSE LoopPC(prune, todo)
             ok == Parses(q.m) /\ Live(i)
             r == [q EXCEPT !.prune = prune, !.todo = todo, !.cdesc = cur.desc, !.pc = pc]
  <2>1. Read(p, ok, r) /\ nlb' = nlb /\ lastSid' = lastSid /\ q.pc = "get"
    BY <1>1 DEF GetCurrent, cloud
  <2>2. pc \in Updating \cup {"done"} BY <1>l DEF Updating
  <2>3. /\ r.m = q.m /\ r.nid = q.nid /\ r.last = q.last /\ r.end = q.end /\ r.pc = pc
        /\ r.prune = prune /\ r.todo = todo /\ r.doing = q.doing
    <3> HIDE DEF prune, todo, cur, pc
    <3> QED BY <1>0 DEF Process
  <2>4. ok \in BOOLEAN /\ (ok => Live(i)) OBVIOUS
  <2> HIDE DEF ok, r, pc
  <2>5. Others(p) /\ (proc'[p] = Idle \/ (ok /\ proc'[p] = r)) BY <1>t, <2>1, <2>4, ReadOutcome
  <2>6. proc'[p] = Idle \/ Advances(p, proc'[p])
    BY <1>r, <2>1, <2>2, <2>3, <2>4, <2>5 DEF Advances, Planned
  <2> QED BY <1>k, <2>1, <2>5, <2>6 DEF Calls
<1>a. ASSUME NEW r, r.m = q.m, r.nid = q.nid, r.last = q.last, r.end = q.end,
             r.pc \in Updating \cup {"done"}, q.pc \in Updating,
             r.prune \subseteq q.prune, r.todo \subseteq q.todo, r.doing \subseteq q.todo \cup q.doing,
             proc'[p] = r
      PROVE  Advances(p, proc'[p])
  BY <1>r, <1>a DEF Advances, Planned
<1>2. CASE UpdateTopLevel(p)
  <2> DEFINE c == [nlb EXCEPT ![i].name = GetLoadBalancerName(p[1], q.m), ![i].desc = q.cdesc]
             pc == LoopPC(q.prune, q.todo)
             r == [q EXCEPT !.pc = pc]
  <2>1. Write(p, Live(i), c, r) /\ lastSid' = lastSid /\ q.pc = "top" BY <1>2 DEF UpdateTopLevel
  <2>2. /\ r.m = q.m /\ r.nid = q.nid /\ r.last = q.last /\ r.end = q.end /\ r.pc = pc
        /\ r.prune = q.prune /\ r.todo = q.todo /\ r.doing = q.doing
    <3> HIDE DEF pc
    <3> QED BY <1>0 DEF Process
  <2>3. /\ Others(p)
        /\ \/ Live(i) /\ nlb' = c /\ proc'[p] = r
           \/ Live(i) /\ nlb' = c /\ proc'[p] = Idle
           \/ nlb' = nlb /\ proc'[p] = Idle
    <3> HIDE DEF c, r
    <3> QED BY <1>b, <1>t, <2>1, WriteOutcome
  <2>4. Calls(p) BY <2>1, <2>3 DEF Calls, Renames
  <2>5. proc'[p] = Idle \/ Advances(p, proc'[p])
    <3> HIDE DEF c, r
    <3> QED BY <1>a, <1>l, <2>1, <2>2, <2>3 DEF Updating
  <2> QED BY <1>k, <2>1, <2>3, <2>4, <2>5 DEF Updating
<1>3. CASE PruneService(p)
  <2>0. PICK x \in q.prune :
          LET rest == q.prune \ {x}
          IN  Write(p, Has(i, x.sid), Without(i, x.sid),
                    [q EXCEPT !.prune = rest, !.pc = LoopPC(rest, q.todo)])
    BY <1>3 DEF PruneService
  <2> DEFINE rest == q.prune \ {x}
             pc == LoopPC(rest, q.todo)
             r == [q EXCEPT !.prune = rest, !.pc = pc]
             c == Without(i, x.sid)
  <2>1. Write(p, Has(i, x.sid), c, r) /\ lastSid' = lastSid /\ q.pc = "prune"
    BY <1>3, <2>0 DEF PruneService
  <2>2. /\ r.m = q.m /\ r.nid = q.nid /\ r.last = q.last /\ r.end = q.end /\ r.pc = pc
        /\ r.prune = rest /\ r.todo = q.todo /\ r.doing = q.doing
    <3> HIDE DEF pc
    <3> QED BY <1>0 DEF Process
  <2>3. /\ Others(p)
        /\ \/ Has(i, x.sid) /\ nlb' = c /\ proc'[p] = r
           \/ Has(i, x.sid) /\ nlb' = c /\ proc'[p] = Idle
           \/ nlb' = nlb /\ proc'[p] = Idle
    <3> HIDE DEF c, r
    <3> QED BY <1>b, <1>t, <2>1, WriteOutcome
  <2>4. Calls(p) BY <1>b, <2>1, <2>3 DEF Calls, Removes
  <2>5. proc'[p] = Idle \/ Advances(p, proc'[p])
    <3> HIDE DEF c, r
    <3> QED BY <1>a, <1>l, <2>1, <2>2, <2>3 DEF Updating
  <2> QED BY <1>k, <2>1, <2>3, <2>4, <2>5 DEF Updating
<1>4. ASSUME NEW t \in q.todo \cup q.doing, AddService(p, t), q.pc \in {"apply", "readd"}
      PROVE  Others(p) /\ Calls(p) /\ (proc'[p] = Idle \/ Advances(p, proc'[p]))
  <2> DEFINE r == [q EXCEPT !.todo = @ \ {t}, !.doing = {t}, !.pc = "verify"]
             ok == CanAdd(i, t.want)
             c == With(i, t.want)
  <2>1. Write(p, ok, c, r) /\ lastSid' = (IF nlb' = nlb THEN lastSid ELSE lastSid + 1)
    BY <1>4 DEF AddService
  <2>2. /\ r.m = q.m /\ r.nid = q.nid /\ r.last = q.last /\ r.end = q.end /\ r.pc = "verify"
        /\ r.prune = q.prune /\ r.todo = q.todo \ {t} /\ r.doing = {t}
    BY <1>0 DEF Process
  <2>3. ok \in BOOLEAN /\ (ok => Live(i)) BY <1>b DEF CanAdd
  <2>4. /\ Others(p)
        /\ \/ ok /\ nlb' = c /\ proc'[p] = r
           \/ ok /\ nlb' = c /\ proc'[p] = Idle
           \/ nlb' = nlb /\ proc'[p] = Idle
    <3> HIDE DEF c, r, ok
    <3> QED BY <1>t, <2>1, <2>3, WriteOutcome
  <2>5. Calls(p)
    <3> HIDE DEF ok, r
    <3> QED BY <1>4, <2>1, <2>3, <2>4 DEF Calls, Adds
  <2>6. proc'[p] = Idle \/ Advances(p, proc'[p])
    <3> HIDE DEF c, r, ok
    <3> QED BY <1>a, <1>4, <2>2, <2>4 DEF Updating
  <2> QED BY <2>4, <2>5, <2>6
<1>5. CASE ApplyService(p)
  <2>0. PICK t \in q.todo :
          LET rest == q.todo \ {t}
          IN  \/ t.op = "add" /\ AddService(p, t)
              \/ /\ t.op = "replace" /\ UNCHANGED lastSid
                 /\ Write(p, Has(i, t.sid), Without(i, t.sid),
                          [q EXCEPT !.todo = rest, !.doing = {t}, !.pc = "readd"])
              \/ /\ t.op = "update" /\ UNCHANGED lastSid
                 /\ Write(p, Has(i, t.sid), Updated(i, t.sid, t.want),
                          [q EXCEPT !.todo = rest, !.pc = LoopPC({}, rest)])
    BY <1>5 DEF ApplyService
  <2> DEFINE rest == q.todo \ {t}
             pc == LoopPC({}, rest)
             r1 == [q EXCEPT !.todo = rest, !.doing = {t}, !.pc = "readd"]
             r2 == [q EXCEPT !.todo = rest, !.pc = pc]
             c1 == Without(i, t.sid)
             c2 == Updated(i, t.sid, t.want)
  <2>a. q.pc = "apply" BY <1>5 DEF ApplyService
  <2>1. CASE AddService(p, t) BY <1>k, <1>4, <2>1, <2>a DEF Updating
  <2>2. CASE t.op = "replace" /\ lastSid' = lastSid /\ Write(p, Has(i, t.sid), c1, r1)
    <3>1. /\ r1.m = q.m /\ r1.nid = q.nid /\ r1.last = q.last /\ r1.end = q.end /\ r1.pc = "readd"
          /\ r1.prune = q.prune /\ r1.todo = rest /\ r1.doing = {t}
      BY <1>0 DEF Process
    <3>2. /\ Others(p)
          /\ \/ Has(i, t.sid) /\ nlb' = c1 /\ proc'[p] = r1
             \/ Has(i, t.sid) /\ nlb' = c1 /\ proc'[p] = Idle
             \/ nlb' = nlb /\ proc'[p] = Idle
      <4> HIDE DEF c1, r1
      <4> QED BY <1>b, <1>t, <2>2, WriteOutcome
    <3>3. Calls(p) BY <1>b, <2>2, <2>a, <3>2 DEF Calls, Removes
    <3>4. proc'[p] = Idle \/ Advances(p, proc'[p])
      <4> HIDE DEF c1, r1
      <4> QED BY <1>a, <2>a, <3>1, <3>2 DEF Updating
    <3> QED BY <1>k, <2>a, <3>2, <3>3, <3>4 DEF Updating
  <2>3. CASE t.op = "update" /\ lastSid' = lastSid /\ Write(p, Has(i, t.sid), c2, r2)
    <3>1. /\ r2.m = q.m /\ r2.nid = q.nid /\ r2.last = q.last /\ r2.end = q.end /\ r2.pc = pc
          /\ r2.prune = q.prune /\ r2.todo = rest /\ r2.doing = q.doing
      <4> HIDE DEF pc
      <4> QED BY <1>0 DEF Process
    <3>2. /\ Others(p)
          /\ \/ Has(i, t.sid) /\ nlb' = c2 /\ proc'[p] = r2
             \/ Has(i, t.sid) /\ nlb' = c2 /\ proc'[p] = Idle
             \/ nlb' = nlb /\ proc'[p] = Idle
      <4> HIDE DEF c2, r2
      <4> QED BY <1>b, <1>t, <2>3, WriteOutcome
    <3>3. Calls(p)
      <4> HIDE DEF r2
      <4> QED BY <1>b, <2>3, <2>a, <3>2 DEF Calls, Alters
    <3>4. proc'[p] = Idle \/ Advances(p, proc'[p])
      <4> HIDE DEF c2, r2
      <4> QED BY <1>a, <1>l, <2>a, <3>1, <3>2 DEF Updating
    <3> QED BY <1>k, <2>a, <3>2, <3>3, <3>4 DEF Updating
  <2> QED BY <2>0, <2>1, <2>2, <2>3
<1>6. CASE ReaddService(p)
  <2>1. q.pc = "readd" /\ \E t \in q.doing : AddService(p, t) BY <1>6 DEF ReaddService
  <2> QED BY <1>k, <1>4, <2>1 DEF Updating
<1>7. CASE VerifyService(p)
  <2>0. PICK t \in q.doing :
          Read(p,
               /\ Live(i)
               /\ \E x \in nlb[i].svcs : x.key = t.want.key /\ x.own = t.want.own,
               [q EXCEPT !.doing = {}, !.pc = LoopPC({}, q.todo)])
    BY <1>7 DEF VerifyService
  <2> DEFINE ok == Live(i) /\ \E x \in nlb[i].svcs : x.key = t.want.key /\ x.own = t.want.own
             pc == LoopPC({}, q.todo)
             r == [q EXCEPT !.doing = {}, !.pc = pc]
  <2>1. ok \in BOOLEAN /\ Read(p, ok, r) BY <2>0
  <2>2. nlb' = nlb /\ lastSid' = lastSid /\ q.pc = "verify" BY <1>7 DEF VerifyService, cloud
  <2>3. /\ r.m = q.m /\ r.nid = q.nid /\ r.last = q.last /\ r.end = q.end /\ r.pc = pc
        /\ r.prune = q.prune /\ r.todo = q.todo /\ r.doing = {}
    <3> HIDE DEF pc
    <3> QED BY <1>0 DEF Process
  <2> HIDE DEF ok, r
  <2>4. Others(p) /\ (proc'[p] = r \/ proc'[p] = Idle) BY <1>t, <2>1, ReadOutcome
  <2>5. proc'[p] = Idle \/ Advances(p, proc'[p]) BY <1>a, <1>l, <2>2, <2>3, <2>4 DEF Updating
  <2> QED BY <1>k, <2>2, <2>4, <2>5 DEF Calls, Updating
<1> QED BY <1>1, <1>2, <1>3, <1>5, <1>6, <1>7 DEF UpdateStep

-----------------------------------------------------------------------------
(* The other calls of the service worker *)

(* A patch of an annotation: there is nothing to patch; or it is patched,   *)
(* and the worker knows or does not; or it is only remembered; or nothing   *)
(* happens.                                                                 *)
LEMMA PatchOutcome ==
  ASSUME ProcOK, NEW s \in Service, NEW found \in BOOLEAN, NEW n, NEW a, NEW r,
         PatchAnnotation(s, found, n, a, r)
  PROVE  LET p == <<s, "svc">>
             Failing == proc'[p] = Idle /\ proc[p].pc \notin Reliable /\ faults' = faults + 1
         IN  /\ Others(p)
             /\ \/ found /\ n = proc[p].m /\ proc'[p] = r /\ UNCHANGED <<api, cache>>
                \/ /\ found /\ n # proc[p].m /\ Exists(s)
                   /\ cache' = [cache EXCEPT ![s].m = n] /\ api' = a
                   /\ proc'[p] = r \/ Failing
                \/ /\ found /\ n # proc[p].m
                   /\ Failing \/ (~Exists(s) /\ proc'[p] = Idle)
                   /\ cache' = [cache EXCEPT ![s].m = n] /\ api' = api
                \/ /\ Failing \/ (~found /\ proc'[p] = Idle)
                   /\ UNCHANGED <<api, cache>>
  BY Processes DEF PatchAnnotation, Goto, Fail, Fault, Others, ProcOK

(* How EnsureLoadBalancerDeleted goes on. *)
Withdraws(p, r) ==
  LET q == proc[p]
      i == q.m.id
      mine == {x \in nlb[i].svcs : x.key \in q.m.ports}
  IN  /\ r \in Process /\ r.m = q.m /\ r.nid = q.nid /\ r.end = q.end
      /\ r.todo = q.todo /\ r.doing = q.doing
      /\ \/ /\ q.pc = "exists" /\ r.pc = IF Live(i) THEN "delfetch" ELSE "unfinal"
            /\ r.prune = q.prune /\ r.last = q.last
         \/ /\ q.pc = "delfetch" /\ ~Live(i) /\ r.pc = q.end
            /\ r.prune = q.prune /\ r.last = q.last
         \/ /\ q.pc = "delfetch" /\ Live(i)
            /\ r.prune = mine /\ r.last = (mine = nlb[i].svcs)
            /\ r.pc = IF mine # {} THEN "delprune" ELSE AfterPrune(r)
         \/ /\ q.pc = "delprune" /\ r.pc \in {"delprune", AfterPrune(r)}
            /\ r.prune \subseteq q.prune /\ r.last = q.last
         \/ /\ q.pc = "dellb" /\ r.pc = q.end /\ nlb' = [nlb EXCEPT ![i] = NoNLB]
            /\ r.prune = q.prune /\ r.last = q.last

(* The call that deletes the NLB. *)
Destroys(p) ==
  LET i == proc[p].m.id
  IN  proc[p].pc = "dellb" /\ Live(i) /\ nlb' = [nlb EXCEPT ![i] = NoNLB] /\ lastSid' = lastSid

WithdrawStep(s) == GetLoadBalancer(s) \/ DeleteFetch(s) \/ DeleteServices(s) \/ DeleteLoadBalancer(s)

(* A step of EnsureLoadBalancerDeleted, or a failure of it. *)
LEMMA WithdrawSummary ==
  ASSUME TypeOK, NEW s \in Service, WithdrawStep(s)
  PROVE  LET p == <<s, "svc">>
         IN  /\ UNCHANGED <<api, lister, cache>> /\ UNCHANGED lastNLB /\ Others(p)
             /\ proc[p].pc \in {"exists", "delfetch", "delprune", "dellb"}
             /\ proc'[p] = Idle \/ Withdraws(p, proc'[p])
             /\ Calls(p) \/ Destroys(p)
<1> DEFINE p == <<s, "svc">>
           q == proc[p]
           i == q.m.id
<1>p. TypeOK' BY DeleteType DEF WithdrawStep
<1>0. p \in Proc /\ q \in Process /\ proc'[p] \in Process
  BY <1>p, Processes DEF TypeOK
<1>t. ProcOK /\ CloudOK BY TypeParts
<1>b. Live(i) \in BOOLEAN /\ \A sid : Has(i, sid) \in BOOLEAN /\ (Has(i, sid) => Live(i))
  BY DEF Live, Has
<1>1. CASE GetLoadBalancer(s)
  <2> DEFINE pc == IF Live(i) THEN "delfetch" ELSE "unfinal"
             r == [q EXCEPT !.pc = pc]
  <2>1. /\ Read(p, TRUE, r) /\ UNCHANGED <<api, lister, cache>> /\ q.pc = "exists"
        /\ UNCHANGED lastNLB /\ lastSid' = lastSid /\ nlb' = nlb
    BY <1>1 DEF GetLoadBalancer, cloud
  <2>2. /\ r.m = q.m /\ r.nid = q.nid /\ r.end = q.end /\ r.todo = q.todo /\ r.doing = q.doing
        /\ r.prune = q.prune /\ r.last = q.last /\ r.pc = pc
    <3> HIDE DEF pc
    <3> QED BY <1>0 DEF Process
  <2> HIDE DEF r
  <2>3. Others(p) /\ (proc'[p] = r \/ proc'[p] = Idle) BY <1>0, <1>t, <2>1, ReadOutcome
  <2>4. proc'[p] = Idle \/ Withdraws(p, proc'[p]) BY <1>0, <2>1, <2>2, <2>3 DEF Withdraws
  <2> QED BY <2>1, <2>3, <2>4 DEF Calls
<1>2. CASE DeleteFetch(s)
  <2> DEFINE mine == {x \in nlb[i].svcs : x.key \in q.m.ports}
             last == mine = nlb[i].svcs
             r0 == [q EXCEPT !.prune = mine, !.last = last]
             pc == IF mine # {} THEN "delprune" ELSE AfterPrune(r0)
             r1 == [r0 EXCEPT !.pc = pc]
             r2 == [q EXCEPT !.pc = q.end]
             r == IF ~Live(i) THEN r2 ELSE r1
  <2>1. /\ Read(p, TRUE, r) /\ UNCHANGED <<api, lister, cache>> /\ q.pc = "delfetch"
        /\ UNCHANGED lastNLB /\ lastSid' = lastSid /\ nlb' = nlb
    BY <1>2 DEF DeleteFetch, cloud
  <2>2. /\ r2.m = q.m /\ r2.nid = q.nid /\ r2.end = q.end /\ r2.todo = q.todo /\ r2.doing = q.doing
        /\ r2.prune = q.prune /\ r2.last = q.last /\ r2.pc = q.end
    BY <1>0 DEF Process
  <2>3. r0.m = q.m /\ r0.end = q.end /\ r0.last = last
    <3> HIDE DEF mine, last
    <3> QED BY <1>0 DEF Process
  <2>4. /\ r1.m = q.m /\ r1.nid = q.nid /\ r1.end = q.end /\ r1.todo = q.todo /\ r1.doing = q.doing
        /\ r1.prune = mine /\ r1.last = last /\ r1.pc = pc
    <3> HIDE DEF mine, last, pc
    <3> QED BY <1>0 DEF Process
  <2>5. AfterPrune(r1) = AfterPrune(r0)
    <3> HIDE DEF r0, r1
    <3> QED BY <2>3, <2>4 DEF AfterPrune
  <2> HIDE DEF r1, r2, r0
  <2>6. (r = r1 /\ Live(i)) \/ (r = r2 /\ ~Live(i)) OBVIOUS
  <2> HIDE DEF r
  <2>7. Others(p) /\ (proc'[p] = r \/ proc'[p] = Idle) BY <1>0, <1>t, <2>1, ReadOutcome
  <2>8. proc'[p] = Idle \/ Withdraws(p, proc'[p])
    BY <1>0, <2>1, <2>2, <2>4, <2>5, <2>6, <2>7 DEF Withdraws
  <2> QED BY <2>1, <2>7, <2>8 DEF Calls
<1>3. CASE DeleteServices(s)
  <2>0. PICK x \in q.prune :
          LET rest == q.prune \ {x}
          IN  Write(p, Has(i, x.sid), Without(i, x.sid),
                    [q EXCEPT !.prune = rest,
                       !.pc = IF rest # {} THEN "delprune" ELSE AfterPrune(q)])
    BY <1>3 DEF DeleteServices
  <2> DEFINE rest == q.prune \ {x}
             pc == IF rest # {} THEN "delprune" ELSE AfterPrune(q)
             r == [q EXCEPT !.prune = rest, !.pc = pc]
             c == Without(i, x.sid)
  <2>1. /\ Write(p, Has(i, x.sid), c, r) /\ UNCHANGED <<api, lister, cache>>
        /\ UNCHANGED lastNLB /\ lastSid' = lastSid /\ q.pc = "delprune"
    BY <1>3, <2>0 DEF DeleteServices
  <2>2. /\ r.m = q.m /\ r.nid = q.nid /\ r.end = q.end /\ r.todo = q.todo /\ r.doing = q.doing
        /\ r.prune = rest /\ r.last = q.last /\ r.pc = pc
    <3> HIDE DEF pc
    <3> QED BY <1>0 DEF Process
  <2>3. pc \in {"delprune", AfterPrune(r)}
    <3> HIDE DEF r
    <3> QED BY <2>2 DEF AfterPrune
  <2>4. /\ Others(p)
        /\ \/ Has(i, x.sid) /\ nlb' = c /\ proc'[p] = r
           \/ Has(i, x.sid) /\ nlb' = c /\ proc'[p] = Idle
           \/ nlb' = nlb /\ proc'[p] = Idle
    <3> HIDE DEF c, r
    <3> QED BY <1>0, <1>b, <1>t, <2>1, WriteOutcome
  <2>5. Calls(p)
    <3> HIDE DEF r
    <3> QED BY <1>b, <2>1, <2>4 DEF Calls, Removes
  <2>6. proc'[p] = Idle \/ Withdraws(p, proc'[p])
    <3> HIDE DEF r, c, pc
    <3> QED BY <1>0, <2>1, <2>2, <2>3, <2>4 DEF Withdraws
  <2> QED BY <2>1, <2>4, <2>5, <2>6
<1>4. CASE DeleteLoadBalancer(s)
  <2> DEFINE r == [q EXCEPT !.pc = q.end]
             c == [nlb EXCEPT ![i] = NoNLB]
  <2>1. /\ Write(p, Live(i), c, r) /\ UNCHANGED <<api, lister, cache>> /\ q.pc = "dellb"
        /\ UNCHANGED lastNLB /\ lastSid' = lastSid
    BY <1>4 DEF DeleteLoadBalancer
  <2>2. /\ r.m = q.m /\ r.nid = q.nid /\ r.end = q.end /\ r.todo = q.todo /\ r.doing = q.doing
        /\ r.prune = q.prune /\ r.last = q.last /\ r.pc = q.end
    BY <1>0 DEF Process
  <2>3. /\ Others(p)
        /\ \/ Live(i) /\ nlb' = c /\ proc'[p] = r
           \/ Live(i) /\ nlb' = c /\ proc'[p] = Idle
           \/ nlb' = nlb /\ proc'[p] = Idle
    <3> HIDE DEF c, r
    <3> QED BY <1>0, <1>b, <1>t, <2>1, WriteOutcome
  <2>4. Calls(p) \/ Destroys(p)
    <3> HIDE DEF r
    <3> QED BY <2>1, <2>3 DEF Calls, Destroys
  <2>5. proc'[p] = Idle \/ Withdraws(p, proc'[p])
    <3> HIDE DEF r
    <3> QED BY <1>0, <2>1, <2>2, <2>3 DEF Withdraws
  <2> QED BY <2>1, <2>3, <2>4, <2>5
<1> QED BY <1>1, <1>2, <1>3, <1>4 DEF WithdrawStep

-----------------------------------------------------------------------------
(* The steps that change Service objects, or copies of them *)

(* Only Service s, its copies and its processes are concerned. *)
Local(s) ==
  /\ \A t \in Service \ {s} :
       api'[t] = api[t] /\ lister'[t] = lister[t] /\ cache'[t] = cache[t]
  /\ \A p \in Proc : p[1] # s => proc'[p] = proc[p]

(* The manifests differ at most in what the provider patches. *)
Alike(m, n) ==
  /\ m.lb = n.lb /\ m.ext = n.ext /\ m.name = n.name /\ m.desc = n.desc
  /\ m.ports = n.ports /\ m.cfg = n.cfg /\ m.sks = n.sks

(* The process goes to pc, with another manifest and NLB to adopt perhaps. *)
Becomes(q, r, pc, m, nid) ==
  /\ r \in Process /\ r.pc = pc /\ r.m = m /\ r.nid = nid
  /\ r.prune = q.prune /\ r.todo = q.todo /\ r.doing = q.doing
  /\ r.last = q.last /\ r.end = q.end

(* A process starts. *)
Starts(r, pc, m, end) ==
  /\ r \in Process /\ r.pc = pc /\ r.m = m /\ r.nid = NoID
  /\ r.prune = {} /\ r.todo = {} /\ r.doing = {} /\ r.end = end

Finalizing(s) ==
  LET p == <<s, "svc">>
      q == proc[p]
      r == proc'[p]
  IN  /\ q.pc = "final" /\ UNCHANGED <<lister, cache>> /\ UNCHANGED cloud /\ Others(p)
      /\ api'[s].m = api[s].m /\ api'[s].phase = api[s].phase
      /\ api'[s].fin = api[s].fin \/ (Exists(s) /\ api'[s].fin)
      /\ \/ r = Idle
         \/ Becomes(q, r, AfterFinal(q.m), q.m, q.nid) /\ Exists(s) /\ api'[s].fin

(* What the patched object of s is: m is what the worker has, or would have. *)
PatchedTo(s, m) ==
  LET pool == proc[<<s, "svc">>].pc = "pool"
  IN  /\ api'[s].phase = api[s].phase /\ api'[s].fin = api[s].fin
      /\ Alike(api'[s].m, api[s].m)
      /\ api'[s].m.id = IF pool THEN api[s].m.id ELSE m.id
      /\ api'[s].m.pool = IF pool THEN m.pool ELSE api[s].m.pool

RememberedAs(s, m) ==
  cache'[s].m = m /\ cache'[s].phase = cache[s].phase /\ cache'[s].fin = cache[s].fin

(* The value that is patched, and whether it is found. *)
Value(q, found, m) ==
  /\ m \in Manifest /\ found \in BOOLEAN /\ Alike(m, q.m)
  /\ \/ q.pc = "resolve" /\ m.pool = q.m.pool /\ (found => m.id \in ID)
     \/ q.pc = "pool" /\ m.id = q.m.id /\ (found => m.pool \in Pool)
     \/ q.pc = "adopt" /\ m.pool = q.m.pool /\ m.id = q.nid /\ found = Live(q.nid)

AfterPatch(q, m) ==
  CASE q.pc = "resolve" -> AfterResolve(m) [] q.pc = "pool" -> "fetch" [] q.pc = "adopt" -> "get"

Patching(s) ==
  LET p == <<s, "svc">>
      q == proc[p]
      r == proc'[p]
      Goes(m) == Becomes(q, r, AfterPatch(q, m), m, IF q.pc = "adopt" THEN NoID ELSE q.nid)
      Failing == r = Idle /\ q.pc \notin Reliable /\ faults' = faults + 1
  IN  /\ q.pc \in {"resolve", "pool", "adopt"}
      /\ UNCHANGED lister /\ UNCHANGED cloud /\ Others(p)
      /\ \E m, found :
           /\ Value(q, found, m)
           /\ \/ found /\ m = q.m /\ Goes(m) /\ UNCHANGED <<api, cache>>
              \/ /\ found /\ m # q.m /\ Exists(s) /\ RememberedAs(s, m) /\ PatchedTo(s, m)
                 /\ Goes(m) \/ Failing
              \/ /\ found /\ m # q.m /\ RememberedAs(s, m) /\ UNCHANGED api
                 /\ Failing \/ (~Exists(s) /\ r = Idle)
              \/ /\ Failing \/ (~found /\ r = Idle)
                 /\ UNCHANGED <<api, cache>>

(* The controller adds its finalizer, or fails to. *)
LEMMA FinalizingStep ==
  ASSUME TypeOK, NEW s \in Service, AddFinalizer(s)
  PROVE  Finalizing(s) /\ Local(s)
<1> DEFINE p == <<s, "svc">>
           q == proc[p]
           r == [q EXCEPT !.pc = AfterFinal(q.m)]
           a == [api EXCEPT ![s].fin = TRUE]
<1>0. p \in Proc /\ q \in Process /\ ProcOK /\ KubeOK BY Processes, TypeParts DEF TypeOK
<1>p. proc'[p] \in Process BY <1>0, EnsureType DEF TypeOK
<1>1. /\ q.pc = "final" /\ UNCHANGED <<lister, cache>> /\ UNCHANGED cloud
      /\ \/ Exists(s) /\ api' = a /\ Goto(p, r)
         \/ Exists(s) /\ api' = a /\ Fail(p)
         \/ UNCHANGED api /\ Fail(p)
  BY DEF AddFinalizer
<1>2. Others(p) /\ proc'[p] \in {r, Idle} /\ (proc'[p] = Idle \/ (Exists(s) /\ api' = a))
  <2> HIDE DEF r, a
  <2> QED BY <1>0, <1>1 DEF Others, Goto, Fail, ProcOK
<1>3. /\ r.pc = AfterFinal(q.m) /\ r.m = q.m /\ r.nid = q.nid
      /\ r.prune = q.prune /\ r.todo = q.todo /\ r.doing = q.doing
      /\ r.last = q.last /\ r.end = q.end
  BY <1>0 DEF Process
<1>4. /\ a[s].m = api[s].m /\ a[s].phase = api[s].phase /\ a[s].fin
      /\ \A t \in Service \ {s} : a[t] = api[t]
  BY <1>0 DEF KubeOK, Object
<1> HIDE DEF r, a
<1>5. Local(s) BY <1>1, <1>2, <1>4 DEF Local, Others
<1>6. Finalizing(s) BY <1>1, <1>2, <1>3, <1>4, <1>p DEF Finalizing, Becomes
<1> QED BY <1>5, <1>6

(* A manifest that differs in one annotation. *)
LEMMA OneAnnotation ==
  ASSUME NEW m \in Manifest
  PROVE  /\ \A i \in ID \cup {NoID} :
              LET n == [m EXCEPT !.id = i]
              IN  n \in Manifest /\ Alike(n, m) /\ n.id = i /\ n.pool = m.pool
         /\ \A q \in Pool \cup {None} :
              LET n == [m EXCEPT !.pool = q]
              IN  n \in Manifest /\ Alike(n, m) /\ n.id = m.id /\ n.pool = q
  BY DEF Manifest, Alike

(* The worker finds the external NLB, or the pool, or has created the NLB:  *)
(* it patches what it found into the Service.                               *)
LEMMA PatchingStep ==
  ASSUME TypeOK, NEW s \in Service,
         ResolveExternal(s) \/ InferPool(s) \/ AdoptLoadBalancer(s)
  PROVE  Patching(s) /\ Local(s)
<1> DEFINE p == <<s, "svc">>
           q == proc[p]
<1>0. /\ p \in Proc /\ q \in Process /\ q.m \in Manifest /\ q.nid \in ID \cup {NoID}
      /\ api[s] \in Object /\ api[s].m \in Manifest /\ ProcOK /\ KubeOK
  BY Processes, TypeParts DEF TypeOK, Process, Object
<1>p. proc'[p] \in Process BY <1>0, EnsureType DEF TypeOK
<1>w. ASSUME NEW found, NEW m, NEW a, NEW r, PatchAnnotation(s, found, m, a, r),
             UNCHANGED lister, UNCHANGED cloud, Value(q, found, m),
             q.pc \in {"resolve", "pool", "adopt"},
             r.pc = AfterPatch(q, m), r.m = m, r.nid = (IF q.pc = "adopt" THEN NoID ELSE q.nid),
             r.prune = q.prune, r.todo = q.todo, r.doing = q.doing,
             r.last = q.last, r.end = q.end,
             a[s].phase = api[s].phase, a[s].fin = api[s].fin, Alike(a[s].m, api[s].m),
             a[s].m.id = (IF q.pc = "pool" THEN api[s].m.id ELSE m.id),
             a[s].m.pool = (IF q.pc = "pool" THEN m.pool ELSE api[s].m.pool),
             \A t \in Service \ {s} : a[t] = api[t]
      PROVE  Patching(s) /\ Local(s)
  <2> DEFINE Failing == proc'[p] = Idle /\ q.pc \notin Reliable /\ faults' = faults + 1
  <2>0. found \in BOOLEAN BY <1>w DEF Value
  <2>1. /\ Others(p)
        /\ \/ found /\ m = q.m /\ proc'[p] = r /\ UNCHANGED <<api, cache>>
           \/ /\ found /\ m # q.m /\ Exists(s)
              /\ cache' = [cache EXCEPT ![s].m = m] /\ api' = a
              /\ proc'[p] = r \/ Failing
           \/ /\ found /\ m # q.m
              /\ Failing \/ (~Exists(s) /\ proc'[p] = Idle)
              /\ cache' = [cache EXCEPT ![s].m = m] /\ api' = api
           \/ /\ Failing \/ (~found /\ proc'[p] = Idle)
              /\ UNCHANGED <<api, cache>>
    BY <1>0, <1>w, <2>0, PatchOutcome
  <2>2. ASSUME proc'[p] = r
        PROVE  Becomes(q, proc'[p], AfterPatch(q, m), m, IF q.pc = "adopt" THEN NoID ELSE q.nid)
    BY <1>p, <1>w, <2>2 DEF Becomes
  <2>3. ASSUME cache' = [cache EXCEPT ![s].m = m]
        PROVE  RememberedAs(s, m) /\ \A t \in Service \ {s} : cache'[t] = cache[t]
    BY <1>0, <2>3 DEF RememberedAs, KubeOK, Object
  <2>4. ASSUME api' = a PROVE PatchedTo(s, m) BY <1>w, <2>4 DEF PatchedTo
  <2>5. Local(s) BY <1>w, <2>1, <2>3 DEF Local, Others
  <2>6. Patching(s)
    <3> SUFFICES \/ found /\ m = q.m /\ proc'[p] = r /\ UNCHANGED <<api, cache>>
                 \/ /\ found /\ m # q.m /\ Exists(s)
                    /\ RememberedAs(s, m) /\ PatchedTo(s, m)
                    /\ proc'[p] = r \/ Failing
                 \/ /\ found /\ m # q.m /\ RememberedAs(s, m) /\ UNCHANGED api
                    /\ Failing \/ (~Exists(s) /\ proc'[p] = Idle)
                 \/ /\ Failing \/ (~found /\ proc'[p] = Idle)
                    /\ UNCHANGED <<api, cache>>
      BY <1>w, <2>1, <2>2 DEF Patching
    <3> QED BY <2>1, <2>3, <2>4
  <2> QED BY <2>5, <2>6
<1>1. CASE ResolveExternal(s)
  <2>0. PICK found \in BOOLEAN, i \in ID \cup {NoID} :
          /\ found => i \in ID
          /\ LET n == [q.m EXCEPT !.id = i]
             IN  PatchAnnotation(s, found, n, [api EXCEPT ![s].m.id = i],
                                 [q EXCEPT !.m = n, !.pc = AfterResolve(n)])
    BY <1>1 DEF ResolveExternal
  <2> DEFINE n == [q.m EXCEPT !.id = i]
             r == [q EXCEPT !.m = n, !.pc = AfterResolve(n)]
             a == [api EXCEPT ![s].m.id = i]
             am == [api[s].m EXCEPT !.id = i]
  <2>1. n \in Manifest /\ Alike(n, q.m) /\ n.id = i /\ n.pool = q.m.pool BY <1>0, OneAnnotation
  <2>2. Alike(am, api[s].m) /\ am.id = i /\ am.pool = api[s].m.pool BY <1>0, OneAnnotation
  <2>3. /\ a[s].phase = api[s].phase /\ a[s].fin = api[s].fin /\ a[s].m = am
        /\ \A t \in Service \ {s} : a[t] = api[t]
    BY <1>0 DEF KubeOK, Object
  <2>4. q.pc = "resolve" /\ UNCHANGED lister /\ UNCHANGED cloud BY <1>1 DEF ResolveExternal
  <2>5. Value(q, found, n)
    <3> HIDE DEF n
    <3> QED BY <2>0, <2>1, <2>4 DEF Value
  <2>6. AfterPatch(q, n) = AfterResolve(n) BY <2>4 DEF AfterPatch
  <2> HIDE DEF n
  <2>7. /\ r.pc = AfterPatch(q, n) /\ r.m = n /\ r.nid = q.nid
        /\ r.prune = q.prune /\ r.todo = q.todo /\ r.doing = q.doing
        /\ r.last = q.last /\ r.end = q.end
    BY <1>0, <2>6 DEF Process
  <2>8. PatchAnnotation(s, found, n, a, r) BY <2>0 DEF n
  <2> HIDE DEF a, r, am
  <2> QED BY <1>w, <2>1, <2>2, <2>3, <2>4, <2>5, <2>7, <2>8
<1>2. CASE InferPool(s)
  <2>0. PICK found \in BOOLEAN, l \in Pool \cup {None} :
          /\ found => l \in Pool
          /\ LET n == [q.m EXCEPT !.pool = l]
             IN  PatchAnnotation(s, found, n, [api EXCEPT ![s].m.pool = l],
                                 [q EXCEPT !.m = n, !.pc = "fetch"])
    BY <1>2 DEF InferPool
  <2> DEFINE n == [q.m EXCEPT !.pool = l]
             r == [q EXCEPT !.m = n, !.pc = "fetch"]
             a == [api EXCEPT ![s].m.pool = l]
             am == [api[s].m EXCEPT !.pool = l]
  <2>1. n \in Manifest /\ Alike(n, q.m) /\ n.id = q.m.id /\ n.pool = l BY <1>0, OneAnnotation
  <2>2. Alike(am, api[s].m) /\ am.pool = l /\ am.id = api[s].m.id BY <1>0, OneAnnotation
  <2>3. /\ a[s].phase = api[s].phase /\ a[s].fin = api[s].fin /\ a[s].m = am
        /\ \A t \in Service \ {s} : a[t] = api[t]
    BY <1>0 DEF KubeOK, Object
  <2>4. q.pc = "pool" /\ UNCHANGED lister /\ UNCHANGED cloud BY <1>2 DEF InferPool
  <2>5. Value(q, found, n)
    <3> HIDE DEF n
    <3> QED BY <2>0, <2>1, <2>4 DEF Value
  <2>6. AfterPatch(q, n) = "fetch" BY <2>4 DEF AfterPatch
  <2> HIDE DEF n
  <2>7. /\ r.pc = AfterPatch(q, n) /\ r.m = n /\ r.nid = q.nid
        /\ r.prune = q.prune /\ r.todo = q.todo /\ r.doing = q.doing
        /\ r.last = q.last /\ r.end = q.end
    BY <1>0, <2>6 DEF Process
  <2>8. PatchAnnotation(s, found, n, a, r) BY <2>0 DEF n
  <2> HIDE DEF a, r, am
  <2> QED BY <1>w, <2>1, <2>2, <2>3, <2>4, <2>5, <2>7, <2>8
<1>3. CASE AdoptLoadBalancer(s)
  <2> DEFINE i == q.nid
             n == [q.m EXCEPT !.id = i]
             r == [q EXCEPT !.m = n, !.nid = NoID, !.pc = "get"]
             a == [api EXCEPT ![s].m.id = i]
             am == [api[s].m EXCEPT !.id = i]
             found == Live(i)
  <2>0. PatchAnnotation(s, found, n, a, r) BY <1>3 DEF AdoptLoadBalancer
  <2>1. n \in Manifest /\ Alike(n, q.m) /\ n.id = i /\ n.pool = q.m.pool BY <1>0, OneAnnotation
  <2>2. Alike(am, api[s].m) /\ am.id = i /\ am.pool = api[s].m.pool BY <1>0, OneAnnotation
  <2>3. /\ a[s].phase = api[s].phase /\ a[s].fin = api[s].fin /\ a[s].m = am
        /\ \A t \in Service \ {s} : a[t] = api[t]
    BY <1>0 DEF KubeOK, Object
  <2>4. q.pc = "adopt" /\ UNCHANGED lister /\ UNCHANGED cloud BY <1>3 DEF AdoptLoadBalancer
  <2>b. found \in BOOLEAN BY DEF Live
  <2>5. Value(q, found, n)
    <3> HIDE DEF n
    <3> QED BY <2>1, <2>4, <2>b DEF Value
  <2>6. AfterPatch(q, n) = "get" BY <2>4 DEF AfterPatch
  <2> HIDE DEF n
  <2>7. /\ r.pc = AfterPatch(q, n) /\ r.m = n /\ r.nid = NoID
        /\ r.prune = q.prune /\ r.todo = q.todo /\ r.doing = q.doing
        /\ r.last = q.last /\ r.end = q.end
    BY <1>0, <2>6 DEF Process
  <2> HIDE DEF a, r, am, found
  <2> QED BY <1>w, <2>0, <2>1, <2>2, <2>3, <2>4, <2>5, <2>7
<1> QED BY <1>1, <1>2, <1>3

(* The other steps of EnsureLoadBalancer. *)
Fetching(s) ==
  LET p == <<s, "svc">>
      q == proc[p]
      r == proc'[p]
  IN  /\ q.pc = "fetch" /\ UNCHANGED <<api, lister, cache>> /\ UNCHANGED cloud /\ Others(p)
      /\ \/ r = Idle
         \/ Live(q.m.id) /\ Becomes(q, r, "get", q.m, q.nid)
         \/ ~Live(q.m.id) /\ ~q.m.ext /\ Becomes(q, r, "create", q.m, q.nid)

Creating(s) ==
  LET p == <<s, "svc">>
      q == proc[p]
      r == proc'[p]
      i == lastNLB + 1
      n == [live |-> TRUE, name |-> GetLoadBalancerName(s, q.m), desc |-> q.m.desc, svcs |-> {}]
      Failing == r = Idle /\ q.pc \notin Reliable /\ faults' = faults + 1
  IN  /\ q.pc = "create" /\ UNCHANGED <<api, lister, cache>> /\ UNCHANGED lastSid /\ Others(p)
      /\ i \in ID
      /\ \/ UNCHANGED <<nlb, lastNLB>> /\ Failing
         \/ /\ nlb' = [nlb EXCEPT ![i] = n] /\ lastNLB' = i
            /\ Becomes(q, r, "adopt", q.m, i) \/ Failing

Returning(s) ==
  LET p == <<s, "svc">>
  IN  /\ proc[p].pc = "done" /\ UNCHANGED <<lister, cache>> /\ UNCHANGED cloud /\ Others(p)
      /\ proc'[p] = Idle
      /\ api'[s].m = api[s].m /\ api'[s].phase = api[s].phase /\ api'[s].fin = api[s].fin

(* The end of EnsureLoadBalancerDeleted. *)
Unfinalizing(s) ==
  LET p == <<s, "svc">>
  IN  /\ proc[p].pc = "unfinal" /\ UNCHANGED lister /\ UNCHANGED cloud /\ Others(p)
      /\ proc'[p] = Idle /\ cache'[s] \in {cache[s], NoObject}
      /\ \/ /\ api'[s].m = api[s].m /\ api'[s].phase = api[s].phase
            /\ api'[s].fin = api[s].fin \/ (Exists(s) /\ ~api'[s].fin)
         \/ /\ api[s].phase = "deleting" /\ api'[s].phase = "gone"
            /\ api'[s].m = NoManifest /\ ~api'[s].fin

Forgetting(s) ==
  LET p == <<s, "svc">>
  IN  /\ proc[p].pc = "forget" /\ UNCHANGED <<api, lister>> /\ UNCHANGED cloud /\ Others(p)
      /\ proc'[p] = Idle /\ cache'[s] = NoObject

(* The controller takes a Service from its queue, or from its cache for a   *)
(* node sync; the informer; the user.                                       *)
Syncing(s) ==
  LET p == <<s, "svc">>
      r == proc'[p]
      o == lister[s]
  IN  /\ proc[p].pc = "idle" /\ UNCHANGED <<api, lister>> /\ UNCHANGED cloud /\ Others(p)
      /\ ListerLag \/ o = api[s]
      /\ \/ /\ o.phase \in {"live", "deleting"} /\ cache'[s] = o
            /\ \/ /\ ~o.m.lb \/ o.phase = "deleting"
                  /\ Starts(r, "exists", o.m, "unfinal")
               \/ o.m.lb /\ Starts(r, "final", o.m, "unfinal")
               \/ o.m.lb /\ o.fin /\ Starts(r, AfterFinal(o.m), o.m, "unfinal")
         \/ /\ o.phase \notin {"live", "deleting"} /\ cache'[s] = cache[s]
            /\ \/ cache[s].phase = "none" /\ r = Idle
               \/ /\ cache[s].phase # "none"
                  /\ \E pc \in {"delfetch", "forget"} : Starts(r, pc, cache[s].m, "forget")

Delivering(s) ==
  UNCHANGED <<api, cache, proc>> /\ UNCHANGED cloud /\ lister'[s] = api[s]

NodeSyncing(s) ==
  LET p == <<s, "node">>
  IN  /\ proc[p].pc = "idle" /\ nodeSyncs < MaxNodeSyncs
      /\ cache[s].phase # "none" /\ cache[s].m.lb
      /\ UNCHANGED <<api, lister, cache>> /\ UNCHANGED cloud /\ Others(p)
      /\ Starts(proc'[p], "get", cache[s].m, "unfinal")

NodeReturning(s) ==
  LET p == <<s, "node">>
  IN  /\ proc[p].pc = "done" /\ proc'[p] = Idle
      /\ UNCHANGED <<api, lister, cache>> /\ UNCHANGED cloud /\ Others(p)

Submitting(s) ==
  LET o == api[s]
      a == api'[s]
  IN  /\ UNCHANGED <<lister, cache, proc>> /\ UNCHANGED cloud
      /\ \/ o.phase = "none" /\ a.phase = "live" /\ ~a.fin /\ a.m \in Manifests[s]
         \/ /\ o.phase = "live" /\ a.phase = "live" /\ a.fin = o.fin
            /\ \E m \in Manifests[s] :
                 /\ Alike(a.m, m)
                 /\ a.m.id = IF m.id = NoID THEN o.m.id ELSE m.id
                 /\ a.m.pool = IF m.pool = None THEN o.m.pool ELSE m.pool
         \/ o.phase = "live" /\ o.fin /\ a.phase = "deleting" /\ a.fin /\ a.m = o.m
         \/ o.phase = "live" /\ ~o.fin /\ a.phase = "gone" /\ ~a.fin /\ a.m = NoManifest

-----------------------------------------------------------------------------
(* The NLB is found, or is to be created. *)
LEMMA FetchingStep ==
  ASSUME TypeOK, NEW s \in Service, Fetch(s)
  PROVE  Fetching(s) /\ Local(s)
<1> DEFINE p == <<s, "svc">>
           q == proc[p]
           ok == Parses(q.m) /\ (Live(q.m.id) \/ ~q.m.ext)
           pc == IF Live(q.m.id) THEN "get" ELSE "create"
           r == [q EXCEPT !.pc = pc]
<1>0. p \in Proc /\ q \in Process /\ ProcOK BY Processes, TypeParts DEF TypeOK
<1>p. proc'[p] \in Process BY <1>0, EnsureType DEF TypeOK
<1>1. /\ Read(p, ok, r) /\ q.pc = "fetch" /\ UNCHANGED <<api, lister, cache>> /\ UNCHANGED cloud
  BY DEF Fetch
<1>2. /\ r.m = q.m /\ r.nid = q.nid /\ r.end = q.end /\ r.todo = q.todo /\ r.doing = q.doing
      /\ r.prune = q.prune /\ r.last = q.last /\ r.pc = pc
  <2> HIDE DEF pc
  <2> QED BY <1>0 DEF Process
<1>3. ok \in BOOLEAN /\ (ok => Live(q.m.id) \/ ~q.m.ext) OBVIOUS
<1> HIDE DEF ok, r
<1>4. Others(p) /\ ((ok /\ proc'[p] = r) \/ proc'[p] = Idle) BY <1>0, <1>1, <1>3, ReadOutcome
<1>5. Local(s) BY <1>1, <1>4 DEF Local, Others
<1> QED BY <1>1, <1>2, <1>3, <1>4, <1>5, <1>p DEF Fetching, Becomes

(* The NLB is created, under an ID that was never used. *)
LEMMA CreatingStep ==
  ASSUME TypeOK, NEW s \in Service, CreateLoadBalancer(s), \A i \in ID : nlb[i].live => i <= lastNLB
  PROVE  Creating(s) /\ Local(s)
<1> DEFINE p == <<s, "svc">>
           q == proc[p]
           i == lastNLB + 1
           n == [live |-> TRUE, name |-> GetLoadBalancerName(s, q.m), desc |-> q.m.desc, svcs |-> {}]
           c == [nlb EXCEPT ![i] = n]
           r == [q EXCEPT !.pc = "adopt", !.nid = i]
<1>0. p \in Proc /\ q \in Process /\ ProcOK /\ CloudOK BY Processes, TypeParts DEF TypeOK
<1>p. proc'[p] \in Process BY <1>0, EnsureType DEF TypeOK
<1>1. /\ Write(p, TRUE, c, r) /\ q.pc = "create" /\ UNCHANGED <<api, lister, cache>>
      /\ UNCHANGED lastSid /\ lastNLB' = (IF nlb' = nlb THEN lastNLB ELSE i) /\ lastNLB < MaxNLB
  BY DEF CreateLoadBalancer
<1>2. i \in ID BY <1>0, <1>1, BoundsAssumption DEF CloudOK, ID
<1>3. ~nlb[i].live BY <1>0, <1>2 DEF CloudOK
<1>4. c # nlb BY <1>0, <1>2, <1>3 DEF CloudOK
<1>5. /\ r.m = q.m /\ r.nid = i /\ r.end = q.end /\ r.todo = q.todo /\ r.doing = q.doing
      /\ r.prune = q.prune /\ r.last = q.last /\ r.pc = "adopt"
  <2> HIDE DEF i
  <2> QED BY <1>0 DEF Process
<1> HIDE DEF c, r
<1>6. /\ Others(p)
      /\ \/ nlb' = c /\ proc'[p] = r
         \/ nlb' = c /\ proc'[p] = Idle /\ q.pc \notin Reliable /\ faults' = faults + 1
         \/ nlb' = nlb /\ proc'[p] = Idle /\ q.pc \notin Reliable /\ faults' = faults + 1
  BY <1>0, <1>1 DEF Write, Goto, Fail, Fault, Others, ProcOK
<1>7. Local(s) BY <1>1, <1>6 DEF Local, Others
<1>8. Creating(s)
  <2> DEFINE Failing == proc'[p] = Idle /\ q.pc \notin Reliable /\ faults' = faults + 1
  <2>1. \/ UNCHANGED <<nlb, lastNLB>> /\ Failing
        \/ /\ nlb' = c /\ lastNLB' = i
           /\ proc'[p] = r \/ Failing
    BY <1>1, <1>4, <1>6
  <2>2. proc'[p] = r => Becomes(q, proc'[p], "adopt", q.m, i) BY <1>5, <1>p DEF Becomes
  <2> QED BY <1>1, <1>2, <1>6, <2>1, <2>2 DEF Creating, c
<1> QED BY <1>7, <1>8

(* EnsureLoadBalancer has returned; EnsureLoadBalancerDeleted has. *)
LEMMA ReturningStep ==
  ASSUME TypeOK, NEW s \in Service, EnsureReturns(s) \/ RemoveFinalizer(s) \/ ForgetService(s)
  PROVE  (Returning(s) \/ Unfinalizing(s) \/ Forgetting(s)) /\ Local(s)
<1> DEFINE p == <<s, "svc">>
<1>0. p \in Proc /\ ProcOK /\ KubeOK /\ api[s] \in Object
  BY Processes, TypeParts DEF TypeOK
<1>g. Goto(p, Idle) \/ Fail(p) => Others(p) /\ proc'[p] = Idle
  BY <1>0 DEF Goto, Fail, Others, ProcOK
<1>l. ASSUME Others(p), UNCHANGED lister, NEW o, api' \in {api, [api EXCEPT ![s] = o]},
             cache' \in {cache, [cache EXCEPT ![s] = NoObject]}
      PROVE  Local(s)
  BY <1>0, <1>l DEF Local, Others, KubeOK
<1>1. CASE EnsureReturns(s)
  <2> DEFINE o == [api[s] EXCEPT !.ip = proc[p].m.id]
  <2>1. /\ proc[p].pc = "done" /\ UNCHANGED <<lister, cache>> /\ UNCHANGED cloud
        /\ Goto(p, Idle) \/ Fail(p)
        /\ api' \in {api, [api EXCEPT ![s].ip = proc[p].m.id]}
    BY <1>1 DEF EnsureReturns
  <2>2. [api EXCEPT ![s].ip = proc[p].m.id] = [api EXCEPT ![s] = o] OBVIOUS
  <2>3. o.m = api[s].m /\ o.phase = api[s].phase /\ o.fin = api[s].fin BY <1>0 DEF Object
  <2>4. Local(s)
    <3> HIDE DEF o
    <3> QED BY <1>g, <1>l, <2>1, <2>2
  <2>5. Returning(s)
    <3> HIDE DEF o
    <3> QED BY <1>0, <1>g, <2>1, <2>2, <2>3 DEF Returning, KubeOK
  <2> QED BY <2>4, <2>5
<1>2. CASE RemoveFinalizer(s)
  <2> DEFINE had == cache[s].fin
             gone == [NoObject EXCEPT !.phase = "gone"]
             kept == [api[s] EXCEPT !.fin = FALSE]
             freed == IF ~had THEN api[s] ELSE IF api[s].phase = "deleting" THEN gone ELSE kept
             done == [freed EXCEPT !.ip = IF cache[s].ip # NoID THEN NoID ELSE @]
             ok == ~had \/ Exists(s)
  <2>1. /\ proc[p].pc = "unfinal" /\ UNCHANGED lister /\ UNCHANGED cloud
        /\ Goto(p, Idle) \/ Fail(p)
        /\ \/ api' = api
           \/ ok /\ (api' = [api EXCEPT ![s] = done] \/ api' = [api EXCEPT ![s] = freed])
        /\ cache' \in {cache, [cache EXCEPT ![s] = NoObject]}
    BY <1>2 DEF RemoveFinalizer
  <2>2. /\ gone \in Object /\ gone.phase = "gone" /\ gone.m = NoManifest /\ ~gone.fin
        /\ kept \in Object /\ kept.phase = api[s].phase /\ kept.m = api[s].m /\ ~kept.fin
    BY <1>0, Defaults DEF Object, NoObject
  <2> DEFINE Freed(o) == \/ /\ o.m = api[s].m /\ o.phase = api[s].phase
                            /\ o.fin = api[s].fin \/ (Exists(s) /\ ~o.fin)
                         \/ /\ api[s].phase = "deleting" /\ o.phase = "gone"
                            /\ o.m = NoManifest /\ ~o.fin
  <2>3. freed \in Object /\ (ok => Freed(freed))
    <3> HIDE DEF gone, kept
    <3> QED BY <1>0, <2>2
  <2>4. done.m = freed.m /\ done.phase = freed.phase /\ done.fin = freed.fin
    <3> HIDE DEF freed
    <3> QED BY <2>3 DEF Object
  <2> HIDE DEF done, freed, ok
  <2>5. Freed(api'[s])
    <3>1. CASE api' = api BY <3>1
    <3>2. CASE ok /\ api' = [api EXCEPT ![s] = done] BY <1>0, <2>3, <2>4, <3>2 DEF KubeOK
    <3>3. CASE ok /\ api' = [api EXCEPT ![s] = freed] BY <1>0, <2>3, <3>3 DEF KubeOK
    <3> QED BY <2>1, <3>1, <3>2, <3>3
  <2>6. cache'[s] \in {cache[s], NoObject} BY <1>0, <2>1 DEF KubeOK
  <2>7. Local(s) BY <1>g, <1>l, <2>1
  <2> QED BY <1>g, <2>1, <2>5, <2>6, <2>7 DEF Unfinalizing
<1>3. CASE ForgetService(s)
  <2>1. /\ proc[p].pc = "forget" /\ UNCHANGED <<api, lister>> /\ UNCHANGED cloud
        /\ Goto(p, Idle) /\ cache' = [cache EXCEPT ![s] = NoObject]
    BY <1>3 DEF ForgetService
  <2>2. Local(s) BY <1>g, <1>l, <2>1
  <2> QED BY <1>0, <1>g, <2>1, <2>2 DEF Forgetting, KubeOK
<1> QED BY <1>1, <1>2, <1>3

(* A sync starts, from what the informer knows, or from the cache. *)
LEMMA SyncingStep ==
  ASSUME TypeOK, NEW s \in Service, SyncService(s)
  PROVE  Syncing(s) /\ Local(s)
<1> DEFINE p == <<s, "svc">>
           o == lister[s]
           r1 == [Idle EXCEPT !.pc = "exists", !.m = o.m]
           r2 == [Idle EXCEPT !.pc = AfterFinal(o.m), !.m = o.m]
           r3 == [Idle EXCEPT !.pc = "final", !.m = o.m]
           pc4 == IF cache[s].m.lb THEN "delfetch" ELSE "forget"
           r4 == [Idle EXCEPT !.m = cache[s].m, !.end = "forget", !.pc = pc4]
<1>0. p \in Proc /\ ProcOK /\ KubeOK BY Processes, TypeParts
<1>p. proc'[p] \in Process BY <1>0, ControllerType DEF TypeOK
<1>1. /\ proc[p].pc = "idle" /\ UNCHANGED <<api, lister>> /\ UNCHANGED cloud
      /\ ListerLag \/ o = api[s]
  BY DEF SyncService
<1>2. \/ /\ o.phase \in {"live", "deleting"} /\ cache' = [cache EXCEPT ![s] = o]
         /\ \/ (~o.m.lb \/ o.phase = "deleting") /\ proc' = [proc EXCEPT ![p] = r1]
            \/ o.m.lb /\ proc' = [proc EXCEPT ![p] = r3]
            \/ o.m.lb /\ o.fin /\ proc' = [proc EXCEPT ![p] = r2]
      \/ /\ o.phase \notin {"live", "deleting"} /\ cache' = cache
         /\ \/ cache[s].phase = "none" /\ proc' = [proc EXCEPT ![p] = Idle]
            \/ cache[s].phase # "none" /\ proc' = [proc EXCEPT ![p] = r4]
  BY DEF SyncService
<1>3. ASSUME NEW pc, NEW m, NEW end,
             proc'[p] = [Idle EXCEPT !.pc = pc, !.m = m, !.end = end]
      PROVE  Starts(proc'[p], pc, m, end)
  BY <1>p, <1>3 DEF Starts, Idle
<1>4. ASSUME NEW pc, NEW m, proc'[p] = [Idle EXCEPT !.pc = pc, !.m = m]
      PROVE  Starts(proc'[p], pc, m, "unfinal")
  BY <1>p, <1>4 DEF Starts, Idle
<1>5. r4 = [Idle EXCEPT !.pc = pc4, !.m = cache[s].m, !.end = "forget"]
  BY DEF Idle
<1>6. pc4 \in {"delfetch", "forget"} OBVIOUS
<1>7. /\ proc'[p] = r1 => Starts(proc'[p], "exists", o.m, "unfinal")
      /\ proc'[p] = r2 => Starts(proc'[p], AfterFinal(o.m), o.m, "unfinal")
      /\ proc'[p] = r3 => Starts(proc'[p], "final", o.m, "unfinal")
      /\ proc'[p] = r4 => Starts(proc'[p], pc4, cache[s].m, "forget")
  <2> HIDE DEF pc4
  <2> QED BY <1>3, <1>4, <1>5
<1> HIDE DEF r1, r2, r3, r4, pc4
<1>8. /\ Others(p)
      /\ \/ /\ o.phase \in {"live", "deleting"} /\ cache'[s] = o
            /\ \/ (~o.m.lb \/ o.phase = "deleting") /\ proc'[p] = r1
               \/ o.m.lb /\ proc'[p] = r3
               \/ o.m.lb /\ o.fin /\ proc'[p] = r2
         \/ /\ o.phase \notin {"live", "deleting"} /\ cache'[s] = cache[s]
            /\ \/ cache[s].phase = "none" /\ proc'[p] = Idle
               \/ cache[s].phase # "none" /\ proc'[p] = r4
      /\ \A t \in Service \ {s} : cache'[t] = cache[t]
  BY <1>0, <1>2 DEF Others, ProcOK, KubeOK
<1>9. Local(s) BY <1>1, <1>8 DEF Local, Others
<1>10. Syncing(s) BY <1>1, <1>6, <1>7, <1>8 DEF Syncing
<1> QED BY <1>9, <1>10

(* The informer, and the node sync. *)
LEMMA ControllerSteps ==
  ASSUME TypeOK, NEW s \in Service, Deliver(s) \/ NodeSync(s) \/ NodeSyncReturns(s)
  PROVE  (Delivering(s) \/ NodeSyncing(s) \/ NodeReturning(s)) /\ Local(s)
<1> DEFINE p == <<s, "node">>
<1>0. p \in Proc /\ ProcOK /\ KubeOK BY Processes, TypeParts
<1>p. proc'[p] \in Process BY <1>0, ControllerType DEF TypeOK
<1>1. CASE Deliver(s)
  <2>1. /\ UNCHANGED <<api, cache, proc>> /\ UNCHANGED cloud
        /\ lister' = [lister EXCEPT ![s] = api[s]]
    BY <1>1 DEF Deliver
  <2>2. lister'[s] = api[s] /\ \A t \in Service \ {s} : lister'[t] = lister[t]
    BY <1>0, <2>1 DEF KubeOK
  <2> QED BY <2>1, <2>2 DEF Delivering, Local
<1>2. CASE NodeSync(s)
  <2> DEFINE r == [Idle EXCEPT !.pc = "get", !.m = cache[s].m]
  <2>1. /\ proc[p].pc = "idle" /\ nodeSyncs < MaxNodeSyncs
        /\ cache[s].phase # "none" /\ cache[s].m.lb
        /\ UNCHANGED <<api, lister, cache>> /\ UNCHANGED cloud /\ Goto(p, r)
    BY <1>2 DEF NodeSync
  <2>2. Others(p) /\ proc'[p] = r
    <3> HIDE DEF r
    <3> QED BY <1>0, <2>1 DEF Goto, Others, ProcOK
  <2>3. Starts(proc'[p], "get", cache[s].m, "unfinal") BY <1>p, <2>2 DEF Starts, Idle
  <2>4. Local(s) BY <2>1, <2>2 DEF Local, Others
  <2> QED BY <2>1, <2>2, <2>3, <2>4 DEF NodeSyncing
<1>3. CASE NodeSyncReturns(s)
  <2>1. /\ proc[p].pc = "done" /\ UNCHANGED <<api, lister, cache>> /\ UNCHANGED cloud
        /\ Goto(p, Idle)
    BY <1>3 DEF NodeSyncReturns
  <2>2. Others(p) /\ proc'[p] = Idle BY <1>0, <2>1 DEF Goto, Others, ProcOK
  <2>3. Local(s) BY <2>1, <2>2 DEF Local, Others
  <2> QED BY <2>1, <2>2, <2>3 DEF NodeReturning
<1> QED BY <1>1, <1>2, <1>3

(* The user creates, edits or deletes the Service. *)
LEMMA SubmittingStep ==
  ASSUME TypeOK, NEW s \in Service, UserCreates(s) \/ UserEdits(s) \/ UserDeletes(s)
  PROVE  Submitting(s) /\ Local(s)
<1>0. KubeOK /\ api[s] \in Object BY TypeParts DEF TypeOK
<1>1. UNCHANGED <<lister, cache, proc>> /\ UNCHANGED cloud
  BY DEF UserCreates, UserEdits, UserDeletes
<1>l. ASSUME NEW o, api' = [api EXCEPT ![s] = o] PROVE Local(s) /\ api'[s] = o
  BY <1>0, <1>1, <1>l DEF Local, KubeOK
<1>m. Manifests[s] \subseteq Manifest BY ConstantsAssumption
<1>2. CASE UserCreates(s)
  <2>1. PICK m \in Manifests[s] :
          api' = [api EXCEPT ![s] = [NoObject EXCEPT !.phase = "live", !.m = m]]
    BY <1>2 DEF UserCreates
  <2> DEFINE o == [NoObject EXCEPT !.phase = "live", !.m = m]
  <2>2. o.phase = "live" /\ ~o.fin /\ o.m = m BY DEF NoObject
  <2>3. api' = [api EXCEPT ![s] = o] BY <2>1
  <2>4. api[s].phase = "none" BY <1>2 DEF UserCreates
  <2> HIDE DEF o
  <2>5. Local(s) /\ api'[s] = o BY <1>l, <2>3
  <2> QED BY <1>1, <2>2, <2>4, <2>5 DEF Submitting
<1>3. CASE UserEdits(s)
  <2>1. PICK m \in Manifests[s] :
          api' = [api EXCEPT ![s].m =
                    [m EXCEPT !.id = IF m.id = NoID THEN api[s].m.id ELSE m.id,
                              !.pool = IF m.pool = None THEN api[s].m.pool ELSE m.pool]]
    BY <1>3 DEF UserEdits
  <2> DEFINE i == IF m.id = NoID THEN api[s].m.id ELSE m.id
             l == IF m.pool = None THEN api[s].m.pool ELSE m.pool
             n == [m EXCEPT !.id = i, !.pool = l]
             o == [api[s] EXCEPT !.m = n]
  <2>2. Alike(n, m) /\ n.id = i /\ n.pool = l
    <3> HIDE DEF i, l
    <3> QED BY <1>m DEF Manifest, Alike
  <2>3. o.phase = api[s].phase /\ o.fin = api[s].fin /\ o.m = n
    <3> HIDE DEF n
    <3> QED BY <1>0 DEF Object
  <2>4. api' = [api EXCEPT ![s] = o] BY <2>1
  <2>5. api[s].phase = "live" BY <1>3 DEF UserEdits
  <2> HIDE DEF o, n
  <2>6. Local(s) /\ api'[s] = o BY <1>l, <2>4
  <2> QED BY <1>1, <2>2, <2>3, <2>5, <2>6 DEF Submitting
<1>4. CASE UserDeletes(s)
  <2> DEFINE o1 == [api[s] EXCEPT !.phase = "deleting"]
             o2 == [NoObject EXCEPT !.phase = "gone"]
  <2>1. /\ api[s].phase = "live"
        /\ \/ api[s].fin /\ api' = [api EXCEPT ![s] = o1]
           \/ ~api[s].fin /\ api' = [api EXCEPT ![s] = o2]
    BY <1>4 DEF UserDeletes
  <2>2. o1.phase = "deleting" /\ o1.fin = api[s].fin /\ o1.m = api[s].m BY <1>0 DEF Object
  <2>3. o2.phase = "gone" /\ ~o2.fin /\ o2.m = NoManifest BY DEF NoObject
  <2> HIDE DEF o1, o2
  <2> QED BY <1>1, <1>l, <2>1, <2>2, <2>3 DEF Submitting
<1> QED BY <1>2, <1>3, <1>4

-----------------------------------------------------------------------------
(* Every step, by what it does *)

ObjectStep(s) ==
  /\ Local(s)
  /\ \/ Finalizing(s) \/ Patching(s) \/ Fetching(s) \/ Creating(s) \/ Returning(s)
     \/ Unfinalizing(s) \/ Forgetting(s) \/ Syncing(s) \/ Delivering(s) \/ NodeSyncing(s)
     \/ NodeReturning(s) \/ Submitting(s)

Update(p) ==
  /\ UpdateStep(p)
  /\ UNCHANGED <<api, lister, cache>> /\ UNCHANGED lastNLB /\ Others(p)
  /\ proc[p].pc \in Updating \cup {"get"}
  /\ proc'[p] = Idle \/ Advances(p, proc'[p])
  /\ Calls(p)

Withdraw(s) ==
  LET p == <<s, "svc">>
  IN  /\ UNCHANGED <<api, lister, cache>> /\ UNCHANGED lastNLB /\ Others(p)
      /\ proc[p].pc \in {"exists", "delfetch", "delprune", "dellb"}
      /\ proc'[p] = Idle \/ Withdraws(p, proc'[p])
      /\ Calls(p) \/ Destroys(p)

Drifts ==
  /\ UNCHANGED <<api, lister, cache, proc>> /\ UNCHANGED <<lastNLB, lastSid>>
  /\ \/ nlb' = nlb
     \/ /\ CloudDeletes /\ drift < MaxDrift
        /\ \E i \in ID : i > Provisioned /\ nlb' = [nlb EXCEPT ![i] = NoNLB]

Restarts ==
  /\ crashes' = crashes + 1
  /\ UNCHANGED api /\ UNCHANGED cloud /\ lister' = api
  /\ \A s \in Service : cache'[s] = NoObject
  /\ \A p \in Proc : proc'[p] = Idle /\ proc[p].pc \notin Reliable

(* No ID is used before it is handed out. *)
Fresh == \A i \in ID : nlb[i].live => i <= lastNLB

LEMMA Steps ==
  ASSUME TypeOK, Fresh, [Next]_vars
  PROVE  \/ \E s \in Service : ObjectStep(s)
         \/ \E p \in Proc : Update(p)
         \/ \E s \in Service : Withdraw(s)
         \/ Drifts \/ Restarts
<1>u. ASSUME NEW p \in Proc, UpdateStep(p) PROVE Update(p)
  BY <1>u, UpdateSummary DEF Update
<1>w. ASSUME NEW s \in Service, WithdrawStep(s) PROVE Withdraw(s)
  BY <1>w, WithdrawSummary DEF Withdraw
<1>1. ASSUME NEW s \in Service, ServiceStep(s)
      PROVE  ObjectStep(s) \/ Update(<<s, "svc">>) \/ Withdraw(s)
  <2>1. CASE AddFinalizer(s) BY <2>1, FinalizingStep DEF ObjectStep
  <2>2. CASE ResolveExternal(s) \/ InferPool(s) \/ AdoptLoadBalancer(s)
    BY <2>2, PatchingStep DEF ObjectStep
  <2>3. CASE Fetch(s) BY <2>3, FetchingStep DEF ObjectStep
  <2>4. CASE CreateLoadBalancer(s) BY <2>4, CreatingStep DEF ObjectStep, Fresh
  <2>5. CASE EnsureReturns(s) \/ RemoveFinalizer(s) \/ ForgetService(s)
    BY <2>5, ReturningStep DEF ObjectStep
  <2>6. CASE WithdrawStep(s) BY <2>6, <1>w
  <2>7. CASE UpdateStep(<<s, "svc">>) BY <2>7, <1>u, Processes
  <2> QED BY <1>1, <2>1, <2>2, <2>3, <2>4, <2>5, <2>6, <2>7 DEF ServiceStep, WithdrawStep
<1>2. ASSUME NEW s \in Service, NodeStep(s) PROVE ObjectStep(s) \/ Update(<<s, "node">>)
  BY <1>2, <1>u, ControllerSteps, Processes DEF NodeStep, ObjectStep
<1>3. ASSUME NEW s \in Service,
             SyncService(s) \/ Deliver(s) \/ NodeSync(s) \/ UserCreates(s) \/ UserEdits(s) \/ UserDeletes(s)
      PROVE  ObjectStep(s)
  BY <1>3, SyncingStep, ControllerSteps, SubmittingStep DEF ObjectStep
<1>4. CASE ClusterChanges BY <1>4 DEF ClusterChanges, Drifts, k8s, cloud
<1>5. CASE CloudDeletes BY <1>5 DEF CloudDeletes, Drifts, k8s
<1>6. CASE Crash
  <2>1. UNCHANGED api /\ UNCHANGED cloud /\ lister' = api BY <1>6 DEF Crash
  <2>2. \A s \in Service : cache'[s] = NoObject BY <1>6 DEF Crash
  <2>3. \A p \in Proc : proc'[p] = Idle /\ proc[p].pc \notin Reliable BY <1>6 DEF Crash
  <2>4. crashes' = crashes + 1 BY <1>6 DEF Crash
  <2> QED BY <2>1, <2>2, <2>3, <2>4 DEF Restarts
<1>7. CASE UNCHANGED vars BY <1>7 DEF vars, k8s, cloud, Drifts
<1> QED BY <1>1, <1>2, <1>3, <1>4, <1>5, <1>6, <1>7, Processes DEF Next, Environment

-----------------------------------------------------------------------------
(* The copies of a Service *)

(* m is what a user of s submitted, but for what the provider patches. *)
Submitted(s, m) == \E n \in Manifests[s] : Alike(m, n)

Genuine(s, o) ==
  IF o.phase \in {"live", "deleting"} THEN Submitted(s, o.m) ELSE o.m = NoManifest

Copies(s) ==
  /\ Genuine(s, api[s]) /\ Genuine(s, lister[s]) /\ Genuine(s, cache[s])
  /\ cache[s].phase # "gone"
  /\ proc[<<s, "svc">>].pc # "idle" => cache[s].phase # "none"
  /\ \A k \in {"svc", "node"} :
       LET q == proc[<<s, k>>] IN q = Idle \/ (q.pc # "idle" /\ Submitted(s, q.m))

(* Every copy of a Service, in the API server, the informer, the cache and  *)
(* the hands of a process, is of a manifest that a user submitted for it.   *)
CopiesInv ==
  /\ TypeOK /\ Fresh /\ lastNLB >= Provisioned
  /\ \A s \in Service : Copies(s)

(* What a call other than a deletion leaves of the NLBs. *)
LEMMA CallsKeep ==
  ASSUME TypeOK, NEW p \in Proc, Calls(p)
  PROVE  /\ \A j \in ID : nlb'[j].live = nlb[j].live
         /\ \A j \in ID : j # proc[p].m.id => nlb'[j] = nlb[j]
         /\ \A j \in ID :
              \/ nlb'[j].name = nlb[j].name
              \/ /\ proc[p].pc = "top" /\ j = proc[p].m.id
                 /\ nlb'[j].name = GetLoadBalancerName(p[1], proc[p].m)
<1> DEFINE i == proc[p].m.id
<1>0. nlb \in [ID -> NLB] BY DEF TypeOK
<1>1. CASE nlb' = nlb BY <1>1
<1>2. CASE Live(i) /\ Renames(p)
  <2>1. nlb' = [nlb EXCEPT ![i].name = GetLoadBalancerName(p[1], proc[p].m), ![i].desc = proc[p].cdesc]
        /\ i \in ID /\ proc[p].pc = "top"
    BY <1>2 DEF Renames, Live
  <2> QED BY <1>0, <2>1 DEF NLB
<1>3. ASSUME NEW X, nlb' = [nlb EXCEPT ![i].svcs = X], i \in ID
      PROVE  /\ \A j \in ID : nlb'[j].live = nlb[j].live /\ nlb'[j].name = nlb[j].name
             /\ \A j \in ID : j # i => nlb'[j] = nlb[j]
  BY <1>0, <1>3 DEF NLB
<1>4. CASE Live(i) /\ (Removes(p) \/ Alters(p) \/ Adds(p))
  <2>1. \E X : nlb' = [nlb EXCEPT ![i].svcs = X]
    BY <1>4 DEF Removes, Alters, Adds, Without, With, Updated
  <2> QED BY <1>3, <1>4, <2>1 DEF Live
<1> QED BY <1>1, <1>2, <1>4 DEF Calls

(* The manifests of what is alike are submitted together. *)
LEMMA SubmittedAlike ==
  ASSUME NEW s \in Service, NEW m, NEW n, Alike(n, m), Submitted(s, m)
  PROVE  Submitted(s, n)
  BY DEF Submitted, Alike

LEMMA InitCopies == Init => CopiesInv
<1> SUFFICES ASSUME Init PROVE CopiesInv OBVIOUS
<1>1. TypeOK BY InitType
<1>2. Fresh /\ lastNLB >= Provisioned
  BY BoundsAssumption DEF Init, Fresh, NoNLB, ID
<1>3. ASSUME NEW s \in Service PROVE Copies(s)
  BY <1>3, Processes DEF Init, Copies, Genuine, NoObject, Idle
<1> QED BY <1>1, <1>2, <1>3 DEF CopiesInv

(* What concerns s does not change. *)
Same(s) ==
  /\ api'[s] = api[s] /\ lister'[s] = lister[s] /\ cache'[s] = cache[s]
  /\ proc'[<<s, "svc">>] = proc[<<s, "svc">>] /\ proc'[<<s, "node">>] = proc[<<s, "node">>]

(* A step of one Service leaves the others alone. *)
LEMMA LocalSame ==
  ASSUME NEW s \in Service, NEW t \in Service, s # t, Local(t)
  PROVE  Same(s)
  BY Processes DEF Local, Same

(* The copies stay copies when the object step is one of s. *)
LEMMA CopiesObject ==
  ASSUME TypeOK, NEW s \in Service, ObjectStep(s), Copies(s)
  PROVE  Copies(s)'
<1> DEFINE p == <<s, "svc">>
           d == <<s, "node">>
<1>0. p \in Proc /\ d \in Proc /\ p # d BY Processes
<1>1. CASE Finalizing(s)
  BY <1>0, <1>1 DEF Finalizing, Copies, Genuine, Others, Becomes, AfterFinal, AfterResolve, Idle, Submitted
<1>2. CASE Patching(s)
  <2> DEFINE q == proc[p]
             nid == IF q.pc = "adopt" THEN NoID ELSE q.nid
  <2>1. PICK m, found :
          /\ Value(q, found, m)
          /\ cache' = cache \/ RememberedAs(s, m)
          /\ api' = api \/ (Exists(s) /\ PatchedTo(s, m))
          /\ Becomes(q, proc'[p], AfterPatch(q, m), m, nid) \/ proc'[p] = Idle
    BY <1>2 DEF Patching
  <2>2. q.pc \in {"resolve", "pool", "adopt"} /\ UNCHANGED lister /\ proc'[d] = proc[d]
    BY <1>0, <1>2 DEF Patching, Others
  <2>3. Submitted(s, q.m) /\ cache[s].phase \in {"live", "deleting"}
    <3>1. cache[s].phase \in {"none", "live", "deleting", "gone"} BY DEF TypeOK, Object
    <3> QED BY <2>2, <3>1 DEF Copies, Idle
  <2>4. Submitted(s, m) BY <2>1, <2>3, SubmittedAlike DEF Value
  <2>5. AfterPatch(q, m) # "idle" BY <2>2 DEF AfterPatch, AfterResolve
  <2>6. Genuine(s, api[s])'
    <3>1. CASE api' = api BY <3>1 DEF Copies, Genuine, Submitted
    <3>2. CASE Exists(s) /\ PatchedTo(s, m)
      BY <3>2, SubmittedAlike DEF Copies, Genuine, PatchedTo, Exists
    <3> QED BY <2>1, <3>1, <3>2
  <2>7. Genuine(s, cache[s])' /\ cache'[s].phase = cache[s].phase
    BY <2>1, <2>3, <2>4 DEF Copies, Genuine, RememberedAs
  <2>8. proc'[p] = Idle \/ (proc'[p].pc # "idle" /\ Submitted(s, proc'[p].m))
    BY <2>1, <2>4, <2>5 DEF Becomes
  <2> QED BY <2>2, <2>3, <2>6, <2>7, <2>8 DEF Copies, Genuine, Submitted
<1>3. CASE Fetching(s)
  BY <1>0, <1>3 DEF Fetching, Copies, Genuine, Others, Becomes, Idle, Submitted
<1>4. CASE Creating(s)
  BY <1>0, <1>4 DEF Creating, Copies, Genuine, Others, Becomes, Idle, Submitted
<1>5. CASE Returning(s)
  BY <1>0, <1>5 DEF Returning, Copies, Genuine, Others, Idle, Submitted
<1>6. CASE Unfinalizing(s)
  BY <1>0, <1>6 DEF Unfinalizing, Copies, Genuine, Others, Idle, Submitted, NoObject
<1>7. CASE Forgetting(s)
  BY <1>0, <1>7 DEF Forgetting, Copies, Genuine, Others, Idle, Submitted, NoObject
<1>8. CASE Syncing(s)
  <2>1. cache[s].phase \in {"none", "live", "deleting", "gone"} BY DEF TypeOK, Object
  <2> QED BY <1>0, <1>8, <2>1 DEF Syncing, Copies, Genuine, Others, Starts, AfterFinal, AfterResolve, Idle, Submitted
<1>9. CASE Delivering(s)
  BY <1>0, <1>9 DEF Delivering, Copies, Genuine, Submitted
<1>10. CASE NodeSyncing(s)
  <2>1. cache[s].phase \in {"none", "live", "deleting", "gone"} BY DEF TypeOK, Object
  <2> QED BY <1>0, <1>10, <2>1 DEF NodeSyncing, Copies, Genuine, Others, Starts, Idle, Submitted
<1>11. CASE NodeReturning(s)
  BY <1>0, <1>11 DEF NodeReturning, Copies, Genuine, Others, Idle, Submitted
<1>12. CASE Submitting(s)
  <2>1. UNCHANGED <<lister, cache, proc>> BY <1>12 DEF Submitting
  <2>2. Genuine(s, api[s])' BY <1>12 DEF Submitting, Copies, Genuine, Submitted, Alike
  <2> QED BY <2>1, <2>2 DEF Copies, Genuine, Submitted
<1> QED BY <1>1, <1>2, <1>3, <1>4, <1>5, <1>6, <1>7, <1>8, <1>9, <1>10, <1>11, <1>12 DEF ObjectStep

LEMMA NextCopies == CopiesInv /\ [Next]_vars => CopiesInv'
<1> SUFFICES ASSUME CopiesInv, [Next]_vars PROVE CopiesInv' OBVIOUS
<1>t. TypeOK /\ TypeOK' /\ Fresh /\ CloudOK BY NextType, TypeParts DEF CopiesInv
<1>s. ASSUME NEW s \in Service, Same(s) PROVE Copies(s)'
  BY <1>s DEF CopiesInv, Copies, Same, Genuine, Submitted
<1>d. ASSUME NEW i \in ID, nlb' = [nlb EXCEPT ![i] = NoNLB]
      PROVE  \A j \in ID : nlb'[j].live => nlb[j].live
  BY <1>d, <1>t DEF CloudOK, NoNLB
<1>k. ASSUME NEW p \in Proc, Calls(p) \/ Destroys(p), UNCHANGED lastNLB
      PROVE  Fresh' /\ lastNLB' >= Provisioned
  <2>1. CASE Calls(p) BY <1>k, <1>t, <2>1, CallsKeep DEF Fresh, CopiesInv
  <2>2. CASE Destroys(p) BY <1>k, <1>t, <1>d, <2>2 DEF Destroys, Live, Fresh, CopiesInv
  <2> QED BY <1>k, <2>1, <2>2
<1>1. ASSUME NEW s \in Service, ObjectStep(s) PROVE CopiesInv'
  <2>1. ASSUME NEW t \in Service PROVE Copies(t)'
    <3>1. CASE t = s BY <1>1, <1>t, <3>1, CopiesObject DEF CopiesInv
    <3>2. CASE t # s BY <1>1, <1>s, <3>2, LocalSame DEF ObjectStep
    <3> QED BY <3>1, <3>2
  <2>2. Fresh' /\ lastNLB' >= Provisioned
    <3>1. CASE UNCHANGED cloud BY <3>1 DEF cloud, CopiesInv, Fresh
    <3>2. CASE Creating(s)
      <4>1. CASE UNCHANGED <<nlb, lastNLB>> BY <4>1 DEF CopiesInv, Fresh
      <4>2. CASE lastNLB' = lastNLB + 1 /\ \E n : nlb' = [nlb EXCEPT ![lastNLB + 1] = n]
        BY <1>t, <4>2, BoundsAssumption DEF CopiesInv, Fresh, CloudOK, ID
      <4> QED BY <3>2, <4>1, <4>2 DEF Creating
    <3>3. UNCHANGED cloud \/ Creating(s)
      BY <1>1 DEF ObjectStep, Finalizing, Patching, Fetching, Returning, Unfinalizing, Forgetting,
                  Syncing, Delivering, NodeSyncing, NodeReturning, Submitting
    <3> QED BY <3>1, <3>2, <3>3
  <2> QED BY <1>t, <2>1, <2>2 DEF CopiesInv
<1>2. ASSUME NEW p \in Proc, Update(p) PROVE CopiesInv'
  <2>1. Fresh' /\ lastNLB' >= Provisioned BY <1>2, <1>k DEF Update
  <2>2. ASSUME NEW s \in Service PROVE Copies(s)'
    <3>1. /\ UNCHANGED <<api, lister, cache>> /\ Others(p)
          /\ proc[p].pc # "idle"
          /\ proc'[p] = Idle \/ (proc'[p].pc # "idle" /\ proc'[p].m = proc[p].m)
      BY <1>2 DEF Update, Advances, Updating
    <3>2. Copies(s) BY DEF CopiesInv
    <3>3. p \in {<<s, "svc">>, <<s, "node">>} \/ Same(s)
      BY <3>1, Processes DEF Others, Same
    <3> QED BY <1>s, <3>1, <3>2, <3>3, Processes DEF Copies, Genuine, Submitted, Others, Idle
  <2> QED BY <1>t, <2>1, <2>2 DEF CopiesInv
<1>3. ASSUME NEW s \in Service, Withdraw(s) PROVE CopiesInv'
  <2> DEFINE p == <<s, "svc">>
  <2>0. p \in Proc BY Processes
  <2>1. Fresh' /\ lastNLB' >= Provisioned BY <1>3, <1>k, <2>0 DEF Withdraw
  <2>2. /\ UNCHANGED <<api, lister, cache>> /\ Others(p)
        /\ proc[p].pc # "idle" /\ (proc'[p] = Idle \/ Withdraws(p, proc'[p]))
    BY <1>3 DEF Withdraw
  <2>3. proc'[p] = Idle \/ (proc'[p].pc # "idle" /\ proc'[p].m = proc[p].m)
    <3>1. proc[p].end \in {"unfinal", "forget"} BY <1>t, <2>0 DEF TypeOK, Process
    <3> QED BY <2>2, <3>1 DEF Withdraws, AfterPrune
  <2>4. ASSUME NEW t \in Service PROVE Copies(t)'
    <3>1. CASE t # s BY <1>s, <2>2, <3>1, Processes DEF Others, Same
    <3>2. CASE t = s
      <4>1. proc'[<<s, "node">>] = proc[<<s, "node">>] BY <2>2, Processes DEF Others
      <4>2. Copies(s) BY DEF CopiesInv
      <4> QED BY <2>2, <2>3, <3>2, <4>1, <4>2 DEF Copies, Genuine, Submitted, Idle
    <3> QED BY <3>1, <3>2
  <2> QED BY <1>t, <2>1, <2>4 DEF CopiesInv
<1>4. CASE Drifts
  <2>1. \A s \in Service : Copies(s)' BY <1>4, <1>s DEF Drifts, Same
  <2>2. Fresh' /\ lastNLB' >= Provisioned BY <1>4, <1>t, <1>d DEF Drifts, Fresh, CopiesInv
  <2> QED BY <1>t, <2>1, <2>2 DEF CopiesInv
<1>5. CASE Restarts
  <2>1. ASSUME NEW s \in Service PROVE Copies(s)'
    <3>1. /\ api'[s] = api[s] /\ lister'[s] = api[s] /\ cache'[s] = NoObject
          /\ proc'[<<s, "svc">>] = Idle /\ proc'[<<s, "node">>] = Idle
      BY <1>5, Processes DEF Restarts
    <3>2. Genuine(s, api[s]) BY DEF CopiesInv, Copies
    <3> QED BY <3>1, <3>2 DEF Copies, Genuine, Submitted, NoObject, Idle
  <2>2. Fresh' /\ lastNLB' >= Provisioned BY <1>5 DEF Restarts, cloud, Fresh, CopiesInv
  <2> QED BY <1>t, <2>1, <2>2 DEF CopiesInv
<1> QED BY <1>1, <1>2, <1>3, <1>4, <1>5, <1>t, Steps

-----------------------------------------------------------------------------
(* The plans of the processes *)

(* A process is there before it has read the NLB and planned. *)
Planless ==
  {"idle", "final", "resolve", "pool", "fetch", "create", "adopt", "get", "exists", "delfetch"}

NoPlan(r) == r.prune = {} /\ r.todo = {} /\ r.doing = {}

(* The ports that a user of s may ever have wanted. *)
Ports(s) == UNION {m.ports : m \in Manifests[s]}

(* What becomes of a process in a step. *)
Proceeds(p) ==
  LET q == proc[p]
      r == proc'[p]
  IN  \/ r = q
      \/ r.pc \in Planless \cup {"forget"} /\ NoPlan(r)
      \/ /\ q.pc \in Planless /\ r.pc \in Planless
         /\ r.prune = q.prune /\ r.todo = q.todo /\ r.doing = q.doing
      \/ Update(p) /\ Advances(p, r)
      \/ \E s \in Service : p = <<s, "svc">> /\ Withdraw(s) /\ Withdraws(p, r)

LEMMA ProcessStep ==
  ASSUME TypeOK, Fresh, [Next]_vars, NEW p \in Proc
  PROVE  Proceeds(p)
<1>i. Idle.pc = "idle" /\ NoPlan(Idle) /\ "idle" \in Planless BY DEF Idle, NoPlan, Planless
<1>a. \A m : AfterResolve(m) \in {"pool", "fetch"} /\ AfterFinal(m) \in {"resolve", "pool", "fetch"}
  BY DEF AfterResolve, AfterFinal
<1>b. ASSUME NEW q, NEW r, NEW pc, NEW m, NEW nid, Becomes(q, r, pc, m, nid)
      PROVE  r.pc = pc /\ r.prune = q.prune /\ r.todo = q.todo /\ r.doing = q.doing
  BY <1>b DEF Becomes
<1>c. ASSUME NEW r, NEW pc, NEW m, NEW end, Starts(r, pc, m, end) PROVE r.pc = pc /\ NoPlan(r)
  BY <1>c DEF Starts, NoPlan
<1>1. ASSUME NEW s \in Service, ObjectStep(s) PROVE Proceeds(p)
  <2>0. p = <<s, "svc">> \/ p = <<s, "node">> \/ proc'[p] = proc[p]
    BY <1>1, Processes DEF ObjectStep, Local, Proc
  <2>1. CASE Finalizing(s)
    BY <1>a, <1>b, <1>i, <2>1 DEF Finalizing, Others, Proceeds, Planless
  <2>2. CASE Patching(s)
    <3> DEFINE q == proc[<<s, "svc">>]
    <3>1. q.pc \in {"resolve", "pool", "adopt"} /\ Others(<<s, "svc">>) BY <2>2 DEF Patching
    <3>2. \/ proc'[<<s, "svc">>] = Idle
          \/ \E m, nid : Becomes(q, proc'[<<s, "svc">>], AfterPatch(q, m), m, nid)
      BY <2>2 DEF Patching
    <3>3. \A m : AfterPatch(q, m) \in {"pool", "fetch", "get"} BY <1>a, <3>1 DEF AfterPatch
    <3> QED BY <1>b, <1>i, <3>1, <3>2, <3>3 DEF Others, Proceeds, Planless
  <2>3. CASE Fetching(s) BY <1>b, <1>i, <2>3 DEF Fetching, Others, Proceeds, Planless
  <2>4. CASE Creating(s) BY <1>b, <1>i, <2>4 DEF Creating, Others, Proceeds, Planless
  <2>5. CASE Returning(s) \/ Unfinalizing(s) \/ Forgetting(s) \/ NodeReturning(s)
    BY <1>i, <2>5 DEF Returning, Unfinalizing, Forgetting, NodeReturning, Others, Proceeds
  <2>6. CASE Syncing(s) BY <1>a, <1>c, <1>i, <2>6 DEF Syncing, Others, Proceeds, Planless
  <2>7. CASE NodeSyncing(s) BY <1>c, <2>7 DEF NodeSyncing, Others, Proceeds, Planless
  <2>8. CASE Delivering(s) \/ Submitting(s) BY <2>8 DEF Delivering, Submitting, Proceeds
  <2> QED BY <1>1, <2>1, <2>2, <2>3, <2>4, <2>5, <2>6, <2>7, <2>8 DEF ObjectStep
<1>2. ASSUME NEW q \in Proc, Update(q) PROVE Proceeds(p)
  BY <1>2, <1>i DEF Update, Others, Proceeds
<1>3. ASSUME NEW s \in Service, Withdraw(s) PROVE Proceeds(p)
  BY <1>3, <1>i DEF Withdraw, Others, Proceeds
<1>4. CASE Drifts BY <1>4 DEF Drifts, Proceeds
<1>5. CASE Restarts BY <1>5, <1>i DEF Restarts, Proceeds
<1> QED BY <1>1, <1>2, <1>3, <1>4, <1>5, Steps

(* A process wants ports of its Service only; of an external NLB, it never  *)
(* prunes what no port matches; a deletion takes what is on those ports.    *)
Plans(p) ==
  LET q == proc[p]
  IN  /\ q.pc \in Planless => NoPlan(q)
      /\ \A t \in q.todo \cup q.doing : t.want.key \in Ports(p[1])
      /\ q.pc = "delprune" => \A x \in q.prune : x.key \in Ports(p[1])
      /\ q.pc \in Updating /\ q.m.ext => q.prune = {}

PlansInv == CopiesInv /\ \A p \in Proc : Plans(p)

(* What a process that is at work works on was submitted for its Service. *)
LEMMA WorkSubmitted ==
  ASSUME CopiesInv, NEW p \in Proc, proc[p].pc # "idle"
  PROVE  Submitted(p[1], proc[p].m) /\ proc[p].m.ports \subseteq Ports(p[1])
<1>1. PICK s \in Service, k \in {"svc", "node"} : p = <<s, k>> BY DEF Proc
<1>2. Copies(s) /\ Idle.pc = "idle" BY DEF CopiesInv, Idle
<1>3. Submitted(s, proc[p].m) BY <1>1, <1>2 DEF Copies
<1> QED BY <1>1, <1>3 DEF Submitted, Alike, Ports

(* The tasks are for the ports of the Service. *)
LEMMA TaskKeys ==
  ASSUME NEW s, NEW m, NEW cur, NEW t \in Tasks(s, m, cur)
  PROVE  t.want \in Wanted(s, m) /\ t.want.key \in m.ports
<1>1. t.want \in Wanted(s, m) BY DEF Tasks
<1> QED BY <1>1 DEF Wanted

LEMMA NextPlans == PlansInv /\ [Next]_vars => PlansInv'
<1> SUFFICES ASSUME PlansInv, [Next]_vars, NEW p \in Proc PROVE Plans(p)'
  BY NextCopies DEF PlansInv
<1> DEFINE q == proc[p]
           r == proc'[p]
<1>0. CopiesInv /\ TypeOK /\ Fresh /\ Plans(p) BY DEF PlansInv, CopiesInv
<1>1. CASE r = q BY <1>0, <1>1 DEF Plans, NoPlan
<1>2. CASE r.pc \in Planless \cup {"forget"} /\ NoPlan(r)
  BY <1>2 DEF Plans, NoPlan, Planless, Updating
<1>3. CASE /\ q.pc \in Planless /\ r.pc \in Planless
           /\ r.prune = q.prune /\ r.todo = q.todo /\ r.doing = q.doing
  BY <1>0, <1>3 DEF Plans, NoPlan, Planless, Updating
<1>4. CASE Update(p) /\ Advances(p, r)
  <2>1. /\ r.m = q.m /\ r.pc \in Updating \cup {"done"} /\ Planned(p, r)
        /\ q.pc \in Updating \cup {"get"}
    BY <1>4 DEF Advances, Update
  <2>2. q.m.ports \subseteq Ports(p[1]) BY <1>0, <2>1, WorkSubmitted DEF Updating
  <2>3. CASE q.pc = "get"
    <3>1. /\ r.prune = Stale(q.m, nlb[q.m.id]) /\ r.doing = {}
          /\ r.todo = Tasks(p[1], q.m, nlb[q.m.id])
      BY <1>0, <2>1, <2>3 DEF Planned, Updating, Plans, NoPlan, Planless
    <3>2. \A t \in r.todo \cup r.doing : t.want.key \in Ports(p[1])
      BY <2>2, <3>1, TaskKeys
    <3>3. r.m.ext => r.prune = {} BY <2>1, <3>1 DEF Stale
    <3> QED BY <2>1, <3>2, <3>3 DEF Plans, NoPlan, Planless, Updating
  <2>4. CASE q.pc \in Updating
    <3>1. /\ r.prune \subseteq q.prune /\ r.todo \subseteq q.todo
          /\ r.doing \subseteq q.todo \cup q.doing
      BY <2>1, <2>4 DEF Planned, Updating
    <3> QED BY <1>0, <2>1, <2>4, <3>1 DEF Plans, NoPlan, Planless, Updating
  <2> QED BY <2>1, <2>3, <2>4
<1>5. CASE \E s \in Service : p = <<s, "svc">> /\ Withdraw(s) /\ Withdraws(p, r)
  <2>1. /\ q.pc \in {"exists", "delfetch", "delprune", "dellb"} /\ Withdraws(p, r)
        /\ q.end \in {"unfinal", "forget"}
    BY <1>0, <1>5 DEF Withdraw, TypeOK, Process
  <2>2. r.m = q.m /\ r.todo = q.todo /\ r.doing = q.doing BY <2>1 DEF Withdraws
  <2>3. q.m.ports \subseteq Ports(p[1]) BY <1>0, <2>1, WorkSubmitted
  <2>4. /\ r.pc \in {"delfetch", "delprune", "dellb", "unfinal", "forget"}
        /\ r.pc = "delfetch" => q.pc = "exists" /\ r.prune = q.prune
        /\ r.pc = "delprune" => \/ r.prune = {x \in nlb[q.m.id].svcs : x.key \in q.m.ports}
                                \/ q.pc = "delprune" /\ r.prune \subseteq q.prune
    BY <2>1 DEF Withdraws, AfterPrune
  <2> QED BY <1>0, <2>1, <2>2, <2>3, <2>4 DEF Plans, NoPlan, Planless, Updating
<1> QED BY <1>0, <1>1, <1>2, <1>3, <1>4, <1>5, ProcessStep DEF Proceeds

LEMMA InitPlans == Init => PlansInv
<1> SUFFICES ASSUME Init, NEW p \in Proc PROVE Plans(p) BY InitCopies DEF PlansInv
<1> QED BY DEF Init, Plans, NoPlan, Idle, Updating

=============================================================================
