------------------------ MODULE CSRValidationProofs ------------------------
(***************************************************************************)
(* Proofs about the CSR validation runner, for every set of CSRs, Nodes,   *)
(* addresses and instances and all bounds: its approvals are justified and *)
(* it never overrules a decision.                                          *)
(***************************************************************************)
EXTENDS CSRValidation, TLAPS

(* An event is the CSR at some version: as long as the CSR is at that      *)
(* version, it has the condition the event has.                            *)
UpToDate(e) ==
  /\ e.ver <= csrs[e.csr].ver
  /\ e.ver = csrs[e.csr].ver => e.cond = csrs[e.csr].cond

Versions == UpToDate(event) /\ \A e \in queue : UpToDate(e) /\ e.ver > 0

(* A CSR that was not submitted has nothing. *)
Fresh == \A c \in CSR :
  csrs[c].ver = 0 => ~csrs[c].there /\ csrs[c].cond = "none" /\ ~csrs[c].ours

(* The history has the present, for the CSRs that were submitted. *)
Recorded == \A c \in Submitted :
  Elements(fleet) \subseteq since[c].insts /\ Annotations \subseteq since[c].told

(* The event being handled passed the first checks, and the instances      *)
(* listed for it are later than its CSR.                                   *)
Handling ==
  /\ pc \in {"list", "check", "approve"} =>
       /\ event.ver > 0 /\ event.cond = "none"
       /\ hasRequiredGroups(csrs[event.csr].req) /\ csrs[event.csr].req.parses
  /\ pc \in {"check", "approve"} => Elements(seen) \subseteq since[event.csr].insts

(* What an instance must have for a CSR to be approved. *)
Fits(c, inst) ==
  /\ csrs[c].req.names = {inst.name}
  /\ \A ip \in csrs[c].req.ips :
       \/ ip \in {inst.pub, inst.v6}
       \/ inst.priv /\ <<inst.name, ip>> \in since[c].told

(* A positive verdict has an instance behind it. *)
Verdicts ==
  /\ ok => pc \in {"check", "approve"}
  /\ ok => \E inst \in since[event.csr].insts : Fits(event.csr, inst)
  /\ pc = "approve" => ok

IInv == TypeOK /\ Versions /\ Fresh /\ Recorded /\ Handling /\ Verdicts /\ Justified

-----------------------------------------------------------------------------
(* The elements of a sequence of instances are instances. *)
LEMMA ElementsType ==
  ASSUME NEW s \in Seq(Instance)
  PROVE  Elements(s) \subseteq Instance
BY DEF Elements

(* An empty list, ready to be looped over. *)
LEMMA EmptyList ==
  ASSUME NEW s, s = <<>>, NEW k, k = 1
  PROVE  s \in Seq(Instance) /\ k \in 1 .. Len(s) + 1
<1>1. s \in Seq(Instance) /\ Len(s) = 0
  OBVIOUS
<1>. QED BY <1>1

LEMMA NoEventType == NoEvent \in Event /\ NoEvent.ver = 0 /\ NoEvent.cond = "none"
<1>1. (CHOOSE c \in CSR : TRUE) \in CSR
  BY CSRAssumption
<1>. QED BY <1>1 DEF NoEvent, Event, Condition

LEMMA InitIInv == Init => IInv
<1>. SUFFICES ASSUME Init PROVE IInv
  OBVIOUS
<1>1. /\ csrs \in [CSR -> Object]
      /\ \A c \in CSR : csrs[c].ver = 0 /\ ~csrs[c].there /\ csrs[c].cond = "none"
                        /\ ~csrs[c].ours
  <2>. DEFINE Blank == {[there |-> FALSE, ver |-> 0, cond |-> "none", ours |-> FALSE,
                         req |-> r] : r \in Requests}
  <2>1. csrs \in [CSR -> Blank]
    BY DEF Init
  <2>2. \A o \in Blank : /\ o \in Object
                        /\ o.ver = 0 /\ ~o.there /\ o.cond = "none" /\ ~o.ours
    <3>. SUFFICES ASSUME NEW r \in Requests,
                         NEW o, o = [there |-> FALSE, ver |-> 0, cond |-> "none",
                                     ours |-> FALSE, req |-> r]
                  PROVE  /\ o \in Object
                         /\ o.ver = 0 /\ ~o.there /\ o.cond = "none" /\ ~o.ours
      OBVIOUS
    <3>1. o \in Object
      BY DEF Object, Condition
    <3>. QED BY <3>1
  <2>. HIDE DEF Blank
  <2>. QED BY <2>1, <2>2
<1>2. TypeOK
  <2>1. since \in [CSR -> [insts: SUBSET Instance, told: SUBSET (Name \X (IP \cup {None}))]]
    BY DEF Init
  <2>2. seen \in Seq(Instance) /\ i \in 1 .. Len(seen) + 1 /\ ok \in BOOLEAN
    BY EmptyList DEF Init
  <2>. QED BY <1>1, <2>1, <2>2, NoEventType DEF Init, TypeOK
<1>3. Versions
  BY <1>1, NoEventType DEF Init, Versions, UpToDate, Event
<1>4. Fresh /\ Justified
  BY <1>1 DEF Fresh, Justified
<1>5. Recorded
  <2>1. Submitted = {}
    BY <1>1 DEF Submitted
  <2>. QED BY <2>1 DEF Recorded
<1>6. Handling /\ Verdicts
  BY DEF Init, Handling, Verdicts
<1>. QED BY <1>2, <1>3, <1>4, <1>5, <1>6 DEF IInv

-----------------------------------------------------------------------------
(* A step that leaves CSRs, cluster and history alone and resets the       *)
(* variables of the loop body keeps the invariant.                         *)
LEMMA ContinueKeeps ==
  ASSUME IInv, Continue, TypeOK',
         UNCHANGED <<csrs, fleet, provided, since>>, queue' \subseteq queue
  PROVE  IInv'
<1>1. Versions'
  <2>1. UpToDate(event)'
    BY NoEventType DEF IInv, TypeOK, Continue, UpToDate, Fresh, Event, Object
  <2>2. \A e \in queue' : (UpToDate(e))' /\ e.ver > 0
    BY DEF IInv, Versions, UpToDate
  <2>. QED BY <2>1, <2>2 DEF Versions
<1>2. Fresh' /\ Justified'
  BY DEF IInv, Fresh, Justified
<1>3. Recorded'
  BY DEF IInv, Recorded, Submitted, Annotations
<1>4. Handling' /\ Verdicts'
  BY DEF Continue, Handling, Verdicts
<1>. QED BY <1>1, <1>2, <1>3, <1>4 DEF IInv

(* So does one that leaves those and the loop body's variables alone, as   *)
(* long as the runner stays where it is or is between two events.          *)
LEMMA LoopKeeps ==
  ASSUME IInv, TypeOK', UNCHANGED <<csrs, fleet, provided, since, work>>,
         pc' = pc \/ (pc' \in {"watch", "sleep", "select", "stopped"} /\ ~ok),
         \A e \in queue' : UpToDate(e) /\ e.ver > 0
  PROVE  IInv'
<1>1. Versions'
  BY DEF IInv, Versions, UpToDate, work
<1>2. Fresh' /\ Justified'
  BY DEF IInv, Fresh, Justified
<1>3. Recorded'
  BY DEF IInv, Recorded, Submitted, Annotations
<1>4. Handling'
  BY DEF IInv, Handling, work
<1>5. Verdicts'
  BY DEF IInv, Verdicts, Fits, work
<1>. QED BY <1>1, <1>2, <1>3, <1>4, <1>5 DEF IInv

-----------------------------------------------------------------------------
(* Types.  Reading and replacing a CSR. *)
LEMMA Obj ==
  ASSUME TypeOK, NEW c \in CSR
  PROVE  /\ csrs[c] \in Object /\ csrs[c].there \in BOOLEAN /\ csrs[c].ver \in Nat
         /\ csrs[c].cond \in Condition /\ csrs[c].ours \in BOOLEAN /\ csrs[c].req \in Requests
<1>1. csrs[c] \in Object
  BY DEF TypeOK
<1>. QED BY <1>1 DEF Object

LEMMA ObjUpdate ==
  ASSUME NEW o \in Object, NEW d \in Condition, NEW b \in BOOLEAN
  PROVE  [o EXCEPT !.cond = d, !.ours = b, !.ver = @ + 1] \in Object
         /\ [o EXCEPT !.cond = d, !.ver = @ + 1] \in Object
<1>1. o.ver + 1 \in Nat
  BY DEF Object
<1>2. [o EXCEPT !.cond = d, !.ver = @ + 1] \in Object
  BY <1>1 DEF Object
<1>3. [o EXCEPT !.cond = d, !.ours = b, !.ver = @ + 1] \in Object
  BY <1>1 DEF Object
<1>. QED BY <1>2, <1>3

LEMMA SinceType ==
  ASSUME TypeOK, NEW c \in CSR
  PROVE  /\ since[c].insts \subseteq Instance
         /\ since[c].told \subseteq Name \X (IP \cup {None})
         /\ since[c] = [insts |-> since[c].insts, told |-> since[c].told]
BY DEF TypeOK

LEMMA EventsType ==
  ASSUME TypeOK
  PROVE  AddedEvents \subseteq Event
<1>. SUFFICES ASSUME NEW c \in CSR
              PROVE  [csr |-> c, ver |-> csrs[c].ver, cond |-> csrs[c].cond] \in Event
  BY DEF AddedEvents
<1>. QED BY Obj DEF Event

LEMMA ContinueType ==
  ASSUME Continue
  PROVE  /\ pc' \in {"watch", "sleep", "select", "list", "check", "approve", "stopped"}
         /\ event' \in Event /\ seen' \in Seq(Instance) /\ i' \in 1 .. Len(seen') + 1
         /\ ok' \in BOOLEAN
<1>1. seen' \in Seq(Instance) /\ i' \in 1 .. Len(seen') + 1
  BY EmptyList DEF Continue
<1>. QED BY <1>1, NoEventType DEF Continue

LEMMA CallType ==
  ASSUME TypeOK, CallFails \/ CallSucceeds
  PROVE  faults' \in Nat
BY DEF TypeOK, CallFails, CallSucceeds

LEMMA TypeStep == TypeOK /\ [Next]_vars => TypeOK'
<1>. SUFFICES ASSUME TypeOK, [Next]_vars PROVE TypeOK'
  OBVIOUS
<1>. USE DEF cluster, work, counters
<1>1. ASSUME NEW c \in CSR, Submit(c) PROVE TypeOK'
  <2>1. csrs' \in [CSR -> Object]
    <3>1. [csrs[c] EXCEPT !.there = TRUE, !.ver = 1] \in Object
      BY Obj DEF Object
    <3>. QED BY <1>1, <3>1 DEF Submit, TypeOK
  <2>2. queue' \subseteq Event
    <3>1. [csr |-> c, ver |-> 1, cond |-> "none"] \in Event
      BY DEF Event, Condition
    <3>. QED BY <1>1, <3>1 DEF Submit, TypeOK
  <2>3. since' \in [CSR -> [insts: SUBSET Instance, told: SUBSET (Name \X (IP \cup {None}))]]
    <3>1. Elements(fleet) \subseteq Instance
      BY ElementsType, CSRAssumption DEF TypeOK
    <3>2. Annotations \subseteq Name \X (IP \cup {None})
      BY DEF Annotations, TypeOK
    <3>. QED BY <1>1, <3>1, <3>2 DEF Submit, TypeOK
  <2>. QED BY <1>1, <2>1, <2>2, <2>3 DEF Submit, TypeOK
<1>2. ASSUME NEW c \in CSR, Decide(c) PROVE TypeOK'
  <2>1. PICK d \in {"approved", "denied"} :
          csrs' = [csrs EXCEPT ![c].cond = d, ![c].ver = @ + 1]
    BY <1>2 DEF Decide
  <2>2. [csrs[c] EXCEPT !.cond = d, !.ver = @ + 1] \in Object
    BY Obj, ObjUpdate DEF Condition
  <2>3. csrs' \in [CSR -> Object]
    BY <2>1, <2>2 DEF TypeOK
  <2>. QED BY <1>2, <2>3 DEF Decide, TypeOK
<1>3. ASSUME NEW c \in CSR, Touch(c) PROVE TypeOK'
  <2>1. [csrs[c] EXCEPT !.ver = @ + 1] \in Object
    BY Obj DEF Object
  <2>. QED BY <1>3, <2>1 DEF Touch, TypeOK
<1>4. ASSUME NEW c \in CSR, Delete(c) PROVE TypeOK'
  <2>1. [csrs[c] EXCEPT !.there = FALSE] \in Object
    BY Obj DEF Object
  <2>. QED BY <1>4, <2>1 DEF Delete, TypeOK
<1>5. ASSUME NEW n \in Name, Annotate(n) PROVE TypeOK'
  <2>1. PICK ip \in IP \cup {None} : provided' = [provided EXCEPT ![n] = ip]
    BY <1>5 DEF Annotate
  <2>2. provided' \in [Name -> IP \cup {None}]
    BY <2>1 DEF TypeOK
  <2>3. ASSUME NEW c \in CSR
        PROVE  [since[c] EXCEPT !.told = @ \cup {<<n, provided'[n]>>}]
                 \in [insts: SUBSET Instance, told: SUBSET (Name \X (IP \cup {None}))]
    BY <2>2, SinceType DEF TypeOK
  <2>4. since' \in [CSR -> [insts: SUBSET Instance, told: SUBSET (Name \X (IP \cup {None}))]]
    BY <1>5, <2>3 DEF Annotate, TypeOK
  <2>5. /\ changes' = changes + 1
        /\ UNCHANGED <<csrs, fleet, cancelled, pc, open, queue, work, touches, faults>>
    BY <1>5 DEF Annotate
  <2>. QED BY <2>2, <2>4, <2>5 DEF TypeOK
<1>6. ASSUME ChangeFleet PROVE TypeOK'
  <2>1. fleet' \in Fleets /\ Elements(fleet') \subseteq Instance
    BY <1>6, ElementsType, CSRAssumption DEF ChangeFleet
  <2>3. ASSUME NEW c \in CSR
        PROVE  [since[c] EXCEPT !.insts = @ \cup Elements(fleet')]
                 \in [insts: SUBSET Instance, told: SUBSET (Name \X (IP \cup {None}))]
    BY <2>1, SinceType DEF TypeOK
  <2>4. since' \in [CSR -> [insts: SUBSET Instance, told: SUBSET (Name \X (IP \cup {None}))]]
    BY <1>6, <2>3 DEF ChangeFleet, TypeOK
  <2>. QED BY <1>6, <2>1, <2>4 DEF ChangeFleet, TypeOK
<1>7. ASSUME Cancel \/ CloseWatch PROVE TypeOK'
  BY <1>7 DEF Cancel, CloseWatch, TypeOK
<1>8. ASSUME LoseWatch PROVE TypeOK'
  BY <1>8, CallType DEF LoseWatch, TypeOK
<1>9. ASSUME Watch PROVE TypeOK'
  BY <1>9, CallType, EventsType DEF Watch, TypeOK
<1>10. ASSUME Wake \/ Stop \/ ChannelClosed PROVE TypeOK'
  BY <1>10 DEF Wake, Stop, ChannelClosed, TypeOK
<1>11. ASSUME Receive PROVE TypeOK'
  BY <1>11, ContinueType DEF Receive, TypeOK
<1>12. ASSUME ListInstances PROVE TypeOK'
  <2>1. faults' \in Nat
    BY <1>12, CallType DEF ListInstances
  <2>2. CASE Continue
    BY <1>12, <2>1, <2>2, ContinueType DEF ListInstances, TypeOK
  <2>3. CASE seen' = fleet /\ i' = 1 /\ ok' = FALSE /\ pc' = "check" /\ UNCHANGED event
    <3>1. seen' \in Seq(Instance)
      BY <2>3, CSRAssumption DEF TypeOK
    <3>2. i' \in 1 .. Len(seen') + 1
      BY <2>3, <3>1
    <3>. QED BY <1>12, <2>1, <2>3, <3>1, <3>2 DEF ListInstances, TypeOK
  <2>. QED BY <1>12, <2>2, <2>3 DEF ListInstances
<1>13. ASSUME CheckInstance PROVE TypeOK'
  <2>1. faults' \in Nat
    BY <1>13, CallType DEF CheckInstance, GetNode, TypeOK
  <2>2. i' \in 1 .. Len(seen') + 1
    BY <1>13 DEF CheckInstance, TypeOK
  <2>3. ok' \in BOOLEAN
    BY <1>13 DEF CheckInstance, TypeOK
  <2>. QED BY <1>13, <2>1, <2>2, <2>3 DEF CheckInstance, TypeOK
<1>14. ASSUME Verdict PROVE TypeOK'
  BY <1>14, ContinueType DEF Verdict, TypeOK
<1>15. ASSUME UpdateApproval PROVE TypeOK'
  <2>. DEFINE c == event.csr
              approved == [csrs EXCEPT ![c].cond = "approved", ![c].ours = TRUE, ![c].ver = @ + 1]
  <2>1. c \in CSR
    BY DEF TypeOK, Event
  <2>2. [csrs[c] EXCEPT !.cond = "approved", !.ours = TRUE, !.ver = @ + 1] \in Object
    BY <2>1, Obj, ObjUpdate DEF Condition
  <2>3. approved \in [CSR -> Object]
    BY <2>1, <2>2 DEF TypeOK
  <2>4. csrs' = approved \/ csrs' = csrs
    BY <1>15 DEF UpdateApproval
  <2>5. faults' \in Nat
    BY <1>15, CallType DEF UpdateApproval
  <2>. HIDE DEF approved
  <2>. QED BY <1>15, <2>3, <2>4, <2>5, ContinueType DEF UpdateApproval, TypeOK
<1>16. CASE UNCHANGED vars
  BY <1>16 DEF vars, TypeOK
<1>. QED BY <1>1, <1>2, <1>3, <1>4, <1>5, <1>6, <1>7, <1>8, <1>9, <1>10, <1>11, <1>12,
            <1>13, <1>14, <1>15, <1>16 DEF Next, Environment, Run

-----------------------------------------------------------------------------
(* What the other members of the cluster do to a CSR keeps the invariant:  *)
(* every change of its condition is a new version.                         *)
LEMMA ObjectKeeps ==
  ASSUME IInv, TypeOK', NEW c \in CSR,
         UNCHANGED <<fleet, provided, pc, queue, work, since>>,
         \A d \in CSR \ {c} : csrs'[d] = csrs[d],
         csrs'[c].req = csrs[c].req, csrs'[c].ours = csrs[c].ours,
         csrs[c].ver > 0, csrs'[c].ver >= csrs[c].ver,
         csrs'[c].ver = csrs[c].ver => csrs'[c].cond = csrs[c].cond
  PROVE  IInv'
<1>0. TypeOK /\ event \in Event /\ queue \subseteq Event
  BY DEF IInv, TypeOK
<1>1. ASSUME NEW e \in Event, UpToDate(e) PROVE (UpToDate(e))'
  <2>1. e.csr \in CSR /\ e.ver \in Nat
    BY DEF Event
  <2>2. csrs[e.csr].ver \in Nat /\ csrs'[e.csr].ver \in Nat
    BY <1>0, <2>1, Obj DEF TypeOK, Object
  <2>. QED BY <1>1, <2>1, <2>2 DEF UpToDate
<1>2. Versions'
  BY <1>0, <1>1 DEF IInv, Versions, work, UpToDate
<1>3. ASSUME NEW d \in CSR PROVE csrs'[d].req = csrs[d].req /\ csrs'[d].ours = csrs[d].ours
  OBVIOUS
<1>4. csrs[c].ver \in Nat /\ csrs'[c].ver \in Nat
  BY <1>0, Obj DEF TypeOK, Object
<1>5. Fresh'
  BY <1>4 DEF IInv, Fresh
<1>6. Recorded'
  <2>1. Submitted' = Submitted
    BY <1>4 DEF Submitted
  <2>. QED BY <2>1 DEF IInv, Recorded, Annotations
<1>7. Handling'
  BY <1>0, <1>3 DEF IInv, Handling, work, Event
<1>8. Verdicts'
  <2>1. \A inst \in since[event.csr].insts : Fits(event.csr, inst) => (Fits(event.csr, inst))'
    BY <1>0, <1>3 DEF Fits, Event, work
  <2>. QED BY <2>1 DEF IInv, Verdicts, work, Fits
<1>9. Justified'
  BY <1>3 DEF IInv, Justified
<1>. QED BY <1>2, <1>5, <1>6, <1>7, <1>8, <1>9 DEF IInv

(* So does a change of the instances or of an annotation: the history only *)
(* grows.                                                                  *)
LEMMA ClusterKeeps ==
  ASSUME IInv, TypeOK', UNCHANGED <<csrs, pc, queue, work>>,
         \A c \in CSR : /\ since[c].insts \subseteq since'[c].insts
                        /\ since[c].told \subseteq since'[c].told,
         Recorded'
  PROVE  IInv'
<1>0. TypeOK /\ event \in Event
  BY DEF IInv, TypeOK
<1>1. Versions' /\ Fresh'
  BY DEF IInv, Versions, UpToDate, Fresh, work
<1>2. Handling'
  BY <1>0 DEF IInv, Handling, Event, work
<1>3. Verdicts'
  <2>1. \A inst \in since[event.csr].insts :
          inst \in since'[event.csr].insts /\ (Fits(event.csr, inst) => (Fits(event.csr, inst))')
    BY <1>0 DEF Fits, Event, work
  <2>. QED BY <2>1 DEF IInv, Verdicts, work, Fits
<1>4. Justified'
  BY DEF IInv, Justified
<1>. QED BY <1>1, <1>2, <1>3, <1>4 DEF IInv

-----------------------------------------------------------------------------
LEMMA SubmitKeeps ==
  ASSUME IInv, TypeOK', NEW c \in CSR, Submit(c)
  PROVE  IInv'
<1>0. TypeOK /\ event \in Event /\ queue \subseteq Event /\ csrs \in [CSR -> Object]
  BY DEF IInv, TypeOK
<1>1. /\ csrs[c].ver = 0 /\ csrs'[c].ver = 1 /\ csrs'[c].cond = "none" /\ ~csrs'[c].ours
      /\ \A d \in CSR \ {c} : csrs'[d] = csrs[d] /\ since'[d] = since[d]
      /\ csrs'[c].req = csrs[c].req
  <2>1. csrs[c].ver = 0 /\ csrs[c].cond = "none" /\ ~csrs[c].ours
    BY DEF IInv, Fresh, Submit
  <2>. QED BY <1>0, <2>1, Obj DEF Submit, TypeOK, Object
<1>2. since'[c] = [insts |-> Elements(fleet), told |-> Annotations]
  BY <1>0 DEF Submit, TypeOK
<1>3. ASSUME NEW e \in Event, UpToDate(e) PROVE (UpToDate(e))'
  <2>1. e.csr \in CSR /\ e.ver \in Nat
    BY DEF Event
  <2>. QED BY <1>1, <1>3, <2>1 DEF UpToDate
<1>4. Versions'
  <2>1. ASSUME NEW e \in queue' PROVE (UpToDate(e))' /\ e.ver > 0
    <3>1. CASE e \in queue
      BY <1>0, <1>3, <3>1 DEF IInv, Versions
    <3>2. CASE e = [csr |-> c, ver |-> 1, cond |-> "none"]
      BY <1>1, <3>2 DEF UpToDate
    <3>. QED BY <2>1, <3>1, <3>2 DEF Submit
  <2>2. event' = event /\ UpToDate(event)
    BY DEF Submit, work, IInv, Versions
  <2>3. UpToDate(event)'
    BY <1>0, <1>3, <2>2 DEF UpToDate
  <2>. QED BY <2>1, <2>3 DEF Versions
<1>5. Fresh'
  BY <1>1 DEF IInv, Fresh
<1>6. Recorded'
  BY <1>1, <1>2 DEF IInv, Recorded, Submitted, Annotations, Submit
<1>7. pc \in {"list", "check", "approve"} => event.csr # c
  BY <1>0, <1>1 DEF IInv, Handling, Versions, UpToDate, Event
<1>8. Handling'
  BY <1>0, <1>1, <1>7 DEF IInv, Handling, Submit, work, Event
<1>9. Verdicts'
  <2>1. ok => event.csr # c
    BY <1>7 DEF IInv, Verdicts
  <2>2. ok => \A inst \in since[event.csr].insts :
          /\ inst \in since'[event.csr].insts
          /\ Fits(event.csr, inst) => (Fits(event.csr, inst))'
    BY <1>0, <1>1, <2>1 DEF Fits, Event, Submit, work
  <2>. QED BY <2>2 DEF IInv, Verdicts, Submit, work, Fits
<1>10. Justified'
  BY <1>1 DEF IInv, Justified
<1>. QED BY <1>4, <1>5, <1>6, <1>8, <1>9, <1>10 DEF IInv

LEMMA CheckKeeps ==
  ASSUME IInv, TypeOK', CheckInstance
  PROVE  IInv'
<1>0. TypeOK /\ event \in Event /\ seen \in Seq(Instance) /\ i \in 1 .. Len(seen)
  BY DEF IInv, TypeOK, CheckInstance
<1>. USE DEF CheckInstance, cluster
<1>1. Versions' /\ Fresh' /\ Justified'
  BY DEF IInv, Versions, UpToDate, Fresh, Justified
<1>2. Recorded'
  BY DEF IInv, Recorded, Submitted, Annotations
<1>3. Handling'
  BY DEF IInv, Handling
<1>4. Verdicts'
  <2>. DEFINE c == event.csr  inst == seen[i]
  <2>1. c \in Submitted
    BY <1>0 DEF IInv, Handling, Versions, UpToDate, Submitted, Event, TypeOK, Object
  <2>2. inst \in since[c].insts /\ inst \in Instance
    <3>1. inst \in Elements(seen)
      BY <1>0 DEF Elements
    <3>. QED BY <1>0, <3>1 DEF IInv, Handling
  <2>3. PICK got \in BOOLEAN :
          ok' = IF csrs[c].req.names = {inst.name}
                THEN csrs[c].req.ips \subseteq NodeAddrs(inst, got) ELSE ok
    BY DEF Matches
  <2>4. ASSUME csrs[c].req.ips \subseteq NodeAddrs(inst, got), csrs[c].req.names = {inst.name}
        PROVE  Fits(c, inst)
    <3>1. inst.name \in Name
      BY <2>2 DEF Instance
    <3>2. <<inst.name, provided[inst.name]>> \in since[c].told
      BY <2>1, <3>1 DEF IInv, Recorded, Annotations
    <3>. QED BY <2>4, <3>2 DEF Fits, NodeAddrs, ProvidedIP
  <2>5. ok' => \E x \in since[c].insts : Fits(c, x)
    BY <2>2, <2>3, <2>4 DEF IInv, Verdicts
  <2>6. \A x : Fits(c, x) <=> (Fits(event.csr, x))'
    BY DEF Fits
  <2>. QED BY <2>5, <2>6 DEF Verdicts
<1>. QED BY <1>1, <1>2, <1>3, <1>4 DEF IInv

(* The CSR that is approved is the one of the event, still undecided. *)
LEMMA ApprovalCurrent ==
  ASSUME IInv, UpdateApproval
  PROVE  /\ event.csr \in CSR
         /\ \/ csrs' = csrs
            \/ /\ csrs[event.csr].cond = "none" /\ csrs[event.csr].ver > 0
               /\ csrs' = [csrs EXCEPT ![event.csr].cond = "approved", ![event.csr].ours = TRUE,
                                       ![event.csr].ver = @ + 1]
<1>1. event.csr \in CSR
  BY DEF IInv, TypeOK, Event
<1>2. event.cond = "none" /\ event.ver > 0
  BY DEF IInv, Handling, UpdateApproval
<1>3. csrs[event.csr].ver = event.ver => csrs[event.csr].cond = "none"
  BY <1>2 DEF IInv, Versions, UpToDate
<1>. QED BY <1>1, <1>2, <1>3 DEF UpdateApproval

LEMMA ApprovalKeeps ==
  ASSUME IInv, TypeOK', UpdateApproval
  PROVE  IInv'
<1>. DEFINE c == event.csr
<1>0. TypeOK /\ queue \subseteq Event /\ c \in CSR /\ csrs \in [CSR -> Object]
  BY ApprovalCurrent DEF IInv, TypeOK
<1>1. Continue /\ UNCHANGED <<fleet, provided, since, queue>>
  BY DEF UpdateApproval
<1>2. CASE csrs' = csrs
  BY <1>1, <1>2, ContinueKeeps
<1>3. CASE csrs' # csrs
  <2>1. /\ csrs[c].ver > 0 /\ csrs[c].ver \in Nat
        /\ csrs'[c].ver = csrs[c].ver + 1 /\ csrs'[c].req = csrs[c].req
        /\ \A d \in CSR \ {c} : csrs'[d] = csrs[d]
    BY <1>0, <1>3, ApprovalCurrent, Obj DEF Object
  <2>2. ASSUME NEW e \in Event, UpToDate(e) PROVE (UpToDate(e))'
    <3>1. e.csr \in CSR /\ e.ver \in Nat /\ csrs[e.csr].ver \in Nat
      BY <1>0, Obj DEF Event
    <3>. QED BY <2>1, <2>2, <3>1 DEF UpToDate
  <2>3. Fresh'
    BY <2>1 DEF IInv, Fresh
  <2>4. Versions'
    <3>1. UpToDate(event)'
      <4>1. event' = NoEvent /\ event' \in Event /\ event'.csr \in CSR
        BY <1>1, NoEventType DEF Continue, Event
      <4>2. csrs'[event'.csr] \in Object
        BY <4>1 DEF TypeOK
      <4>. QED BY <2>3, <4>1, <4>2, NoEventType DEF UpToDate, Fresh, Object
    <3>. QED BY <1>0, <1>1, <2>2, <3>1 DEF IInv, Versions, UpToDate
  <2>5. Recorded'
    <3>1. Submitted' = Submitted
      BY <1>0, <2>1 DEF Submitted
    <3>. QED BY <1>1, <3>1 DEF IInv, Recorded, Annotations
  <2>6. Handling' /\ Verdicts'
    BY <1>1 DEF Continue, Handling, Verdicts
  <2>7. Justified'
    <3>1. \E inst \in since[c].insts : Fits(c, inst)
      BY DEF IInv, Verdicts, UpdateApproval
    <3>2. hasRequiredGroups(csrs[c].req) /\ csrs[c].req.parses
      BY DEF IInv, Handling, UpdateApproval
    <3>3. ASSUME NEW d \in CSR, d # c, csrs'[d].ours
          PROVE  csrs'[d] = csrs[d] /\ since'[d] = since[d]
      BY <1>1, <2>1, <3>3
    <3>. QED BY <1>1, <2>1, <3>1, <3>2, <3>3 DEF IInv, Justified, Fits, hasRequiredGroups
  <2>. QED BY <2>3, <2>4, <2>5, <2>6, <2>7 DEF IInv
<1>. QED BY <1>2, <1>3

-----------------------------------------------------------------------------
LEMMA StepKeeps == IInv /\ [Next]_vars => IInv'
<1>. SUFFICES ASSUME IInv, [Next]_vars PROVE IInv'
  OBVIOUS
<1>0. TypeOK /\ TypeOK' /\ event \in Event /\ queue \subseteq Event
  BY TypeStep DEF IInv, TypeOK
<1>. USE DEF cluster, counters
<1>1. ASSUME NEW c \in CSR, Submit(c) PROVE IInv'
  BY <1>0, <1>1, SubmitKeeps
<1>2. ASSUME NEW c \in CSR, Decide(c) \/ Touch(c) \/ Delete(c) PROVE IInv'
  <2>1. csrs[c] \in Object /\ csrs[c].there /\ csrs[c].ver \in Nat
    BY <1>0, <1>2, Obj DEF Decide, Touch, Delete
  <2>2. csrs[c].ver > 0
    BY <2>1 DEF IInv, Fresh
  <2>3. /\ \A d \in CSR \ {c} : csrs'[d] = csrs[d]
        /\ csrs'[c].req = csrs[c].req /\ csrs'[c].ours = csrs[c].ours
        /\ csrs'[c].ver >= csrs[c].ver
        /\ csrs'[c].ver = csrs[c].ver => csrs'[c].cond = csrs[c].cond
    <3>1. CASE Decide(c)
      BY <1>0, <2>1, <3>1 DEF Decide, TypeOK, Object
    <3>2. CASE Touch(c)
      BY <1>0, <2>1, <3>2 DEF Touch, TypeOK, Object
    <3>3. CASE Delete(c)
      BY <1>0, <2>1, <3>3 DEF Delete, TypeOK, Object
    <3>. QED BY <1>2, <3>1, <3>2, <3>3
  <2>4. UNCHANGED <<fleet, provided, pc, queue, work, since>>
    BY <1>2 DEF Decide, Touch, Delete
  <2>. QED BY <1>0, <2>2, <2>3, <2>4, ObjectKeeps
<1>3. ASSUME NEW n \in Name, Annotate(n) PROVE IInv'
  <2>1. ASSUME NEW c \in CSR
        PROVE  /\ since'[c].insts = since[c].insts
               /\ since'[c].told = IF c \in Submitted
                    THEN since[c].told \cup {<<n, provided'[n]>>} ELSE since[c].told
    BY <1>0, <1>3, SinceType DEF Annotate, TypeOK
  <2>2. \A m \in Name : m # n => provided'[m] = provided[m]
    BY <1>0, <1>3 DEF Annotate, TypeOK
  <2>3. UNCHANGED <<csrs, fleet, pc, queue, work>>
    BY <1>3 DEF Annotate
  <2>4. Recorded'
    <3>. SUFFICES ASSUME NEW c \in Submitted'
                  PROVE  (Elements(fleet) \subseteq since[c].insts)'
                         /\ (Annotations \subseteq since[c].told)'
      BY DEF Recorded
    <3>1. c \in CSR /\ c \in Submitted
      BY <2>3 DEF Submitted
    <3>2. Annotations \subseteq since[c].told /\ Elements(fleet) \subseteq since[c].insts
      BY <3>1 DEF IInv, Recorded
    <3>3. \A m \in Name : <<m, provided'[m]>> \in since'[c].told
      BY <2>1, <2>2, <3>1, <3>2 DEF Annotations
    <3>. QED BY <2>1, <2>3, <3>1, <3>2, <3>3 DEF Annotations
  <2>. QED BY <1>0, <2>1, <2>3, <2>4, ClusterKeeps
<1>4. ASSUME ChangeFleet PROVE IInv'
  <2>1. ASSUME NEW c \in CSR
        PROVE  /\ since'[c].told = since[c].told
               /\ since'[c].insts = IF c \in Submitted
                    THEN since[c].insts \cup Elements(fleet') ELSE since[c].insts
    BY <1>0, <1>4, SinceType DEF ChangeFleet, TypeOK
  <2>2. UNCHANGED <<csrs, provided, pc, queue, work>>
    BY <1>4 DEF ChangeFleet
  <2>3. Recorded'
    BY <2>1, <2>2 DEF IInv, Recorded, Submitted, Annotations
  <2>. QED BY <1>0, <2>1, <2>2, <2>3, ClusterKeeps
<1>5. ASSUME Cancel \/ CloseWatch \/ LoseWatch PROVE IInv'
  <2>1. UNCHANGED <<csrs, fleet, provided, since, work>> /\ pc' = pc /\ queue' \subseteq queue
    BY <1>5 DEF Cancel, CloseWatch, LoseWatch
  <2>2. \A e \in queue' : UpToDate(e) /\ e.ver > 0
    BY <2>1 DEF IInv, Versions
  <2>. QED BY <1>0, <2>1, <2>2, LoopKeeps
<1>6. ASSUME Watch PROVE IInv'
  <2>1. ~ok
    BY <1>6 DEF IInv, Verdicts, Watch
  <2>2. \A e \in AddedEvents : UpToDate(e) /\ e.ver > 0
    <3>. SUFFICES ASSUME NEW c \in CSR, csrs[c].there,
                         NEW e, e = [csr |-> c, ver |-> csrs[c].ver, cond |-> csrs[c].cond]
                  PROVE  UpToDate(e) /\ e.ver > 0
      BY DEF AddedEvents
    <3>1. csrs[c].ver \in Nat /\ csrs[c].ver # 0
      BY <1>0, Obj DEF IInv, Fresh
    <3>. QED BY <3>1 DEF UpToDate
  <2>3. UNCHANGED <<csrs, fleet, provided, since, work>> /\ pc' \in {"select", "sleep"}
    BY <1>6 DEF Watch
  <2>4. queue' = AddedEvents \/ queue' = queue
    BY <1>6 DEF Watch
  <2>5. \A e \in queue' : UpToDate(e) /\ e.ver > 0
    BY <2>2, <2>4 DEF IInv, Versions
  <2>. QED BY <1>0, <2>1, <2>3, <2>5, LoopKeeps
<1>7. ASSUME Wake \/ Stop \/ ChannelClosed PROVE IInv'
  <2>1. ~ok
    BY <1>7 DEF IInv, Verdicts, Wake, Stop, ChannelClosed
  <2>2. /\ UNCHANGED <<csrs, fleet, provided, since, work>> /\ queue' = queue
        /\ pc' \in {"watch", "stopped"}
    BY <1>7 DEF Wake, Stop, ChannelClosed
  <2>. QED BY <1>0, <2>1, <2>2, LoopKeeps DEF IInv, Versions
<1>8. ASSUME Receive PROVE IInv'
  <2>1. PICK e \in queue :
          /\ queue' = queue \ {e}
          /\ \/ Candidate(e) /\ event' = e /\ pc' = "list" /\ UNCHANGED <<seen, i, ok>>
             \/ ~Candidate(e) /\ Continue
    BY <1>8 DEF Receive
  <2>2. UNCHANGED <<csrs, fleet, provided, since>>
    BY <1>8 DEF Receive
  <2>3. CASE Continue
    BY <1>0, <2>1, <2>2, <2>3, ContinueKeeps
  <2>4. CASE Candidate(e) /\ event' = e /\ pc' = "list" /\ UNCHANGED <<seen, i, ok>>
    <3>1. ~ok
      BY <1>8 DEF IInv, Verdicts, Receive
    <3>2. Versions'
      BY <2>1, <2>2, <2>4 DEF IInv, Versions, UpToDate
    <3>3. Fresh' /\ Justified'
      BY <2>2 DEF IInv, Fresh, Justified
    <3>4. Recorded'
      BY <2>2 DEF IInv, Recorded, Submitted, Annotations
    <3>5. Handling'
      BY <2>1, <2>2, <2>4 DEF IInv, Handling, Versions, Candidate
    <3>6. Verdicts'
      BY <2>4, <3>1 DEF Verdicts
    <3>. QED BY <1>0, <3>2, <3>3, <3>4, <3>5, <3>6 DEF IInv
  <2>. QED BY <2>1, <2>3, <2>4
<1>9. ASSUME ListInstances PROVE IInv'
  <2>1. UNCHANGED <<csrs, fleet, provided, since, queue>>
    BY <1>9 DEF ListInstances
  <2>2. CASE Continue
    BY <1>0, <2>1, <2>2, ContinueKeeps
  <2>3. CASE seen' = fleet /\ i' = 1 /\ ok' = FALSE /\ pc' = "check" /\ UNCHANGED event
    <3>1. Versions' /\ Fresh' /\ Justified'
      BY <2>1, <2>3 DEF IInv, Versions, UpToDate, Fresh, Justified
    <3>2. Recorded'
      BY <2>1 DEF IInv, Recorded, Submitted, Annotations
    <3>3. event.csr \in Submitted
      <4>1. pc = "list" /\ event.ver > 0 /\ event.csr \in CSR /\ event.ver \in Nat
        BY <1>0, <1>9 DEF IInv, Handling, ListInstances, Event
      <4>. QED BY <1>0, <4>1, Obj DEF IInv, Versions, UpToDate, Submitted
    <3>4. Handling'
      BY <1>9, <2>1, <2>3, <3>3 DEF IInv, Handling, Recorded, ListInstances
    <3>5. Verdicts'
      BY <2>3 DEF Verdicts
    <3>. QED BY <1>0, <3>1, <3>2, <3>4, <3>5 DEF IInv
  <2>. QED BY <1>9, <2>2, <2>3 DEF ListInstances
<1>10. ASSUME CheckInstance PROVE IInv'
  BY <1>0, <1>10, CheckKeeps
<1>11. ASSUME Verdict PROVE IInv'
  <2>1. UNCHANGED <<csrs, fleet, provided, since, queue>>
    BY <1>11 DEF Verdict
  <2>2. CASE Continue
    BY <1>0, <2>1, <2>2, ContinueKeeps
  <2>3. CASE ok /\ pc' = "approve" /\ UNCHANGED work
    <3>1. Versions' /\ Fresh' /\ Justified'
      BY <2>1, <2>3 DEF IInv, Versions, UpToDate, Fresh, Justified, work
    <3>2. Recorded'
      BY <2>1 DEF IInv, Recorded, Submitted, Annotations
    <3>3. Handling'
      BY <1>11, <2>1, <2>3 DEF IInv, Handling, Verdict, work
    <3>4. Verdicts'
      BY <2>1, <2>3 DEF IInv, Verdicts, Fits, work
    <3>. QED BY <1>0, <3>1, <3>2, <3>3, <3>4 DEF IInv
  <2>. QED BY <1>11, <2>2, <2>3 DEF Verdict
<1>12. ASSUME UpdateApproval PROVE IInv'
  BY <1>0, <1>12, ApprovalKeeps
<1>13. CASE UNCHANGED vars
  <2>1. UNCHANGED <<csrs, fleet, provided, since, work>> /\ pc' = pc /\ queue' = queue
    BY <1>13 DEF vars
  <2>2. \A e \in queue' : UpToDate(e) /\ e.ver > 0
    BY <2>1 DEF IInv, Versions
  <2>. QED BY <1>0, <2>1, <2>2, LoopKeeps
<1>. QED BY <1>1, <1>2, <1>3, <1>4, <1>5, <1>6, <1>7, <1>8, <1>9, <1>10, <1>11, <1>12,
            <1>13 DEF Next, Environment, Run

LEMMA Invariance == Spec => []IInv
BY InitIInv, StepKeeps, PTL DEF Spec

(* Every variable of the runner has its type in every reachable state. *)
THEOREM CSRTypeCorrect == Spec => []TypeOK
<1>1. IInv => TypeOK
  BY DEF IInv
<1>. QED BY <1>1, Invariance, PTL

(* Every approval the runner gives is justified by an instance that there  *)
(* was since the CSR was submitted (run, lines 110-176).                   *)
THEOREM ApprovalsJustified == Spec => []Justified
<1>1. IInv => Justified
  BY DEF IInv
<1>. QED BY <1>1, Invariance, PTL

(* The optimistic locking of UpdateApproval (lines 159-174) is enough:     *)
(* whatever happens between event and update, no decision is overruled.    *)
THEOREM DecisionsStand == Spec => NeverOverrules
<1>1. IInv /\ [Next]_vars =>
        [\A c \in CSR : csrs[c].cond # "none" => csrs'[c].cond = csrs[c].cond]_vars
  <2>. SUFFICES ASSUME IInv, [Next]_vars, NEW c \in CSR, csrs[c].cond # "none"
                PROVE  csrs'[c].cond = csrs[c].cond
    OBVIOUS
  <2>0. TypeOK /\ csrs \in [CSR -> Object] /\ csrs[c] \in Object
    BY DEF IInv, TypeOK
  <2>1. CASE csrs' = csrs
    BY <2>1
  <2>2. ASSUME NEW d \in CSR, Submit(d) \/ Decide(d) \/ Touch(d) \/ Delete(d)
        PROVE  csrs'[c].cond = csrs[c].cond
    <3>1. CASE Submit(d)
      BY <2>0, <3>1 DEF Submit, Object
    <3>2. CASE Decide(d)
      BY <2>0, <3>2 DEF Decide
    <3>3. CASE Touch(d)
      BY <2>0, <3>3 DEF Touch, Object
    <3>4. CASE Delete(d)
      BY <2>0, <3>4 DEF Delete, Object
    <3>. QED BY <2>2, <3>1, <3>2, <3>3, <3>4
  <2>3. CASE UpdateApproval
    BY <2>0, <2>3, ApprovalCurrent
  <2>. QED BY <2>1, <2>2, <2>3 DEF Next, Environment, Run, Annotate, ChangeFleet, Cancel,
         CloseWatch, LoseWatch, Watch, Wake, Stop, ChannelClosed, Receive, ListInstances,
         CheckInstance, Verdict, cluster, vars
<1>. QED BY <1>1, Invariance, PTL DEF Spec, NeverOverrules

=============================================================================
