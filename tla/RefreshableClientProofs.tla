---------------------- MODULE RefreshableClientProofs ----------------------
(***************************************************************************)
(* Proofs about RefreshableClient: for any set of callers and any number   *)
(* of changes of the credentials file, no call ever sees its client        *)
(* replaced, and the client never goes back to older credentials.          *)
(*                                                                         *)
(* SameClient is not inductive.  It rests on the lock (Locking: who reads  *)
(* holds the read lock, who replaces holds the write lock, never both), on *)
(* the constructor's refresh being over before the watcher's begin         *)
(* (OneRefresh), and on the two assignments of a refresh being the only    *)
(* moment at which client and credentials differ (Paired).                 *)
(***************************************************************************)
EXTENDS RefreshableClient, TLAPS

(* The readers are the callers inside a call; a refresh that assigns holds  *)
(* the write lock; the write lock excludes readers.                         *)
Locking ==
  /\ readers = {c \in Caller : call[c] \in {"request", "wait"}}
  /\ \A r \in Refresher : refresh[r].at \in {"exo", "creds"} => writer = "held"
  /\ writer = "held" => readers = {}

(* The watcher's goroutine starts after the constructor's refresh. *)
OneRefresh == refresh["init"].at # "end" => refresh["watch"].at = "start"

(* No call is made before the constructor has returned. *)
Closed == refresh["init"].at \notin {"end", "done"} => \A c \in Caller : call[c] = "out"

(* Client and credentials belong together but between the two assignments, *)
(* the second of which makes up for the first.                             *)
Paired ==
  /\ exo = creds \/ \E r \in Refresher : refresh[r].at = "creds"
  /\ \A r \in Refresher : refresh[r].at = "creds" => refresh[r].got = exo

(* An operation that is waited for was started with the present client,     *)
(* and no caller remembers an earlier one.                                  *)
Started == \A c \in Caller : used[c] = IF call[c] = "wait" THEN exo ELSE 0

IInv == TypeOK /\ Locking /\ OneRefresh /\ Closed /\ Paired /\ Started

(* The client's credentials are whole, and a refresh under way has decoded  *)
(* some that are no older than these and no newer than the file's: those    *)
(* of a half-written file are below any.                                    *)
Newer ==
  /\ 0 <= exo /\ exo <= file.ver /\ 1 <= file.ver
  /\ refresh["init"].at = "static" => exo = 0
  /\ \A r \in Refresher : refresh[r].at \in {"zone", "lock", "exo", "creds"} =>
       exo <= refresh[r].got /\ refresh[r].got <= file.ver

-----------------------------------------------------------------------------
(* Credentials are numbers, those of a half-written file below all others. *)
LEMMA Numbers ==
  /\ Version \subseteq Credentials /\ Credentials \subseteq Int
  /\ 0 \in Version /\ 1 \in Version
  /\ \A v \in Credentials : v # Half => v >= 0
  BY ClientAssumption DEF Version, Credentials, Half

(* The initial state satisfies the inductive invariants. *)
LEMMA InitIInv == Init => IInv /\ Newer
<1> SUFFICES ASSUME Init PROVE IInv /\ Newer OBVIOUS
<1> PICK b \in Branches : refresh = [r \in Refresher |->
       [at |-> IF r = "init" THEN b ELSE "start", got |-> 0]]
  BY DEF Init
<1> USE ClientAssumption DEF Init, Refresher, Branches
<1>1. TypeOK
  <2>1. 0 \in Credentials /\ 1 \in Version BY Numbers
  <2>2. refresh \in [Refresher -> Refresh] BY <2>1 DEF Refresh
  <2> QED BY <2>1, <2>2 DEF TypeOK
<1>2. Locking /\ OneRefresh /\ Closed BY DEF Locking, OneRefresh, Closed
<1>3. Paired /\ Started BY DEF Paired, Started
<1>4. Newer BY DEF Newer
<1> QED BY <1>1, <1>2, <1>3, <1>4 DEF IInv

(* The credentials file changes without touching the client. *)
LEMMA FileStep ==
  ASSUME IInv, Truncate \/ Complete \/ Replace \/ Remove
  PROVE  IInv'
<1>1. TypeOK'
  <2>1. file \in [ver: Version, whole: BOOLEAN, there: BOOLEAN] /\ events \in Nat
    BY DEF IInv, TypeOK
  <2>2. (file \in [ver: Version, whole: BOOLEAN, there: BOOLEAN])'
    <3>1. CASE Truncate \/ Replace
      <4>1. file.ver <= MaxWrites BY <3>1 DEF Truncate, Replace
      <4>2. file.ver + 1 \in Version BY <2>1, <4>1, ClientAssumption DEF Version
      <4>3. \A v \in Version, b \in BOOLEAN : [ver |-> v, whole |-> b, there |-> TRUE]
                                            \in [ver: Version, whole: BOOLEAN, there: BOOLEAN]
        OBVIOUS
      <4>4. CASE Truncate BY <4>2, <4>3, <4>4 DEF Truncate
      <4>5. CASE Replace BY <4>2, <4>3, <4>5 DEF Replace
      <4> QED BY <3>1, <4>4, <4>5
    <3>2. CASE Complete BY <2>1, <3>2 DEF Complete
    <3>3. CASE Remove BY <2>1, <3>3 DEF Remove
    <3> QED BY <3>1, <3>2, <3>3
  <2>3. (events \in Nat)' BY <2>1 DEF Truncate, Complete, Replace, Remove, Notify
  <2> QED BY <2>2, <2>3
        DEF IInv, TypeOK, Truncate, Complete, Replace, Remove, client, calls
<1>2. (Locking /\ OneRefresh /\ Closed /\ Paired /\ Started)'
  BY DEF IInv, Locking, OneRefresh, Closed, Paired, Started, Truncate, Complete, Replace, Remove,
         client, calls
<1> QED BY <1>1, <1>2 DEF IInv

(* Every step of refreshCredentialsFromFile preserves the invariant. *)
LEMMA RefreshPreserves ==
  ASSUME IInv, NEW r \in Refresher, RefreshStep(r)
  PROVE  IInv'
<1> USE DEF IInv, Refresher, Refresh, Return, file_vars, client, calls
<1>1. CASE Decode(r)
  <2>1. TypeOK'
    <3>1. Contents \in Credentials BY Numbers DEF TypeOK, Contents, Credentials
    <3> QED BY <1>1, <3>1, Numbers DEF TypeOK, Decode
  <2>2. (Locking /\ OneRefresh /\ Closed)' BY <1>1 DEF TypeOK, Decode, Locking, OneRefresh, Closed
  <2>3. (Paired /\ Started)' BY <1>1 DEF TypeOK, Decode, Paired, Started
  <2> QED BY <2>1, <2>2, <2>3
<1>2. CASE SwitchZone(r)
  <2>1. TypeOK' BY <1>2, Numbers DEF TypeOK, SwitchZone
  <2>2. (Locking /\ OneRefresh /\ Closed)' BY <1>2 DEF TypeOK, SwitchZone, Locking, OneRefresh, Closed
  <2>3. (Paired /\ Started)' BY <1>2 DEF TypeOK, SwitchZone, Paired, Started
  <2> QED BY <2>1, <2>2, <2>3
<1>3. CASE AskLock(r)
  BY <1>3 DEF TypeOK, AskLock, Locking, OneRefresh, Closed, Paired, Started
<1>4. CASE GetLock(r)
  <2>1. TypeOK' BY <1>4 DEF TypeOK, GetLock
  <2>2. (Locking /\ OneRefresh /\ Closed)' BY <1>4 DEF TypeOK, GetLock, Locking, OneRefresh, Closed
  <2>3. (Paired /\ Started)' BY <1>4 DEF TypeOK, GetLock, Paired, Started
  <2> QED BY <2>1, <2>2, <2>3
<1>5. CASE SetClient(r)
  <2>1. TypeOK' BY <1>5 DEF TypeOK, SetClient
  <2>2. (Locking /\ OneRefresh /\ Closed)' BY <1>5 DEF TypeOK, SetClient, Locking, OneRefresh, Closed
  <2>3. Paired' BY <1>5 DEF TypeOK, SetClient, Paired, OneRefresh
  <2>4. \A c \in Caller : call[c] # "wait" BY <1>5 DEF SetClient, Locking
  <2>5. Started' BY <1>5, <2>4 DEF SetClient, Started
  <2> QED BY <2>1, <2>2, <2>3, <2>5
<1>6. CASE SetCredentials(r)
  <2>1. TypeOK' BY <1>6, Numbers DEF TypeOK, SetCredentials
  <2>2. (Locking /\ OneRefresh /\ Closed)' BY <1>6 DEF TypeOK, SetCredentials, Locking, OneRefresh, Closed
  <2>3. (Paired /\ Started)' BY <1>6 DEF TypeOK, SetCredentials, Paired, Started
  <2> QED BY <2>1, <2>2, <2>3
<1> QED BY <1>1, <1>2, <1>3, <1>4, <1>5, <1>6 DEF RefreshStep

(* The watcher's goroutine, and the stop of the provider, preserve it. *)
LEMMA WatchPreserves ==
  ASSUME IInv, WatchStep \/ Stop
  PROVE  IInv'
<1> USE DEF IInv, Refresher, Refresh, file_vars, client, calls
<1>1. CASE Watch
  BY <1>1 DEF Watch, TypeOK, Locking, OneRefresh, Closed, Paired, Started
<1>2. CASE Receive
  <2>1. TypeOK' BY <1>2 DEF TypeOK, Receive
  <2> QED BY <1>2, <2>1 DEF Receive, TypeOK, Locking, OneRefresh, Closed, Paired, Started
<1>3. CASE StopWatching
  BY <1>3 DEF StopWatching, TypeOK, Locking, OneRefresh, Closed, Paired, Started
<1>4. CASE Static
  <2>1. TypeOK'
    <3>1. 1 \in Credentials BY Numbers
    <3>2. (refresh \in [Refresher -> Refresh])' BY <1>4 DEF Static, TypeOK
    <3>3. (exo \in Credentials /\ creds \in Credentials)' BY <1>4, <3>1 DEF Static, TypeOK
    <3>4. (faults \in Nat)' BY <1>4 DEF Static, TypeOK
    <3>5. (dead \in BOOLEAN)' BY <1>4, Zenon DEF Static, TypeOK
    <3> QED BY <1>4, <3>2, <3>3, <3>4, <3>5 DEF Static, TypeOK
  <2>2. (Locking /\ OneRefresh /\ Closed)'
    BY <1>4 DEF Static, TypeOK, Locking, OneRefresh, Closed
  <2>3. refresh["watch"].at = "start" BY <1>4 DEF Static, OneRefresh
  <2>4. \A c \in Caller : call[c] = "out" BY <1>4 DEF Static, Closed
  <2> QED BY <1>4, <2>1, <2>2, <2>3, <2>4 DEF Static, TypeOK, Paired, Started
<1>5. CASE NoCredentials
  BY <1>5 DEF NoCredentials, TypeOK, Locking, OneRefresh, Closed, Paired, Started
<1>6. CASE Stop
  BY <1>6 DEF Stop, TypeOK, Locking, OneRefresh, Closed, Paired, Started
<1> QED BY <1>1, <1>2, <1>3, <1>4, <1>5, <1>6 DEF WatchStep

(* A call through the client preserves it. *)
LEMMA CallPreserves ==
  ASSUME IInv, NEW c \in Caller, Begin(c) \/ CallStep(c)
  PROVE  IInv'
<1> USE DEF IInv, file_vars, client
<1>1. CASE Begin(c)
  BY <1>1 DEF Begin, TypeOK, Locking, OneRefresh, Closed, Paired, Started
<1>2. CASE RLock(c)
  BY <1>2 DEF RLock, TypeOK, Locking, OneRefresh, Closed, Paired, Started
<1>3. CASE Request(c)
  <2>1. TypeOK' BY <1>3 DEF Request, TypeOK
  <2>2. (Locking /\ OneRefresh /\ Closed /\ Paired)'
    BY <1>3 DEF Request, TypeOK, Locking, OneRefresh, Closed, Paired
  <2>3. Started' BY <1>3 DEF Request, TypeOK, Started
  <2> QED BY <2>1, <2>2, <2>3
<1>4. CASE Wait(c)
  <2>1. TypeOK' BY <1>4, Numbers DEF Wait, TypeOK
  <2>2. (Locking /\ OneRefresh /\ Closed /\ Paired)'
    BY <1>4 DEF Wait, TypeOK, Locking, OneRefresh, Closed, Paired
  <2>3. Started' BY <1>4 DEF Wait, TypeOK, Started
  <2> QED BY <2>1, <2>2, <2>3
<1> QED BY <1>1, <1>2, <1>3, <1>4 DEF CallStep

(* IInv is inductive. *)
LEMMA NextIInv == IInv /\ [Next]_vars => IInv'
<1> SUFFICES ASSUME IInv, [Next]_vars PROVE IInv' OBVIOUS
<1>1. CASE Next BY <1>1, FileStep, RefreshPreserves, WatchPreserves, CallPreserves DEF Next
<1>2. CASE UNCHANGED vars
  BY <1>2 DEF IInv, TypeOK, Locking, OneRefresh, Closed, Paired, Started, vars
<1> QED BY <1>1, <1>2

(* Every behaviour of the client satisfies IInv. *)
LEMMA AlwaysIInv == Spec => []IInv
  BY InitIInv, NextIInv, PTL DEF Spec

(* Every variable of the client has its type, in particular the number of   *)
(* the credentials that the client, a refresh or a call uses.               *)
THEOREM TypeCorrect == Spec => []TypeOK
  BY AlwaysIInv, PTL DEF IInv

(* While a call holds the read lock, client and credentials agree. *)
LEMMA IInvSameClient == IInv => SameClient
<1> SUFFICES ASSUME IInv, NEW c \in Caller, call[c] \in {"request", "wait"}
             PROVE  exo = creds
  BY DEF IInv, Started, SameClient
<1>1. readers # {} BY DEF IInv, Locking
<1>2. \A r \in Refresher : refresh[r].at # "creds" BY <1>1 DEF IInv, Locking
<1> QED BY <1>2 DEF IInv, Paired

(* An operation is waited for with the client that started it, and no       *)
(* refresh replaces the client under a call: the lock of                    *)
(* refreshCredentialsFromFile and of the wrappers does its job, for any     *)
(* number of callers and refreshes.                                         *)
THEOREM ClientIsStable == Spec => []SameClient
  BY AlwaysIInv, IInvSameClient, PTL

-----------------------------------------------------------------------------
(* Newer is inductive, and a step never replaces the client by an older one. *)
LEMMA NextNewer == IInv /\ Newer /\ [Next]_vars => Newer' /\ exo' >= exo
<1> SUFFICES ASSUME IInv, Newer, [Next]_vars PROVE Newer' /\ exo' >= exo OBVIOUS
<1> USE DEF file_vars, client, calls, Refresher
<1> /\ file.ver \in Int /\ exo \in Int
    /\ \A r \in Refresher : refresh[r].got \in Int
  BY Numbers DEF IInv, TypeOK, Refresh
<1>0. refresh \in [Refresher -> Refresh] BY DEF IInv, TypeOK
<1>1. CASE Truncate \/ Complete \/ Replace \/ Remove
  <2>1. file \in [ver: Version, whole: BOOLEAN, there: BOOLEAN] BY DEF IInv, TypeOK
  <2>2. file'.ver \in Int /\ file'.ver >= file.ver
    <3>1. CASE Truncate \/ Replace BY <3>1 DEF Truncate, Replace
    <3>2. CASE Complete BY <2>1, <3>2 DEF Complete
    <3>3. CASE Remove BY <2>1, <3>3 DEF Remove
    <3> QED BY <1>1, <3>1, <3>2, <3>3
  <2>3. UNCHANGED <<exo, refresh>> BY <1>1 DEF Truncate, Complete, Replace, Remove
  <2> QED BY <2>2, <2>3 DEF Newer
<1>2. ASSUME NEW r \in Refresher, RefreshStep(r) PROVE Newer' /\ exo' >= exo
  <2>1. CASE Decode(r) BY <2>1, <1>0 DEF Decode, Contents, Newer, Return, Refresh
  <2>2. CASE SwitchZone(r) BY <2>2, <1>0 DEF SwitchZone, Newer, Return, Refresh
  <2>3. CASE AskLock(r) BY <2>3 DEF AskLock, Newer
  <2>4. CASE GetLock(r) BY <2>4, <1>0 DEF GetLock, Newer, Refresh
  <2>5. CASE SetClient(r) BY <2>5, <1>0 DEF SetClient, Newer, Refresh, IInv, OneRefresh
  <2>6. CASE SetCredentials(r) BY <2>6, <1>0 DEF SetCredentials, Newer, Return, Refresh
  <2> QED BY <1>2, <2>1, <2>2, <2>3, <2>4, <2>5, <2>6 DEF RefreshStep
<1>3. CASE WatchStep \/ Stop
  <2>1. CASE Static BY <2>1, <1>0 DEF Static, Newer, Refresh, IInv, OneRefresh
  <2>2. CASE NoCredentials BY <2>2 DEF NoCredentials, Newer
  <2> QED
    BY <1>3, <1>0, <2>1, <2>2
       DEF WatchStep, Watch, Receive, StopWatching, Stop, Newer, Refresh
<1>4. ASSUME NEW c \in Caller, Begin(c) \/ CallStep(c) PROVE Newer' /\ exo' >= exo
  BY <1>4 DEF Begin, CallStep, RLock, Request, Wait, Newer
<1>5. CASE UNCHANGED vars BY <1>5 DEF vars, Newer
<1> QED BY <1>1, <1>2, <1>3, <1>4, <1>5 DEF Next

(* The client is only ever replaced by one with newer credentials, because  *)
(* the constructor's refresh and the watcher's cannot overtake one another, *)
(* and never by one from a half-written file, because what the decoder left *)
(* behind when it failed is dropped.                                        *)
THEOREM NeverGoesBack == Spec => NeverOlder
<1>1. IInv /\ Newer /\ [Next]_vars => [exo' # exo => exo' # Half /\ exo' > exo]_vars
  <2> SUFFICES ASSUME IInv, Newer, [Next]_vars, exo' # exo
               PROVE  exo' # Half /\ exo' > exo
    OBVIOUS
  <2>1. exo \in Int /\ exo' \in Int
    BY NextIInv, Numbers DEF IInv, TypeOK
  <2>2. 0 <= exo /\ exo' >= exo BY NextNewer DEF Newer
  <2> QED BY <2>1, <2>2 DEF Half
<1> QED BY <1>1, InitIInv, NextIInv, NextNewer, PTL DEF Spec, NeverOlder

-----------------------------------------------------------------------------
(* Each step of the client is a step of the store, or none. *)
LEMMA StoreStep == IInv /\ Newer /\ [Next]_vars => [Store!Next]_(Store!vars)
<1> SUFFICES ASSUME IInv, Newer, [Next]_vars PROVE [Store!Next]_(Store!vars) OBVIOUS
<1> USE DEF file_vars, client, calls, Refresher
<1>1. ASSUME UNCHANGED <<exo, readers, used>> PROVE [Store!Next]_(Store!vars)
  BY <1>1 DEF Store!vars
<1>2. ASSUME exo' # exo, UNCHANGED <<readers, used>>, readers = {}
      PROVE  Store!Next
  <2>1. exo \in Int /\ exo' \in Int BY NextIInv, Numbers DEF IInv, TypeOK
  <2>2. 0 <= exo /\ exo' >= exo BY NextNewer DEF Newer
  <2> QED BY <1>2, <2>1, <2>2 DEF Store!Next, Store!Install
<1>3. ASSUME NEW r \in Refresher, SetClient(r) PROVE [Store!Next]_(Store!vars)
  <2>1. readers = {} BY <1>3 DEF SetClient, IInv, Locking
  <2>2. UNCHANGED <<readers, used>> BY <1>3 DEF SetClient
  <2> QED BY <1>1, <1>2, <2>1, <2>2
<1>4. ASSUME Static PROVE [Store!Next]_(Store!vars)
  <2>1. readers = {} BY <1>4 DEF Static, IInv, Locking, Closed
  <2>2. UNCHANGED <<readers, used>> BY <1>4 DEF Static
  <2> QED BY <1>1, <1>2, <2>1, <2>2
<1>5. ASSUME NEW c \in Caller, RLock(c) PROVE Store!Next
  <2>1. c \notin readers BY <1>5 DEF RLock, IInv, Locking
  <2> QED BY <1>5, <2>1 DEF RLock, Store!Next, Store!Acquire
<1>6. ASSUME NEW c \in Caller, Request(c) PROVE [Store!Next]_(Store!vars)
  <2>1. c \in readers /\ used[c] = 0 BY <1>6 DEF Request, IInv, Locking, Started
  <2> QED BY <1>6, <2>1 DEF Request, Store!Next, Store!Start
<1>7. ASSUME NEW c \in Caller, Wait(c) PROVE Store!Next
  <2>1. c \in readers /\ used[c] = exo BY <1>7 DEF Wait, IInv, Locking, Started
  <2> QED BY <1>7, <2>1 DEF Wait, Store!Next, Store!Finish
<1> QED
  BY <1>1, <1>3, <1>4, <1>5, <1>6, <1>7
     DEF Next, vars, Truncate, Complete, Replace, Remove, WatchStep, NoCredentials, Watch,
         Receive, StopWatching, Stop, RefreshStep, Decode, SwitchZone, AskLock, GetLock,
         SetCredentials, Begin, CallStep

(* The client implements the store of credentials: with its lock, for any   *)
(* callers, file changes and failures, credentials change only between      *)
(* uses and only to newer ones, and a use ends with those it began with.    *)
THEOREM ImplementsStore == Spec => StoreSpec
<1>1. Init => Store!Init BY DEF Init, Store!Init
<1> QED BY <1>1, InitIInv, NextIInv, NextNewer, StoreStep, PTL DEF Spec, StoreSpec, Store!Spec

=============================================================================
