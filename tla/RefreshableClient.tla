------------------------- MODULE RefreshableClient -------------------------
(***************************************************************************)
(* refreshableExoscaleClient (exoscale/client.go): the Exoscale API client *)
(* that all of the provider's goroutines share, and whose credentials are  *)
(* read again whenever the credentials file changes.                       *)
(*                                                                         *)
(* Callers are the goroutines that use the client; each call holds the     *)
(* read lock from before the request until the operation it started has    *)
(* been waited for.  A refresh runs twice over: once by the constructor    *)
(* ("init"), then by the goroutine that watches the file ("watch"); it     *)
(* takes the write lock to replace the client.  With a key and a secret in *)
(* the configuration there is no file, no watcher and no refresh.          *)
(***************************************************************************)
EXTENDS Integers

CONSTANTS
  Caller,      \* goroutines that call the Exoscale API
  EarlyWrites, \* whether the file may change before it is watched
  Removable,   \* whether the file may be removed
  MaxWrites,   \* bound on the changes of the credentials file
  MaxFaults    \* bound on the failures of zoneCallback

ASSUME ClientAssumption ==
  MaxWrites \in Nat /\ MaxFaults \in Nat /\ EarlyWrites \in BOOLEAN
  /\ Removable \in BOOLEAN

VARIABLES
  file,     \* the credentials file: which credentials, complete, present
  events,   \* fsnotify events on it that wait to be received
  watching, \* watcher.Add has returned
  exo,      \* c.exo: the credentials the client was built with, 0 for nil
  creds,    \* c.apiCredentials
  refresh,  \* the state of each refreshCredentialsFromFile
  writer,   \* the write lock: free, asked for or held
  readers,  \* the callers that hold the read lock
  call,     \* the state of each caller
  used,     \* the client with which each caller's operation was started
  stopped,  \* the provider's context is cancelled
  dead,     \* the program has exited, by fatalf or by a panic
  faults

file_vars == <<file, events>>
client == <<exo, creds>>
calls == <<readers, call, used>>
vars == <<file, events, watching, exo, creds, refresh, writer, readers, call, used,
          stopped, dead, faults>>

Version == 0 .. MaxWrites + 1

(* What the decoder makes of a file that is only half written: a key        *)
(* without its secret, or nothing, which no writer ever meant.              *)
Half == -1

Credentials == Version \cup {Half}

Refresher == {"init", "watch"}

(* at: where the refresh is, or which other branch the constructor is in;   *)
(* got: the credentials it has decoded.                                     *)
Refresh == [at: {"start", "select", "open", "zone", "lock", "exo", "creds", "end",
                 "static", "none", "done"},
            got: Credentials]

(* readExoscaleConfig: key and secret go before a file. *)
Branches == {"static", "open", "none"}

Init ==
  /\ file = [ver |-> 1, whole |-> TRUE, there |-> TRUE]
  /\ events = 0
  /\ watching = FALSE
  /\ exo = 0 /\ creds = 0
  /\ \E b \in Branches :
       refresh = [r \in Refresher |->
                    [at |-> IF r = "init" THEN b ELSE "start", got |-> 0]]
  /\ writer = "free"
  /\ readers = {}
  /\ call = [c \in Caller |-> "out"]
  /\ used = [c \in Caller |-> 0]
  /\ stopped = FALSE /\ dead = FALSE
  /\ faults = 0

-----------------------------------------------------------------------------
(* The credentials file.  A writer that does not replace it atomically      *)
(* truncates it first; each change is one event once the file is watched.   *)

Notify == events' = IF watching THEN events + 1 ELSE events

Truncate ==
  /\ file.ver <= MaxWrites /\ file.there
  /\ EarlyWrites \/ watching
  /\ file' = [ver |-> file.ver + 1, whole |-> FALSE, there |-> TRUE]
  /\ Notify
  /\ UNCHANGED <<watching, client, refresh, writer, calls, stopped, dead, faults>>

Complete ==
  /\ ~file.whole /\ file.there
  /\ file' = [file EXCEPT !.whole = TRUE]
  /\ Notify
  /\ UNCHANGED <<watching, client, refresh, writer, calls, stopped, dead, faults>>

Replace ==
  /\ file.ver <= MaxWrites
  /\ EarlyWrites \/ watching
  /\ file' = [ver |-> file.ver + 1, whole |-> TRUE, there |-> TRUE]
  /\ Notify
  /\ UNCHANGED <<watching, client, refresh, writer, calls, stopped, dead, faults>>

(* A removal is an event too, but not one the watcher acts on. *)
Remove ==
  /\ Removable /\ file.there
  /\ EarlyWrites \/ watching
  /\ file' = [file EXCEPT !.there = FALSE]
  /\ UNCHANGED <<events, watching, client, refresh, writer, calls, stopped, dead, faults>>

-----------------------------------------------------------------------------
(* newRefreshableExoscaleClient without a file *)

(* The client is built from key and secret; when the zone's endpoint cannot *)
(* be found the constructor fails, and Initialize exits.                    *)
Static ==
  /\ refresh["init"].at = "static"
  /\ \/ /\ exo' = 1 /\ creds' = 1
        /\ refresh' = [refresh EXCEPT !["init"].at = "done"]
        /\ UNCHANGED <<dead, faults>>
     \/ /\ faults < MaxFaults
        /\ faults' = faults + 1
        /\ dead' = TRUE
        /\ UNCHANGED <<client, refresh>>
  /\ UNCHANGED <<file_vars, watching, writer, calls, stopped>>

(* "incomplete or missing Exoscale API credentials": Initialize exits. *)
NoCredentials ==
  /\ refresh["init"].at = "none"
  /\ dead' = TRUE
  /\ UNCHANGED <<file_vars, watching, client, refresh, writer, calls, stopped, faults>>

-----------------------------------------------------------------------------
(* refreshCredentialsFromFile *)

(* Where a refresh ends: the constructor returns, the watcher selects. *)
Return(r) == [at |-> IF r = "init" THEN "end" ELSE "select", got |-> 0]

(* The value that reading the file to its present end yields. *)
Contents == IF file.whole THEN file.ver ELSE Half

(* Mutant: the decoder's error is not looked at. *)
DecodeMutant(r) ==
  /\ refresh[r].at = "open"
  /\ dead' = ~file.there
  /\ refresh' = [refresh EXCEPT ![r] =
       IF file.there THEN [at |-> "zone", got |-> Contents] ELSE Return(r)]
  /\ UNCHANGED <<file_vars, watching, client, writer, calls, stopped, faults>>

(* The file is opened (a missing one is fatal) and decoded; what is read of *)
(* an incomplete one is dropped.                                            *)
Decode(r) ==
  /\ refresh[r].at = "open"
  /\ dead' = ~file.there
  /\ refresh' = [refresh EXCEPT ![r] =
       IF file.there /\ file.whole THEN [at |-> "zone", got |-> Contents]
       ELSE Return(r)]
  /\ UNCHANGED <<file_vars, watching, client, writer, calls, stopped, faults>>

(* zoneCallback asks the API for the zone's endpoint; on failure the new    *)
(* credentials are dropped.                                                 *)
SwitchZone(r) ==
  /\ refresh[r].at = "zone"
  /\ \/ refresh' = [refresh EXCEPT ![r].at = "lock"] /\ UNCHANGED faults
     \/ /\ faults < MaxFaults
        /\ faults' = faults + 1
        /\ refresh' = [refresh EXCEPT ![r] = Return(r)]
  /\ UNCHANGED <<file_vars, watching, client, writer, calls, stopped, dead>>

(* Lock: no new reader enters once it is asked for. *)
AskLock(r) ==
  /\ refresh[r].at = "lock" /\ writer = "free"
  /\ writer' = "asked"
  /\ UNCHANGED <<file_vars, watching, client, refresh, calls, stopped, dead, faults>>

(* Mutant: the write lock is taken without waiting for the readers. *)
GetLockMutant(r) ==
  /\ refresh[r].at = "lock" /\ writer = "asked"
  /\ writer' = "held"
  /\ refresh' = [refresh EXCEPT ![r].at = "exo"]
  /\ UNCHANGED <<file_vars, watching, client, calls, stopped, dead, faults>>

GetLock(r) ==
  /\ refresh[r].at = "lock" /\ writer = "asked" /\ readers = {}
  /\ writer' = "held"
  /\ refresh' = [refresh EXCEPT ![r].at = "exo"]
  /\ UNCHANGED <<file_vars, watching, client, calls, stopped, dead, faults>>

(* Mutant: a client that is already there is kept. *)
SetClientMutant(r) ==
  /\ refresh[r].at = "exo"
  /\ exo' = IF exo = 0 THEN refresh[r].got ELSE exo
  /\ refresh' = [refresh EXCEPT ![r].at = "creds"]
  /\ UNCHANGED <<file_vars, watching, creds, writer, calls, stopped, dead, faults>>

SetClient(r) ==
  /\ refresh[r].at = "exo"
  /\ exo' = refresh[r].got
  /\ refresh' = [refresh EXCEPT ![r].at = "creds"]
  /\ UNCHANGED <<file_vars, watching, creds, writer, calls, stopped, dead, faults>>

SetCredentials(r) ==
  /\ refresh[r].at = "creds"
  /\ creds' = refresh[r].got
  /\ writer' = "free"
  /\ refresh' = [refresh EXCEPT ![r] = Return(r)]
  /\ UNCHANGED <<file_vars, watching, exo, calls, stopped, dead, faults>>

RefreshStep(r) ==
  /\ ~dead
  /\ \/ Decode(r) \/ SwitchZone(r) \/ AskLock(r) \/ GetLock(r)
     \/ SetClient(r) \/ SetCredentials(r)

-----------------------------------------------------------------------------
(* watchCredentialsFile *)

(* Mutant: the watcher does not wait for the constructor's refresh. *)
WatchMutant ==
  /\ refresh["watch"].at = "start"
  /\ watching' = TRUE
  /\ refresh' = [refresh EXCEPT !["watch"].at = "select"]
  /\ UNCHANGED <<file_vars, client, writer, calls, stopped, dead, faults>>

(* The goroutine starts after the first refresh and begins to watch. *)
Watch ==
  /\ refresh["init"].at = "end" /\ refresh["watch"].at = "start"
  /\ watching' = TRUE
  /\ refresh' = [refresh EXCEPT !["watch"].at = "select"]
  /\ UNCHANGED <<file_vars, client, writer, calls, stopped, dead, faults>>

(* Mutant: a receive from the channel does not wait for an event. *)
ReceiveMutant ==
  /\ refresh["watch"].at = "select"
  /\ events' = events - 1
  /\ refresh' = [refresh EXCEPT !["watch"].at = "open"]
  /\ UNCHANGED <<file, watching, client, writer, calls, stopped, dead, faults>>

(* An event on the file starts a refresh. *)
Receive ==
  /\ refresh["watch"].at = "select" /\ events > 0
  /\ events' = events - 1
  /\ refresh' = [refresh EXCEPT !["watch"].at = "open"]
  /\ UNCHANGED <<file, watching, client, writer, calls, stopped, dead, faults>>

StopWatching ==
  /\ refresh["watch"].at = "select" /\ stopped
  /\ refresh' = [refresh EXCEPT !["watch"].at = "end"]
  /\ UNCHANGED <<file_vars, watching, client, writer, calls, stopped, dead, faults>>

(* The provider's stop channel is closed. *)
Stop ==
  /\ ~stopped
  /\ stopped' = TRUE
  /\ UNCHANGED <<file_vars, watching, client, refresh, writer, calls, dead, faults>>

WatchStep == ~dead /\ (Static \/ NoCredentials \/ Watch \/ Receive \/ StopWatching)

-----------------------------------------------------------------------------
(* A call through the client: CreateLoadBalancer and the other wrappers *)

(* The provider's calls begin once the constructor has returned. *)
Begin(c) ==
  /\ ~dead /\ call[c] = "out" /\ refresh["init"].at \in {"end", "done"}
  /\ call' = [call EXCEPT ![c] = "ask"]
  /\ UNCHANGED <<file_vars, watching, client, refresh, writer, readers, used, stopped, dead, faults>>

RLock(c) ==
  /\ call[c] = "ask" /\ writer = "free"
  /\ readers' = readers \cup {c}
  /\ call' = [call EXCEPT ![c] = "request"]
  /\ UNCHANGED <<file_vars, watching, client, refresh, writer, used, stopped, dead, faults>>

(* c.exo.<Operation>; a nil client panics, which ends the program. *)
Request(c) ==
  /\ call[c] = "request"
  /\ dead' = (exo = 0)
  /\ used' = [used EXCEPT ![c] = exo]
  /\ call' = [call EXCEPT ![c] = "wait"]
  /\ UNCHANGED <<file_vars, watching, client, refresh, writer, readers, stopped, faults>>

(* Mutant: the wrapper waits with c.Wait, which takes the read lock again. *)
WaitMutant(c) ==
  /\ call[c] = "wait" /\ writer = "free"
  /\ readers' = readers \ {c}
  /\ used' = [used EXCEPT ![c] = 0]
  /\ call' = [call EXCEPT ![c] = "out"]
  /\ UNCHANGED <<file_vars, watching, client, refresh, writer, stopped, dead, faults>>

(* c.exo.Wait, with the client the request went through; then RUnlock. *)
Wait(c) ==
  /\ call[c] = "wait"
  /\ readers' = readers \ {c}
  /\ used' = [used EXCEPT ![c] = 0]
  /\ call' = [call EXCEPT ![c] = "out"]
  /\ UNCHANGED <<file_vars, watching, client, refresh, writer, stopped, dead, faults>>

CallStep(c) == ~dead /\ (RLock(c) \/ Request(c) \/ Wait(c))

-----------------------------------------------------------------------------
Next ==
  \/ Truncate \/ Complete \/ Replace \/ Remove \/ WatchStep \/ Stop
  \/ \E r \in Refresher : RefreshStep(r)
  \/ \E c \in Caller : Begin(c) \/ CallStep(c)

Spec == Init /\ [][Next]_vars

(* Goroutines run, a reader that waits is let in when a writer leaves,   *)
(* operations end, a file that has been truncated is completed.            *)
Fairness ==
  /\ WF_vars(WatchStep) /\ WF_vars(Complete)
  /\ \A r \in Refresher : WF_vars(RefreshStep(r))
  /\ \A c \in Caller : SF_vars(CallStep(c))

FairSpec == Spec /\ Fairness

-----------------------------------------------------------------------------
(* Properties *)

(* Every variable has its type. *)
TypeOK ==
  /\ file \in [ver: Version, whole: BOOLEAN, there: BOOLEAN]
  /\ events \in Nat
  /\ watching \in BOOLEAN /\ stopped \in BOOLEAN /\ dead \in BOOLEAN
  /\ exo \in Credentials /\ creds \in Credentials
  /\ refresh \in [Refresher -> Refresh]
  /\ writer \in {"free", "asked", "held"}
  /\ readers \subseteq Caller
  /\ call \in [Caller -> {"out", "ask", "request", "wait"}]
  /\ used \in [Caller -> Credentials]
  /\ faults \in Nat

(* An operation is waited for with the client that started it, and while a  *)
(* call is under way client and credentials belong together: a refresh      *)
(* never replaces the client under a call.                                  *)
SameClient ==
  \A c \in Caller :
    /\ call[c] = "wait" => used[c] = exo
    /\ call[c] \in {"request", "wait"} => exo = creds

(* The client is only ever replaced by one with newer credentials, and never *)
(* by one built from what was read of a half-written file (client.go:187).   *)
NeverOlder == [][exo' # exo => exo' # Half /\ exo' > exo]_vars

(* "API credentials [can] be dynamically set": until a client could be      *)
(* built, no call goes through a nil one.                                   *)
NoPanic == \A c \in Caller : call[c] = "wait" => used[c] # 0

(* Every call ends, however many refreshes ask for the write lock. *)
CallsEnd ==
  \A c \in Caller : call[c] = "ask" ~> call[c] = "out" \/ dead

(* Every refresh gets the write lock, however many calls run. *)
RefreshEnds ==
  \A r \in Refresher : refresh[r].at = "lock" ~> refresh[r].at = "exo" \/ dead

(* The file is watched, "allowing API credentials to be dynamically set or  *)
(* refreshed": unless a zone lookup fails or the file changes before it is  *)
(* watched, the client has the credentials of the file once it no longer    *)
(* changes and until the provider stops.                                    *)
EventuallyFresh ==
  [](~dead /\ faults = 0 /\ (watching \/ file.ver = 1))
    => <>[](stopped \/ ~file.there \/ exo = file.ver)

(* The client is a store of credentials that change only between uses, and  *)
(* only to newer ones: locks, file and watcher implement CredentialStore.   *)
Store == INSTANCE CredentialStore WITH cur <- exo, users <- readers, started <- used

StoreSpec == Store!Spec

=============================================================================
