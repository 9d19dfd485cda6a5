--------------------------- MODULE CredentialStore --------------------------
(***************************************************************************)
(* What the refreshable client (exoscale/client.go) promises its callers:  *)
(* a store of API credentials in which newer ones replace older ones, but  *)
(* never while a caller uses the store, so that each use sees one set of   *)
(* credentials from its start to its end.  There is no lock, no file and   *)
(* no watcher here; RefreshableClient implements this specification.       *)
(***************************************************************************)
EXTENDS Integers

CONSTANT Caller  \* who uses the credentials

VARIABLES
  cur,    \* the credentials in the store, 0 before the first
  users,  \* the callers that use the store
  started \* the credentials each use was started with, 0 before it is

vars == <<cur, users, started>>

Init == cur = 0 /\ users = {} /\ started = [c \in Caller |-> 0]

(* Newer credentials, when no one uses the store. *)
Install ==
  /\ users = {}
  /\ cur' \in Nat /\ cur' > cur
  /\ UNCHANGED <<users, started>>

Acquire(c) ==
  /\ c \notin users
  /\ users' = users \cup {c}
  /\ UNCHANGED <<cur, started>>

Start(c) ==
  /\ c \in users /\ started[c] = 0
  /\ started' = [started EXCEPT ![c] = cur]
  /\ UNCHANGED <<cur, users>>

(* A use ends with the credentials it was started with. *)
Finish(c) ==
  /\ c \in users /\ started[c] = cur
  /\ users' = users \ {c}
  /\ started' = [started EXCEPT ![c] = 0]
  /\ UNCHANGED cur

Next == Install \/ \E c \in Caller : Acquire(c) \/ Start(c) \/ Finish(c)

Spec == Init /\ [][Next]_vars

=============================================================================
