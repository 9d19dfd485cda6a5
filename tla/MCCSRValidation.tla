-------------------------- MODULE MCCSRValidation --------------------------
(* Instances of CSRValidation for TLC: the CSRs kubelets submit and the     *)
(* Compute instances there may be.                                          *)
EXTENDS CSRValidation

CONSTANTS alpha, beta, pubIP, privIP

NodeGroups == {"system:authenticated", "system:nodes"}

NodeRequest(n, addrs) ==
  [groups |-> NodeGroups, parses |-> TRUE, names |-> {n}, ips |-> addrs]

(* Good ones, and one for each reason to leave a CSR alone. *)
NodeRequests ==
  {NodeRequest(alpha, {pubIP}), NodeRequest(alpha, {pubIP, privIP}),
   [NodeRequest(alpha, {pubIP}) EXCEPT !.groups = {"system:authenticated"}],
   [NodeRequest(alpha, {pubIP}) EXCEPT !.parses = FALSE],
   [NodeRequest(alpha, {pubIP}) EXCEPT !.names = {alpha, beta}]}

Machine(n, addr, private) ==
  [name |-> n, upper |-> FALSE, pub |-> addr, v6 |-> None, priv |-> private]

(* No instance, three with two of the same name, one with a private network, one  *)
(* with an upper-case name.                                                 *)
Machines ==
  {<<>>,
   <<Machine(alpha, pubIP, FALSE), Machine(beta, None, FALSE), Machine(alpha, None, FALSE)>>,
   <<Machine(alpha, pubIP, TRUE)>>,
   <<[Machine(alpha, pubIP, TRUE) EXCEPT !.upper = TRUE]>>}

=============================================================================
