------------------------------- MODULE MCNodes ------------------------------
(* Instances of Nodes for TLC: a Node on a Compute instance with a private  *)
(* network, a Node elsewhere, and the configurations an operator may go     *)
(* through.                                                                 *)
EXTENDS Nodes, TLC

CONSTANTS alpha, beta, u1, u2, re, x1, pubIP, privIP

MCLabel == {"", "external", "standard.medium", "standard.small", "ch-gva-2", "attic", "mine"}
MCMatches == (re :> {alpha, beta})
MCSystemUUID == (alpha :> u1 @@ beta :> u2)
MCNodeIP == (alpha :> {None, privIP} @@ beta :> {None})
MCAttr ==
  (u1 :> [name |-> alpha, type |-> "standard.medium", pub |-> pubIP, v6 |-> None, priv |-> TRUE]
   @@ u2 :> [name |-> beta, type |-> "standard.small", pub |-> pubIP, v6 |-> None, priv |-> FALSE])

Override(name, external) ==
  [name |-> name, external |-> external, id |-> None, type |-> "", region |-> "", addrs |-> {}]

(* beta external; all Nodes external, beta with an ID and addresses of its  *)
(* own; alpha with another type and address; no API.                        *)
MCConfigs ==
  {[externalOnly |-> FALSE, overrides |-> <<Override(beta, TRUE)>>],
   [externalOnly |-> FALSE,
    overrides |-> <<Override(re, TRUE),
                    [Override(beta, TRUE) EXCEPT !.id = x1, !.region = "attic",
                                                 !.addrs = {<<"InternalIP", privIP>>}]>>],
   [externalOnly |-> FALSE,
    overrides |-> <<[Override(alpha, FALSE) EXCEPT !.type = "mine",
                                                   !.addrs = {<<"InternalIP", privIP>>}]>>],
   [externalOnly |-> TRUE, overrides |-> <<Override(beta, TRUE)>>]}

(* The hypothesis of the theorems about IDs holds here. *)
ASSUME MCDistinctIDs == DistinctIDs

=============================================================================
