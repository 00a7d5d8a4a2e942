--------------------------- MODULE MCHostChecks ---------------------------
(***************************************************************************)
(* Firewalls for TLC: one of each kind; ufw that refuses by default, as it *)
(* is installed, iptables that does not, and nft with and without a table  *)
(* of the host that drops.                                                 *)
(***************************************************************************)
EXTENDS HostChecks

OneOfEach == {[kind |-> "ufw", drops |-> TRUE], [kind |-> "iptables", drops |-> FALSE],
              [kind |-> "nft", drops |-> FALSE], [kind |-> "nft", drops |-> TRUE],
              [kind |-> "none", drops |-> FALSE]}

=============================================================================
