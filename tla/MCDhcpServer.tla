---------------------------- MODULE MCDhcpServer ----------------------------
(* Small instances of the DHCP server: bitmap words of two bits, so that   *)
(* the pool meets a word boundary (octet 4W) and, in one instance, the     *)
(* fifth bitmap range (octets 4W+1 .. 5W).                                 *)
EXTENDS DhcpServer, TLC

CONSTANTS c1, c2, c3, none

MCClients2 == {c1, c2}
MCClients3 == {c1, c2, c3}

(* Own address and gateway; the gateway lies inside the pool.              *)
MCNet == {<<5, 6>>}

(* The interface may also be given an address out of the pool.             *)
MCNets == {<<5, 6>>, <<7, 6>>}

(* What is given to dhcps_set_addr_pool: a pool that leaves the fixed      *)
(* range; or none, which opens the whole subnet, fifth range included.     *)
MCLeasePools == {NoPool, <<5, 8>>}
MCNoPools == {}

MCReq == {6, 7, 8, Foreign, NoOption}
MCReqRange5 == {9, NoOption}

Symmetry3 == Permutations(MCClients3)
=============================================================================
