------------------------------- MODULE MCIpam -------------------------------
(* Small instances of Ipam: three bit addresses, and CIDRs at the edges of  *)
(* what parseCidr accepts.                                                 *)
EXTENDS Ipam

Cidr(addr, len, gw) == [addr |-> addr, len |-> len, gateway |-> gw]

MCDocs == {Cidr(5, 1, 1), Cidr(6, 0, 2), Cidr(4, 2, 1)}
=============================================================================
