------------------------- MODULE MCReverseProxyApply -------------------------
(***************************************************************************)
(* Small instances of ReverseProxyApply: one or two hosts, two upstreams,  *)
(* a bounded sequence of calls.                                            *)
(***************************************************************************)
EXTENDS ReverseProxyApply

CONSTANTS c1, c2, s1, s2, u1, u2
===============================================================================
