----------------------------- MODULE MCDNSClient ------------------------------
(* Values of the constants of DNSClient for TLC. *)
EXTENDS DNSClient

\* rr_ two steps before it wraps, and two before it is 0 again.
StartValues == {IntMax - 1, -2}
===============================================================================
