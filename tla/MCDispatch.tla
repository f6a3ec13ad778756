----------------------------- MODULE MCDispatch -----------------------------
(* Instances of Dispatch for TLC.                                           *)
EXTENDS Dispatch

CONSTANTS i1, i2

\* Every case belongs to one issuer, so they all compete for its quota.
OneIssuer == [ c \in Cases |-> i1 ]

NoOffset == [ c \in Cases |-> 0 ]

=============================================================================
