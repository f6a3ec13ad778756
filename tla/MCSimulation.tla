--------------------------- MODULE MCSimulation -----------------------------
(* An instance of Simulation for TLC.                                       *)
EXTENDS Simulation

CONSTANTS BuiltCauses, Moments, Delays

\* The payments that _build makes of these causes, and of an outage: one that
\* begins while another payment is under way, one past the horizon.
MCWorlds ==
    UNION { Built(c, Moments, Delays) : c \in BuiltCauses }
    \cup { w \in Built("issuer_outage", { 1, Horizon + 1 }, Delays) :
            w.code = "BANK_DOWN" }

=============================================================================
