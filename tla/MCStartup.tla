------------------------------ MODULE MCStartup ------------------------------
(* Instances of Startup for TLC. *)
EXTENDS Startup

CONSTANTS seed1, seed2

\* Two seeds; a seed that is sent our address, and an inbound session; no pool
\* and both sessions; a pool without seeds.
MCConfigurations == {
    [pool |-> TRUE, self |-> FALSE, inbound |-> FALSE, outbound |-> FALSE, seeds |-> {seed1, seed2}],
    [pool |-> TRUE, self |-> TRUE, inbound |-> TRUE, outbound |-> FALSE, seeds |-> {seed1}],
    [pool |-> FALSE, self |-> FALSE, inbound |-> TRUE, outbound |-> TRUE, seeds |-> {seed1}],
    [pool |-> TRUE, self |-> FALSE, inbound |-> FALSE, outbound |-> TRUE, seeds |-> {}]}
==============================================================================
