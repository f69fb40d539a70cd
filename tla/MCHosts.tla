------------------------------- MODULE MCHosts -------------------------------
(* Small instances of Hosts for TLC. *)
EXTENDS Hosts

CONSTANTS a, b, c, z, v

MCHost == {a, b, c, z, v}
MCZeroPort == {z, v}
MCInvalid == {v}

\* All lists up to the given length over a set of addresses.
ListsUpTo(S, n) == UNION {[1..k -> S] : k \in 0..n}

MCBatches == ListsUpTo({a, b, c}, 3) \cup {<<v, a>>, <<z, z, b>>, <<v, z, c, a>>}
MCSavedFiles == {f \in ListsUpTo({a, b, z}, 3) : Distinct(f)}
==============================================================================
