------------------------------- MODULE Opening --------------------------------
(***************************************************************************)
(* What a handshake promises the session that opens a connection, whatever *)
(* the threads and messages that take part in it (module Handshake):       *)
(* the session is told once; it is told of success only when the peer's    *)
(* version is known and sufficient, the lesser version is negotiated, and  *)
(* the peer has acknowledged ours; and what it was told, and the versions  *)
(* it then reads from the channel, change no more.                         *)
(***************************************************************************)
EXTENDS Integers

CONSTANTS
    OwnVersion,         \* settings.protocol_maximum
    MinimumVersion,     \* settings.protocol_minimum
    PeerVersions        \* values of the peer's version messages

VARIABLES
    halted,             \* the channel is stopped
    calls,              \* how often the session was told of the handshake
    outcome,            \* the code it was told
    peerVersion,        \* peer_version_ of the channel, -1 until it is set
    negotiated,         \* negotiated version of the channel
    verackReceived      \* the peer has accepted our version

toldVars == <<calls, outcome>>
versionVars == <<peerVersion, negotiated>>
openingVars == <<halted, toldVars, versionVars, verackReceived>>

OpeningInit ==
    /\ halted = FALSE
    /\ calls = 0
    /\ outcome = "none"
    /\ peerVersion = -1
    /\ negotiated = OwnVersion
    /\ verackReceived = FALSE

\* The peer's version is enough for us; the versions are set once.
Meet(version) ==
    /\ outcome # "success"
    /\ peerVersion = -1
    /\ version >= MinimumVersion
    /\ peerVersion' = version
    /\ negotiated' = IF version < OwnVersion THEN version ELSE OwnVersion
    /\ UNCHANGED <<halted, toldVars, verackReceived>>

Acknowledge ==
    /\ verackReceived' = TRUE
    /\ UNCHANGED <<halted, toldVars, versionVars>>

Succeed ==
    /\ calls = 0
    /\ peerVersion # -1
    /\ verackReceived
    /\ calls' = 1
    /\ outcome' = "success"
    /\ UNCHANGED <<halted, versionVars, verackReceived>>

Fail ==
    /\ calls = 0
    /\ calls' = 1
    /\ outcome' \in {"channel_stopped", "channel_timeout"}
    /\ UNCHANGED <<halted, versionVars, verackReceived>>

Halt ==
    /\ ~halted
    /\ halted' = TRUE
    /\ UNCHANGED <<toldVars, versionVars, verackReceived>>

OpeningNext ==
    \/ Acknowledge \/ Succeed \/ Fail \/ Halt
    \/ \E version \in PeerVersions : Meet(version)

OpeningSpec == OpeningInit /\ [][OpeningNext]_openingVars
==============================================================================
