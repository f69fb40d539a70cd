--------------------------- MODULE ProtocolsProofs ----------------------------
(***************************************************************************)
(* The ping protocol drops no honest peer, for all nonces and versions.    *)
(* The inductive invariant orders the two threads that send pings (the one *)
(* that attaches is done before the heartbeat's begins, unless a heartbeat *)
(* was early) and ties pending_ to the one subscription for a pong.        *)
(* ToCome says that neither a heartbeat nor a stop is lost.                *)
(***************************************************************************)
EXTENDS Protocols, TLAPS

\* The ping protocol loses its event handler only with the channel.
EventsInv ==
    /\ notices["ping"] = "posted" => halted
    /\ attach \notin {"none", "ping"} /\ ~events["ping"] => halted
    /\ pingPc["stop"] \in {"idle", "cancel"}

\* The threads take turns: start() first, then one heartbeat at a time.
OrderInv ==
    /\ attach # "done" => pingPc["timer"] = "idle" /\ heartbeat # "expired"
    /\ attach \in {"none", "ping", "refused"} => heartbeat = "none"
    /\ pingPc["main"] # "idle" => attach \in {"heartbeat", "reject", "address"}
    /\ pingPc["main"] \in {"reset", "arm"} => attach = "heartbeat" /\ heartbeat = "none"
    /\ pingPc["main"] \in {"event", "send"} => attach # "heartbeat"
    /\ pingPc["main"] # "cancel" /\ pingPc["timer"] # "cancel"
    /\ pingPc["timer"] # "idle" => heartbeat = "none"

\* pending_ is set exactly while the pong of the last ping is subscribed.
PongInv ==
    /\ \/ attach \in {"none", "ping", "heartbeat", "refused"}
       \/ pingPc["main"] \in {"event", "send"}
       => ~pending /\ awaiting = {} /\ owed = {}
    /\ pingPc["timer"] = "send" => ~pending
    /\ ~halted => /\ owed = awaiting
                  /\ pending <=> awaiting # {}
                  /\ \A m, n \in awaiting : m = n

\* Every stop has its cause.
CauseInv ==
    /\ (heartbeat = "expired" \/ pingPc["timer"] = "event") /\ pending /\ ~halted
          => "late" \in faults
    /\ dropped = "channel_timeout" => "late" \in faults
    /\ dropped = "bad_stream" => "nonce" \in faults

PingInv ==
    /\ TypeOK
    /\ EventsInv
    /\ "early" \notin faults => OrderInv /\ PongInv /\ CauseInv

-----------------------------------------------------------------------------
\* The initial state satisfies the invariant.
LEMMA InitHolds == Init => PingInv
<1> SUFFICES ASSUME Init PROVE PingInv
    OBVIOUS
<1>1. halted \in BOOLEAN /\ pending \in BOOLEAN /\ ~halted /\ ~pending
  BY Zenon DEF Init, OpeningInit
<1>2. TypeOK
  BY <1>1, ProtocolsAssumption DEF Init, OpeningInit, TypeOK
<1>3. EventsInv
  BY DEF Init, EventsInv, Attached, PingThread
<1>4. OrderInv
  BY DEF Init, OrderInv, PingThread
<1>5. PongInv /\ CauseInv
  BY <1>1 DEF Init, PongInv, CauseInv, PingThread
<1> QED
  BY <1>2, <1>3, <1>4, <1>5 DEF PingInv

\* What a stop does to the channel and to the stop subscriptions.
LEMMA StopHolds ==
    ASSUME TypeOK, Stop
    PROVE  /\ halted' \in BOOLEAN /\ halted'
           /\ notices' \in [Attached -> {"none", "subscribed", "posted", "done"}]
<1>1. CASE halted
  BY <1>1 DEF Stop, TypeOK
<1>2. CASE ~halted
  BY <1>2 DEF Stop, NotifyProtocols, TypeOK
<1> QED
  BY <1>1, <1>2

\* The kinds of steps: each of the invariants below looks at the ones that
\* change what it speaks of.
LEMMA StepKinds ==
    ASSUME [Next]_vars
    PROVE  \/ Handshake \/ UNCHANGED vars
           \/ \E type \in Relayed : RelayMessage(type) \/ HandleRelayed(type)
           \/ ConnectionStops \/ StoreConnection \/ AttachPing \/ FirstHeartbeat
           \/ AttachReject \/ AttachAddress \/ HeartbeatExpires \/ HandleHeartbeat
           \/ CancelHeartbeat \/ \E p \in Attached : HandleProtocolStopped(p)
           \/ \E t \in PingThread : TestPending(t) \/ TestReset(t) \/ ArmHeartbeat(t)
           \/ \E t \in PingThread, nonce \in Nonces : SendPing(t, nonce)
           \/ \E nonce \in Nonces : HandleReceivePong(nonce)
BY Zenon DEF Next, AttachProtocols, Heartbeat, ProtocolStopped, PingStep

-----------------------------------------------------------------------------
\* Every step keeps the types.
LEMMA TypeStep == ASSUME TypeOK, [Next]_vars PROVE TypeOK'
<1> USE DEF openingVars, toldVars, versionVars, handshakeVars, eventsVars, pongVars, relayVars,
            dropVars
<1>1. CASE Handshake
  <2>1. negotiated' \in Nat
    BY <1>1, ProtocolsAssumption DEF Handshake, Meet, Acknowledge, Succeed, Fail, TypeOK
  <2>2. halted' = halted /\ UNCHANGED pingVars
    BY <1>1 DEF Handshake, Meet, Acknowledge, Succeed, Fail
  <2> QED
    BY <2>1, <2>2 DEF TypeOK, pingVars
<1>2. CASE UNCHANGED vars
  BY <1>2 DEF TypeOK, vars, pingVars
<1>3. ASSUME NEW type \in Relayed, RelayMessage(type) \/ HandleRelayed(type) PROVE TypeOK'
  BY <1>3, ZenonT(40) DEF TypeOK, RelayMessage, HandleRelayed
<1>4. CASE ConnectionStops
  <2>1. halted' \in BOOLEAN
    BY <1>4 DEF ConnectionStops, Halt
  <2> QED
    BY <1>4, <2>1 DEF TypeOK, ConnectionStops, Halt, NotifyProtocols
<1>5. CASE StoreConnection
  <2>1. /\ halted' \in BOOLEAN
        /\ notices' \in [Attached -> {"none", "subscribed", "posted", "done"}]
    BY <1>5, StopHolds DEF StoreConnection, TypeOK
  <2> QED
    BY <1>5, <2>1 DEF TypeOK, StoreConnection
<1>6. ASSUME NEW p \in Attached, StartEvents(p)
      PROVE  /\ events' \in [Attached -> BOOLEAN]
             /\ notices' \in [Attached -> {"none", "subscribed", "posted", "done"}]
  BY <1>6 DEF StartEvents, TypeOK
<1>7. CASE AttachPing
  BY <1>6, <1>7, Zenon DEF TypeOK, AttachPing, Attached
<1>8. CASE FirstHeartbeat
  BY <1>8, Zenon DEF TypeOK, FirstHeartbeat
<1>9. CASE AttachReject
  BY <1>6, <1>9 DEF TypeOK, AttachReject, Attached, Listen, Relayed
<1>10. CASE AttachAddress
  BY <1>6, <1>10 DEF TypeOK, AttachAddress, Attached, Listen, Relayed
<1>11. CASE HeartbeatExpires
  BY <1>11 DEF TypeOK, HeartbeatExpires
<1>12. CASE HandleHeartbeat
  BY <1>12, Zenon DEF TypeOK, HandleHeartbeat
<1>13. CASE CancelHeartbeat
  BY <1>13, Zenon DEF TypeOK, CancelHeartbeat
<1>14. ASSUME NEW p \in Attached, HandleProtocolStopped(p) PROVE TypeOK'
  BY <1>14, Zenon DEF TypeOK, HandleProtocolStopped
<1>15. ASSUME NEW t \in PingThread, TestPending(t) PROVE TypeOK'
  <2>1. pingPc' \in [PingThread -> {"idle", "event", "send", "reset", "arm", "cancel"}]
    BY <1>15 DEF TestPending, AfterEvent, TypeOK
  <2>2. /\ halted' \in BOOLEAN
        /\ notices' \in [Attached -> {"none", "subscribed", "posted", "done"}]
        /\ dropped' \in {"none", "channel_timeout", "bad_stream"}
    BY <1>15, StopHolds DEF TestPending, Drop, TypeOK
  <2> QED
    BY <1>15, <2>1, <2>2 DEF TestPending, TypeOK
<1>16. ASSUME NEW t \in PingThread, TestReset(t) \/ ArmHeartbeat(t) PROVE TypeOK'
  BY <1>16, ZenonT(40) DEF TypeOK, TestReset, ArmHeartbeat
<1>17. ASSUME NEW t \in PingThread, NEW nonce \in Nonces, SendPing(t, nonce) PROVE TypeOK'
  <2>1. pending' \in BOOLEAN
    BY <1>17 DEF SendPing
  <2> QED
    BY <1>17, <2>1 DEF TypeOK, SendPing, AfterEvent
<1>18. ASSUME NEW nonce \in Nonces, HandleReceivePong(nonce) PROVE TypeOK'
  <2>1. pending' \in BOOLEAN
    BY <1>18, Zenon DEF HandleReceivePong
  <2>2. /\ halted' \in BOOLEAN
        /\ notices' \in [Attached -> {"none", "subscribed", "posted", "done"}]
        /\ dropped' \in {"none", "channel_timeout", "bad_stream"}
    BY <1>18, StopHolds DEF HandleReceivePong, Drop, TypeOK
  <2> QED
    BY <1>18, <2>1, <2>2 DEF TypeOK, HandleReceivePong
<1> QED
  BY <1>1, <1>2, <1>3, <1>4, <1>5, <1>7, <1>8, <1>9, <1>10, <1>11, <1>12, <1>13, <1>14,
     <1>15, <1>16, <1>17, <1>18, StepKinds, Zenon

\* Every step keeps the ping protocol's hold on the channel.
LEMMA EventsStep == ASSUME TypeOK, EventsInv, [Next]_vars PROVE EventsInv'
<1> USE DEF openingVars, toldVars, versionVars, handshakeVars, eventsVars, EventsInv
<1>1. ASSUME UNCHANGED <<halted, attach, eventsVars, pingPc>> PROVE EventsInv'
  BY <1>1
<1>2. CASE \/ Handshake \/ UNCHANGED vars \/ HeartbeatExpires
           \/ \E type \in Relayed : RelayMessage(type) \/ HandleRelayed(type)
  BY <1>1, <1>2 DEF Handshake, Meet, Acknowledge, Succeed, Fail, vars, pingVars, HeartbeatExpires,
     RelayMessage, HandleRelayed
<1>3. ASSUME Stop, UNCHANGED <<events, pingPc>> PROVE EventsInv'
  BY <1>3, StopHolds
<1>4. CASE ConnectionStops
  BY <1>4 DEF ConnectionStops, Halt
<1>5. CASE StoreConnection
  BY <1>3, <1>5 DEF StoreConnection
<1>6. CASE AttachPing
  BY <1>6, Zenon DEF AttachPing, StartEvents, TypeOK, Attached, PingThread
<1>7. CASE AttachReject \/ AttachAddress
  BY <1>7 DEF AttachReject, AttachAddress, StartEvents, TypeOK, Attached
<1>8. CASE FirstHeartbeat \/ HandleHeartbeat \/ CancelHeartbeat
  BY <1>8 DEF FirstHeartbeat, HandleHeartbeat, CancelHeartbeat, TypeOK, PingThread
<1>9. ASSUME NEW p \in Attached, HandleProtocolStopped(p) PROVE EventsInv'
  BY <1>9 DEF HandleProtocolStopped, TypeOK, Attached, PingThread
<1>10. ASSUME NEW t \in PingThread, TestPending(t) PROVE EventsInv'
  <2>1. t # "stop" /\ pingPc'["stop"] = pingPc["stop"]
    BY <1>10 DEF TestPending, TypeOK, PingThread
  <2>2. CASE Stop
    BY <1>10, <2>1, <2>2, StopHolds DEF TestPending
  <2>3. CASE UNCHANGED <<halted, notices>>
    BY <1>10, <2>1, <2>3 DEF TestPending
  <2> QED
    BY <1>10, <2>2, <2>3 DEF TestPending, Drop
<1>11. ASSUME NEW t \in PingThread, TestReset(t) \/ ArmHeartbeat(t) PROVE EventsInv'
  BY <1>11 DEF TestReset, ArmHeartbeat, TypeOK, PingThread
<1>12. ASSUME NEW t \in PingThread, NEW nonce \in Nonces, SendPing(t, nonce) PROVE EventsInv'
  BY <1>12 DEF SendPing, TypeOK, PingThread
<1>13. ASSUME NEW nonce \in Nonces, HandleReceivePong(nonce) PROVE EventsInv'
  BY <1>1, <1>3, <1>13 DEF HandleReceivePong, Drop
<1> QED
  BY <1>2, <1>4, <1>5, <1>6, <1>7, <1>8, <1>9, <1>10, <1>11, <1>12, <1>13, StepKinds, Zenon

\* Without an early heartbeat, every step keeps the threads' turns.
LEMMA OrderStep ==
    ASSUME TypeOK, EventsInv, OrderInv, [Next]_vars, "early" \notin faults'
    PROVE  OrderInv'
<1> USE DEF openingVars, toldVars, versionVars, handshakeVars, eventsVars, OrderInv
<1>1. ASSUME UNCHANGED <<attach, heartbeat, pingPc>> PROVE OrderInv'
  BY <1>1
<1>2. CASE \/ Handshake \/ UNCHANGED vars \/ ConnectionStops
           \/ \E type \in Relayed : RelayMessage(type) \/ HandleRelayed(type)
           \/ \E nonce \in Nonces : HandleReceivePong(nonce)
  BY <1>1, <1>2 DEF Handshake, vars, pingVars, ConnectionStops, RelayMessage, HandleRelayed,
     HandleReceivePong
<1>3. CASE StoreConnection
  BY <1>3 DEF StoreConnection
<1>4. CASE AttachPing \/ FirstHeartbeat
  BY <1>4 DEF AttachPing, FirstHeartbeat, MainIdle, TypeOK, PingThread
<1>5. CASE AttachReject \/ AttachAddress
  BY <1>5 DEF AttachReject, AttachAddress, MainIdle
<1>6. CASE HeartbeatExpires
  BY <1>6 DEF HeartbeatExpires
<1>7. CASE HandleHeartbeat \/ CancelHeartbeat
  BY <1>7 DEF HandleHeartbeat, CancelHeartbeat, TypeOK, PingThread
<1>8. ASSUME NEW p \in Attached, HandleProtocolStopped(p) PROVE OrderInv'
  BY <1>8 DEF HandleProtocolStopped, TypeOK, PingThread
<1>9. ASSUME NEW t \in PingThread, \/ TestPending(t) \/ TestReset(t) \/ ArmHeartbeat(t)
                                  \/ \E nonce \in Nonces : SendPing(t, nonce)
      PROVE  OrderInv'
  <2>1. t \in {"main", "timer"}
    BY <1>9 DEF TestPending, TestReset, ArmHeartbeat, SendPing, EventsInv, PingThread
  <2>2. attach' = attach /\ pingPc' = [pingPc EXCEPT ![t] = pingPc'[t]]
    BY <1>9 DEF TestPending, TestReset, ArmHeartbeat, SendPing, TypeOK
  <2>3. CASE TestPending(t) \/ \E nonce \in Nonces : SendPing(t, nonce)
    <3>1. /\ heartbeat' = heartbeat /\ pingPc[t] \in {"event", "send"}
          /\ pingPc'[t] \in {"send", AfterEvent(t)}
      BY <2>3 DEF TestPending, SendPing, TypeOK
    <3> QED
      BY <2>1, <2>2, <3>1 DEF AfterEvent, TypeOK, PingThread
  <2>4. CASE TestReset(t)
    BY <2>1, <2>2, <2>4 DEF TestReset, TypeOK, PingThread
  <2>5. CASE ArmHeartbeat(t)
    BY <2>1, <2>2, <2>5 DEF ArmHeartbeat, TypeOK, PingThread
  <2> QED
    BY <1>9, <2>3, <2>4, <2>5
<1> QED
  BY <1>2, <1>3, <1>4, <1>5, <1>6, <1>7, <1>8, <1>9, StepKinds, Zenon

\* Without an early heartbeat, every step keeps pending_ and the subscription
\* for a pong together.
LEMMA PongStep ==
    ASSUME TypeOK, EventsInv, OrderInv, PongInv, [Next]_vars, "early" \notin faults'
    PROVE  PongInv'
<1> USE DEF openingVars, toldVars, versionVars, handshakeVars, eventsVars, pongVars
<1>1. ASSUME UNCHANGED <<attach, pingPc, pongVars>>, halted => halted'
      PROVE  PongInv'
  BY <1>1 DEF PongInv
<1>2. CASE \/ Handshake \/ UNCHANGED vars \/ HeartbeatExpires
           \/ \E type \in Relayed : RelayMessage(type) \/ HandleRelayed(type)
  BY <1>1, <1>2 DEF Handshake, Meet, Acknowledge, Succeed, Fail, vars, pingVars, RelayMessage,
     HandleRelayed, HeartbeatExpires
<1>3. CASE ConnectionStops
  BY <1>1, <1>3 DEF ConnectionStops, Halt
<1>4. CASE StoreConnection
  <2>1. halted => halted'
    BY <1>4, StopHolds, Zenon DEF StoreConnection
  <2> QED
    BY <1>4, <2>1 DEF StoreConnection, PongInv
<1>5. CASE AttachPing \/ FirstHeartbeat
  BY <1>5 DEF AttachPing, FirstHeartbeat, MainIdle, TypeOK, PingThread, PongInv
<1>6. CASE AttachReject \/ AttachAddress
  BY <1>6 DEF AttachReject, AttachAddress, PongInv
<1>7. CASE HandleHeartbeat \/ CancelHeartbeat
  BY <1>7 DEF HandleHeartbeat, CancelHeartbeat, TypeOK, PingThread, PongInv
<1>8. ASSUME NEW p \in Attached, HandleProtocolStopped(p) PROVE PongInv'
  BY <1>8 DEF HandleProtocolStopped, TypeOK, PingThread, PongInv
<1>9. ASSUME NEW t \in PingThread, TestPending(t) PROVE PongInv'
  <2>1. halted => halted'
    BY <1>9, StopHolds, Zenon DEF TestPending, Drop
  <2>2. t \in {"main", "timer"} /\ UNCHANGED <<attach, pongVars>> /\ pingPc[t] = "event"
    BY <1>9 DEF TestPending, EventsInv, PingThread
  <2>3. pingPc'[t] = "send" => ~pending
    BY <1>9 DEF TestPending, TypeOK, AfterEvent
  <2>4. \A u \in PingThread : u # t => pingPc'[u] = pingPc[u]
    BY <1>9 DEF TestPending, TypeOK
  <2> QED
    BY <2>1, <2>2, <2>3, <2>4 DEF PongInv, PingThread
<1>10. ASSUME NEW t \in PingThread, TestReset(t) \/ ArmHeartbeat(t) PROVE PongInv'
  <2>1. halted' = halted /\ UNCHANGED <<attach, pongVars>>
    BY <1>10 DEF TestReset, ArmHeartbeat
  <2>2. \A u \in PingThread : pingPc'[u] \in {"event", "send"} => pingPc'[u] = pingPc[u]
    BY <1>10 DEF TestReset, ArmHeartbeat, TypeOK
  <2> QED
    BY <2>1, <2>2 DEF PongInv, PingThread
<1>11. ASSUME NEW t \in PingThread, NEW nonce \in Nonces, SendPing(t, nonce) PROVE PongInv'
  <2>1. t \in {"main", "timer"} /\ UNCHANGED <<attach, halted>> /\ pingPc[t] = "send"
    BY <1>11 DEF SendPing, EventsInv, PingThread
  <2>2. attach \in {"reject", "address", "done"}
    BY <2>1 DEF OrderInv, TypeOK
  <2>3. pingPc'["main"] \notin {"event", "send"} /\ pingPc'["timer"] # "send"
    <3>1. CASE t = "main"
      <4>1. attach # "done" /\ pingPc["timer"] = "idle"
        BY <2>1, <3>1 DEF OrderInv
      <4> QED
        BY <1>11, <3>1, <4>1 DEF SendPing, AfterEvent, TypeOK, PingThread
    <3>2. CASE t = "timer"
      <4>1. pingPc["main"] = "idle"
        BY <2>1, <3>2 DEF OrderInv
      <4> QED
        BY <1>11, <3>2, <4>1 DEF SendPing, AfterEvent, TypeOK, PingThread
    <3> QED
      BY <2>1, <3>1, <3>2
  <2>4. ~halted => awaiting = {} /\ owed = {}
    BY <2>1 DEF PongInv, TypeOK
  <2>5. ~halted => awaiting' = {nonce} /\ owed' = {nonce} /\ pending'
    BY <1>11, <2>4 DEF SendPing
  <2> QED
    BY <2>1, <2>2, <2>3, <2>5 DEF PongInv
<1>12. ASSUME NEW nonce \in Nonces, HandleReceivePong(nonce) PROVE PongInv'
  <2>1. ~halted /\ attach = "done" /\ pingPc["main"] = "idle" /\ UNCHANGED <<attach, pingPc>>
    BY <1>12 DEF HandleReceivePong, Reading, MainIdle
  <2>2. events["ping"]
    BY <2>1 DEF EventsInv
  <2>3. ~pending' /\ awaiting' = {}
    BY <1>12, <2>2, Zenon DEF HandleReceivePong
  <2>4. CASE awaiting # {nonce}
    <3>1. halted'
      BY <1>12, <2>2, <2>4, StopHolds DEF HandleReceivePong, Drop
    <3> QED
      BY <2>1, <2>3, <3>1 DEF PongInv
  <2>5. CASE awaiting = {nonce}
    <3>1. owed' = {}
      BY <1>12, <2>1, <2>5 DEF HandleReceivePong, PongInv
    <3> QED
      BY <2>1, <2>3, <3>1 DEF PongInv
  <2> QED
    BY <2>4, <2>5
<1> QED
  BY <1>2, <1>3, <1>4, <1>5, <1>6, <1>7, <1>8, <1>9, <1>10, <1>11, <1>12, StepKinds, Zenon

\* Without an early heartbeat, every stop by the ping protocol has its cause.
LEMMA CauseStep ==
    ASSUME TypeOK, EventsInv, OrderInv, PongInv, CauseInv, [Next]_vars, "early" \notin faults'
    PROVE  CauseInv'
<1> USE DEF openingVars, toldVars, versionVars, handshakeVars, eventsVars, pongVars, dropVars
<1>1. ASSUME UNCHANGED <<pending, dropVars>>, halted => halted',
             heartbeat' = "expired" => heartbeat = "expired",
             pingPc'["timer"] = "event" => heartbeat = "expired" \/ pingPc["timer"] = "event"
      PROVE  CauseInv'
  BY <1>1 DEF CauseInv
<1>2. CASE \/ Handshake \/ UNCHANGED vars
           \/ \E type \in Relayed : RelayMessage(type) \/ HandleRelayed(type)
  BY <1>1, <1>2 DEF Handshake, Meet, Acknowledge, Succeed, Fail, vars, pingVars, RelayMessage,
     HandleRelayed
<1>3. CASE ConnectionStops
  BY <1>1, <1>3 DEF ConnectionStops, Halt
<1>4. CASE StoreConnection
  <2>1. halted => halted'
    BY <1>4, StopHolds, Zenon DEF StoreConnection
  <2> QED
    BY <1>1, <1>4, <2>1 DEF StoreConnection
<1>5. CASE AttachPing \/ FirstHeartbeat \/ AttachReject \/ AttachAddress
  BY <1>1, <1>5 DEF AttachPing, FirstHeartbeat, AttachReject, AttachAddress, TypeOK, PingThread
<1>6. CASE HeartbeatExpires
  <2>1. pending /\ ~halted => "late" \in faults'
    BY <1>6 DEF HeartbeatExpires, PongInv
  <2> QED
    BY <1>6, <2>1 DEF HeartbeatExpires, CauseInv
<1>7. CASE HandleHeartbeat \/ CancelHeartbeat
  BY <1>1, <1>7 DEF HandleHeartbeat, CancelHeartbeat, TypeOK, PingThread
<1>8. ASSUME NEW p \in Attached, HandleProtocolStopped(p) PROVE CauseInv'
  BY <1>1, <1>8 DEF HandleProtocolStopped, TypeOK, PingThread
<1>9. ASSUME NEW t \in PingThread, TestPending(t) PROVE CauseInv'
  <2>1. /\ UNCHANGED <<pending, heartbeat, faults>> /\ pingPc[t] = "event"
        /\ pingPc'["timer"] = "event" => pingPc["timer"] = "event"
    BY <1>9 DEF TestPending, AfterEvent, TypeOK, PingThread
  <2>2. CASE UNCHANGED <<halted, dropped>>
    BY <1>1, <2>1, <2>2
  <2>3. CASE Drop("channel_timeout") /\ pending
    <3>1. halted'
      BY <2>3, StopHolds DEF Drop
    <3>2. t = "timer"
      BY <2>1, <2>3 DEF PongInv, EventsInv, PingThread
    <3>3. ~halted => "late" \in faults
      BY <2>1, <2>3, <3>2 DEF CauseInv
    <3> QED
      BY <2>1, <2>3, <3>1, <3>3 DEF Drop, CauseInv
  <2> QED
    BY <1>9, <2>2, <2>3 DEF TestPending
<1>10. ASSUME NEW t \in PingThread, TestReset(t) \/ ArmHeartbeat(t) PROVE CauseInv'
  BY <1>1, <1>10 DEF TestReset, ArmHeartbeat, TypeOK, PingThread
<1>11. ASSUME NEW t \in PingThread, NEW nonce \in Nonces, SendPing(t, nonce) PROVE CauseInv'
  <2>1. t \in {"main", "timer"} /\ pingPc[t] = "send"
    BY <1>11 DEF SendPing, EventsInv, PingThread
  <2>2. heartbeat # "expired"
    BY <2>1 DEF OrderInv
  <2>3. pingPc'["timer"] # "event"
    BY <1>11, <2>1 DEF SendPing, AfterEvent, OrderInv, TypeOK, PingThread
  <2> QED
    BY <1>11, <2>2, <2>3 DEF SendPing, CauseInv
<1>12. ASSUME NEW nonce \in Nonces, HandleReceivePong(nonce) PROVE CauseInv'
  <2>1. ~halted /\ attach = "done" /\ UNCHANGED <<heartbeat, pingPc>>
    BY <1>12 DEF HandleReceivePong, Reading
  <2>2. ~pending'
    BY <1>12, <2>1, Zenon DEF HandleReceivePong, EventsInv
  <2>3. faults \subseteq faults'
    BY <1>12 DEF HandleReceivePong
  <2>4. CASE UNCHANGED dropped
    BY <2>2, <2>3, <2>4 DEF CauseInv
  <2>5. CASE awaiting # {nonce} /\ Drop("bad_stream")
    <3>1. nonce \notin owed
      BY <1>12, <2>1, <2>5 DEF HandleReceivePong, PongInv
    <3>2. "nonce" \in faults' /\ dropped' = "bad_stream"
      BY <1>12, <2>1, <2>5, <3>1 DEF HandleReceivePong, Drop
    <3> QED
      BY <2>2, <3>2 DEF CauseInv
  <2> QED
    BY <1>12, <2>4, <2>5 DEF HandleReceivePong
<1> QED
  BY <1>2, <1>3, <1>4, <1>5, <1>6, <1>7, <1>8, <1>9, <1>10, <1>11, <1>12, StepKinds, Zenon

\* What went wrong is not forgotten.
LEMMA FaultsStep == ASSUME [Next]_vars PROVE faults \subseteq faults'
BY StepKinds, Zenon DEF Handshake, vars, pingVars, dropVars, RelayMessage, HandleRelayed, ConnectionStops,
   StoreConnection, AttachPing, FirstHeartbeat, AttachReject, AttachAddress, HeartbeatExpires,
   HandleHeartbeat, CancelHeartbeat, HandleProtocolStopped, TestPending, TestReset, ArmHeartbeat,
   SendPing, HandleReceivePong

\* The inductive invariant holds throughout.
LEMMA PingInvariant == Spec => []PingInv
<1>1. PingInv /\ [Next]_vars => PingInv'
  BY TypeStep, EventsStep, OrderStep, PongStep, CauseStep, FaultsStep DEF PingInv
<1> QED
  BY InitHolds, <1>1, PTL DEF Spec

-----------------------------------------------------------------------------
\* The variables of the attached protocols keep their types.
THEOREM TypeCorrect == Spec => []TypeOK
<1>1. PingInv => TypeOK
  BY DEF PingInv
<1> QED
  BY <1>1, PingInvariant, PTL

\* Whatever the nonces, and wherever the channel stops, send_ping() and
\* handle_receive_pong() on their two threads drop no peer that answers each
\* ping with its nonce before the next heartbeat.
THEOREM HonestPeersAreKept == Spec => []HonestPeerKept
<1>1. PingInv => HonestPeerKept
  BY DEF PingInv, CauseInv, HonestPeerKept
<1> QED
  BY <1>1, PingInvariant, PTL
-----------------------------------------------------------------------------
\* The heartbeat goes on and the stops arrive: while the channel is open, each
\* protocol that has started keeps its handler and its stop subscription.
ToCome ==
    /\ HeartbeatToCome
    /\ StopToCome
    /\ \A p \in Attached : ~halted /\ events[p] => notices[p] = "subscribed"
    /\ \A p \in Attached : notices[p] = "posted" => halted
    /\ pingPc["stop"] = "cancel" => halted

\* A stop posts the stop subscriptions of the protocols that have started.
LEMMA StopPosts ==
    ASSUME TypeOK, ToCome, Stop, events' = events, pingPc' = pingPc
    PROVE  ToCome'
<1>1. halted' \in BOOLEAN /\ halted'
  BY StopHolds
<1>2. ASSUME NEW p \in Attached, events[p] PROVE notices'[p] = "posted"
  BY <1>2 DEF Stop, NotifyProtocols, ToCome, StopToCome
<1> QED
  BY <1>1, <1>2 DEF ToCome, StopToCome, HeartbeatToCome

\* Every step keeps what is to come.
LEMMA ToComeStep == ASSUME TypeOK, EventsInv, ToCome, [Next]_vars PROVE ToCome'
<1> USE DEF openingVars, toldVars, versionVars, handshakeVars, eventsVars
<1>1. ASSUME UNCHANGED <<halted, attach, heartbeat, eventsVars, pingPc>> PROVE ToCome'
  BY <1>1 DEF ToCome, StopToCome, HeartbeatToCome
<1>2. CASE \/ Handshake \/ UNCHANGED vars
           \/ \E type \in Relayed : RelayMessage(type) \/ HandleRelayed(type)
  BY <1>1, <1>2 DEF Handshake, Meet, Acknowledge, Succeed, Fail, vars, pingVars, RelayMessage,
     HandleRelayed
<1>3. CASE ConnectionStops
  <2>1. Stop
    BY <1>3 DEF ConnectionStops, Halt, Stop
  <2> QED
    BY <1>3, <2>1, StopPosts DEF ConnectionStops
<1>4. CASE StoreConnection
  <2>1. CASE Stop
    BY <1>4, <2>1, StopPosts DEF StoreConnection
  <2>2. CASE attach' = "ping" /\ UNCHANGED <<halted, notices>>
    BY <1>4, <2>2 DEF StoreConnection, ToCome, StopToCome, HeartbeatToCome
  <2> QED
    BY <1>4, <2>1, <2>2 DEF StoreConnection
<1>5. ASSUME NEW q \in Attached, StartEvents(q), halted' = halted
      PROVE  /\ StopToCome'
             /\ \A p \in Attached : ~halted' /\ events'[p] => notices'[p] = "subscribed"
             /\ \A p \in Attached : notices'[p] = "posted" => halted'
  BY <1>5 DEF StartEvents, TypeOK, ToCome, StopToCome
<1>6. CASE AttachPing
  <2>1. /\ pingPc'["main"] = "reset" /\ pingPc'["stop"] = pingPc["stop"] /\ halted' = halted
        /\ StartEvents("ping")
    BY <1>6 DEF AttachPing, TypeOK, PingThread
  <2> QED
    BY <1>5, <2>1 DEF Attached, ToCome, HeartbeatToCome
<1>7. CASE AttachReject \/ AttachAddress
  <2>1. /\ UNCHANGED <<pingPc, halted, heartbeat>> /\ attach \in {"reject", "address"}
        /\ StartEvents("reject") \/ StartEvents("address")
    BY <1>7 DEF AttachReject, AttachAddress
  <2> QED
    BY <1>5, <2>1 DEF Attached, ToCome, HeartbeatToCome
<1>8. ASSUME UNCHANGED <<halted, eventsVars>>, HeartbeatToCome',
             pingPc'["stop"] = "cancel" => pingPc["stop"] = "cancel"
      PROVE  ToCome'
  BY <1>8 DEF ToCome, StopToCome
<1>9. CASE FirstHeartbeat
  BY <1>8, <1>9 DEF FirstHeartbeat, MainIdle, TypeOK, PingThread, ToCome, HeartbeatToCome
<1>10. CASE HeartbeatExpires
  BY <1>8, <1>10 DEF HeartbeatExpires, ToCome, HeartbeatToCome
<1>11. CASE HandleHeartbeat
  BY <1>8, <1>11 DEF HandleHeartbeat, TypeOK, PingThread, EventsInv, HeartbeatToCome
<1>12. CASE CancelHeartbeat
  BY <1>8, <1>12 DEF CancelHeartbeat, TypeOK, PingThread, ToCome, HeartbeatToCome
<1>13. ASSUME NEW q \in Attached, HandleProtocolStopped(q) PROVE ToCome'
  <2>1. halted
    BY <1>13 DEF HandleProtocolStopped, ToCome
  <2> QED
    BY <1>13, <2>1 DEF HandleProtocolStopped, TypeOK, ToCome, StopToCome, HeartbeatToCome
<1>14. ASSUME NEW t \in PingThread, TestPending(t) \/ \E nonce \in Nonces : SendPing(t, nonce)
       PROVE  /\ t \in {"main", "timer"} /\ UNCHANGED <<attach, heartbeat, events>>
              /\ pingPc[t] \in {"event", "send"} /\ pingPc'[t] \in {"send", AfterEvent(t)}
              /\ \A u \in PingThread : u # t => pingPc'[u] = pingPc[u]
  BY <1>14 DEF TestPending, SendPing, TypeOK, PingThread, EventsInv
<1>15. ASSUME NEW t \in PingThread, TestPending(t) \/ \E nonce \in Nonces : SendPing(t, nonce)
       PROVE  ToCome'
  <2>1. /\ pingPc["main"] \in {"reset", "arm"} => pingPc'["main"] \in {"reset", "arm"}
        /\ pingPc["timer"] # "idle" => pingPc'["timer"] # "idle"
        /\ pingPc'["stop"] = pingPc["stop"]
    BY <1>14, <1>15 DEF AfterEvent, PingThread
  <2>2. CASE UNCHANGED <<halted, notices>>
    BY <1>8, <1>14, <1>15, <2>1, <2>2 DEF ToCome, HeartbeatToCome
  <2>3. CASE Stop
    <3>1. halted' \in BOOLEAN /\ halted'
      BY <2>3, StopHolds
    <3>2. ASSUME NEW p \in Attached, events[p] PROVE notices'[p] = "posted"
      BY <2>3, <3>2 DEF Stop, NotifyProtocols, ToCome, StopToCome
    <3> QED
      BY <1>14, <1>15, <3>1, <3>2 DEF ToCome, StopToCome, HeartbeatToCome
  <2> QED
    BY <1>15, <2>2, <2>3 DEF TestPending, Drop, SendPing
<1>16. ASSUME NEW t \in PingThread, TestReset(t) \/ ArmHeartbeat(t) PROVE ToCome'
  <2>1. t \in {"main", "timer"} /\ UNCHANGED <<attach, halted, eventsVars>>
    BY <1>16 DEF TestReset, ArmHeartbeat, PingThread, EventsInv
  <2>2. CASE TestReset(t)
    <3>1. HeartbeatToCome'
      BY <2>1, <2>2 DEF TestReset, TypeOK, PingThread, EventsInv, ToCome, HeartbeatToCome
    <3>2. pingPc'["stop"] = pingPc["stop"]
      BY <2>1, <2>2 DEF TestReset, TypeOK, PingThread
    <3> QED
      BY <1>8, <2>1, <3>1, <3>2
  <2>3. CASE ArmHeartbeat(t)
    <3>1. heartbeat' = "armed" /\ pingPc'["stop"] = pingPc["stop"]
      BY <2>1, <2>3 DEF ArmHeartbeat, TypeOK, PingThread
    <3> QED
      BY <1>8, <2>1, <3>1 DEF HeartbeatToCome
  <2> QED
    BY <1>16, <2>2, <2>3
<1>17. ASSUME NEW nonce \in Nonces, HandleReceivePong(nonce) PROVE ToCome'
  BY <1>1, <1>17, StopPosts DEF HandleReceivePong, Drop
<1> QED
  BY <1>2, <1>3, <1>4, <1>6, <1>7, <1>9, <1>10, <1>11, <1>12, <1>13, <1>15, <1>16, <1>17,
     StepKinds, Zenon

\* ToCome is an invariant of the attached protocols.
LEMMA ToComeInvariant == Spec => []ToCome
<1>1. Init => ToCome
  BY DEF Init, ToCome, StopToCome, HeartbeatToCome, PingThread
<1>2. PingInv /\ ToCome /\ [Next]_vars => ToCome'
  BY ToComeStep DEF PingInv
<1> QED
  BY <1>1, <1>2, PingInvariant, PTL DEF Spec

\* The perpetual timer of the ping protocol is never lost on an open channel,
\* also when a heartbeat fires inside attach_protocols() and two threads reset
\* it: a silent peer is always found out.
THEOREM HeartbeatsGoOn == Spec => []HeartbeatToCome
<1>1. ToCome => HeartbeatToCome
  BY DEF ToCome
<1> QED
  BY <1>1, ToComeInvariant, PTL

\* A stop reaches every attached protocol, wherever in attach_protocols() it
\* falls: none keeps an event handler that nobody will clear.
THEOREM StopsReachProtocols == Spec => []StopToCome
<1>1. ToCome => StopToCome
  BY DEF ToCome
<1> QED
  BY <1>1, ToComeInvariant, PTL
==============================================================================
