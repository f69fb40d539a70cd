--------------------------- MODULE HandshakeProofs ----------------------------
(***************************************************************************)
(* The safety properties of Handshake hold for all protocol versions.  The *)
(* inductive invariant counts: the synchronizer's successes, with the one  *)
(* the reader may be about to report, never exceed the messages received.  *)
(* ToCome says what is left to end the handshake or to tell it of a stop.  *)
(***************************************************************************)
EXTENDS Handshake, TLAPS

Bit(b) == IF b THEN 1 ELSE 0

\* The synchronizer has invoked the session's handler once its count is two.
SyncInv ==
    /\ count < 2 => calls = 0 /\ outcome = "none"
    /\ count = 2 => calls = 1 /\ outcome \in EventCodes
    /\ endedBy = "handshake" => outcome \in EventCodes \ {"success"}

\* Each message counts once, and a known peer has been negotiated with.
MessageInv ==
    /\ \A t \in Thread : loaded[t] = "success" => t = "main"
    /\ count < 2 => count + Bit(loaded["main"] = "success")
                       <= Bit(peerVersion # Unset) + Bit(verackReceived)
    /\ outcome = "success" => peerVersion # Unset /\ verackReceived
    /\ "version" \in subscribed => peerVersion = Unset
    /\ "verack" \in subscribed => ~verackReceived
    /\ startPc = "load" => loaded["main"] = "none"
    /\ startPc \notin {"reading", "load"} =>
          subscribed = {} /\ peerVersion = Unset /\ ~verackReceived
    /\ peerVersion # Unset => /\ negotiated = Lesser(peerVersion, OwnVersion)
                              /\ negotiated >= MinimumVersion

HandshakeInv == TypeOK /\ SyncInv /\ MessageInv

-----------------------------------------------------------------------------
\* The initial state satisfies the invariant.
LEMMA InitHolds == Init => HandshakeInv
<1> SUFFICES ASSUME Init PROVE HandshakeInv
    OBVIOUS
<1>1. handler \in BOOLEAN /\ halted \in BOOLEAN /\ rejected \in BOOLEAN
      /\ verackReceived \in BOOLEAN
  BY Zenon DEF Init
<1>2. TypeOK
  BY <1>1, HandshakeAssumption DEF Init, TypeOK
<1>3. SyncInv
  BY DEF Init, SyncInv
<1>4. MessageInv
  BY DEF Init, MessageInv, Bit, Thread
<1> QED
  BY <1>2, <1>3, <1>4 DEF HandshakeInv

\* What an event does to the synchronizer.
LEMMA JoinHolds ==
    ASSUME TypeOK, SyncInv, NEW code \in EventCodes, Join(code), endedBy' = endedBy
    PROVE  /\ count' \in 0..2 /\ calls' \in Nat /\ outcome' \in EventCodes \cup {"none"}
           /\ count' < 2 => count < 2 /\ code = "success" /\ count' = count + 1
           /\ outcome' = "success" => \/ outcome = "success"
                                      \/ count = 1 /\ code = "success"
           /\ SyncInv'
<1>1. CASE count = 2
  BY <1>1 DEF Join, syncVars, TypeOK, SyncInv
<1>2. CASE count # 2
  <2>1. calls = 0 /\ outcome = "none" /\ count \in 0..1 /\ endedBy # "handshake"
    BY <1>2 DEF TypeOK, SyncInv, EventCodes
  <2>2. CASE code = "success"
    BY <1>2, <2>1, <2>2 DEF Join, Clear, SyncInv, EventCodes
  <2>3. CASE code # "success"
    BY <1>2, <2>1, <2>3 DEF Join, Clear, SyncInv, EventCodes
  <2> QED
    BY <2>2, <2>3
<1> QED
  BY <1>1, <1>2

-----------------------------------------------------------------------------
\* Every step keeps the types.
LEMMA TypeStep == ASSUME HandshakeInv, [Next]_vars PROVE TypeOK'
<1> USE DEF HandshakeInv
<1>1. ASSUME NEW t \in Thread, InvokeHandler(t) PROVE TypeOK'
  <2>1. loaded[t] \in EventCodes /\ Join(loaded[t]) /\ endedBy' = endedBy
    BY <1>1 DEF InvokeHandler, TypeOK, channelVars
  <2>2. count' \in 0..2 /\ calls' \in Nat /\ outcome' \in EventCodes \cup {"none"}
    BY <2>1, JoinHolds
  <2>3. handler' \in BOOLEAN
    BY <1>1, Zenon DEF InvokeHandler
  <2>4. timer' \in {"none", "armed", "expired"}
        /\ loaded' \in [Thread -> EventCodes \cup {"none"}]
    BY <1>1 DEF InvokeHandler, TypeOK
  <2> QED
    BY <1>1, <2>2, <2>3, <2>4 DEF InvokeHandler, TypeOK, channelVars, peerVars, messageVars
<1>2. CASE StoreHandler
  <2>1. handler' \in BOOLEAN
    BY <1>2 DEF StoreHandler
  <2> QED
    BY <1>2, <2>1 DEF StoreHandler, TypeOK, channelVars, syncVars, peerVars, messageVars
<1>3. CASE SubscribeStop
  <2>1. loaded' \in [Thread -> EventCodes \cup {"none"}]
    BY <1>3 DEF SubscribeStop, TypeOK, LoadHandler, Thread, EventCodes
  <2> QED
    BY <1>3, <2>1 DEF SubscribeStop, TypeOK, syncVars, peerVars, messageVars
<1>4. CASE TestTimer
  BY <1>4 DEF TestTimer, TypeOK, channelVars, syncVars, peerVars, eventVars, messageVars
<1>5. CASE StartTimer
  BY <1>5 DEF StartTimer, TypeOK, channelVars, syncVars, peerVars, messageVars
<1>6. CASE SubscribeMessages
  BY <1>6 DEF SubscribeMessages, TypeOK, channelVars, syncVars, peerVars, eventVars
<1>7. ASSUME NEW version \in PeerVersions, NEW services \in BOOLEAN,
             HandleReceiveVersion(version, services)
      PROVE  TypeOK'
  <2>1. loaded' \in [Thread -> EventCodes \cup {"none"}]
    BY <1>7 DEF HandleReceiveVersion, TypeOK, LoadHandler, Thread, EventCodes
  <2>2. negotiated' \in Nat /\ peerVersion' \in PeerVersions \cup {Unset}
    BY <1>7, HandshakeAssumption DEF HandleReceiveVersion, TypeOK, Lesser
  <2> QED
    BY <1>7, <2>1, <2>2 DEF HandleReceiveVersion, Receive, TypeOK, channelVars, syncVars
<1>8. CASE HandleReceiveVerack
  <2>1. loaded' \in [Thread -> EventCodes \cup {"none"}]
    BY <1>8 DEF HandleReceiveVerack, TypeOK, LoadHandler, Thread, EventCodes
  <2>2. verackReceived' \in BOOLEAN
    BY <1>8 DEF HandleReceiveVerack
  <2> QED
    BY <1>8, <2>1, <2>2 DEF HandleReceiveVerack, Receive, TypeOK, channelVars, syncVars
<1>9. CASE RelayReject
  <2>1. rejected' \in BOOLEAN
    BY <1>9 DEF RelayReject
  <2> QED
    BY <1>9, <2>1 DEF RelayReject, Receive, TypeOK, channelVars, syncVars, peerVars, eventVars
<1>10. CASE HandleReceiveReject
  <2>1. loaded' \in [Thread -> EventCodes \cup {"none"}]
    BY <1>10 DEF HandleReceiveReject, TypeOK, LoadHandler, Thread, EventCodes
  <2>2. rejected' \in BOOLEAN
    BY <1>10, Zenon DEF HandleReceiveReject
  <2> QED
    BY <1>10, <2>1, <2>2 DEF HandleReceiveReject, TypeOK, channelVars, syncVars, peerVars
<1>11. CASE TimerExpires
  BY <1>11 DEF TimerExpires, TypeOK, channelVars, syncVars, peerVars, messageVars
<1>12. CASE HandleTimer
  <2>1. loaded' \in [Thread -> EventCodes \cup {"none"}]
    BY <1>12 DEF HandleTimer, TypeOK, LoadHandler, Thread, EventCodes
  <2> QED
    BY <1>12, <2>1 DEF HandleTimer, TypeOK, channelVars, syncVars, peerVars, messageVars
<1>13. ASSUME NEW by \in {"handshake", "channel"}, StopChannel(by)
       PROVE  /\ halted' \in BOOLEAN
              /\ endedBy' \in {"none", "handshake", "channel"}
              /\ notice' \in {"none", "subscribed", "posted", "done"}
  <2>1. halted' \in BOOLEAN
    BY <1>13 DEF StopChannel
  <2> QED
    BY <1>13, <2>1 DEF StopChannel, TypeOK
<1>14. CASE HandshakeFails
  BY <1>14, <1>13 DEF HandshakeFails, TypeOK, syncVars, peerVars, eventVars, messageVars
<1>15. CASE ChannelStops
  BY <1>15, <1>13 DEF ChannelStops, TypeOK, syncVars, peerVars, eventVars, messageVars
<1>16. CASE HandleStopped
  <2>1. loaded' \in [Thread -> EventCodes \cup {"none"}]
    BY <1>16 DEF HandleStopped, TypeOK, LoadHandler, Thread, EventCodes
  <2> QED
    BY <1>16, <2>1 DEF HandleStopped, TypeOK, syncVars, peerVars, messageVars
<1>17. CASE UNCHANGED vars
  BY <1>17 DEF vars, TypeOK, channelVars, syncVars, peerVars, eventVars, messageVars
<1>18. CASE HandleReadPayload \/ LoadOther
  <2>1. startPc' \in {"reading", "load"}
    BY <1>18 DEF HandleReadPayload, LoadOther
  <2>2. UNCHANGED <<channelVars, syncVars, peerVars, eventVars, messageVars>>
    BY <1>18, Zenon DEF HandleReadPayload, LoadOther
  <2> QED
    BY <2>1, <2>2 DEF TypeOK, channelVars, syncVars, peerVars, eventVars, messageVars
<1> QED
  BY <1>1, <1>2, <1>3, <1>4, <1>5, <1>6, <1>7, <1>8, <1>9, <1>10, <1>11, <1>12, <1>14,
     <1>15, <1>16, <1>17, <1>18 DEF Next, Start, Peer, Timer

\* Every step keeps the synchronizer's account of its answer.
LEMMA SyncStep == ASSUME HandshakeInv, [Next]_vars PROVE SyncInv'
<1> USE DEF HandshakeInv
<1>1. ASSUME NEW t \in Thread, InvokeHandler(t) PROVE SyncInv'
  <2>1. loaded[t] \in EventCodes /\ Join(loaded[t]) /\ endedBy' = endedBy
    BY <1>1 DEF InvokeHandler, TypeOK, channelVars
  <2> QED
    BY <2>1, JoinHolds
<1>2. CASE HandshakeFails
  BY <1>2 DEF HandshakeFails, StopChannel, SyncInv, TypeOK, syncVars
<1>3. CASE ChannelStops
  BY <1>3 DEF ChannelStops, StopChannel, SyncInv, TypeOK, syncVars
<1>4. ASSUME UNCHANGED <<count, calls, outcome, endedBy>> PROVE SyncInv'
  BY <1>4 DEF SyncInv
<1>5. CASE Start \/ Peer \/ Timer \/ HandleReceiveReject \/ HandleStopped \/ UNCHANGED vars
  BY <1>4, <1>5 DEF Start, Peer, Timer, StoreHandler, SubscribeStop, TestTimer, StartTimer,
     SubscribeMessages, HandleReceiveVersion, HandleReceiveVerack, RelayReject,
     HandleReadPayload, LoadOther, HandleReceiveReject, TimerExpires, HandleTimer, HandleStopped, vars, channelVars, syncVars
<1> QED
  BY <1>1, <1>2, <1>3, <1>5 DEF Next

\* Every step keeps the account of the messages.
LEMMA MessageStep == ASSUME HandshakeInv, [Next]_vars PROVE MessageInv'
<1> USE DEF HandshakeInv
<1>1. ASSUME NEW t \in Thread, InvokeHandler(t) PROVE MessageInv'
  <2>1. loaded[t] \in EventCodes /\ Join(loaded[t]) /\ endedBy' = endedBy
    BY <1>1 DEF InvokeHandler, TypeOK, channelVars
  <2>2. /\ count' < 2 => count < 2 /\ loaded[t] = "success" /\ count' = count + 1
        /\ outcome' = "success" => outcome = "success" \/ (count = 1 /\ loaded[t] = "success")
    BY <2>1, JoinHolds
  <2>3. loaded[t] = "success" => t = "main" /\ loaded'["main"] = "none"
    BY <1>1 DEF InvokeHandler, MessageInv, TypeOK, Thread
  <2>4. \A u \in Thread : loaded'[u] = "success" => u = "main"
    BY <1>1 DEF InvokeHandler, MessageInv, TypeOK
  <2>5. /\ UNCHANGED <<startPc, peerVersion, negotiated, verackReceived, subscribed>>
        /\ loaded["main"] = "none" => loaded'["main"] = "none"
    BY <1>1 DEF InvokeHandler, peerVars, messageVars, TypeOK
  <2>6. count' < 2 => count' + Bit(loaded'["main"] = "success")
                        <= Bit(peerVersion # Unset) + Bit(verackReceived)
    BY <2>2, <2>3 DEF MessageInv, Bit, TypeOK
  <2>7. outcome' = "success" => peerVersion # Unset /\ verackReceived
    BY <2>2, <2>3 DEF MessageInv, Bit, TypeOK
  <2> QED
    BY <2>4, <2>5, <2>6, <2>7 DEF MessageInv
<1>2. CASE SubscribeStop
  BY <1>2 DEF SubscribeStop, LoadHandler, MessageInv, TypeOK, Thread, syncVars, peerVars,
     messageVars, Bit
<1>3. CASE SubscribeMessages
  BY <1>3 DEF SubscribeMessages, MessageInv, TypeOK, channelVars, syncVars, peerVars, eventVars, Bit
<1>4. ASSUME NEW version \in PeerVersions, NEW services \in BOOLEAN,
             HandleReceiveVersion(version, services)
      PROVE  MessageInv'
  <2> USE DEF HandleReceiveVersion, Receive, LoadHandler, MessageInv, TypeOK, Thread,
              syncVars, Bit
  <2>1. CASE ~handler
    BY <1>4, <2>1
  <2>2. CASE ~SufficientPeer(version, services)
    BY <1>4, <2>2
  <2>3. CASE handler /\ SufficientPeer(version, services)
    <3>1. Lesser(version, OwnVersion) >= MinimumVersion /\ version # Unset
      BY <2>3, HandshakeAssumption DEF SufficientPeer, Lesser, Unset
    <3>2. negotiated' = Lesser(version, OwnVersion) /\ peerVersion' = version
      BY <1>4, <2>3
    <3>3. peerVersion = Unset
      BY <1>4
    <3>4. UNCHANGED <<count, outcome, verackReceived>> /\ startPc' = "reading"
          /\ subscribed' = subscribed \ {"version"}
      BY <1>4
    <3>5. /\ \A t \in Thread : loaded'[t] = "success" => t = "main"
          /\ loaded["main"] = "none"
      BY <1>4, <2>3
    <3> QED
      BY <3>1, <3>2, <3>3, <3>4, <3>5
  <2> QED
    BY <2>1, <2>2, <2>3
<1>5. CASE HandleReceiveVerack
  BY <1>5 DEF HandleReceiveVerack, Receive, LoadHandler, MessageInv, TypeOK, Thread,
     syncVars, Bit
<1>6. CASE RelayReject
  BY <1>6 DEF RelayReject, Receive, MessageInv, TypeOK, syncVars, peerVars, eventVars, Bit
<1>7. CASE HandleReceiveReject
  BY <1>7 DEF HandleReceiveReject, LoadHandler, MessageInv, TypeOK, Thread, syncVars, peerVars, Bit
<1>8. CASE HandleTimer
  BY <1>8 DEF HandleTimer, LoadHandler, MessageInv, TypeOK, Thread, syncVars, peerVars,
     messageVars, Bit
<1>9. CASE HandleStopped
  BY <1>9 DEF HandleStopped, LoadHandler, MessageInv, TypeOK, Thread, syncVars, peerVars,
     messageVars, Bit
<1>10. CASE StoreHandler \/ TestTimer \/ StartTimer
  BY <1>10 DEF StoreHandler, TestTimer, StartTimer, MessageInv, syncVars, peerVars, eventVars,
     messageVars, Bit
<1>11. CASE TimerExpires \/ HandshakeFails \/ ChannelStops \/ UNCHANGED vars
  BY <1>11 DEF TimerExpires, HandshakeFails, ChannelStops, MessageInv, vars, syncVars, peerVars,
     eventVars, messageVars, Bit
<1>12. CASE HandleReadPayload \/ LoadOther
  BY <1>12 DEF HandleReadPayload, LoadOther, MainReady, MessageInv, channelVars, syncVars,
     peerVars, eventVars, messageVars, Bit
<1> QED
  BY <1>1, <1>2, <1>3, <1>4, <1>5, <1>6, <1>7, <1>8, <1>9, <1>10, <1>11, <1>12
     DEF Next, Start, Peer, Timer

\* The inductive invariant holds throughout.
LEMMA HandshakeInvariant == Spec => []HandshakeInv
<1>1. HandshakeInv /\ [Next]_vars => HandshakeInv'
  BY TypeStep, SyncStep, MessageStep DEF HandshakeInv
<1> QED
  BY InitHolds, <1>1, PTL DEF Spec

-----------------------------------------------------------------------------
\* The variables of the handshake keep their types.
THEOREM TypeCorrect == Spec => []TypeOK
<1>1. HandshakeInv => TypeOK
  BY DEF HandshakeInv
<1> QED
  BY <1>1, HandshakeInvariant, PTL

\* The session's handshake handler is invoked at most once, whatever the order
\* of the reader, the timer, the reject and the stop.
THEOREM HandshakeCompletesOnce == Spec => []CompletedOnce
<1>1. HandshakeInv => CompletedOnce
  BY DEF HandshakeInv, TypeOK, SyncInv, CompletedOnce
<1> QED
  BY <1>1, HandshakeInvariant, PTL

\* A successful handshake has both messages and a sufficient negotiated version.
THEOREM SuccessIsAgreement == Spec => []SuccessIsMutual
<1>1. HandshakeInv => SuccessIsMutual
  BY DEF HandshakeInv, TypeOK, MessageInv, SuccessIsMutual
<1> QED
  BY <1>1, HandshakeInvariant, PTL

\* The timer and the rejects that outlive a successful handshake stop nothing.
THEOREM LateEventsHarmless == Spec => []LateEventsIgnored
<1>1. HandshakeInv => LateEventsIgnored
  BY DEF HandshakeInv, SyncInv, LateEventsIgnored
<1> QED
  BY <1>1, HandshakeInvariant, PTL

-----------------------------------------------------------------------------
(* Neither the end of the handshake nor the stop of its channel is lost.    *)

\* What is still to come: handler_ stays set until the session is told, and the
\* stop subscription stands while the channel is open.
ToCome ==
    /\ OutcomeToCome
    /\ StopToCome
    /\ calls = 0 /\ startPc # "handler" => handler
    /\ notice = "subscribed" => ~halted
    /\ startPc \notin {"handler", "subscribe_stop"} /\ ~halted => notice = "subscribed"

\* Nothing is to come before start().
LEMMA InitToCome == Init => ToCome
BY DEF Init, ToCome, OutcomeToCome, StopToCome

\* An event that does not tell the session is a success, set by the reader.
LEMMA UntoldIsSuccess ==
    ASSUME HandshakeInv, NEW t \in Thread, InvokeHandler(t), calls' = 0
    PROVE  calls = 0 /\ loaded[t] = "success" /\ t = "main"
<1>1. loaded[t] \in EventCodes /\ Join(loaded[t]) /\ endedBy' = endedBy
  BY DEF HandshakeInv, InvokeHandler, TypeOK, channelVars
<1>2. /\ SyncInv' /\ count' \in 0..2
      /\ count' < 2 => count < 2 /\ loaded[t] = "success"
  BY <1>1, JoinHolds DEF HandshakeInv
<1>3. count' < 2
  BY <1>2 DEF SyncInv
<1> QED
  BY <1>2, <1>3 DEF HandshakeInv, SyncInv, MessageInv

\* Every step keeps what is to come.
LEMMA ToComeStep == ASSUME HandshakeInv, ToCome, [Next]_vars PROVE ToCome'
<1> USE DEF ToCome, OutcomeToCome, StopToCome
<1>0. /\ loaded \in [Thread -> EventCodes \cup {"none"}]
      /\ startPc = "load" => loaded["main"] = "none"
  BY DEF HandshakeInv, TypeOK, MessageInv
<1>1. ASSUME NEW t \in Thread, InvokeHandler(t) PROVE ToCome'
  <2>1. UNCHANGED <<startPc, halted, notice>> /\ loaded' = [loaded EXCEPT ![t] = "none"]
    BY <1>1 DEF InvokeHandler, channelVars
  <2>2. ASSUME calls' = 0
        PROVE  calls = 0 /\ (handler => handler') /\ timer' = timer
               /\ loaded'["timer"] = loaded["timer"]
    <3>1. calls = 0 /\ loaded[t] = "success" /\ t = "main"
      BY <1>1, <2>2, UntoldIsSuccess
    <3> QED
      BY <1>0, <1>1, <3>1, Zenon DEF InvokeHandler, Thread
  <2>3. handler' => handler /\ loaded[t] # "channel_stopped"
    BY <1>1, Zenon DEF InvokeHandler
  <2>4. OutcomeToCome' /\ (calls' = 0 /\ startPc' # "handler" => handler')
    BY <2>1, <2>2
  <2>5. StopToCome'
    BY <1>0, <2>1, <2>3 DEF Thread
  <2> QED
    BY <2>1, <2>4, <2>5
<1>2. CASE StoreHandler
  BY <1>2 DEF StoreHandler, channelVars, syncVars
<1>3. CASE SubscribeStop
  <2>1. halted /\ handler => loaded'["main"] = "channel_stopped"
    BY <1>0, <1>3 DEF SubscribeStop, LoadHandler, Thread
  <2> QED
    BY <1>3, <2>1 DEF SubscribeStop, syncVars
<1>4. CASE TestTimer \/ StartTimer
  BY <1>4 DEF TestTimer, StartTimer, channelVars, syncVars, eventVars
<1>5. CASE SubscribeMessages \/ RelayReject \/ HandleReadPayload \/ LoadOther
  BY <1>5 DEF SubscribeMessages, RelayReject, HandleReadPayload, LoadOther, Receive, channelVars, syncVars, eventVars
<1>6. ASSUME NEW u \in Thread, u # "timer", loaded' = [loaded EXCEPT ![u] = loaded'[u]],
             u = "reject" \/ loaded[u] = "none",
             startPc' = startPc \/ (startPc = "load" /\ startPc' = "reading"),
             UNCHANGED <<handler, timer, channelVars, syncVars>>
      PROVE  ToCome'
  BY <1>0, <1>6 DEF channelVars, syncVars, Thread
<1>7. ASSUME NEW version \in PeerVersions, NEW services \in BOOLEAN,
             HandleReceiveVersion(version, services)
      PROVE  ToCome'
  BY <1>0, <1>6, <1>7 DEF HandleReceiveVersion, Receive, LoadHandler, Thread
<1>8. CASE HandleReceiveVerack
  BY <1>0, <1>6, <1>8 DEF HandleReceiveVerack, Receive, LoadHandler, Thread
<1>9. CASE HandleReceiveReject
  BY <1>0, <1>6, <1>9 DEF HandleReceiveReject, LoadHandler, Thread
<1>10. CASE TimerExpires
  BY <1>10 DEF TimerExpires, channelVars, syncVars
<1>11. CASE HandleTimer
  <2>1. /\ handler => loaded'["timer"] = "channel_timeout"
        /\ loaded'["main"] = loaded["main"] /\ loaded'["stop"] = loaded["stop"]
    BY <1>0, <1>11 DEF HandleTimer, LoadHandler, Thread
  <2> QED
    BY <1>11, <2>1 DEF HandleTimer, channelVars, syncVars
<1>12. CASE HandshakeFails \/ ChannelStops
  BY <1>12 DEF HandshakeFails, ChannelStops, StopChannel, syncVars, eventVars
<1>13. CASE HandleStopped
  <2>1. /\ handler => loaded'["stop"] = "channel_stopped"
        /\ loaded'["timer"] = loaded["timer"]
    BY <1>0, <1>13 DEF HandleStopped, LoadHandler, Thread
  <2> QED
    BY <1>13, <2>1 DEF HandleStopped, syncVars
<1>14. CASE UNCHANGED vars
  BY <1>14 DEF vars, channelVars, syncVars, eventVars
<1> QED
  BY <1>1, <1>2, <1>3, <1>4, <1>5, <1>7, <1>8, <1>9, <1>10, <1>11, <1>12, <1>13, <1>14
     DEF Next, Start, Peer, Timer

\* The session of a handshake that has not ended will be told, whatever the
\* peer does: reset_timer() skips its timer only when the handler was told of
\* a stop, and only an event that tells the session cancels it.
THEOREM HandshakeIsTimed == Spec => []OutcomeToCome
<1>1. HandshakeInv /\ ToCome /\ [Next]_vars => ToCome'
  BY ToComeStep
<1>2. ToCome => OutcomeToCome
  BY DEF ToCome
<1> QED
  BY InitToCome, <1>1, <1>2, HandshakeInvariant, PTL DEF Spec

\* The protocol of a stopped channel is told of the stop, which may race any
\* step of protocol_events::start().
THEOREM StopsReachHandshake == Spec => []StopToCome
<1>1. HandshakeInv /\ ToCome /\ [Next]_vars => ToCome'
  BY ToComeStep
<1>2. ToCome => StopToCome
  BY DEF ToCome
<1> QED
  BY InitToCome, <1>1, <1>2, HandshakeInvariant, PTL DEF Spec

-----------------------------------------------------------------------------
(* The handshake implements Opening.                                        *)

\* An event tells the session nothing, or for the first and last time.
LEMMA JoinTells ==
    ASSUME TypeOK, SyncInv, NEW code \in EventCodes, Join(code)
    PROVE  \/ UNCHANGED <<calls, outcome>>
           \/ /\ calls = 0 /\ calls' = 1 /\ outcome' = code
              /\ code = "success" => count = 1
<1>1. CASE count = 2
  BY <1>1 DEF Join, syncVars
<1>2. CASE count # 2
  <2>1. calls = 0 /\ count \in 0..1
    BY <1>2 DEF TypeOK, SyncInv
  <2>2. CASE code = "success"
    BY <1>2, <2>1, <2>2 DEF Join, Clear
  <2>3. CASE code # "success"
    BY <1>2, <2>1, <2>3 DEF Join, Clear
  <2> QED
    BY <2>2, <2>3
<1> QED
  BY <1>1, <1>2

\* The initial state is one of Opening.
LEMMA InitOpens == Init => O!OpeningInit
BY Zenon DEF Init, Unset, O!OpeningInit

\* Every step of the handshake is a step of Opening or changes nothing of it.
LEMMA StepOpens ==
    ASSUME HandshakeInv, [Next]_vars
    PROVE  [O!OpeningNext]_(O!openingVars)
<1> USE DEF HandshakeInv
<1>1. ASSUME NEW t \in Thread, InvokeHandler(t) PROVE O!Succeed \/ O!Fail \/ UNCHANGED O!openingVars
  <2>1. loaded[t] \in EventCodes /\ Join(loaded[t])
    BY <1>1 DEF InvokeHandler, TypeOK
  <2>2. UNCHANGED <<halted, peerVersion, negotiated, verackReceived>>
    BY <1>1 DEF InvokeHandler, channelVars, peerVars
  <2>3. CASE UNCHANGED <<calls, outcome>>
    BY <2>2, <2>3 DEF O!openingVars, O!toldVars, O!versionVars
  <2>4. CASE calls = 0 /\ calls' = 1 /\ outcome' = loaded[t] /\ loaded[t] # "success"
    BY <2>1, <2>2, <2>4 DEF EventCodes, O!Fail, O!versionVars
  <2>5. CASE calls = 0 /\ calls' = 1 /\ outcome' = loaded[t] /\ loaded[t] = "success" /\ count = 1
    <3>1. loaded["main"] = "success"
      BY <2>5 DEF MessageInv
    <3>2. peerVersion # Unset /\ verackReceived
      BY <3>1, <2>5 DEF MessageInv, Bit
    <3> QED
      BY <2>2, <2>5, <3>2 DEF Unset, O!Succeed, O!versionVars
  <2> QED
    BY <2>1, <2>3, <2>4, <2>5, JoinTells
<1>2. ASSUME NEW version \in PeerVersions, NEW services \in BOOLEAN,
             HandleReceiveVersion(version, services)
      PROVE  O!Meet(version) \/ UNCHANGED O!openingVars
  <2>1. UNCHANGED <<halted, calls, outcome, verackReceived>> /\ "version" \in subscribed
    BY <1>2 DEF HandleReceiveVersion, Receive, channelVars, syncVars
  <2>2. CASE UNCHANGED <<negotiated, peerVersion>>
    BY <2>1, <2>2 DEF O!openingVars, O!toldVars, O!versionVars
  <2>3. CASE /\ SufficientPeer(version, services)
             /\ negotiated' = Lesser(version, OwnVersion)
             /\ peerVersion' = version
    <3>1. peerVersion = Unset /\ outcome # "success"
      BY <2>1 DEF MessageInv
    <3>2. version >= MinimumVersion
      BY <2>3 DEF SufficientPeer
    <3> QED
      BY <2>1, <2>3, <3>1, <3>2 DEF Lesser, Unset, O!Meet, O!toldVars
  <2> QED
    BY <1>2, <2>2, <2>3 DEF HandleReceiveVersion
<1>3. HandleReceiveVerack => O!Acknowledge
  BY DEF HandleReceiveVerack, Receive, channelVars, syncVars,
     O!Acknowledge, O!toldVars, O!versionVars
<1>4. HandshakeFails \/ ChannelStops => O!Halt
  BY DEF HandshakeFails, ChannelStops, StopChannel, syncVars, peerVars,
     O!Halt, O!toldVars, O!versionVars
<1>5. CASE \/ Start \/ RelayReject \/ HandleReadPayload \/ LoadOther
           \/ Timer \/ HandleReceiveReject \/ HandleStopped \/ UNCHANGED vars
  <2>1. UNCHANGED <<halted, calls, outcome, peerVersion, negotiated, verackReceived>>
    BY <1>5 DEF Start, StoreHandler, SubscribeStop, TestTimer, StartTimer, SubscribeMessages,
       RelayReject, HandleReadPayload, LoadOther, Timer, TimerExpires, HandleTimer,
       HandleReceiveReject, HandleStopped, vars, channelVars, syncVars, peerVars
  <2> QED
    BY <2>1 DEF O!openingVars, O!toldVars, O!versionVars
<1> QED
  BY <1>1, <1>2, <1>3, <1>4, <1>5, Zenon DEF Next, Peer, O!OpeningNext

\* The handshake keeps its promise to the session for all protocol versions:
\* whichever thread sets the last event, the session is told once, and of a
\* success only with versions that are sufficient and then stay.
THEOREM HandshakeImplementsOpening == Spec => ImplementsOpening
BY InitOpens, StepOpens, HandshakeInvariant, PTL DEF Spec, ImplementsOpening, O!OpeningSpec
==============================================================================
