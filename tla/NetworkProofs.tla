---------------------------- MODULE NetworkProofs ----------------------------
(***************************************************************************)
(* The safety properties of Network hold for every set of slots and        *)
(* addresses and every limit.  The inductive invariant is NetworkInv: the  *)
(* types, what holds of each slot (SlotInv) and the uniqueness of the      *)
(* stored addresses.                                                       *)
(***************************************************************************)
EXTENDS Network, TLAPS

\* What the slot's pc says of its membership in the collections, of its stop
\* subscription, of the session it belongs to and of a running p2p::stop().
SlotInv(c) ==
    /\ c \in pendingClose =>
           \/ pc[c] \in {"unpend", "begin"} /\ result[c] = "success"
           \/ pc[c] = "open" /\ c \in subscribed /\ ~halted[c]
           \/ pc[c] = "open" /\ c \in posted
    /\ pc[c] \in {"unpend", "begin"} /\ result[c] = "success" => c \in pendingClose
    /\ pc[c] = "open" => c \in pendingClose
    /\ c \in subscribed => pc[c] = "open" /\ c \notin posted
    /\ c \in posted => pc[c] = "open" /\ halted[c]
    /\ pc[c] \in {"register", "pend", "start", "handshake", "store", "unpend", "begin", "open"}
           => authority[c] \in Authority
    /\ c \in pendingHandshake =>
           c \in Outbound /\ pc[c] \in {"start", "handshake", "store", "unpend"}
    /\ pc[c] \in {"new", "pend", "unpend"} => c \in Outbound
    /\ pc[c] \in {"request", "dial"} => c \in Manual
    /\ pc[c] = "connect" => c \notin Inbound
    /\ ClosesRefused /\ c \in pendingClose =>
           halted[c] \/ (stopPc = "stop_closes" /\ c \in toStop)
    /\ c \in Outbound =>
           /\ pc[c] = "idle" <=> session["outbound"] # "started"
           /\ pc[c] = "ended" => sessionStopped["outbound"]

NetworkInv == TypeOK /\ UniqueAuthority /\ \A c \in Slot : SlotInv(c)

-----------------------------------------------------------------------------
\* The initial state satisfies the invariant.
LEMMA InitHolds == Init => NetworkInv
<1> SUFFICES ASSUME Init PROVE NetworkInv
    OBVIOUS
<1>1. TypeOK
  BY NetworkAssumption DEF Init, TypeOK, StopStages, Session, PcValues
<1>2. UniqueAuthority
  BY DEF Init, UniqueAuthority
<1>3. ASSUME NEW c \in Slot PROVE SlotInv(c)
  BY DEF Init, SlotInv, ClosesRefused, Session
<1> QED
  BY <1>1, <1>2, <1>3 DEF NetworkInv

\* Every step of the network preserves the types.
LEMMA TypeStep == TypeOK /\ [Next]_vars => TypeOK'
<1> SUFFICES ASSUME TypeOK, [Next]_vars PROVE TypeOK'
    OBVIOUS
<1> USE NetworkAssumption DEF TypeOK, netVars, sessionVars, pendingVars, channelVars, manualVars
<1>1. ASSUME NEW k \in Session, SessionStart(k) PROVE TypeOK'
  BY <1>1 DEF SessionStart
<1>2. ASSUME NEW k \in Session, SessionSubscribe(k) PROVE TypeOK'
  BY <1>2, Zenon DEF SessionSubscribe
<1>3. ASSUME NEW k \in Session, SessionStarted(k) PROVE TypeOK'
  BY <1>3 DEF SessionStarted, PcValues
<1>4. CASE StopProceeds
  BY <1>4 DEF StopProceeds, StopStages
<1>5. CASE StopPending
  BY <1>5 DEF StopPending, StopStages
<1>6. ASSUME NEW k \in Session, StopSession(k) PROVE TypeOK'
  BY <1>6 DEF StopSession
<1>7. ASSUME NEW c \in Slot, StopPended(c) PROVE TypeOK'
  BY <1>7 DEF StopPended, StopChannel
<1>8. ASSUME NEW c \in Slot, NewConnection(c) PROVE TypeOK'
  BY <1>8 DEF NewConnection, PcValues
<1>9. ASSUME NEW c \in Slot, ManualLoad(c) PROVE TypeOK'
  BY <1>9 DEF ManualLoad, PcValues
<1>10. ASSUME NEW c \in Slot, StartConnect(c) PROVE TypeOK'
  BY <1>10 DEF StartConnect, Call, FloorSubtract, PcValues
<1>11. ASSUME NEW c \in Slot, ConnectFailed(c) PROVE TypeOK'
  BY <1>11 DEF ConnectFailed, Call, PcValues
<1>12. ASSUME NEW c \in Slot, NEW a \in Authority, ConnectSucceeded(c, a) PROVE TypeOK'
  BY <1>12 DEF ConnectSucceeded, NewChannel, PcValues
<1>13. ASSUME NEW c \in Slot, RegisterChannel(c) PROVE TypeOK'
  BY <1>13 DEF RegisterChannel, HandleChannelStartFailed, HandleChannelStop, PcValues
<1>14. ASSUME NEW c \in Slot, PendChannel(c) PROVE TypeOK'
  BY <1>14 DEF PendChannel, PcValues
<1>15. ASSUME NEW c \in Slot, StartChannel(c) PROVE TypeOK'
  BY <1>15 DEF StartChannel, PcValues
<1>16. ASSUME NEW c \in Slot, HandshakeFailed(c) \/ RejectLoopback(c) PROVE TypeOK'
  BY <1>16 DEF HandshakeFailed, RejectLoopback, Started, PcValues
<1>17. ASSUME NEW c \in Slot, HandshakeSucceeded(c) PROVE TypeOK'
  BY <1>17 DEF HandshakeSucceeded, PcValues
<1>18. ASSUME NEW c \in Slot, StoreChannel(c) PROVE TypeOK'
  BY <1>18 DEF StoreChannel, StoreCode, Started, PcValues
<1>19. ASSUME NEW c \in Slot, UnpendChannel(c) PROVE TypeOK'
  BY <1>19 DEF UnpendChannel, PcValues
<1>20. ASSUME NEW c \in Slot, HandleStartFailed(c) PROVE TypeOK'
  BY <1>20 DEF HandleStartFailed, StopChannel, HandleChannelStop,
               HandleChannelStartFailed, PcValues
<1>21. ASSUME NEW c \in Slot, HandleStart(c) PROVE TypeOK'
  BY <1>21 DEF HandleStart, HandleChannelStop, Call, PcValues
<1>22. ASSUME NEW c \in Slot, HandleRemove(c) PROVE TypeOK'
  BY <1>22 DEF HandleRemove, HandleChannelStop, PcValues
<1>23. ASSUME NEW c \in Slot, ManualConnect(c) PROVE TypeOK'
  BY <1>23 DEF ManualConnect, PcValues
<1>24. ASSUME NEW c \in Slot, ChannelStops(c) PROVE TypeOK'
  BY <1>24 DEF ChannelStops, StopChannel
<1>25. ASSUME NEW c \in Slot, NEW a \in Authority, HandleAccept(c, a) PROVE TypeOK'
  BY <1>25 DEF HandleAccept, NewChannel, PcValues
<1>26. CASE UNCHANGED vars
  BY <1>26 DEF vars
<1> HIDE DEF TypeOK
<1> QED
  BY <1>1, <1>2, <1>3, <1>4, <1>5, <1>6, <1>7, <1>8, <1>9, <1>10, <1>11, <1>12, <1>13,
     <1>14, <1>15, <1>16, <1>17, <1>18, <1>19, <1>20, <1>21, <1>22, <1>23, <1>24, <1>25,
     <1>26 DEF Next, StartSessions, StopNetwork, Proceed
\* Every step preserves what holds of each slot.
LEMMA SlotStep == ASSUME NetworkInv, [Next]_vars, NEW c \in Slot PROVE SlotInv(c)'
<1> USE NetworkAssumption DEF NetworkInv, TypeOK, SlotInv, netVars, sessionVars, pendingVars,
        channelVars, manualVars, ClosesRefused, Session, Slot
<1>1. ASSUME NEW k \in Session, SessionStart(k) PROVE SlotInv(c)'
  BY <1>1 DEF SessionStart
<1>2. ASSUME NEW k \in Session, SessionSubscribe(k) PROVE SlotInv(c)'
  BY <1>2 DEF SessionSubscribe
<1>3. ASSUME NEW k \in Session, SessionStarted(k) PROVE SlotInv(c)'
  BY <1>3 DEF SessionStarted
<1>4. ASSUME StopProceeds PROVE SlotInv(c)'
  BY <1>4 DEF StopProceeds
<1>5. ASSUME StopPending PROVE SlotInv(c)'
  BY <1>5 DEF StopPending
<1>6. ASSUME NEW k \in Session, StopSession(k) PROVE SlotInv(c)'
  BY <1>6 DEF StopSession
<1>7. ASSUME NEW d \in Slot, StopPended(d) PROVE SlotInv(c)'
  BY <1>7 DEF StopPended, StopChannel
<1>8. ASSUME NEW d \in Slot, NewConnection(d) PROVE SlotInv(c)'
  BY <1>8 DEF NewConnection, Stopped, SessionOf
<1>9. ASSUME NEW d \in Slot, ManualLoad(d) PROVE SlotInv(c)'
  BY <1>9 DEF ManualLoad
<1>10. ASSUME NEW d \in Slot, StartConnect(d) PROVE SlotInv(c)'
  BY <1>10 DEF StartConnect
<1>11. ASSUME NEW d \in Slot, ConnectFailed(d) PROVE SlotInv(c)'
  BY <1>11 DEF ConnectFailed
<1>12. ASSUME NEW d \in Slot, NEW a \in Authority, ConnectSucceeded(d, a) PROVE SlotInv(c)'
  BY <1>12 DEF ConnectSucceeded, NewChannel
<1>13. ASSUME NEW d \in Slot, RegisterChannel(d) PROVE SlotInv(c)'
  BY <1>13 DEF RegisterChannel, HandleChannelStop
<1>14. ASSUME NEW d \in Slot, PendChannel(d) PROVE SlotInv(c)'
  BY <1>14 DEF PendChannel
<1>15. ASSUME NEW d \in Slot, StartChannel(d) PROVE SlotInv(c)'
  BY <1>15 DEF StartChannel
<1>16. ASSUME NEW d \in Slot, HandshakeFailed(d) PROVE SlotInv(c)'
  BY <1>16 DEF HandshakeFailed, Started
<1>17. ASSUME NEW d \in Slot, RejectLoopback(d) PROVE SlotInv(c)'
  BY <1>17 DEF RejectLoopback, Started
<1>18. ASSUME NEW d \in Slot, HandshakeSucceeded(d) PROVE SlotInv(c)'
  BY <1>18 DEF HandshakeSucceeded
<1>19. ASSUME NEW d \in Slot, StoreChannel(d) PROVE SlotInv(c)'
  BY <1>19 DEF StoreChannel, StoreCode, Started
<1>20. ASSUME NEW d \in Slot, UnpendChannel(d) PROVE SlotInv(c)'
  BY <1>20 DEF UnpendChannel
<1>21. ASSUME NEW d \in Slot, HandleStartFailed(d) PROVE SlotInv(c)'
  BY <1>21 DEF HandleStartFailed, StopChannel, HandleChannelStop
<1>22. ASSUME NEW d \in Slot, HandleStart(d) PROVE SlotInv(c)'
  BY <1>22 DEF HandleStart, HandleChannelStop
<1>23. ASSUME NEW d \in Slot, HandleRemove(d) PROVE SlotInv(c)'
  BY <1>23 DEF HandleRemove, HandleChannelStop
<1>24. ASSUME NEW d \in Slot, ManualConnect(d) PROVE SlotInv(c)'
  BY <1>24 DEF ManualConnect
<1>25. ASSUME NEW d \in Slot, ChannelStops(d) PROVE SlotInv(c)'
  BY <1>25 DEF ChannelStops, StopChannel
<1>26. ASSUME NEW d \in Slot, NEW a \in Authority, HandleAccept(d, a) PROVE SlotInv(c)'
  BY <1>26 DEF HandleAccept, NewChannel
<1>27. CASE UNCHANGED vars
  BY <1>27 DEF vars
<1> HIDE DEF NetworkInv, TypeOK, SlotInv
<1> QED
  BY <1>1, <1>2, <1>3, <1>4, <1>5, <1>6, <1>7, <1>8, <1>9, <1>10, <1>11, <1>12, <1>13,
     <1>14, <1>15, <1>16, <1>17, <1>18, <1>19, <1>20, <1>21, <1>22, <1>23, <1>24, <1>25, <1>26,
     <1>27 DEF Next, StartSessions, StopNetwork, Proceed

\* Every step keeps the stored addresses distinct: only a channel that is not
\* stored, or that is removed in the same step, changes its address.
LEMMA UniqueStep == ASSUME NetworkInv, [Next]_vars PROVE UniqueAuthority'
<1> USE DEF NetworkInv, TypeOK, SlotInv, UniqueAuthority, netVars, sessionVars, pendingVars,
        channelVars, manualVars
<1>1. ASSUME NEW k \in Session, SessionStart(k) PROVE UniqueAuthority'
  BY <1>1 DEF SessionStart
<1>2. ASSUME NEW k \in Session, SessionSubscribe(k) PROVE UniqueAuthority'
  BY <1>2 DEF SessionSubscribe
<1>3. ASSUME NEW k \in Session, SessionStarted(k) PROVE UniqueAuthority'
  BY <1>3 DEF SessionStarted
<1>4. ASSUME StopProceeds PROVE UniqueAuthority'
  BY <1>4 DEF StopProceeds
<1>5. ASSUME StopPending PROVE UniqueAuthority'
  BY <1>5 DEF StopPending
<1>6. ASSUME NEW k \in Session, StopSession(k) PROVE UniqueAuthority'
  BY <1>6 DEF StopSession
<1>7. ASSUME NEW d \in Slot, StopPended(d) PROVE UniqueAuthority'
  BY <1>7 DEF StopPended, StopChannel
<1>8. ASSUME NEW d \in Slot, NewConnection(d) PROVE UniqueAuthority'
  BY <1>8 DEF NewConnection, Stopped, SessionOf
<1>9. ASSUME NEW d \in Slot, ManualLoad(d) PROVE UniqueAuthority'
  BY <1>9 DEF ManualLoad
<1>10. ASSUME NEW d \in Slot, StartConnect(d) PROVE UniqueAuthority'
  BY <1>10 DEF StartConnect
<1>11. ASSUME NEW d \in Slot, ConnectFailed(d) PROVE UniqueAuthority'
  BY <1>11 DEF ConnectFailed
<1>12. ASSUME NEW d \in Slot, NEW a \in Authority, ConnectSucceeded(d, a) PROVE UniqueAuthority'
  BY <1>12 DEF ConnectSucceeded, NewChannel
<1>13. ASSUME NEW d \in Slot, RegisterChannel(d) PROVE UniqueAuthority'
  BY <1>13 DEF RegisterChannel, HandleChannelStop
<1>14. ASSUME NEW d \in Slot, PendChannel(d) PROVE UniqueAuthority'
  BY <1>14 DEF PendChannel
<1>15. ASSUME NEW d \in Slot, StartChannel(d) PROVE UniqueAuthority'
  BY <1>15 DEF StartChannel
<1>16. ASSUME NEW d \in Slot, HandshakeFailed(d) PROVE UniqueAuthority'
  BY <1>16 DEF HandshakeFailed, Started
<1>17. ASSUME NEW d \in Slot, RejectLoopback(d) PROVE UniqueAuthority'
  BY <1>17 DEF RejectLoopback, Started
<1>18. ASSUME NEW d \in Slot, HandshakeSucceeded(d) PROVE UniqueAuthority'
  BY <1>18 DEF HandshakeSucceeded
<1>19. ASSUME NEW d \in Slot, StoreChannel(d) PROVE UniqueAuthority'
  BY <1>19 DEF StoreChannel, StoreCode, Started
<1>20. ASSUME NEW d \in Slot, UnpendChannel(d) PROVE UniqueAuthority'
  BY <1>20 DEF UnpendChannel
<1>21. ASSUME NEW d \in Slot, HandleStartFailed(d) PROVE UniqueAuthority'
  BY <1>21 DEF HandleStartFailed, StopChannel, HandleChannelStop
<1>22. ASSUME NEW d \in Slot, HandleStart(d) PROVE UniqueAuthority'
  BY <1>22 DEF HandleStart, HandleChannelStop
<1>23. ASSUME NEW d \in Slot, HandleRemove(d) PROVE UniqueAuthority'
  BY <1>23 DEF HandleRemove, HandleChannelStop
<1>24. ASSUME NEW d \in Slot, ManualConnect(d) PROVE UniqueAuthority'
  BY <1>24 DEF ManualConnect
<1>25. ASSUME NEW d \in Slot, ChannelStops(d) PROVE UniqueAuthority'
  BY <1>25 DEF ChannelStops, StopChannel
<1>26. ASSUME NEW d \in Slot, NEW a \in Authority, HandleAccept(d, a) PROVE UniqueAuthority'
  BY <1>26 DEF HandleAccept, NewChannel
<1>27. CASE UNCHANGED vars
  BY <1>27 DEF vars
<1> HIDE DEF NetworkInv, TypeOK, SlotInv, UniqueAuthority
<1> QED
  BY <1>1, <1>2, <1>3, <1>4, <1>5, <1>6, <1>7, <1>8, <1>9, <1>10, <1>11, <1>12, <1>13,
     <1>14, <1>15, <1>16, <1>17, <1>18, <1>19, <1>20, <1>21, <1>22, <1>23, <1>24, <1>25, <1>26,
     <1>27 DEF Next, StartSessions, StopNetwork, Proceed

\* NetworkInv is an invariant of the network.
LEMMA NetworkInvariant == Spec => []NetworkInv
<1>1. Init => NetworkInv
  BY InitHolds
<1>2. NetworkInv /\ [Next]_vars => NetworkInv'
  BY TypeStep, SlotStep, UniqueStep DEF NetworkInv
<1> QED
  BY <1>1, <1>2, PTL DEF Spec

\* The state always has the shape of the code's, for any slots and addresses.
THEOREM TypeCorrect == Spec => []TypeOK
<1>1. NetworkInv => TypeOK
  BY DEF NetworkInv
<1> QED
  BY <1>1, NetworkInvariant, PTL

\* No two entries of pending_close_ ever have the same address: p2p::store()
\* decides under the collection's lock, and an address changes only outside.
THEOREM AddressesUnique == Spec => []UniqueAuthority
<1>1. NetworkInv => UniqueAuthority
  BY DEF NetworkInv
<1> QED
  BY <1>1, NetworkInvariant, PTL

\* handle_start() and handle_remove() never leave a channel in pending_close_
\* that nothing will remove.
THEOREM StoredAlwaysReclaimed == Spec => []StoredIsReclaimed
<1>1. NetworkInv => StoredIsReclaimed
  BY DEF NetworkInv, TypeOK, SlotInv, StoredIsReclaimed
<1> QED
  BY <1>1, NetworkInvariant, PTL

\* p2p::stop() leaves no open connection running, however the registrations
\* of the sessions interleave with its stages.
THEOREM StopReachesOpenConnections == Spec => []OpenConnectionsStopped
<1>1. NetworkInv => OpenConnectionsStopped
  BY DEF NetworkInv, TypeOK, SlotInv, OpenConnectionsStopped, ClosesRefused
<1> QED
  BY <1>1, NetworkInvariant, PTL

\* The outbound session never loses one of its connection cycles while it runs.
THEOREM CyclesKept == Spec => []OutboundCyclesKept
<1>1. NetworkInv => OutboundCyclesKept
  BY DEF NetworkInv, SlotInv, OutboundCyclesKept, Slot
<1> QED
  BY <1>1, NetworkInvariant, PTL

\* pending_handshake_ holds only channels whose registration is under way.
THEOREM PendedOnlyRegistering == Spec => []PendedWhileRegistering
<1>1. NetworkInv => PendedWhileRegistering
  BY DEF NetworkInv, TypeOK, SlotInv, PendedWhileRegistering
<1> QED
  BY <1>1, NetworkInvariant, PTL

\* A slot's thread leaves p2p::stop() and the sessions as they are.
LEMMA ProceedFrame ==
    ASSUME NEW c \in Slot, Proceed(c)
    PROVE  UNCHANGED <<stopPc, notify, toStop, session, sessionStopped>>
<1> USE DEF netVars, sessionVars
<1>1. CASE NewConnection(c) \/ ManualLoad(c) \/ StartConnect(c)
  BY <1>1 DEF NewConnection, ManualLoad, StartConnect
<1>2. CASE ConnectFailed(c) \/ \E a \in Authority : ConnectSucceeded(c, a)
  BY <1>2 DEF ConnectFailed, ConnectSucceeded
<1>3. CASE RegisterChannel(c) \/ PendChannel(c) \/ StartChannel(c)
  BY <1>3 DEF RegisterChannel, PendChannel, StartChannel
<1>4. CASE HandshakeFailed(c) \/ HandshakeSucceeded(c) \/ RejectLoopback(c)
  BY <1>4 DEF HandshakeFailed, HandshakeSucceeded, RejectLoopback
<1>5. CASE StoreChannel(c) \/ UnpendChannel(c)
  BY <1>5 DEF StoreChannel, UnpendChannel
<1>6. CASE HandleStartFailed(c)
  BY <1>6 DEF HandleStartFailed
<1>7. CASE HandleStart(c) \/ HandleRemove(c)
  BY <1>7 DEF HandleStart, HandleRemove
<1> QED
  BY <1>1, <1>2, <1>3, <1>4, <1>5, <1>6, <1>7 DEF Proceed

\* After p2p::stop() has returned no registration adds to the collections.
THEOREM CollectionsOnlyShrink == Spec => NothingStoredAfterStop
<1> DEFINE Shrinks == stopPc = "stopped" => /\ pendingClose' \subseteq pendingClose
                                            /\ pendingHandshake' \subseteq pendingHandshake
<1>1. ASSUME [Next]_vars PROVE Shrinks
  <2> USE DEF netVars, sessionVars, pendingVars, channelVars, manualVars
  <2>1. CASE StartSessions
    BY <2>1 DEF StartSessions, SessionStart, SessionSubscribe, SessionStarted
  <2>2. CASE StopNetwork
    BY <2>2 DEF StopNetwork, StopProceeds, StopPending, StopSession, StopPended
  <2>3. ASSUME NEW c \in Slot, \/ ManualConnect(c) \/ ChannelStops(c)
                               \/ \E a \in Authority : HandleAccept(c, a)
        PROVE Shrinks
    BY <2>3 DEF ManualConnect, ChannelStops, HandleAccept
  <2>4. CASE UNCHANGED vars
    BY <2>4 DEF vars
  <2>5. ASSUME NEW c \in Slot, UNCHANGED pendingVars PROVE Shrinks
    BY <2>5
  <2>6. ASSUME NEW c \in Slot, Proceed(c) PROVE Shrinks
    <3>1. CASE NewConnection(c) \/ ManualLoad(c) \/ StartConnect(c) \/ ConnectFailed(c)
      BY <2>5, <3>1 DEF NewConnection, ManualLoad, StartConnect, ConnectFailed
    <3>2. CASE \E a \in Authority : ConnectSucceeded(c, a)
      BY <2>5, <3>2 DEF ConnectSucceeded
    <3>3. CASE RegisterChannel(c) \/ StartChannel(c)
      BY <2>5, <3>3 DEF RegisterChannel, StartChannel
    <3>7. CASE HandleStartFailed(c)
      BY <2>5, <3>7 DEF HandleStartFailed
    <3>4. CASE HandshakeFailed(c) \/ HandshakeSucceeded(c) \/ RejectLoopback(c)
      BY <2>5, <3>4 DEF HandshakeFailed, HandshakeSucceeded, RejectLoopback
    <3>5. CASE PendChannel(c) \/ StoreChannel(c)
      BY <3>5 DEF PendChannel, HandshakesRefused, StoreChannel, StoreCode, ClosesRefused
    <3>6. CASE UnpendChannel(c) \/ HandleStart(c) \/ HandleRemove(c)
      BY <3>6 DEF UnpendChannel, HandleStart, HandleRemove
    <3> QED
      BY <2>6, <3>1, <3>2, <3>3, <3>4, <3>5, <3>6, <3>7 DEF Proceed
  <2> QED
    BY <1>1, <2>1, <2>2, <2>3, <2>4, <2>6 DEF Next
<1> QED
  BY <1>1, PTL DEF Spec, NothingStoredAfterStop

\* The manual session runs from the start until p2p::stop() notifies it.
ManualRuns ==
    /\ session["manual"] = "started"
    /\ sessionStopped["manual"] => NetStopped

\* ManualRuns is an invariant of the network.
LEMMA ManualInvariant == Spec => []ManualRuns
<1>1. Init => ManualRuns
  BY Zenon DEF Init, ManualRuns, Session
<1>2. ASSUME ManualRuns, TypeOK, [Next]_vars PROVE ManualRuns'
  <2> USE DEF ManualRuns, NetStopped, netVars, sessionVars
  <2>1. CASE StartSessions
    BY <1>2, <2>1 DEF StartSessions, SessionStart, SessionSubscribe, SessionStarted,
                      SubscriberStopped, TypeOK, Session
  <2>2. CASE StopNetwork
    BY <1>2, <2>2 DEF StopNetwork, StopProceeds, StopPending, StopSession, StopPended, TypeOK,
                      Session
  <2>3. CASE UNCHANGED <<stopPc, session, sessionStopped>>
    BY <1>2, <2>3
  <2>4. ASSUME NEW c \in Slot, Proceed(c) PROVE UNCHANGED <<stopPc, session, sessionStopped>>
    BY <2>4, ProceedFrame
  <2>5. ASSUME NEW c \in Slot, \/ ManualConnect(c) \/ ChannelStops(c)
                               \/ \E a \in Authority : HandleAccept(c, a)
        PROVE UNCHANGED <<stopPc, session, sessionStopped>>
    BY <2>5 DEF ManualConnect, ChannelStops, HandleAccept
  <2> QED
    BY <1>2, <2>1, <2>2, <2>3, <2>4, <2>5 DEF Next, vars
<1> QED
  BY <1>1, <1>2, TypeCorrect, PTL DEF Spec

\* A manual connection is given up only for the reasons the code names: the
\* network stopped, the attempts ran out, or its address was in use.
THEOREM ManualKeepsTrying == Spec => ManualMaintained
<1> DEFINE Reason(c) == \/ NetStopped
                        \/ ManualAttemptLimit > 0 /\ attempts[c] = 0
                        \/ result[c] = "address_in_use"
           Kept == \A c \in Manual : pc[c] # "ended" /\ pc'[c] = "ended" => Reason(c)
<1>1. ASSUME NetworkInv, ManualRuns, [Next]_vars PROVE Kept
  <2> SUFFICES ASSUME NEW c \in Manual, pc[c] # "ended", pc'[c] = "ended" PROVE Reason(c)
      OBVIOUS
  <2> USE <1>1, NetworkAssumption DEF NetworkInv, TypeOK, SlotInv, Slot
  <2>1. CASE StartSessions \/ StopNetwork \/ UNCHANGED vars
    <3> HIDE DEF NetworkInv, SlotInv
    <3>0. c \in Slot /\ TypeOK /\ c \notin Outbound
      BY DEF NetworkInv
    <3>1. CASE StartSessions
      BY <3>0, <3>1 DEF StartSessions, SessionStart, SessionSubscribe, SessionStarted
    <3>2. CASE StopNetwork \/ UNCHANGED vars
      BY <3>2 DEF StopNetwork, StopProceeds, StopPending, StopSession, StopPended, vars
    <3> QED BY <2>1, <3>1, <3>2
  <2>2. ASSUME NEW d \in Slot, NewConnection(d) \/ ManualLoad(d) \/ ManualConnect(d)
        PROVE  Reason(c)
    BY <2>2 DEF NewConnection, ManualLoad, ManualConnect, ManualCleared, NetStopped
  <2>3. ASSUME NEW d \in Slot, StartConnect(d) PROVE Reason(c)
    <3>1. d = c /\ Stopped(d)
      BY <2>3 DEF StartConnect
    <3> QED
      BY <1>1, <3>1 DEF Stopped, SessionOf, ManualRuns
  <2>4. ASSUME NEW d \in Slot, ConnectFailed(d) PROVE Reason(c)
    BY <2>4 DEF ConnectFailed
  <2>5. ASSUME NEW d \in Slot, HandleStartFailed(d) PROVE Reason(c)
    BY <2>5 DEF HandleStartFailed, HandleChannelStop
  <2>6. ASSUME NEW d \in Slot, RegisterChannel(d) \/ HandleStart(d) \/ HandleRemove(d)
        PROVE  Reason(c)
    <3> HIDE DEF NetworkInv, SlotInv
    <3>0. c \in Slot /\ TypeOK
      BY DEF NetworkInv
    <3>1. CASE RegisterChannel(d)
      BY <3>0, <3>1 DEF RegisterChannel, HandleChannelStop
    <3>2. CASE HandleStart(d) \/ HandleRemove(d)
      BY <3>0, <3>2 DEF HandleStart, HandleRemove, HandleChannelStop
    <3> QED BY <2>6, <3>1, <3>2
  <2>7. ASSUME NEW d \in Slot, \/ PendChannel(d) \/ StartChannel(d) \/ HandshakeFailed(d)
                               \/ HandshakeSucceeded(d) \/ RejectLoopback(d) \/ StoreChannel(d)
                               \/ UnpendChannel(d) \/ ChannelStops(d)
        PROVE  Reason(c)
    <3> HIDE DEF NetworkInv, SlotInv
    <3>0. c \in Slot /\ TypeOK
      BY DEF NetworkInv
    <3>1. CASE PendChannel(d) \/ StartChannel(d) \/ UnpendChannel(d) \/ ChannelStops(d)
      BY <3>0, <3>1 DEF PendChannel, StartChannel, UnpendChannel, ChannelStops
    <3>2. CASE HandshakeFailed(d) \/ HandshakeSucceeded(d) \/ RejectLoopback(d)
      BY <3>0, <3>2 DEF HandshakeFailed, HandshakeSucceeded, RejectLoopback, Started
    <3>3. CASE StoreChannel(d)
      BY <3>0, <3>3 DEF StoreChannel, Started
    <3> QED BY <2>7, <3>1, <3>2, <3>3
  <2>8. ASSUME NEW d \in Slot, NEW a \in Authority, ConnectSucceeded(d, a) \/ HandleAccept(d, a)
        PROVE  Reason(c)
    <3> HIDE DEF NetworkInv, SlotInv
    <3>0. c \in Slot /\ TypeOK
      BY DEF NetworkInv
    <3> QED BY <2>8, <3>0 DEF ConnectSucceeded, HandleAccept, NewChannel
  <2> HIDE DEF NetworkInv, TypeOK, SlotInv, Slot
  <2> QED
    BY <1>1, <2>1, <2>2, <2>3, <2>4, <2>5, <2>6, <2>7, <2>8, Zenon DEF Next, Proceed
<1> QED
  BY <1>1, NetworkInvariant, ManualInvariant, PTL DEF Spec, ManualMaintained

-----------------------------------------------------------------------------
(* The network implements Registry.                                         *)

\* The initial state is one of the connection table.
LEMMA InitRegistry == Init => R!Init
<1> SUFFICES ASSUME Init PROVE R!Init
    OBVIOUS
<1>1. Table = {} /\ Ended = {}
  BY DEF Init, Table, Ended
<1>2. Phase = "open"
  BY DEF Init, Phase, ClosesRefused
<1> QED
  BY <1>1, <1>2 DEF R!Init

\* A step that leaves the stored channels as they are is not seen.
LEMMA TableKept ==
    ASSUME pendingClose' = pendingClose,
           \A c \in pendingClose : authority'[c] = authority[c] /\ (halted'[c] <=> halted[c])
    PROVE  Table' = Table /\ Ended' = Ended
<1>1. Table' = Table
  BY DEF Table
<1>2. Ended' = Ended
  BY DEF Ended
<1> QED
  BY <1>1, <1>2

\* A stop of a channel ends it, if it is stored.
LEMMA StopEnds ==
    ASSUME NetworkInv, NEW c \in Slot, StopChannel(c), UNCHANGED <<stopPc, pendingClose, authority>>
    PROVE  R!End(c) \/ UNCHANGED R!vars
<1>1. Table' = Table /\ Phase' = Phase
  BY DEF Table, Phase, ClosesRefused
<1>2. CASE c \in pendingClose
  <2>1. Ended' = Ended \cup {c}
    BY <1>2 DEF NetworkInv, TypeOK, StopChannel, Ended
  <2>2. <<c, authority[c]>> \in Table
    BY <1>2 DEF Table
  <2>3. authority[c] \in Authority
    BY <1>2 DEF NetworkInv, SlotInv
  <2> QED
    BY <1>1, <2>1, <2>2, <2>3 DEF R!End
<1>3. CASE c \notin pendingClose
  <2>1. Ended' = Ended
    BY <1>3 DEF NetworkInv, TypeOK, StopChannel, Ended
  <2> QED
    BY <1>1, <2>1 DEF R!vars
<1> QED
  BY <1>2, <1>3

\* The removal of a stopped channel.
LEMMA RemovalRemoves ==
    ASSUME NetworkInv, NEW c \in pendingClose, halted[c], UNCHANGED <<stopPc, halted>>,
           pendingClose' = pendingClose \ {c}, NEW a, authority' = [authority EXCEPT ![c] = a]
    PROVE  R!Remove(c)
<1>1. Phase' = Phase
  BY DEF Phase, ClosesRefused
<1>2. c \in Ended /\ Ended' = Ended \ {c}
  BY DEF Ended
<1>3. \A d \in pendingClose \ {c} : authority'[d] = authority[d]
  BY DEF NetworkInv, TypeOK
<1>4. Table' = {entry \in Table : entry[1] # c}
  BY <1>3 DEF Table
<1> QED
  BY <1>1, <1>2, <1>4 DEF R!Remove

\* Every step of the network is a step of the connection table or not seen.
LEMMA StepRegistry == ASSUME NetworkInv, [Next]_vars PROVE [R!Next]_(R!vars)
<1> USE DEF netVars, sessionVars, pendingVars, channelVars, manualVars
<1>1. ASSUME UNCHANGED <<stopPc, pendingClose>>,
             \A c \in pendingClose : authority'[c] = authority[c] /\ (halted'[c] <=> halted[c])
      PROVE  UNCHANGED R!vars
  BY <1>1, TableKept DEF Phase, ClosesRefused, R!vars
<1>2. ASSUME UNCHANGED <<stopPc, pendingClose, authority, halted>> PROVE UNCHANGED R!vars
  BY <1>1, <1>2
<1>3. CASE StartSessions \/ (\E k \in Session : StopSession(k)) \/ UNCHANGED vars
  <2>1. UNCHANGED <<stopPc, pendingClose, authority, halted>>
    <3>1. CASE StartSessions
      BY <3>1 DEF StartSessions, SessionStart, SessionSubscribe, SessionStarted
    <3>2. CASE \E k \in Session : StopSession(k)
      BY <3>2 DEF StopSession
    <3>3. CASE UNCHANGED vars
      BY <3>3 DEF vars
    <3> QED BY <1>3, <3>1, <3>2, <3>3
  <2> QED BY <1>2, <2>1
<1>4. CASE StopProceeds
  <2>1. Table' = Table /\ Ended' = Ended
    BY <1>4 DEF StopProceeds, Table, Ended
  <2>2. CASE stopPc = "stop_closes"
    <3>1. toStop = {} /\ stopPc' = "stopped"
      BY <1>4, <2>2 DEF StopProceeds
    <3>2. \A c \in pendingClose : halted[c]
      BY <2>2, <3>1 DEF NetworkInv, TypeOK, SlotInv, ClosesRefused
    <3>3. \A entry \in Table : entry[1] \in Ended
      BY <3>2 DEF Table, Ended
    <3>4. Phase = "refusing" /\ Phase' = "closed"
      BY <2>2, <3>1 DEF Phase, ClosesRefused
    <3> QED
      BY <2>1, <3>3, <3>4 DEF R!Next, R!Close
  <2>3. CASE stopPc # "stop_closes"
    <3>1. Phase' = Phase
      BY <1>4, <2>3 DEF StopProceeds, Phase, ClosesRefused
    <3> QED
      BY <2>1, <3>1 DEF R!vars
  <2> QED
    BY <2>2, <2>3
<1>5. CASE StopPending
  <2>1. Table' = Table /\ Ended' = Ended
    BY <1>5 DEF StopPending, Table, Ended
  <2>2. Phase' = Phase \/ (Phase = "open" /\ Phase' = "refusing")
    BY <1>5 DEF StopPending, Phase, ClosesRefused
  <2> QED
    BY <2>1, <2>2 DEF R!Next, R!Refuse, R!vars
<1>6. ASSUME NEW c \in Slot, StopPended(c) \/ ChannelStops(c) PROVE [R!Next]_(R!vars)
  BY <1>6, StopEnds DEF StopPended, ChannelStops, R!Next
<1>7. ASSUME NEW c \in Slot, \/ NewConnection(c) \/ ManualLoad(c) \/ StartConnect(c)
                             \/ ConnectFailed(c) \/ PendChannel(c) \/ HandshakeFailed(c)
                             \/ HandshakeSucceeded(c) \/ RejectLoopback(c) \/ UnpendChannel(c)
                             \/ ManualConnect(c)
      PROVE  UNCHANGED R!vars
  <2>1. CASE NewConnection(c) \/ ManualLoad(c) \/ StartConnect(c) \/ ConnectFailed(c)
    BY <1>2, <2>1 DEF NewConnection, ManualLoad, StartConnect, ConnectFailed
  <2>2. CASE HandshakeFailed(c) \/ HandshakeSucceeded(c) \/ RejectLoopback(c)
    BY <1>2, <2>2 DEF HandshakeFailed, HandshakeSucceeded, RejectLoopback
  <2>3. CASE PendChannel(c) \/ UnpendChannel(c) \/ ManualConnect(c)
    BY <1>2, <2>3 DEF PendChannel, UnpendChannel, ManualConnect
  <2> QED BY <1>7, <2>1, <2>2, <2>3
<1>8. ASSUME NEW c \in Slot, c \notin pendingClose, UNCHANGED <<stopPc, pendingClose>>,
             \A d \in Slot \ {c} : authority'[d] = authority[d] /\ (halted'[d] <=> halted[d])
      PROVE  UNCHANGED R!vars
  BY <1>1, <1>8, ZenonT(40) DEF NetworkInv, TypeOK
<1>9. ASSUME NEW c \in Slot, NEW a \in Authority, ConnectSucceeded(c, a) \/ HandleAccept(c, a)
      PROVE  UNCHANGED R!vars
  <2>1. c \notin pendingClose
    BY <1>9, ZenonT(40) DEF ConnectSucceeded, HandleAccept, NetworkInv, SlotInv
  <2>2. \A d \in Slot \ {c} : authority'[d] = authority[d] /\ (halted'[d] <=> halted[d])
    BY <1>9 DEF ConnectSucceeded, HandleAccept, NewChannel, NetworkInv, TypeOK
  <2>3. UNCHANGED <<stopPc, pendingClose>>
    BY <1>9, Zenon DEF ConnectSucceeded, HandleAccept
  <2> QED
    BY <1>8, <2>1, <2>2, <2>3, Zenon
<1>10. ASSUME NEW c \in Slot, RegisterChannel(c) PROVE UNCHANGED R!vars
  <2>1. c \notin pendingClose
    BY <1>10, ZenonT(40) DEF RegisterChannel, NetworkInv, SlotInv
  <2>2. \A d \in Slot \ {c} : authority'[d] = authority[d] /\ (halted'[d] <=> halted[d])
    BY <1>10 DEF RegisterChannel, HandleChannelStop, NetworkInv, TypeOK
  <2>3. UNCHANGED <<stopPc, pendingClose>>
    BY <1>10, Zenon DEF RegisterChannel
  <2> QED
    BY <1>8, <2>1, <2>2, <2>3, Zenon
<1>11. ASSUME NEW c \in Slot, StartChannel(c) PROVE UNCHANGED R!vars
  <2>1. c \notin pendingClose
    BY <1>11, ZenonT(40) DEF StartChannel, NetworkInv, SlotInv
  <2>2. \A d \in Slot \ {c} : authority'[d] = authority[d] /\ (halted'[d] <=> halted[d])
    BY <1>11 DEF StartChannel, NetworkInv, TypeOK
  <2>3. UNCHANGED <<stopPc, pendingClose>>
    BY <1>11, Zenon DEF StartChannel
  <2> QED
    BY <1>8, <2>1, <2>2, <2>3, Zenon
<1>12. ASSUME NEW c \in Slot, HandleStartFailed(c) PROVE UNCHANGED R!vars
  <2>1. c \notin pendingClose
    BY <1>12, ZenonT(40) DEF HandleStartFailed, NetworkInv, SlotInv
  <2>2. \A d \in Slot \ {c} : authority'[d] = authority[d] /\ (halted'[d] <=> halted[d])
    BY <1>12 DEF HandleStartFailed, StopChannel, HandleChannelStop, NetworkInv, TypeOK
  <2>3. UNCHANGED <<stopPc, pendingClose>>
    BY <1>12, Zenon DEF HandleStartFailed
  <2> QED
    BY <1>8, <2>1, <2>2, <2>3, Zenon
<1>13. ASSUME NEW c \in Slot, StoreChannel(c) PROVE [R!Next]_(R!vars)
  <2>1. CASE StoreCode(c) # "success"
    BY <1>2, <1>13, <2>1 DEF StoreChannel
  <2>2. CASE StoreCode(c) = "success"
    <3>1. pendingClose' = pendingClose \cup {c} /\ UNCHANGED <<stopPc, authority, halted>>
      BY <1>13, <2>2 DEF StoreChannel
    <3>2. c \notin pendingClose /\ authority[c] \in Authority
      BY <1>13 DEF StoreChannel, NetworkInv, SlotInv
    <3>3. Phase = "open" /\ Phase' = Phase
      BY <2>2, <3>1 DEF StoreCode, Phase, ClosesRefused
    <3>4. \A d \in pendingClose : authority[d] # authority[c]
      BY <2>2 DEF StoreCode
    <3>5. \A entry \in Table : entry[1] # c /\ entry[2] # authority[c]
      BY <3>2, <3>4 DEF Table
    <3>6. Table' = Table \cup {<<c, authority[c]>>}
      BY <3>1 DEF Table
    <3>7. Ended' \in {Ended, Ended \cup {c}}
      BY <3>1 DEF Ended
    <3>8. R!Store(c, authority[c])
      BY <3>3, <3>5, <3>6, <3>7 DEF R!Store
    <3> QED
      BY <3>2, <3>8 DEF R!Next
  <2> QED
    BY <2>1, <2>2
<1>14. ASSUME NEW c \in Slot, HandleStart(c) PROVE [R!Next]_(R!vars)
  <2>1. CASE ~halted[c]
    BY <1>2, <1>14, <2>1 DEF HandleStart
  <2>2. CASE halted[c]
    <3>0. pc[c] = "begin" /\ result[c] = "success" /\ SlotInv(c)
      BY <1>14 DEF HandleStart, NetworkInv
    <3>1. c \in pendingClose
      BY <3>0, Zenon DEF SlotInv
    <3>2. /\ pendingClose' = pendingClose \ {c} /\ UNCHANGED <<stopPc, halted>>
          /\ authority' = [authority EXCEPT ![c] = NoAuthority]
      BY <1>14, <2>2 DEF HandleStart, HandleChannelStop
    <3>3. R!Remove(c)
      BY <2>2, <3>1, <3>2, RemovalRemoves, Zenon
    <3> QED
      BY <3>3 DEF R!Next
  <2> QED
    BY <2>1, <2>2
<1>15. ASSUME NEW c \in Slot, HandleRemove(c) PROVE [R!Next]_(R!vars)
  <2>1. c \in pendingClose /\ halted[c]
    BY <1>15 DEF HandleRemove, NetworkInv, SlotInv
  <2>2. R!Remove(c)
    BY <1>15, <2>1, RemovalRemoves, Zenon DEF HandleRemove, HandleChannelStop
  <2> QED
    BY <2>2 DEF R!Next
<1> QED
  BY <1>3, <1>4, <1>5, <1>6, <1>7, <1>9, <1>10, <1>11, <1>12, <1>13, <1>14, <1>15, Zenon
     DEF Next, StopNetwork, Proceed

\* For any slots, addresses and limits, the sessions and p2p::stop() keep the
\* promise of the connection table: one channel per address, no removal of a
\* running channel, nothing stored once it refuses, nothing running at the end.
THEOREM NetworkImplementsRegistry == Spec => ImplementsRegistry
BY InitRegistry, StepRegistry, NetworkInvariant, PTL DEF Spec, ImplementsRegistry, R!Spec
==============================================================================
