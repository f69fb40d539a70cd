-------------------------- MODULE ConnectBatchProofs --------------------------
(***************************************************************************)
(* The safety properties of ConnectBatch hold for every batch size.  The   *)
(* inductive invariant relates the connectors' synchronizers to their      *)
(* answers (ConnectorInv) and the count of the batch's synchronizer to the *)
(* number of attempts that have ended (JoinInv).  TimedInv says when the   *)
(* timer of an attempt runs.                                               *)
(***************************************************************************)
EXTENDS ConnectBatch, FiniteSetTheorems, TLAPS

Early == {"new", "fetch", "pend", "connect", "resolve"}

\* The callbacks that are left of connector n can no longer be passed on, once
\* it has answered or has been given up.
ConnectorInv(n) ==
    /\ pc[n] \in Early => timer[n] = "none" /\ tcp[n] = "none"
    /\ pc[n] \in Early \cup {"race"} => calls[n] = 0 /\ answer[n] = "none" /\ ~joined[n]
    /\ pc[n] = "answered" => calls[n] = 1 /\ answer[n] \in Codes
    /\ pc[n] \in {"answered", "done"} /\ ~joined[n] => timer[n] = "none" /\ tcp[n] = "none"
    /\ calls[n] <= 1
    /\ n \in handled <=> pc[n] = "done"
    /\ n \in pended => pc[n] \in {"connect", "resolve", "race", "answered"}
    /\ pc[n] = "done" /\ calls[n] > 0 => stopped[n]

\* Until it clears, the batch's synchronizer has counted the failed attempts.
JoinInv ==
    \/ /\ told = 0
       /\ count = Cardinality(handled)
       /\ count < BatchSize
       /\ \A n \in handled : answer[n] # "success"
    \/ /\ count = BatchSize
       /\ told = 1
       /\ \/ outcome = "success" /\ \E n \in handled : answer[n] = "success"
          \/ /\ outcome # "success"
             /\ handled = Connector
             /\ \A n \in Connector : answer[n] # "success"

BatchInv == TypeOK /\ (\A n \in Connector : ConnectorInv(n)) /\ JoinInv

-----------------------------------------------------------------------------
\* There are BatchSize connectors.
LEMMA ConnectorsFinite == IsFiniteSet(Connector) /\ Cardinality(Connector) = BatchSize
  BY FS_Interval, BatchAssumption DEF Connector

\* The number of ended attempts: one more ends, and at BatchSize all have.
LEMMA HandledCount ==
    ASSUME NEW S \in SUBSET Connector, NEW n \in Connector, n \notin S
    PROVE  /\ Cardinality(S) \in Nat
           /\ Cardinality(S \cup {n}) = Cardinality(S) + 1
           /\ Cardinality(S) + 1 = BatchSize => S \cup {n} = Connector
           /\ Cardinality(S) < BatchSize
<1>1. IsFiniteSet(S) /\ IsFiniteSet(S \cup {n})
  BY ConnectorsFinite, FS_Subset, FS_AddElement
<1>2. Cardinality(S) \in Nat /\ Cardinality(S \cup {n}) = Cardinality(S) + 1
  BY <1>1, FS_CardinalityType, FS_AddElement
<1>3. /\ Cardinality(S \cup {n}) <= Cardinality(Connector)
      /\ Cardinality(S \cup {n}) = Cardinality(Connector) => S \cup {n} = Connector
  BY ConnectorsFinite, FS_Subset
<1> QED
  BY <1>2, <1>3, ConnectorsFinite, BatchAssumption

\* The initial state satisfies the invariant.
LEMMA InitHolds == Init => BatchInv
<1> SUFFICES ASSUME Init PROVE BatchInv
    OBVIOUS
<1>1. TypeOK
  <2>1. sessionStopped \in BOOLEAN /\ refused \in BOOLEAN
    BY Zenon DEF Init
  <2> QED
    BY <2>1, BatchAssumption DEF Init, TypeOK, PcValues
<1>2. \A n \in Connector : ConnectorInv(n)
  BY DEF Init, ConnectorInv, Early
<1>3. JoinInv
  BY FS_EmptySet, BatchAssumption DEF Init, JoinInv
<1> QED
  BY <1>1, <1>2, <1>3 DEF BatchInv

\* A call of the batch's synchronizer keeps its count in step with the ended
\* attempts, when attempt n ends with the code it gives.
LEMMA JoinHolds ==
    ASSUME BatchInv, NEW n \in Connector, n \notin handled, NEW code \in Codes,
           JoinBatch(code), handled' = handled \cup {n}, answer' = answer,
           answer[n] = code \/ (answer[n] = "none" /\ code # "success")
    PROVE  /\ count' \in 0..BatchSize /\ told' \in Nat /\ outcome' \in Codes \cup {"none"}
           /\ JoinInv'
<1> USE BatchAssumption
<1>1. /\ Cardinality(handled) \in Nat
      /\ Cardinality(handled') = Cardinality(handled) + 1
      /\ Cardinality(handled) + 1 = BatchSize => handled' = Connector
      /\ Cardinality(handled) < BatchSize
  BY HandledCount DEF BatchInv, TypeOK
<1>2. CASE count < BatchSize
  <2>1. told = 0 /\ count = Cardinality(handled) /\ \A m \in handled : answer[m] # "success"
    BY <1>2 DEF BatchInv, JoinInv, TypeOK
  <2>2. CASE code = "success"
    BY <1>2, <2>1, <2>2 DEF JoinBatch, Clear, JoinInv, BatchInv, TypeOK
  <2>3. CASE code # "success"
    <3>1. \A m \in handled' : answer'[m] # "success"
      BY <2>1, <2>3
    <3> QED
      BY <1>1, <1>2, <2>1, <2>3, <3>1 DEF JoinBatch, Clear, JoinInv, BatchInv, TypeOK
  <2> QED
    BY <2>2, <2>3
<1>3. CASE ~(count < BatchSize)
  <2>1. UNCHANGED <<count, told, outcome>>
    BY <1>3 DEF JoinBatch
  <2>2. told = 1 /\ count = BatchSize /\ outcome = "success"
    BY <1>1, <1>3 DEF BatchInv, JoinInv
  <2> QED
    BY <2>1, <2>2 DEF JoinInv, BatchInv, TypeOK
<1> QED
  BY <1>2, <1>3

\* A step that leaves the batch alone preserves JoinInv: an attempt that has
\* ended keeps its answer.
LEMMA JoinUntouched ==
    ASSUME BatchInv, UNCHANGED batchVars, \A n \in handled : answer'[n] = answer[n]
    PROVE  JoinInv'
  BY DEF BatchInv, JoinInv, batchVars

\* What the connector's synchronizer writes has its types.
LEMMA JoinTypes ==
    ASSUME TypeOK, NEW n \in Connector, NEW code \in Codes, Join(n, code)
    PROVE  /\ joined' \in [Connector -> BOOLEAN]
           /\ calls' \in [Connector -> Nat]
           /\ answer' \in [Connector -> Codes \cup {"none"}]
           /\ pc' \in [Connector -> PcValues]
<1>1. joined' \in [Connector -> BOOLEAN]
  BY Zenon DEF TypeOK, Join
<1>2. calls' \in [Connector -> Nat] /\ answer' \in [Connector -> Codes \cup {"none"}]
  BY DEF TypeOK, Join, Answer
<1>3. pc' \in [Connector -> PcValues]
  BY DEF TypeOK, Join, Answer, PcValues
<1> QED
  BY <1>1, <1>2, <1>3

\* Every step of the batch preserves the invariant.
LEMMA NextHolds == BatchInv /\ [Next]_vars => BatchInv'
<1> SUFFICES ASSUME BatchInv, [Next]_vars PROVE BatchInv'
    OBVIOUS
<1> USE BatchAssumption DEF connectorVars, batchVars, stopVars
<1>1. ASSUME NEW n \in Connector, NEW code \in Codes \ {"success"}, pc[n] \in {"new", "fetch"},
             NotConnected(n, code), UNCHANGED <<stopVars, pended, connectorVars>>
      PROVE  BatchInv'
  <2>1. n \notin handled /\ answer[n] = "none"
    BY <1>1 DEF BatchInv, ConnectorInv, Early
  <2>2. /\ count' \in 0..BatchSize /\ told' \in Nat /\ outcome' \in Codes \cup {"none"}
        /\ JoinInv'
    BY <1>1, <2>1, JoinHolds DEF NotConnected
  <2>3. TypeOK'
    BY <1>1, <2>2 DEF BatchInv, TypeOK, NotConnected, PcValues
  <2>4. \A m \in Connector : ConnectorInv(m)'
    BY <1>1 DEF BatchInv, TypeOK, NotConnected, ConnectorInv, Early
  <2> QED
    BY <2>2, <2>3, <2>4 DEF BatchInv
<1>2. ASSUME NEW n \in Connector, NewConnect(n) \/ StartConnect(n) PROVE BatchInv'
  <2>1. CASE pc' = [pc EXCEPT ![n] = "fetch"] /\ pc[n] = "new" /\ UNCHANGED batchVars
    <3>1. UNCHANGED <<stopVars, pended, connectorVars>>
      BY <1>2 DEF NewConnect, StartConnect
    <3>2. TypeOK' /\ (\A m \in Connector : ConnectorInv(m)')
      BY <2>1, <3>1 DEF BatchInv, TypeOK, PcValues, ConnectorInv, Early
    <3> QED
      BY <2>1, <3>1, <3>2, JoinUntouched DEF BatchInv
  <2>2. CASE pc' = [pc EXCEPT ![n] = "pend"] /\ pc[n] = "fetch" /\ UNCHANGED batchVars
    <3>1. UNCHANGED <<stopVars, pended, connectorVars>>
      BY <1>2 DEF NewConnect, StartConnect
    <3>2. TypeOK' /\ (\A m \in Connector : ConnectorInv(m)')
      BY <2>2, <3>1 DEF BatchInv, TypeOK, PcValues, ConnectorInv, Early
    <3> QED
      BY <2>2, <3>1, <3>2, JoinUntouched DEF BatchInv
  <2> HIDE DEF connectorVars, batchVars, stopVars
  <2> QED
    BY <1>1, <1>2, <2>1, <2>2 DEF NewConnect, StartConnect, Codes, TcpCodes
<1>3. ASSUME NEW n \in Connector, Pend(n) PROVE BatchInv'
  <2>1. TypeOK' /\ (\A m \in Connector : ConnectorInv(m)')
    BY <1>3 DEF Pend, BatchInv, TypeOK, PcValues, ConnectorInv, Early
  <2> QED
    BY <1>3, <2>1, JoinUntouched DEF Pend, BatchInv
<1>4. ASSUME NEW n \in Connector, Connect(n) PROVE BatchInv'
  <2>1. TypeOK'
    BY <1>4 DEF Connect, Answer, BatchInv, TypeOK, PcValues, Codes
  <2>2. \A m \in Connector : ConnectorInv(m)'
    BY <1>4 DEF Connect, Answer, BatchInv, TypeOK, ConnectorInv, Early, Codes
  <2>3. \A m \in handled : answer'[m] = answer[m]
    BY <1>4 DEF Connect, Answer, BatchInv, TypeOK, ConnectorInv
  <2> QED
    BY <1>4, <2>1, <2>2, <2>3, JoinUntouched DEF Connect, BatchInv
<1>5. ASSUME NEW n \in Connector, HandleResolve(n) PROVE BatchInv'
  <2>1. TypeOK'
    BY <1>5 DEF HandleResolve, Answer, BatchInv, TypeOK, PcValues, Codes
  <2>2. \A m \in Connector : ConnectorInv(m)'
    BY <1>5 DEF HandleResolve, Answer, BatchInv, TypeOK, ConnectorInv, Early, Codes
  <2>3. \A m \in handled : answer'[m] = answer[m]
    BY <1>5 DEF HandleResolve, Answer, BatchInv, TypeOK, ConnectorInv
  <2> QED
    BY <1>5, <2>1, <2>2, <2>3, JoinUntouched DEF HandleResolve, BatchInv
<1>6. ASSUME NEW n \in Connector, TimerExpires(n) PROVE BatchInv'
  <2>1. TypeOK' /\ (\A m \in Connector : ConnectorInv(m)')
    BY <1>6 DEF TimerExpires, BatchInv, TypeOK, ConnectorInv, Early
  <2> QED
    BY <1>6, <2>1, JoinUntouched DEF TimerExpires, BatchInv
<1>7. ASSUME NEW n \in Connector, HandleTimer(n) PROVE BatchInv'
  <2>1. TypeOK'
    <3>1. "channel_timeout" \in Codes
      BY DEF Codes
    <3> QED
      BY <1>7, <3>1, JoinTypes DEF HandleTimer, BatchInv, TypeOK
  <2>2. ASSUME NEW m \in Connector PROVE ConnectorInv(m)'
    <3>1. ConnectorInv(n) /\ ConnectorInv(m) /\ TypeOK
      BY DEF BatchInv
    <3>2. CASE joined[n]
      BY <1>7, <3>1, <3>2 DEF HandleTimer, Join, TypeOK, ConnectorInv, Early
    <3>3. CASE ~joined[n]
      <4>1. pc[n] = "race" /\ calls[n] = 0
        BY <1>7, <3>1, <3>3 DEF HandleTimer, TypeOK, ConnectorInv, Early, PcValues
      <4> QED
        BY <1>7, <3>1, <3>3, <4>1 DEF HandleTimer, Join, Answer, TypeOK, ConnectorInv, Early, Codes
    <3> QED
      BY <3>2, <3>3
  <2>3. \A m \in handled : answer'[m] = answer[m]
    BY <1>7 DEF HandleTimer, Join, Answer, BatchInv, TypeOK, ConnectorInv
  <2> QED
    BY <1>7, <2>1, <2>2, <2>3, JoinUntouched DEF HandleTimer, BatchInv
<1>8. ASSUME NEW n \in Connector, NEW code \in TcpCodes, HandleTcp(n, code) PROVE BatchInv'
  <2>1. TypeOK'
    <3>1. code \in Codes
      BY DEF Codes
    <3> QED
      BY <1>8, <3>1, JoinTypes DEF HandleTcp, BatchInv, TypeOK
  <2>2. ASSUME NEW m \in Connector PROVE ConnectorInv(m)'
    <3>1. ConnectorInv(n) /\ ConnectorInv(m) /\ TypeOK
      BY DEF BatchInv
    <3>2. CASE joined[n]
      BY <1>8, <3>1, <3>2 DEF HandleTcp, Join, TypeOK, ConnectorInv, Early
    <3>3. CASE ~joined[n]
      <4>1. pc[n] = "race" /\ calls[n] = 0
        BY <1>8, <3>1, <3>3 DEF HandleTcp, TypeOK, ConnectorInv, Early, PcValues
      <4> QED
        BY <1>8, <3>1, <3>3, <4>1 DEF HandleTcp, Join, Answer, TypeOK, ConnectorInv, Early, Codes
    <3> QED
      BY <3>2, <3>3
  <2>3. \A m \in handled : answer'[m] = answer[m]
    BY <1>8 DEF HandleTcp, Join, Answer, BatchInv, TypeOK, ConnectorInv
  <2> QED
    BY <1>8, <2>1, <2>2, <2>3, JoinUntouched DEF HandleTcp, BatchInv
<1>9. ASSUME NEW n \in Connector, HandleConnect(n) PROVE BatchInv'
  <2>1. n \notin handled /\ answer[n] \in Codes
    BY <1>9 DEF HandleConnect, BatchInv, ConnectorInv
  <2>2. /\ count' \in 0..BatchSize /\ told' \in Nat /\ outcome' \in Codes \cup {"none"}
        /\ JoinInv'
    BY <1>9, <2>1, JoinHolds DEF HandleConnect
  <2>3. TypeOK'
    BY <1>9, <2>2 DEF HandleConnect, Stop, BatchInv, TypeOK, PcValues
  <2>4. \A m \in Connector : ConnectorInv(m)'
    BY <1>9 DEF HandleConnect, Stop, BatchInv, TypeOK, ConnectorInv, Early
  <2> QED
    BY <2>2, <2>3, <2>4 DEF BatchInv
<1>10. CASE StopSession \/ StopPending
  <2>1. sessionStopped' \in BOOLEAN /\ refused' \in BOOLEAN
    BY <1>10, Zenon DEF StopSession, StopPending, BatchInv, TypeOK
  <2>2. TypeOK' /\ (\A m \in Connector : ConnectorInv(m)')
    BY <1>10, <2>1 DEF StopSession, StopPending, BatchInv, TypeOK, ConnectorInv
  <2> QED
    BY <1>10, <2>2, JoinUntouched DEF StopSession, StopPending, BatchInv
<1>11. ASSUME NEW n \in Connector, StopConnector(n) PROVE BatchInv'
  <2>1. TypeOK' /\ (\A m \in Connector : ConnectorInv(m)')
    BY <1>11 DEF StopConnector, Stop, BatchInv, TypeOK, ConnectorInv
  <2> QED
    BY <1>11, <2>1, JoinUntouched DEF StopConnector, BatchInv
<1>12. CASE UNCHANGED vars
  BY <1>12 DEF vars, BatchInv, TypeOK, ConnectorInv, JoinInv
<1> QED
  BY <1>2, <1>3, <1>4, <1>5, <1>6, <1>7, <1>8, <1>9, <1>10, <1>11, <1>12
     DEF Next, Proceed, Expire

\* BatchInv is an invariant of the batch.
LEMMA BatchInvariant == Spec => []BatchInv
  BY InitHolds, NextHolds, PTL DEF Spec

\* The state always has the shape of the code's.
THEOREM TypeCorrect == Spec => []TypeOK
<1>1. BatchInv => TypeOK
  BY DEF BatchInv
<1> QED
  BY <1>1, BatchInvariant, PTL

\* Each connector of a batch of any size calls back at most once.
THEOREM ConnectorAnswersOnce == Spec => []AnsweredOnce
<1>1. BatchInv => AnsweredOnce
  BY DEF BatchInv, ConnectorInv, AnsweredOnce
<1> QED
  BY <1>1, BatchInvariant, PTL

\* A batch of any size calls its handler exactly once, at its first success or
\* at the last failure of all: a connection cycle is neither doubled nor lost.
THEOREM BatchDecidedOnce == Spec => []DecidedOnce
<1>1. ASSUME BatchInv PROVE DecidedOnce
  <2>1. CASE told = 0
    <3>1. handled # Connector /\ \A n \in handled : answer[n] # "success"
      BY <1>1, <2>1, ConnectorsFinite, BatchAssumption DEF BatchInv, JoinInv
    <3> QED
      BY <2>1, <3>1 DEF DecidedOnce
  <2>2. CASE told = 1
    BY <1>1, <2>2 DEF BatchInv, TypeOK, JoinInv, DecidedOnce
  <2> QED
    BY <1>1, <2>1, <2>2 DEF BatchInv, JoinInv
<1> QED
  BY <1>1, BatchInvariant, PTL

\* A connector that has answered is stopped before it can be destroyed, as the
\* destructor asserts, and is not left in pending_connect_.
THEOREM ConnectorsEndStopped == Spec => []EndedIsStopped
<1>1. BatchInv => EndedIsStopped
  BY DEF BatchInv, ConnectorInv, EndedIsStopped
<1> QED
  BY <1>1, BatchInvariant, PTL
-----------------------------------------------------------------------------
\* p2p::stop() stops the session first, and no other stops a connector that has
\* not answered.
TimedInv ==
    /\ AttemptTimed
    /\ refused => sessionStopped
    /\ toStop # {} => refused
    /\ \A n \in Connector : stopped[n] /\ pc[n] # "done" => sessionStopped

\* Every step keeps the attempts timed.
LEMMA TimedStep == ASSUME BatchInv, TimedInv, [Next]_vars PROVE TimedInv'
<1> USE DEF TimedInv, AttemptTimed, connectorVars, stopVars
<1>0. /\ pc \in [Connector -> PcValues] /\ stopped \in [Connector -> BOOLEAN]
      /\ timer \in [Connector -> {"none", "armed", "expired"}]
      /\ tcp \in [Connector -> {"none", "connecting"}]
  BY DEF BatchInv, TypeOK
<1>1. ASSUME NEW n \in Connector, NEW p \in PcValues \ {"race"}, p = "done" \/ pc[n] # "done",
             pc' = [pc EXCEPT ![n] = p], UNCHANGED <<stopVars, stopped, timer, tcp>>
      PROVE  TimedInv'
  BY <1>0, <1>1
<1>2. ASSUME NEW n \in Connector, \/ NewConnect(n) \/ StartConnect(n) \/ Pend(n) \/ Connect(n)
      PROVE  TimedInv'
  BY <1>1, <1>2 DEF NewConnect, StartConnect, Pend, Connect, NotConnected, Answer, PcValues
<1>3. ASSUME NEW n \in Connector, HandleResolve(n) PROVE TimedInv'
  <2>1. CASE UNCHANGED <<timer, tcp>> /\ pc' = [pc EXCEPT ![n] = "answered"]
    BY <1>1, <1>3, <2>1 DEF HandleResolve, PcValues
  <2>2. CASE /\ pc' = [pc EXCEPT ![n] = "race"]
             /\ timer' = [timer EXCEPT ![n] = "armed"]
             /\ tcp' = [tcp EXCEPT ![n] = "connecting"]
    BY <1>0, <1>3, <2>2 DEF HandleResolve
  <2> QED
    BY <1>3, <2>1, <2>2 DEF HandleResolve, Answer
<1>4. ASSUME NEW n \in Connector, TimerExpires(n) PROVE TimedInv'
  BY <1>0, <1>4 DEF TimerExpires
<1>5. ASSUME NEW n \in Connector, NEW code, Join(n, code), timer[n] # "none" \/ tcp[n] # "none"
      PROVE  /\ \A m \in Connector : m # n => pc'[m] = pc[m]
             /\ pc'[n] # "race" /\ (pc'[n] # "done" => pc[n] # "done")
  <2>0. ConnectorInv(n)
    BY DEF BatchInv
  <2>1. CASE joined[n]
    <3>1. pc' = pc /\ pc[n] # "race"
      BY <1>5, <2>0, <2>1 DEF Join, ConnectorInv
    <3> QED
      BY <3>1
  <2>2. CASE ~joined[n]
    <3>1. pc[n] # "done" /\ pc' = [pc EXCEPT ![n] = "answered"]
      BY <1>0, <1>5, <2>0, <2>2 DEF Join, Answer, ConnectorInv
    <3> QED
      BY <1>0, <3>1
  <2> QED
    BY <2>1, <2>2
<1>6. ASSUME NEW n \in Connector, HandleTimer(n) PROVE TimedInv'
  BY <1>0, <1>5, <1>6 DEF HandleTimer
<1>7. ASSUME NEW n \in Connector, NEW code \in TcpCodes, HandleTcp(n, code) PROVE TimedInv'
  BY <1>0, <1>5, <1>7 DEF HandleTcp
<1>8. ASSUME NEW n \in Connector, HandleConnect(n) PROVE TimedInv'
  BY <1>0, <1>8 DEF HandleConnect, Stop
<1>9. CASE StopSession \/ StopPending
  BY <1>9 DEF StopSession, StopPending
<1>10. ASSUME NEW n \in Connector, StopConnector(n) PROVE TimedInv'
  <2>1. sessionStopped
    BY <1>10 DEF StopConnector
  <2> QED
    BY <1>0, <1>10, <2>1 DEF StopConnector, Stop
<1>11. CASE UNCHANGED vars
  BY <1>11 DEF vars
<1> QED
  BY <1>2, <1>3, <1>4, <1>6, <1>7, <1>8, <1>9, <1>10, <1>11 DEF Next, Proceed, Expire

\* Each attempt of a batch of any size ends by its timer if not by its TCP
\* connect, except where connector::stop() has taken the timer away: then only
\* the end of the TCP connect is left (connector.cpp 54-79).
THEOREM AttemptsAreTimed == Spec => []AttemptTimed
<1>1. Init => TimedInv
  BY DEF Init, TimedInv, AttemptTimed
<1>2. BatchInv /\ TimedInv /\ [Next]_vars => TimedInv'
  BY TimedStep
<1>3. TimedInv => AttemptTimed
  BY DEF TimedInv
<1> QED
  BY <1>1, <1>2, <1>3, BatchInvariant, PTL DEF Spec
==============================================================================
