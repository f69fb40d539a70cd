---------------------------- MODULE ChannelProofs ----------------------------
(***************************************************************************)
(* What Channel says of overlapping stops holds for any number of calls of *)
(* proxy::stop(), of handlers and of messages.  The inductive invariant is *)
(* ChannelInv: what each call of stop() has achieved at its stage, what is *)
(* known of the handlers and what is known of the timers, from which it    *)
(* follows that an open channel is watched.  MessageInv adds what is known *)
(* of the messages.                                                        *)
(***************************************************************************)
EXTENDS Channel, TLAPS

\* proxy::start() has started the subscribers.
SubscribersStarted ==
    starting \notin {"new", "stop_subscriber", "message_subscriber"}

\* A relay of channel_stopped waits in the queue of subscriber s.
Pending(s) == \E i \in DOMAIN jobs[s] : jobs[s][i] = "stopped"

\* What a call of stop() on the started channel has achieved.
CallInv(n) ==
    /\ stage[n] # "idle" => SubscribersStarted
    /\ stage[n] \notin {"idle", "flag"} => stopped
    /\ stage[n] \notin {"idle", "flag", "message_stop"} => "message" \notin running
    /\ stage[n] \notin {"idle", "flag", "message_stop", "broadcast"} =>
           (stored \cap MessageHandlers # {} => Pending("message"))
    /\ stage[n] \in {"relay", "timers", "socket", "done"} => "stop" \notin running
    /\ stage[n] \in {"timers", "socket", "done"} =>
           (stored \cap StopHandlers # {} => Pending("stop"))
    /\ stage[n] = "done" => socketStopped

\* A message handler subscribes once, in the start handler.
HandlerInv ==
    /\ ToldOnce
    /\ starting \notin {"read", "done"} =>
           \A h \in MessageHandlers : told[h] = 0 /\ h \notin stored

\* The channel is stopped or about to be, by a call made since it was started.
Ending == stopped \/ \E n \in StartedCalls : stage[n] = "flag"

\* Timer k runs, or has expired, or the call of p2p::stop() has cleared it.
Watches(k) == k \in armed \cup due \/ stage[P2pCall] \in {"socket", "done"}

\* Until the channel ends, its timers run from their start and it reads.
TimerInv ==
    /\ armed \cup due # {} => SubscribersStarted
    /\ reader # "off" => starting = "done"
    /\ stage[P2pCall] = "done" => socketStopped
    /\ starting \in {"test_inactivity", "start_inactivity", "handler", "read", "done"} =>
           Ending \/ Watches("expiration")
    /\ starting \in {"handler", "read", "done"} => Ending \/ Watches("inactivity")
    /\ starting = "done" => Ending \/ reader # "off"

ChannelInv == TypeOK /\ HandlerInv /\ TimerInv /\ \A n \in StartedCalls : CallInv(n)

-----------------------------------------------------------------------------
\* The steps of start() and stop(), in order.
LEMMA Orders ==
    /\ NextStart["new"] = "stop_subscriber"
    /\ NextStart["stop_subscriber"] = "message_subscriber"
    /\ NextStart["message_subscriber"] = "test_expiration"
    /\ NextStart["start_expiration"] = "test_inactivity"
    /\ NextStart["start_inactivity"] = "handler"
    /\ NextStart["handler"] = "read"
    /\ NextStart["read"] = "done"
    /\ NextStop["flag"] = "message_stop"
    /\ NextStop["message_stop"] = "broadcast"
    /\ NextStop["broadcast"] = "subscriber_stop"
    /\ NextStop["subscriber_stop"] = "relay"
    /\ NextStop["relay"] = "timers"
    /\ NextStop["timers"] = "socket"
    /\ NextStop["socket"] = "done"
BY DEF NextStart, NextStop

\* Appending to a queue keeps what waits in it, and an appended relay waits.
LEMMA AppendPends ==
    ASSUME NEW q \in Seq({"message", "stopped"}), NEW e \in {"message", "stopped"}
    PROVE  /\ Append(q, e) \in Seq({"message", "stopped"})
           /\ (\E i \in DOMAIN q : q[i] = "stopped") =>
                  \E i \in DOMAIN Append(q, e) : Append(q, e)[i] = "stopped"
           /\ e = "stopped" => \E i \in DOMAIN Append(q, e) : Append(q, e)[i] = "stopped"
<1>1. /\ Append(q, e) \in Seq({"message", "stopped"})
      /\ DOMAIN q = 1..Len(q) /\ DOMAIN Append(q, e) = 1..(Len(q) + 1)
      /\ Len(q) \in Nat
      /\ \A i \in 1..Len(q) : Append(q, e)[i] = q[i]
      /\ Append(q, e)[Len(q) + 1] = e
  OBVIOUS
<1> QED
  BY <1>1

\* Running the first job of a queue keeps the relays behind it.
LEMMA TailPends ==
    ASSUME NEW q \in Seq({"message", "stopped"}), q # <<>>
    PROVE  /\ Tail(q) \in Seq({"message", "stopped"})
           /\ Head(q) \in {"message", "stopped"}
           /\ (\E i \in DOMAIN q : q[i] = "stopped") =>
                  Head(q) = "stopped" \/ \E i \in DOMAIN Tail(q) : Tail(q)[i] = "stopped"
<1>1. /\ Tail(q) \in Seq({"message", "stopped"})
      /\ Head(q) \in {"message", "stopped"}
      /\ DOMAIN q = 1..Len(q) /\ DOMAIN Tail(q) = 1..(Len(q) - 1)
      /\ Len(q) \in Nat \ {0}
      /\ \A i \in 1..(Len(q) - 1) : Tail(q)[i] = q[i + 1]
      /\ Head(q) = q[1]
  OBVIOUS
<1>2. ASSUME NEW i \in DOMAIN q, q[i] = "stopped", Head(q) # "stopped"
      PROVE  \E j \in DOMAIN Tail(q) : Tail(q)[j] = "stopped"
  <2>1. i - 1 \in DOMAIN Tail(q) /\ Tail(q)[i - 1] = q[i]
    BY <1>1, <1>2
  <2> QED
    BY <1>2, <2>1
<1> QED
  BY <1>1, <1>2
-----------------------------------------------------------------------------
\* What entering stop() changes.
LEMMA CallStopEffect ==
    ASSUME TypeOK, CallStop
    PROVE  /\ stage' \in [Calls -> StopStages]
           /\ \E n \in StartedCalls : stage'[n] = "flag"
           /\ \A c \in Calls : stage'[c] = stage[c] \/ stage'[c] = "flag"
           /\ \A c \in Calls : stage'[c] # stage[c] => c \in StartedCalls
<1>1. PICK n \in StartedCalls : stage' = [stage EXCEPT ![n] = "flag"]
  BY Zenon DEF CallStop
<1>2. n \in Calls /\ stage \in [Calls -> StopStages]
  BY DEF Calls, TypeOK
<1> QED
  BY <1>1, <1>2 DEF StopStages

\* What a step of stop() changes in the stages.
LEMMA AtStopEffect ==
    ASSUME TypeOK, NEW n \in Calls, NEW step \in StopStages \ {"idle", "done"}, AtStop(n, step)
    PROVE  /\ stage' \in [Calls -> StopStages]
           /\ stage[n] = step
           /\ stage'[n] = NextStop[step]
           /\ \A c \in Calls \ {n} : stage'[c] = stage[c]
<1>1. NextStop[step] \in StopStages
  BY Orders DEF StopStages
<1> QED
  BY <1>1 DEF AtStop, TypeOK

\* What a relayed invocation changes in the queues.
LEMMA RelayEffect ==
    ASSUME TypeOK, NEW s \in Subscribers, NEW e \in {"message", "stopped"},
           jobs' = [jobs EXCEPT ![s] = Append(@, e)]
    PROVE  /\ jobs' \in [Subscribers -> Seq({"message", "stopped"})]
           /\ \A u \in Subscribers : Pending(u) => Pending(u)'
           /\ e = "stopped" => Pending(s)'
<1>1. jobs[s] \in Seq({"message", "stopped"}) /\ jobs'[s] = Append(jobs[s], e)
  BY DEF TypeOK
<1>2. \A u \in Subscribers \ {s} : jobs'[u] = jobs[u]
  BY DEF TypeOK
<1>3. /\ Append(jobs[s], e) \in Seq({"message", "stopped"})
      /\ Pending(s) => Pending(s)'
      /\ e = "stopped" => Pending(s)'
  BY <1>1, AppendPends DEF Pending
<1>4. jobs' \in [Subscribers -> Seq({"message", "stopped"})]
  BY <1>3 DEF TypeOK
<1>5. \A u \in Subscribers \ {s} : Pending(u) => Pending(u)'
  BY <1>2 DEF Pending
<1> QED
  BY <1>3, <1>4, <1>5

\* What running the first job of a queue changes in the queues.
LEMMA JobEffect ==
    ASSUME TypeOK, NEW s \in Subscribers, jobs[s] # <<>>, jobs' = [jobs EXCEPT ![s] = Tail(@)]
    PROVE  /\ jobs' \in [Subscribers -> Seq({"message", "stopped"})]
           /\ \A u \in Subscribers \ {s} : Pending(u) => Pending(u)'
           /\ Pending(s) => Head(jobs[s]) = "stopped" \/ Pending(s)'
<1>1. jobs[s] \in Seq({"message", "stopped"}) /\ jobs'[s] = Tail(jobs[s])
  BY DEF TypeOK
<1>2. \A u \in Subscribers \ {s} : jobs'[u] = jobs[u]
  BY DEF TypeOK
<1>3. /\ Tail(jobs[s]) \in Seq({"message", "stopped"})
      /\ Pending(s) => Head(jobs[s]) = "stopped" \/ Pending(s)'
  BY <1>1, TailPends DEF Pending
<1>4. jobs' \in [Subscribers -> Seq({"message", "stopped"})]
  BY <1>3 DEF TypeOK
<1>5. \A u \in Subscribers \ {s} : Pending(u) => Pending(u)'
  BY <1>2 DEF Pending
<1> QED
  BY <1>3, <1>4, <1>5

\* Subscribing, delivering and releasing keep the types of the handlers' state.
LEMMA HandlerTypes ==
    ASSUME TypeOK
    PROVE  /\ \A s \in Subscribers, new \in SUBSET Handlers :
                  Subscribe(s, new) => stored' \subseteq Handlers /\ told' \in [Handlers -> Nat]
           /\ \A s \in Subscribers :
                  Release(s) => stored' \subseteq Handlers /\ told' \in [Handlers -> Nat]
           /\ Deliver => heard' \in [MessageHandlers -> Nat]
<1> USE DEF TypeOK
<1>1. ASSUME NEW s \in Subscribers, NEW new \in SUBSET Handlers, Subscribe(s, new)
      PROVE  stored' \subseteq Handlers /\ told' \in [Handlers -> Nat]
  BY <1>1 DEF Subscribe
<1>2. ASSUME NEW s \in Subscribers, Release(s)
      PROVE  stored' \subseteq Handlers /\ told' \in [Handlers -> Nat]
  BY <1>2 DEF Release
<1>3. ASSUME Deliver PROVE heard' \in [MessageHandlers -> Nat]
  BY <1>3 DEF Deliver
<1> QED
  BY <1>1, <1>2, <1>3

\* The initial state satisfies the invariant.
LEMMA InitHolds == Init => ChannelInv
<1> SUFFICES ASSUME Init PROVE ChannelInv
    OBVIOUS
<1> USE DEF Init, Subscribers, Timers
<1>1. TypeOK
  <2>1. jobs \in [Subscribers -> Seq({"message", "stopped"})]
    OBVIOUS
  <2> QED
    BY <2>1, Zenon DEF TypeOK, StartStages, StopStages, ReadStages
<1>2. HandlerInv
  BY DEF HandlerInv, ToldOnce, Handlers
<1>3. TimerInv
  BY DEF TimerInv, Calls
<1>4. ASSUME NEW n \in StartedCalls PROVE CallInv(n)
  BY DEF CallInv, Calls
<1> QED
  BY <1>1, <1>2, <1>3, <1>4 DEF ChannelInv

\* Every step preserves the types.
LEMMA TypeStep ==
    ASSUME TypeOK, [Next]_vars
    PROVE  TypeOK'
<1> USE ChannelAssumption DEF TypeOK, flagVars, handlerVars, messageVars, timerVars,
        StartStages, StopStages, ReadStages,
        Subscribers, Timers
<1>1. CASE StartProxy
  <2>1. starting' \in StartStages
    BY <1>1, Orders DEF StartProxy, Started
  <2>2. stopped' \in BOOLEAN /\ running' \subseteq Subscribers
    BY <1>1, Zenon DEF StartProxy, MessageStart
  <2>3. UNCHANGED <<socketStopped, stage, stored, told, heard, received, jobs, reader, armed, due>>
    BY <1>1 DEF StartProxy
  <2> QED
    BY <2>1, <2>2, <2>3
<1>2. CASE TestTimer
  BY <1>2, Orders DEF TestTimer
<1>3. CASE StartTimer
  <2>1. starting' \in StartStages /\ armed' \subseteq Timers
    BY Orders, <1>3, ZenonT(40) DEF StartTimer, Started
  <2>2. UNCHANGED <<stopped, running, socketStopped, stage, stored, told, heard, received, jobs,
                    reader, due>>
    BY <1>3 DEF StartTimer
  <2> QED
    BY <2>1, <2>2
<1>4. CASE StartHandler
  <2>1. stored' \subseteq Handlers /\ told' \in [Handlers -> Nat]
    <3>1. Subscribe("message", MessageHandlers)
      BY <1>4 DEF StartHandler
    <3>2. "message" \in Subscribers /\ MessageHandlers \subseteq Handlers
      BY DEF Subscribers, Handlers
    <3> HIDE DEF TypeOK
    <3> QED BY <3>1, <3>2, HandlerTypes
  <2> QED
    BY <1>4, <2>1, Orders DEF StartHandler, Started
<1>5. CASE StartRead
  BY <1>5, Orders DEF StartRead, Started
<1>6. CASE Read
  BY <1>6 DEF Read
<1>7. CASE HandleRead
  <2>1. stage' \in [Calls -> StopStages]
    BY <1>7, CallStopEffect DEF HandleRead
  <2> QED
    BY <1>7, <2>1 DEF HandleRead
<1>8. CASE Load
  <2>1. stage' \in [Calls -> StopStages]
    BY <1>8, CallStopEffect DEF Load
  <2>2. heard' \in [MessageHandlers -> Nat] /\ received' \in Nat
    BY <1>8, HandlerTypes DEF Load, LoadMessage
  <2>3. jobs' \in [Subscribers -> Seq({"message", "stopped"})]
    BY <1>8, RelayEffect DEF Load, LoadMessage
  <2>4. reader' \in ReadStages
    BY <1>8 DEF Load
  <2> QED
    BY <1>8, <2>1, <2>2, <2>3, <2>4 DEF Load
<1>9. CASE SignalActivity
  BY <1>9, ZenonT(40) DEF SignalActivity
<1>10. ASSUME NEW s \in Subscribers, RunJob(s) PROVE TypeOK'
  <2>1. stored' \subseteq Handlers /\ told' \in [Handlers -> Nat]
    BY <1>10, HandlerTypes DEF RunJob
  <2>2. heard' \in [MessageHandlers -> Nat]
    BY <1>10, HandlerTypes DEF RunJob
  <2>3. jobs' \in [Subscribers -> Seq({"message", "stopped"})]
    BY <1>10, JobEffect DEF RunJob
  <2> QED
    BY <1>10, <2>1, <2>2, <2>3 DEF RunJob
<1>11. ASSUME NEW h \in StopHandlers, SubscribeStop(h) PROVE TypeOK'
  <2>1. stored' \subseteq Handlers /\ told' \in [Handlers -> Nat]
    BY <1>11, HandlerTypes DEF SubscribeStop, Handlers
  <2> QED
    BY <1>11, <2>1 DEF SubscribeStop
<1>12. ASSUME NEW k \in Timers, TimerExpires(k) PROVE TypeOK'
  BY <1>12 DEF TimerExpires
<1>13. ASSUME NEW k \in Timers, HandleTimer(k) PROVE TypeOK'
  <2>1. stage' \in [Calls -> StopStages]
    BY <1>13, CallStopEffect DEF HandleTimer
  <2> QED
    BY <1>13, <2>1 DEF HandleTimer
<1>14. CASE SessionStops
  BY <1>14, CallStopEffect DEF SessionStops
<1>15. CASE NetworkStops
  BY <1>15, ZenonT(40) DEF NetworkStops
<1>16. ASSUME NEW n \in Calls, StopFlags(n) PROVE TypeOK'
  <2>1. stage' \in [Calls -> StopStages]
    BY <1>16, AtStopEffect DEF StopFlags, MessageStop
  <2>2. stopped' \in BOOLEAN /\ socketStopped' \in BOOLEAN
    BY <1>16, Zenon DEF StopFlags, MessageStop
  <2>3. running' \subseteq Subscribers
    BY <1>16, ZenonT(40) DEF StopFlags, MessageStop
  <2> QED
    BY <1>16, <2>1, <2>2, <2>3 DEF StopFlags, MessageStop
<1>17. ASSUME NEW n \in Calls, StopRelays(n) PROVE TypeOK'
  <2>1. stage' \in [Calls -> StopStages]
    BY <1>17, AtStopEffect DEF StopRelays, Broadcast
  <2>2. jobs' \in [Subscribers -> Seq({"message", "stopped"})]
    BY <1>17, RelayEffect DEF StopRelays, Broadcast
  <2> QED
    BY <1>17, <2>1, <2>2 DEF StopRelays, Broadcast
<1>18. ASSUME NEW n \in Calls, HandleStopping(n) PROVE TypeOK'
  BY <1>18, AtStopEffect DEF HandleStopping
<1>19. CASE UNCHANGED vars
  BY <1>19 DEF vars
<1> HIDE DEF TypeOK
<1> QED
  BY <1>1, <1>2, <1>3, <1>4, <1>5, <1>6, <1>7, <1>8, <1>9, <1>10, <1>11, <1>12, <1>13, <1>14,
       <1>15, <1>16, <1>17, <1>18, <1>19
     DEF Next, Start, ReadCycle, Stop

\* Every step preserves what is known of the handlers.
LEMMA HandlerStep ==
    ASSUME TypeOK, HandlerInv, [Next]_vars
    PROVE  HandlerInv'
<1> USE ChannelAssumption DEF TypeOK, HandlerInv, ToldOnce, flagVars, handlerVars,
        messageVars, timerVars, Handlers, HandlersOf,
        Subscribers
<1>1. CASE StartProxy
  BY <1>1 DEF StartProxy, MessageStart, Started
<1>2. CASE TestTimer
  BY <1>2 DEF TestTimer
<1>3. CASE StartTimer
  BY <1>3 DEF StartTimer, Started
<1>4. CASE StartHandler
  BY <1>4, Orders DEF StartHandler, Started, Subscribe
<1>5. CASE StartRead
  BY <1>5, Orders DEF StartRead, Started
<1>6. CASE Read
  BY <1>6 DEF Read
<1>7. CASE HandleRead
  BY <1>7 DEF HandleRead, CallStop
<1>8. CASE Load
  <2>1. UNCHANGED <<starting, stored, told>>
    BY <1>8 DEF Load
  <2> QED
    BY <2>1
<1>9. CASE SignalActivity
  BY <1>9 DEF SignalActivity
<1>10. ASSUME NEW s \in Subscribers, RunJob(s) PROVE HandlerInv'
  BY <1>10 DEF RunJob, Deliver, Release
<1>11. ASSUME NEW h \in StopHandlers, SubscribeStop(h) PROVE HandlerInv'
  BY <1>11 DEF SubscribeStop, Subscribe
<1>12. ASSUME NEW k \in Timers, TimerExpires(k) PROVE HandlerInv'
  BY <1>12 DEF TimerExpires
<1>13. ASSUME NEW k \in Timers, HandleTimer(k) PROVE HandlerInv'
  BY <1>13 DEF HandleTimer, CallStop
<1>14. CASE SessionStops
  BY <1>14 DEF SessionStops, CallStop
<1>15. CASE NetworkStops
  BY <1>15 DEF NetworkStops
<1>16. ASSUME NEW n \in Calls, StopFlags(n) PROVE HandlerInv'
  BY <1>16 DEF StopFlags, MessageStop, AtStop
<1>17. ASSUME NEW n \in Calls, StopRelays(n) PROVE HandlerInv'
  BY <1>17 DEF StopRelays, Broadcast, AtStop
<1>18. ASSUME NEW n \in Calls, HandleStopping(n) PROVE HandlerInv'
  BY <1>18 DEF HandleStopping, AtStop
<1>19. CASE UNCHANGED vars
  BY <1>19 DEF vars
<1> HIDE DEF TypeOK, HandlerInv, ToldOnce
<1> QED
  BY <1>1, <1>2, <1>3, <1>4, <1>5, <1>6, <1>7, <1>8, <1>9, <1>10, <1>11, <1>12, <1>13, <1>14,
       <1>15, <1>16, <1>17, <1>18, <1>19
     DEF Next, Start, ReadCycle, Stop

\* A call of stop() on the started channel ends it, and is not that of
\* p2p::stop().
LEMMA CallStopEnds ==
    ASSUME TypeOK, CallStop
    PROVE  Ending' /\ stage'[P2pCall] = stage[P2pCall]
<1>1. P2pCall \in Calls /\ P2pCall \notin StartedCalls
  BY ChannelAssumption DEF Calls, P2pCall, StartedCalls
<1> QED BY <1>1, CallStopEffect DEF Ending

\* A step of a call of stop() after the first leaves a channel that ends to its
\* end.
LEMMA AtStopEnds ==
    ASSUME TypeOK, NEW n \in Calls, NEW step \in StopStages \ {"idle", "flag", "done"},
           AtStop(n, step), Ending, stopped => stopped'
    PROVE  Ending'
<1>1. \A c \in Calls : stage[c] = "flag" => stage'[c] = "flag"
  BY AtStopEffect
<1>2. \A c \in StartedCalls : c \in Calls
  BY DEF Calls
<1> QED BY <1>1, <1>2, Zenon DEF Ending

\* A step that keeps the timers and the read, or ends the channel, keeps what
\* is known of them.
LEMMA TimersKept ==
    ASSUME TimerInv, starting' = starting, reader' # "off" => reader # "off",
           armed' \cup due' # {} => armed \cup due # {} \/ starting = "done",
           stage'[P2pCall] = "done" => stage[P2pCall] = "done" \/ socketStopped',
           socketStopped => socketStopped', Ending => Ending',
           \/ Ending'
           \/ /\ reader # "off" => reader' # "off"
              /\ \A k \in Timers : Watches(k) => Watches(k)'
    PROVE  TimerInv'
<1>1. "expiration" \in Timers /\ "inactivity" \in Timers
  BY DEF Timers
<1>2. /\ armed' \cup due' # {} => SubscribersStarted'
      /\ reader' # "off" => starting' = "done"
      /\ stage'[P2pCall] = "done" => socketStopped'
  BY DEF TimerInv, SubscribersStarted
<1>3. starting = "done" => Ending' \/ reader' # "off"
  BY DEF TimerInv
<1>4. starting \in {"test_inactivity", "start_inactivity", "handler", "read", "done"} =>
          Ending' \/ Watches("expiration")'
  BY <1>1 DEF TimerInv
<1>5. starting \in {"handler", "read", "done"} => Ending' \/ Watches("inactivity")'
  BY <1>1 DEF TimerInv
<1> QED BY <1>2, <1>3, <1>4, <1>5 DEF TimerInv

\* What is known of the timers is about these variables only.
LEMMA TimersFrame ==
    ASSUME TimerInv, UNCHANGED <<stopped, stage, starting, reader, armed, due, socketStopped>>
    PROVE  TimerInv'
BY DEF TimerInv, Ending, Watches, SubscribersStarted

\* proxy::start() keeps what is known of the timers, which it starts.
LEMMA StartTimers ==
    ASSUME TimerInv, Start, reader = "off"
    PROVE  TimerInv'
<1>1. CASE StartProxy
  <2>1. /\ starting \in {"new", "stop_subscriber", "message_subscriber"}
        /\ starting' \in {"stop_subscriber", "message_subscriber", "test_expiration"}
        /\ UNCHANGED <<stage, reader, armed, due, socketStopped>>
    BY <1>1, Orders DEF StartProxy, Started, timerVars
  <2> QED BY <2>1 DEF TimerInv, SubscribersStarted
<1>2. CASE TestTimer
  <2>1. UNCHANGED <<stopped, stage, reader, armed, due, socketStopped>>
    BY <1>2 DEF TestTimer, flagVars, timerVars
  <2>2. /\ Ending' <=> Ending
        /\ \A k \in Timers : Watches(k)' <=> Watches(k)
        /\ stopped => Ending'
    BY <2>1 DEF Ending, Watches
  <2>3. \/ starting = "test_expiration" /\ starting' = "start_expiration"
        \/ starting = "test_inactivity" /\ starting' = "start_inactivity"
        \/ stopped /\ starting = "test_expiration" /\ starting' = "test_inactivity"
        \/ stopped /\ starting = "test_inactivity" /\ starting' = "handler"
    BY <1>2, Orders, Zenon DEF TestTimer
  <2> HIDE DEF Ending, Watches
  <2> QED BY <2>1, <2>2, <2>3 DEF TimerInv, SubscribersStarted, Timers
<1>3. CASE StartTimer
  <2>1. UNCHANGED <<stopped, stage, reader, due, socketStopped>>
    BY <1>3 DEF StartTimer, flagVars
  <2>2. \/ /\ starting = "start_expiration" /\ starting' = "test_inactivity"
           /\ armed' = armed \cup {"expiration"}
        \/ /\ starting = "start_inactivity" /\ starting' = "handler"
           /\ armed' = armed \cup {"inactivity"}
    BY <1>3, Orders DEF StartTimer, Started
  <2>3. /\ Ending' <=> Ending
        /\ \A k \in Timers : Watches(k) => Watches(k)'
        /\ starting = "start_expiration" => Watches("expiration")'
        /\ starting = "start_inactivity" => Watches("inactivity")'
    BY <2>1, <2>2 DEF Ending, Watches
  <2> QED BY <2>1, <2>2, <2>3 DEF TimerInv, SubscribersStarted, Timers
<1>4. CASE StartHandler \/ StartRead
  <2>1. UNCHANGED <<stopped, stage, armed, due, socketStopped>>
    BY <1>4 DEF StartHandler, StartRead, flagVars, timerVars
  <2>2. \/ starting = "handler" /\ starting' = "read" /\ reader' = reader
        \/ starting = "read" /\ starting' = "done" /\ reader' = "read_heading"
    BY <1>4, Orders DEF StartHandler, StartRead, Started
  <2>3. /\ Ending' <=> Ending
        /\ \A k \in Timers : Watches(k)' <=> Watches(k)
    BY <2>1 DEF Ending, Watches
  <2> QED BY <2>1, <2>2, <2>3 DEF TimerInv, SubscribersStarted, Timers
<1> QED BY <1>1, <1>2, <1>3, <1>4 DEF Start

\* Every step preserves what is known of the timers.
LEMMA TimerStep ==
    ASSUME ChannelInv, [Next]_vars
    PROVE  TimerInv'
<1>a. TypeOK /\ TimerInv /\ \A n \in StartedCalls : CallInv(n)
  BY DEF ChannelInv
<1>0. /\ stage' = stage /\ stopped' = stopped => (Ending => Ending')
      /\ stopped => Ending
  BY DEF Ending
<1>1. CASE Start
  <2>1. starting # "done"
    BY <1>1, Orders
       DEF Start, StartProxy, TestTimer, StartTimer, StartHandler, StartRead, Started
  <2> QED
    BY <1>1, <1>a, <2>1, StartTimers DEF TimerInv
<1>2. CASE Read \/ SignalActivity
  <2>1. /\ UNCHANGED <<stopped, stage, starting, due, socketStopped>>
        /\ reader # "off" /\ armed \subseteq armed'
        /\ reader' = "off" => stopped
    BY <1>2 DEF Read, SignalActivity, flagVars, timerVars
  <2>2. starting = "done" /\ (Ending => Ending') /\ (reader' = "off" => Ending')
    BY <1>0, <1>a, <2>1 DEF TimerInv
  <2>3. \A k \in Timers : Watches(k) => Watches(k)'
    BY <2>1 DEF Watches
  <2> QED BY <1>a, <2>1, <2>2, <2>3, TimersKept
<1>3. CASE HandleRead \/ Load
  <2>1. /\ UNCHANGED <<stopped, starting, armed, due, socketStopped>> /\ reader # "off"
        /\ CallStop \/ (stage' = stage /\ (stopped \/ reader' # "off"))
    BY <1>3 DEF HandleRead, Load, flagVars, timerVars
  <2>2. CASE CallStop
    BY <1>a, <2>1, <2>2, CallStopEnds, TimersKept
  <2>3. CASE stage' = stage /\ (stopped \/ reader' # "off")
    <3>1. (Ending => Ending') /\ (reader' = "off" => Ending')
      BY <1>0, <2>1, <2>3
    <3>2. \A k \in Timers : Watches(k) => Watches(k)'
      BY <2>1, <2>3 DEF Watches
    <3> QED BY <1>a, <2>1, <2>3, <3>1, <3>2, TimersKept
  <2> QED BY <2>1, <2>2, <2>3
<1>4. ASSUME NEW s \in Subscribers, RunJob(s) PROVE TimerInv'
  BY <1>4, <1>a, TimersFrame DEF RunJob, flagVars, timerVars
<1>5. ASSUME NEW h \in StopHandlers, SubscribeStop(h) PROVE TimerInv'
  BY <1>5, <1>a, TimersFrame DEF SubscribeStop, flagVars, timerVars
<1>6. ASSUME NEW k \in Timers, TimerExpires(k) PROVE TimerInv'
  <2>1. /\ UNCHANGED <<stopped, stage, starting, reader, socketStopped>>
        /\ armed' \cup due' = armed \cup due
    BY <1>6 DEF TimerExpires, flagVars
  <2>2. \A j \in Timers : Watches(j) => Watches(j)'
    BY <2>1 DEF Watches
  <2> QED BY <1>0, <1>a, <2>1, <2>2, TimersKept
<1>7. ASSUME NEW k \in Timers, HandleTimer(k) PROVE TimerInv'
  <2>1. /\ UNCHANGED <<stopped, starting, armed, reader, socketStopped>> /\ due' \subseteq due
        /\ CallStop \/ (stage' = stage /\ stopped)
    BY <1>7 DEF HandleTimer, flagVars
  <2>2. Ending' /\ stage'[P2pCall] = stage[P2pCall]
    BY <1>0, <1>a, <2>1, CallStopEnds
  <2> QED BY <1>a, <2>1, <2>2, TimersKept
<1>8. CASE SessionStops
  <2>1. UNCHANGED <<stopped, starting, armed, due, reader, socketStopped>> /\ CallStop
    BY <1>8 DEF SessionStops, flagVars, timerVars
  <2> QED BY <1>a, <2>1, CallStopEnds, TimersKept
<1>9. CASE NetworkStops
  <2>1. /\ UNCHANGED <<stopped, starting, armed, due, reader, socketStopped>>
        /\ stage[P2pCall] = "idle" /\ stage'[P2pCall] = "flag"
        /\ \A n \in StartedCalls : stage'[n] = stage[n]
    BY <1>9, <1>a, ChannelAssumption
       DEF NetworkStops, flagVars, timerVars, TypeOK, Calls, StartedCalls, P2pCall
  <2>2. (Ending => Ending') /\ \A k \in Timers : Watches(k) => Watches(k)'
    BY <2>1 DEF Ending, Watches
  <2> QED BY <1>a, <2>1, <2>2, TimersKept
<1>10. ASSUME NEW n \in Calls, StopFlags(n) \/ StopRelays(n) PROVE TimerInv'
  <2>1. UNCHANGED <<starting, armed, due, reader>>
    BY <1>10 DEF StopFlags, StopRelays, timerVars
  <2>2. CASE AtStop(n, "flag") /\ stopped' = TRUE /\ socketStopped' = socketStopped
    <3>1. Ending' /\ (stage'[P2pCall] = "done" => stage[P2pCall] = "done")
      <4>1. stage'[n] = "message_stop" /\ \A c \in Calls \ {n} : stage'[c] = stage[c]
        BY <1>a, <2>2, AtStopEffect, Orders DEF StopStages
      <4> QED BY <2>2, <4>1 DEF Ending, Calls
    <3> QED BY <1>a, <2>1, <2>2, <3>1, TimersKept
  <2>3. ASSUME NEW step \in {"message_stop", "broadcast", "subscriber_stop", "relay", "socket"},
               AtStop(n, step), stopped' = stopped,
               \/ step = "socket" /\ socketStopped' = TRUE
               \/ step # "socket" /\ socketStopped' = socketStopped
        PROVE  TimerInv'
    <3>0. step \in StopStages \ {"idle", "flag", "done"}
      BY DEF StopStages
    <3>1. /\ stage[n] = step /\ stage'[n] = NextStop[step]
          /\ \A c \in Calls \ {n} : stage'[c] = stage[c]
      BY <1>a, <2>3, <3>0, AtStopEffect
    <3>2. Ending => Ending'
      BY <1>a, <2>3, <3>0, AtStopEnds
    <3>3. /\ stage'[P2pCall] = "done" => stage[P2pCall] = "done" \/ socketStopped'
          /\ stage[P2pCall] \in {"socket", "done"} => stage'[P2pCall] \in {"socket", "done"}
      BY <2>3, <3>1, Orders DEF Calls
    <3>4. \A k \in Timers : Watches(k) => Watches(k)'
      BY <2>1, <3>3 DEF Watches
    <3>5. socketStopped => socketStopped'
      BY <2>3, Zenon
    <3> QED BY <1>a, <2>1, <3>2, <3>3, <3>4, <3>5, TimersKept
  <2>4. CASE StopFlags(n)
    <3>1. \/ AtStop(n, "flag") /\ stopped' = TRUE /\ socketStopped' = socketStopped
          \/ AtStop(n, "message_stop") /\ UNCHANGED <<stopped, socketStopped>>
          \/ AtStop(n, "subscriber_stop") /\ UNCHANGED <<stopped, socketStopped>>
          \/ AtStop(n, "socket") /\ socketStopped' = TRUE /\ stopped' = stopped
      BY <2>4, Zenon DEF StopFlags
    <3>2. CASE AtStop(n, "message_stop") /\ UNCHANGED <<stopped, socketStopped>>
      BY <2>3, <3>2
    <3>3. CASE AtStop(n, "subscriber_stop") /\ UNCHANGED <<stopped, socketStopped>>
      BY <2>3, <3>3
    <3>4. CASE AtStop(n, "socket") /\ socketStopped' = TRUE /\ stopped' = stopped
      BY <2>3, <3>4
    <3> QED BY <2>2, <3>1, <3>2, <3>3, <3>4, Zenon
  <2>5. CASE StopRelays(n)
    BY <2>3, <2>5, Zenon DEF StopRelays, flagVars
  <2> QED BY <1>10, <2>4, <2>5
<1>11. ASSUME NEW n \in Calls, HandleStopping(n) PROVE TimerInv'
  <2>1. /\ UNCHANGED <<stopped, starting, due, reader, socketStopped>>
        /\ armed' = {} /\ AtStop(n, "timers")
    BY <1>11 DEF HandleStopping, flagVars
  <2>0. "timers" \in StopStages \ {"idle", "flag", "done"}
    BY DEF StopStages
  <2>2. /\ stage[n] = "timers" /\ stage'[n] = "socket"
        /\ \A c \in Calls \ {n} : stage'[c] = stage[c]
    BY <1>a, <2>0, <2>1, AtStopEffect, Orders
  <2>3. Ending => Ending'
    BY <1>a, <2>0, <2>1, AtStopEnds
  <2>4. CASE n \in StartedCalls
    <3>1. Ending'
      BY <1>0, <1>a, <2>2, <2>3, <2>4 DEF CallInv
    <3>2. stage'[P2pCall] = stage[P2pCall] \/ stage'[P2pCall] = "socket"
      BY <2>2 DEF Calls
    <3> QED BY <1>a, <2>1, <3>1, <3>2, TimersKept
  <2>5. CASE n = P2pCall
    <3>1. \A k \in Timers : Watches(k)'
      BY <2>2, <2>5 DEF Watches
    <3> QED BY <1>a, <2>1, <2>2, <2>3, <2>5, <3>1, TimersKept
  <2> QED BY <2>4, <2>5 DEF Calls
<1>12. CASE UNCHANGED vars
  BY <1>12, <1>a, TimersFrame DEF vars, flagVars, timerVars
<1> QED
  BY <1>1, <1>2, <1>3, <1>4, <1>5, <1>6, <1>7, <1>8, <1>9, <1>10, <1>11, <1>12
     DEF Next, ReadCycle, Stop

\* Every step preserves what the calls of stop() have achieved.
LEMMA CallStep ==
    ASSUME ChannelInv, [Next]_vars, NEW c \in StartedCalls
    PROVE  CallInv(c)'
<1> USE ChannelAssumption
<1>0. TypeOK /\ TimerInv /\ CallInv(c)
  BY DEF ChannelInv
<1> USE <1>0
<1>1. CASE StartProxy
  <2>1. stage' = stage /\ UNCHANGED <<socketStopped, stored, jobs>> /\ ~SubscribersStarted
    BY <1>1 DEF StartProxy, MessageStart, Started, SubscribersStarted, handlerVars, messageVars
  <2> QED
    BY <2>1 DEF CallInv
<1>2. CASE TestTimer
  BY <1>2, Orders DEF TestTimer, flagVars, handlerVars, messageVars, CallInv, SubscribersStarted,
       Pending
<1>3. CASE StartTimer
  BY <1>3, Orders DEF StartTimer, Started, flagVars, handlerVars, messageVars, CallInv,
       SubscribersStarted, Pending
<1>4. CASE StartHandler
  <2>1. UNCHANGED <<flagVars, stage, jobs>> /\ starting = "handler" /\ starting' = "read"
    BY <1>4, Orders DEF StartHandler, Started, messageVars
  <2>2. /\ stored' \cap StopHandlers = stored \cap StopHandlers
        /\ "message" \notin running => stored' = stored
    BY <1>4 DEF StartHandler, Subscribe
  <2> QED
    BY <2>1, <2>2 DEF flagVars, CallInv, SubscribersStarted, Pending
<1>5. CASE StartRead
  BY <1>5, Orders DEF StartRead, Started, flagVars, handlerVars, messageVars, CallInv,
       SubscribersStarted, Pending
<1>6. CASE Read
  BY <1>6 DEF Read, flagVars, handlerVars, messageVars, CallInv, SubscribersStarted, Pending
<1>7. CASE HandleRead
  <2>1. stage'[c] = stage[c] \/ (stage'[c] = "flag" /\ SubscribersStarted')
    BY <1>7, CallStopEffect DEF HandleRead, TimerInv, SubscribersStarted, Calls
  <2>2. UNCHANGED <<flagVars, starting, stored, jobs>>
    BY <1>7 DEF HandleRead, handlerVars, messageVars
  <2> QED
    BY <2>1, <2>2 DEF flagVars, CallInv, SubscribersStarted, Pending
<1>8. CASE Load
  <2>1. stage'[c] = stage[c] \/ (stage'[c] = "flag" /\ SubscribersStarted')
    BY <1>8, CallStopEffect DEF Load, TimerInv, SubscribersStarted, Calls
  <2>2. UNCHANGED <<flagVars, starting, stored>>
    BY <1>8 DEF Load
  <2>3. \A u \in Subscribers : Pending(u) => Pending(u)'
    BY <1>8, RelayEffect DEF Load, LoadMessage, messageVars, Subscribers, Pending
  <2> QED
    BY <2>1, <2>2, <2>3 DEF flagVars, CallInv, SubscribersStarted, Subscribers
<1>9. CASE SignalActivity
  BY <1>9 DEF SignalActivity, flagVars, handlerVars, messageVars, CallInv, SubscribersStarted,
       Pending
<1>10. ASSUME NEW s \in Subscribers, RunJob(s) PROVE CallInv(c)'
  <2>1. UNCHANGED <<flagVars, starting, stage>>
    BY <1>10 DEF RunJob
  <2>2. /\ \A u \in Subscribers \ {s} : Pending(u) => Pending(u)'
        /\ Pending(s) => Head(jobs[s]) = "stopped" \/ Pending(s)'
    BY <1>10, JobEffect, ZenonT(40) DEF RunJob
  <2>3. /\ stored' \subseteq stored
        /\ Head(jobs[s]) = "stopped" => stored' \cap HandlersOf(s) = {}
    BY <1>10 DEF RunJob, Release
  <2>4. \A u \in Subscribers : (stored \cap HandlersOf(u) # {} => Pending(u)) =>
                                (stored' \cap HandlersOf(u) # {} => Pending(u)')
    BY <2>2, <2>3
  <2> QED
    BY <2>1, <2>4 DEF flagVars, CallInv, SubscribersStarted, Subscribers, HandlersOf
<1>11. ASSUME NEW h \in StopHandlers, SubscribeStop(h) PROVE CallInv(c)'
  <2>1. UNCHANGED <<flagVars, stage, starting, jobs>>
    BY <1>11 DEF SubscribeStop, messageVars
  <2>2. /\ stored' \cap MessageHandlers = stored \cap MessageHandlers
        /\ "stop" \notin running => stored' = stored
    BY <1>11 DEF SubscribeStop, Subscribe
  <2> QED
    BY <2>1, <2>2 DEF flagVars, CallInv, SubscribersStarted, Pending
<1>12. ASSUME NEW k \in Timers, TimerExpires(k) PROVE CallInv(c)'
  BY <1>12 DEF TimerExpires, flagVars, handlerVars, messageVars, CallInv, SubscribersStarted,
       Pending
<1>13. ASSUME NEW k \in Timers, HandleTimer(k) PROVE CallInv(c)'
  <2>1. stage'[c] = stage[c] \/ (stage'[c] = "flag" /\ SubscribersStarted')
    BY <1>13, CallStopEffect DEF HandleTimer, TimerInv, SubscribersStarted, Calls
  <2>2. UNCHANGED <<flagVars, starting, stored, jobs>>
    BY <1>13 DEF HandleTimer, handlerVars, messageVars
  <2> QED
    BY <2>1, <2>2 DEF flagVars, CallInv, SubscribersStarted, Pending
<1>14. CASE SessionStops
  <2>1. stage'[c] = stage[c] \/ (stage'[c] = "flag" /\ SubscribersStarted')
    BY <1>14, CallStopEffect DEF SessionStops, TimerInv, SubscribersStarted, Calls
  <2>2. UNCHANGED <<flagVars, starting, stored, jobs>>
    BY <1>14 DEF SessionStops, handlerVars, messageVars
  <2> QED
    BY <2>1, <2>2 DEF flagVars, CallInv, SubscribersStarted, Pending
<1>15. CASE NetworkStops
  <2>1. stage'[c] = stage[c]
    BY <1>15 DEF NetworkStops, TypeOK, Calls, P2pCall, StartedCalls
  <2>2. UNCHANGED <<flagVars, starting, stored, jobs>>
    BY <1>15 DEF NetworkStops, handlerVars, messageVars
  <2> QED
    BY <2>1, <2>2 DEF flagVars, CallInv, SubscribersStarted, Pending
<1>16. ASSUME NEW n \in Calls, StopFlags(n) PROVE CallInv(c)'
  <2>1. UNCHANGED <<starting, stored, jobs>>
    BY <1>16 DEF StopFlags, MessageStop, handlerVars, messageVars
  <2>2. ASSUME NEW step \in {"flag", "message_stop", "subscriber_stop", "socket"}, AtStop(n,
       step),
               /\ step = "flag" => stopped' = TRUE /\ UNCHANGED <<running, socketStopped>>
               /\ step = "message_stop" =>
                      running' = running \ {"message"} /\ UNCHANGED <<stopped, socketStopped>>
               /\ step = "subscriber_stop" =>
                      running' = running \ {"stop"} /\ UNCHANGED <<stopped, socketStopped>>
               /\ step = "socket" => socketStopped' = TRUE /\ UNCHANGED <<stopped, running>>
        PROVE  CallInv(c)'
    <3>1. step \in StopStages \ {"idle", "done"} /\ c \in Calls
      BY DEF StopStages, Calls
    <3>2. /\ stage[n] = step
          /\ stage'[n] = NextStop[step]
          /\ \A d \in Calls \ {n} : stage'[d] = stage[d]
      BY <2>2, <3>1, AtStopEffect
    <3>3. stopped => stopped'
      BY <2>2, ZenonT(40)
    <3>4. running' \subseteq running /\ (socketStopped => socketStopped')
      BY <2>2
    <3>5. CASE c # n
      BY <2>1, <3>1, <3>2, <3>3, <3>4, <3>5 DEF CallInv, SubscribersStarted, Pending
    <3>6. CASE c = n
      BY <2>1, <2>2, <3>2, <3>3, <3>4, <3>6, Orders DEF CallInv, SubscribersStarted, Pending
    <3> QED
      BY <3>5, <3>6
  <2> QED
    BY <1>16, <2>2, Zenon DEF StopFlags, MessageStop
<1>17. ASSUME NEW n \in Calls, StopRelays(n) PROVE CallInv(c)'
  <2>1. UNCHANGED <<flagVars, starting, stored>>
    BY <1>17 DEF StopRelays, Broadcast, handlerVars
  <2>2. ASSUME NEW step \in {"broadcast", "relay"}, NEW s \in Subscribers, AtStop(n, step),
               s = IF step = "broadcast" THEN "message" ELSE "stop",
               jobs' = [jobs EXCEPT ![s] = Append(@, "stopped")]
        PROVE  CallInv(c)'
    <3>1. step \in StopStages \ {"idle", "done"} /\ c \in Calls
      BY DEF StopStages, Calls
    <3>2. /\ stage[n] = step
          /\ stage'[n] = NextStop[step]
          /\ \A d \in Calls \ {n} : stage'[d] = stage[d]
      BY <2>2, <3>1, AtStopEffect
    <3>3. Pending(s)' /\ \A u \in Subscribers : Pending(u) => Pending(u)'
      BY <2>2, RelayEffect, Zenon
    <3>4. CASE c # n
      BY <2>1, <3>1, <3>2, <3>3, <3>4 DEF flagVars, CallInv, SubscribersStarted, Subscribers
    <3>5. CASE c = n
      BY <2>1, <2>2, <3>2, <3>3, <3>5, Orders DEF flagVars, CallInv, SubscribersStarted, Subscribers
    <3> QED
      BY <3>4, <3>5
  <2> QED
    BY <1>17, <2>2 DEF StopRelays, Broadcast, Subscribers
<1>18. ASSUME NEW n \in Calls, HandleStopping(n) PROVE CallInv(c)'
  <2>1. UNCHANGED <<flagVars, starting, stored, jobs>>
    BY <1>18 DEF HandleStopping, handlerVars, messageVars
  <2>2. "timers" \in StopStages \ {"idle", "done"} /\ c \in Calls
    BY DEF StopStages, Calls
  <2>3. /\ stage[n] = "timers"
        /\ stage'[n] = "socket"
        /\ \A d \in Calls \ {n} : stage'[d] = stage[d]
    BY Orders, <1>18, <2>2, AtStopEffect DEF HandleStopping
  <2> QED
    BY <2>1, <2>2, <2>3 DEF flagVars, CallInv, SubscribersStarted, Pending
<1>19. CASE UNCHANGED vars
  BY <1>19 DEF vars, flagVars, handlerVars, messageVars, CallInv, SubscribersStarted, Pending
<1> QED
  BY <1>1, <1>2, <1>3, <1>4, <1>5, <1>6, <1>7, <1>8, <1>9, <1>10, <1>11, <1>12, <1>13, <1>14,
       <1>15, <1>16, <1>17, <1>18, <1>19
     DEF Next, Start, ReadCycle, Stop

\* ChannelInv is an invariant of the channel.
LEMMA ChannelInvariant == Spec => []ChannelInv
<1>1. Init => ChannelInv
  BY InitHolds
<1>2. ChannelInv /\ [Next]_vars => ChannelInv'
  BY TypeStep, HandlerStep, TimerStep, CallStep DEF ChannelInv
<1> QED
  BY <1>1, <1>2, PTL DEF Spec

\* The state of the channel keeps its types, for any handlers and stops.
THEOREM TypeCorrect == Spec => []TypeOK
<1>1. ChannelInv => TypeOK
  BY DEF ChannelInv
<1> QED
  BY <1>1, ChannelInvariant, PTL

\* proxy::stop() needs no lock: whatever number of calls overlap, the first that
\* returns on a started channel leaves it stopped for good.
THEOREM StopsAreFinal == Spec => []StopIsFinal
<1>1. ChannelInv => StopIsFinal
  <2> SUFFICES ASSUME ChannelInv, NEW n \in StartedCalls, stage[n] = "done"
               PROVE  /\ stopped
                      /\ running = {}
                      /\ socketStopped
                      /\ \A h \in stored : Pending(SubscriberOf(h))
      BY DEF StopIsFinal, Pending
  <2>1. CallInv(n) /\ running \subseteq Subscribers /\ stored \subseteq Handlers
    BY DEF ChannelInv, TypeOK
  <2> QED
    BY <2>1 DEF CallInv, Subscribers, SubscriberOf, Handlers
<1> QED
  BY <1>1, ChannelInvariant, PTL

\* No handler hears twice of a stop, for any number of calls of stop().
THEOREM HandlersToldOnce == Spec => []ToldOnce
<1>1. ChannelInv => ToldOnce
  BY DEF ChannelInv, HandlerInv
<1> QED
  BY <1>1, ChannelInvariant, PTL

\* An open channel that no thread is stopping always has a reason to end, even
\* if p2p::stop() overlapped its start (channel.cpp 67-72, proxy.cpp 93-110).
THEOREM ChannelWatched == Spec => []OpenIsWatched
<1>1. ChannelInv => OpenIsWatched
  <2> SUFFICES ASSUME ChannelInv, starting = "done", ~Ending
               PROVE  /\ reader # "off"
                      /\ \/ Timers \subseteq armed \cup due
                         \/ stage[P2pCall] = "socket" \/ socketStopped
    BY Zenon DEF OpenIsWatched, Ending
  <2>1. /\ reader # "off" /\ Watches("expiration") /\ Watches("inactivity")
        /\ stage[P2pCall] = "done" => socketStopped
    BY DEF ChannelInv, TimerInv
  <2> QED
    BY <2>1 DEF Watches, Timers
<1> QED
  BY <1>1, ChannelInvariant, PTL

-----------------------------------------------------------------------------
\* The messages that wait in a queue.
Waiting(q) == {i \in DOMAIN q : q[i] = "message"}

\* What is used of the number of the waiting messages: a relayed message waits
\* behind the others, and when the first job leaves, the others move up.
WaitingCounts ==
    /\ Cardinality({}) = 0
    /\ \A q \in Seq({"message", "stopped"}) :
          /\ Cardinality(Waiting(q)) \in Nat
          /\ \A e \in {"message", "stopped"} :
                Cardinality(Waiting(Append(q, e))) =
                    Cardinality(Waiting(q)) + (IF e = "message" THEN 1 ELSE 0)
          /\ q # <<>> =>
                Cardinality(Waiting(q)) =
                    Cardinality(Waiting(Tail(q))) + (IF Head(q) = "message" THEN 1 ELSE 0)

\* The count, when the first job leaves.
LEMMA HeadLeaves ==
    ASSUME WaitingCounts, NEW q \in Seq({"message", "stopped"}), q # <<>>
    PROVE  /\ Cardinality(Waiting(Tail(q))) \in Nat
           /\ Cardinality(Waiting(q)) =
                  Cardinality(Waiting(Tail(q))) + (IF Head(q) = "message" THEN 1 ELSE 0)
<1>1. Tail(q) \in Seq({"message", "stopped"})
  OBVIOUS
<1>2. Cardinality(Waiting(Tail(q))) \in Nat
  BY <1>1, Zenon DEF WaitingCounts
<1> QED BY <1>2, Zenon DEF WaitingCounts

\* What is known of the messages: only stops are relayed to the stop handlers,
\* and no message is read before the start handler has subscribed.
MessageInv ==
    /\ \A i \in DOMAIN jobs["stop"] : jobs["stop"][i] = "stopped"
    /\ starting # "done" =>
           /\ received = 0
           /\ Waiting(jobs["message"]) = {}
           /\ \A h \in MessageHandlers : heard[h] = 0
    /\ \A h \in stored \cap MessageHandlers :
           heard[h] + Cardinality(Waiting(jobs["message"])) = received

\* A step that touches no message and lets no handler in keeps the invariant.
LEMMA MessagesKept ==
    ASSUME MessageInv, UNCHANGED <<received, jobs, heard>>,
           starting' = starting \/ starting' = "done" \/ starting # "done",
           stored' \cap MessageHandlers \subseteq stored \cap MessageHandlers
    PROVE  MessageInv'
BY DEF MessageInv

\* Every step preserves what is known of the messages.
LEMMA MessageStep ==
    ASSUME ChannelInv, MessageInv, [Next]_vars, WaitingCounts
    PROVE  MessageInv'
<1>0. TypeOK /\ TimerInv
  BY DEF ChannelInv
<1>a. /\ jobs["message"] \in Seq({"message", "stopped"}) /\ jobs["stop"] \in Seq({"message", "stopped"})
      /\ Cardinality(Waiting(jobs["message"])) \in Nat
      /\ received \in Nat /\ heard \in [MessageHandlers -> Nat]
      /\ jobs \in [Subscribers -> Seq({"message", "stopped"})]
  BY <1>0 DEF WaitingCounts, TypeOK, Subscribers
<1>1. CASE StartProxy \/ TestTimer \/ StartTimer \/ StartRead
  <2>1. UNCHANGED <<received, jobs, heard, stored>> /\ starting # "done"
    BY <1>1 DEF StartProxy, TestTimer, StartTimer, StartRead, Started, handlerVars, messageVars
  <2> QED BY <2>1, MessagesKept
<1>2. CASE StartHandler
  <2>1. UNCHANGED <<received, jobs, heard>> /\ starting = "handler" /\ starting' = "read"
    BY <1>2, Orders DEF StartHandler, Started, messageVars
  <2>2. /\ received = 0 /\ Waiting(jobs["message"]) = {}
        /\ \A h \in MessageHandlers : heard[h] = 0
    BY <2>1 DEF MessageInv
  <2> QED BY <2>1, <2>2 DEF WaitingCounts, MessageInv
<1>3. CASE Read \/ HandleRead \/ SignalActivity
  <2>1. UNCHANGED <<received, jobs, heard, stored, starting>>
    BY <1>3 DEF Read, HandleRead, SignalActivity, handlerVars, messageVars
  <2> QED BY <2>1, MessagesKept
<1>4. CASE Load
  <2>0. starting = "done" /\ starting' = "done" /\ stored' = stored
    BY <1>0, <1>4 DEF Load, TimerInv
  <2>1. CASE UNCHANGED <<messageVars, heard>>
    BY <2>0, <2>1, MessagesKept DEF messageVars
  <2>2. CASE received' = received + 1 /\ Deliver /\ jobs' = jobs
    <3>1. \A h \in stored \cap MessageHandlers : heard'[h] = heard[h] + 1 /\ heard[h] \in Nat
      BY <1>a, <2>2 DEF Deliver
    <3>2. \A h \in stored' \cap MessageHandlers :
              heard'[h] + Cardinality(Waiting(jobs'["message"])) = received'
      <4>1. /\ Cardinality(Waiting(jobs'["message"])) = Cardinality(Waiting(jobs["message"]))
            /\ \A h \in stored \cap MessageHandlers :
                   heard[h] + Cardinality(Waiting(jobs["message"])) = received
        BY <2>2 DEF MessageInv
      <4>2. received' = received + 1 /\ stored' = stored
        BY <2>0, <2>2
      <4> TAKE h \in stored' \cap MessageHandlers
      <4>3. h \in stored \cap MessageHandlers
        BY <4>2
      <4>4. heard'[h] = heard[h] + 1 /\ heard[h] \in Nat
        BY <3>1, <4>3
      <4>5. heard[h] + Cardinality(Waiting(jobs["message"])) = received
        BY <4>1, <4>3
      <4> QED BY <1>a, <4>1, <4>2, <4>4, <4>5
    <3> QED BY <2>0, <2>2, <3>2 DEF MessageInv
  <2>3. CASE /\ received' = received + 1 /\ heard' = heard
             /\ jobs' = [jobs EXCEPT !["message"] = Append(@, "message")]
    <3>1. jobs'["message"] = Append(jobs["message"], "message") /\ jobs'["stop"] = jobs["stop"]
      BY <1>a, <2>3 DEF Subscribers
    <3>2. Cardinality(Waiting(jobs'["message"])) = Cardinality(Waiting(jobs["message"])) + 1
      BY <1>a, <3>1 DEF WaitingCounts
    <3>3. \A h \in stored \cap MessageHandlers : heard[h] \in Nat
      BY <1>a
    <3>4. \A h \in stored' \cap MessageHandlers :
              heard'[h] + Cardinality(Waiting(jobs'["message"])) = received'
      <4> TAKE h \in stored' \cap MessageHandlers
      <4>1. h \in stored \cap MessageHandlers
        BY <2>0
      <4>2. heard[h] + Cardinality(Waiting(jobs["message"])) = received
        BY <4>1 DEF MessageInv
      <4> QED BY <1>a, <2>3, <3>2, <3>3, <4>1, <4>2
    <3> QED BY <2>0, <3>1, <3>4 DEF MessageInv
  <2> QED BY <1>4, <2>1, <2>2, <2>3 DEF Load, LoadMessage
<1>5. ASSUME RunJob("message") PROVE MessageInv'
  <2>1. /\ jobs["message"] # <<>> /\ jobs'["message"] = Tail(jobs["message"])
        /\ jobs'["stop"] = jobs["stop"]
        /\ UNCHANGED <<starting, received>>
    BY <1>5, <1>a DEF RunJob, Subscribers
  <2>2. /\ Cardinality(Waiting(jobs'["message"])) \in Nat
        /\ Cardinality(Waiting(jobs["message"])) = Cardinality(Waiting(jobs'["message"]))
               + (IF Head(jobs["message"]) = "message" THEN 1 ELSE 0)
    BY <1>a, <2>1, HeadLeaves
  <2>3. Waiting(jobs["message"]) = {} =>
            Waiting(jobs'["message"]) = {} /\ Head(jobs["message"]) # "message"
    <3>1. /\ DOMAIN jobs["message"] = 1..Len(jobs["message"])
          /\ DOMAIN Tail(jobs["message"]) = 1..(Len(jobs["message"]) - 1)
          /\ Len(jobs["message"]) \in Nat \ {0}
          /\ \A i \in 1..(Len(jobs["message"]) - 1) :
                 Tail(jobs["message"])[i] = jobs["message"][i + 1]
          /\ Head(jobs["message"]) = jobs["message"][1]
      BY <1>a, <2>1
    <3> QED BY <2>1, <3>1 DEF Waiting
  <2>4. CASE Head(jobs["message"]) = "message" /\ Deliver /\ UNCHANGED <<stored, told>>
    <3>1. \A h \in stored \cap MessageHandlers :
              heard[h] \in Nat /\ heard'[h] = heard[h] + 1
      BY <1>a, <2>4 DEF Deliver
    <3>2. \A h \in stored' \cap MessageHandlers :
              heard'[h] + Cardinality(Waiting(jobs'["message"])) = received'
      <4> TAKE h \in stored' \cap MessageHandlers
      <4>1. h \in stored \cap MessageHandlers
        BY <2>4
      <4>2. heard[h] + Cardinality(Waiting(jobs["message"])) = received
        BY <4>1 DEF MessageInv
      <4> QED BY <1>a, <2>1, <2>2, <2>4, <3>1, <4>1, <4>2
    <3>3. Waiting(jobs["message"]) # {}
      BY <2>3, <2>4
    <3> QED BY <2>1, <3>2, <3>3 DEF MessageInv
  <2>5. CASE Head(jobs["message"]) = "stopped" /\ Release("message") /\ UNCHANGED heard
    BY <1>a, <2>1, <2>2, <2>3, <2>5 DEF Release, MessageInv
  <2> QED BY <1>5, <2>4, <2>5 DEF RunJob
<1>6. ASSUME RunJob("stop") PROVE MessageInv'
  <2>1. /\ jobs["stop"] # <<>> /\ jobs'["stop"] = Tail(jobs["stop"])
        /\ jobs'["message"] = jobs["message"]
        /\ UNCHANGED <<starting, received>>
    BY <1>6, <1>a DEF RunJob, Subscribers
  <2>2. Head(jobs["stop"]) = "stopped" /\ \A i \in DOMAIN jobs'["stop"] : jobs'["stop"][i] = "stopped"
    BY <1>a, <2>1 DEF MessageInv
  <2>3. stored' \subseteq stored /\ heard' = heard
    BY <1>6, <2>2 DEF RunJob, Release
  <2> QED BY <2>1, <2>2, <2>3 DEF MessageInv
<1>7. ASSUME NEW h \in StopHandlers, SubscribeStop(h) PROVE MessageInv'
  <2>1. UNCHANGED <<received, jobs, heard, starting>>
    BY <1>7 DEF SubscribeStop, messageVars
  <2>2. stored' \cap MessageHandlers \subseteq stored \cap MessageHandlers
    BY <1>7, ChannelAssumption DEF SubscribeStop, Subscribe
  <2> QED BY <2>1, <2>2, MessagesKept
<1>8. ASSUME NEW k \in Timers, TimerExpires(k) \/ HandleTimer(k) PROVE MessageInv'
  <2>1. UNCHANGED <<received, jobs, heard, stored, starting>>
    BY <1>8 DEF TimerExpires, HandleTimer, handlerVars, messageVars
  <2> QED BY <2>1, MessagesKept
<1>9. CASE SessionStops \/ NetworkStops \/ UNCHANGED vars
  <2>1. UNCHANGED <<received, jobs, heard, stored, starting>>
    BY <1>9 DEF SessionStops, NetworkStops, handlerVars, messageVars, vars
  <2> QED BY <2>1, MessagesKept
<1>10. ASSUME NEW n \in Calls, StopFlags(n) \/ HandleStopping(n) PROVE MessageInv'
  <2>1. UNCHANGED <<received, jobs, heard, stored, starting>>
    BY <1>10 DEF StopFlags, HandleStopping, handlerVars, messageVars
  <2> QED BY <2>1, MessagesKept
<1>11. ASSUME NEW n \in Calls, StopRelays(n) PROVE MessageInv'
  <2>0. UNCHANGED <<received, heard, stored, starting>>
    BY <1>11 DEF StopRelays, handlerVars
  <2>1. CASE jobs' = [jobs EXCEPT !["message"] = Append(@, "stopped")]
    <3>1. jobs'["message"] = Append(jobs["message"], "stopped") /\ jobs'["stop"] = jobs["stop"]
      BY <1>a, <2>1 DEF Subscribers
    <3>2. Waiting(jobs'["message"]) = Waiting(jobs["message"])
      BY <1>a, <3>1 DEF Waiting
    <3> QED BY <2>0, <3>1, <3>2 DEF MessageInv
  <2>2. CASE jobs' = [jobs EXCEPT !["stop"] = Append(@, "stopped")]
    <3>1. jobs'["stop"] = Append(jobs["stop"], "stopped") /\ jobs'["message"] = jobs["message"]
      BY <1>a, <2>2 DEF Subscribers
    <3>2. \A i \in DOMAIN jobs'["stop"] : jobs'["stop"][i] = "stopped"
      BY <1>a, <3>1 DEF MessageInv
    <3> QED BY <2>0, <3>1, <3>2 DEF MessageInv
  <2> QED BY <1>11, <2>1, <2>2 DEF StopRelays, Broadcast
<1> QED
  BY <1>1, <1>2, <1>3, <1>4, <1>5, <1>6, <1>7, <1>8, <1>9, <1>10, <1>11
     DEF Next, Start, ReadCycle, Stop, Subscribers

-----------------------------------------------------------------------------
(* The number of the waiting messages.  The library's facts about finite    *)
(* sets are only needed from here on.                                       *)
INSTANCE FiniteSetTheorems
INSTANCE FunctionTheorems

\* A relayed message waits behind the others.
LEMMA AppendWaits ==
    ASSUME NEW q \in Seq({"message", "stopped"}), NEW e \in {"message", "stopped"}
    PROVE  /\ Cardinality(Waiting(q)) \in Nat
           /\ Cardinality(Waiting(Append(q, e))) =
                  Cardinality(Waiting(q)) + (IF e = "message" THEN 1 ELSE 0)
<1>1. /\ DOMAIN q = 1..Len(q) /\ DOMAIN Append(q, e) = 1..(Len(q) + 1)
      /\ Len(q) \in Nat
      /\ \A i \in 1..Len(q) : Append(q, e)[i] = q[i]
      /\ Append(q, e)[Len(q) + 1] = e
  OBVIOUS
<1>2. IsFiniteSet(Waiting(q)) /\ Cardinality(Waiting(q)) \in Nat
  <2>1. IsFiniteSet(1..Len(q))
    BY <1>1, FS_Interval
  <2>2. Waiting(q) \in SUBSET (1..Len(q))
    BY <1>1 DEF Waiting
  <2> QED BY <2>1, <2>2, FS_Subset, FS_CardinalityType
<1>3. CASE e = "message"
  <2>1. Waiting(Append(q, e)) = Waiting(q) \cup {Len(q) + 1} /\ Len(q) + 1 \notin Waiting(q)
    BY <1>1, <1>3 DEF Waiting
  <2> QED BY <1>2, <1>3, <2>1, FS_AddElement
<1>4. CASE e = "stopped"
  <2>1. Waiting(Append(q, e)) = Waiting(q)
    BY <1>1, <1>4 DEF Waiting
  <2> QED BY <1>2, <1>4, <2>1
<1> QED BY <1>2, <1>3, <1>4

\* The first job leaves, and the others wait one place nearer.
LEMMA TailWaits ==
    ASSUME NEW q \in Seq({"message", "stopped"}), q # <<>>
    PROVE  /\ Cardinality(Waiting(Tail(q))) \in Nat
           /\ Cardinality(Waiting(q)) =
                  Cardinality(Waiting(Tail(q))) + (IF Head(q) = "message" THEN 1 ELSE 0)
<1>1. /\ DOMAIN q = 1..Len(q) /\ DOMAIN Tail(q) = 1..(Len(q) - 1)
      /\ Len(q) \in Nat \ {0}
      /\ \A i \in 1..(Len(q) - 1) : Tail(q)[i] = q[i + 1]
      /\ Head(q) = q[1]
  OBVIOUS
<1>2. IsFiniteSet(Waiting(q)) /\ Cardinality(Waiting(q)) \in Nat
  <2>1. IsFiniteSet(1..Len(q))
    BY <1>1, FS_Interval
  <2>2. Waiting(q) \in SUBSET (1..Len(q))
    BY <1>1 DEF Waiting
  <2> QED BY <2>1, <2>2, FS_Subset, FS_CardinalityType
<1> DEFINE behind == Waiting(q) \ {1}
           nearer == [i \in behind |-> i - 1]
<1>3. IsFiniteSet(behind) /\ Cardinality(behind) \in Nat
      /\ Cardinality(Waiting(q)) = Cardinality(behind) + (IF Head(q) = "message" THEN 1 ELSE 0)
  <2>1. IsFiniteSet(behind)
        /\ Cardinality(behind) = (IF 1 \in Waiting(q) THEN Cardinality(Waiting(q)) - 1
                                  ELSE Cardinality(Waiting(q)))
    BY <1>2, FS_RemoveElement
  <2>2. 1 \in Waiting(q) <=> Head(q) = "message"
    BY <1>1 DEF Waiting
  <2>3. Cardinality(behind) \in Nat
    BY <2>1, FS_CardinalityType
  <2> QED BY <1>2, <2>1, <2>2, <2>3
<1>4. nearer \in Bijection(behind, Waiting(Tail(q)))
  <2>1. ASSUME NEW i \in behind PROVE i - 1 \in Waiting(Tail(q)) /\ i \in Nat
    BY <1>1 DEF Waiting
  <2>2. ASSUME NEW j \in Waiting(Tail(q)) PROVE j + 1 \in behind /\ nearer[j + 1] = j
    BY <1>1 DEF Waiting
  <2>3. nearer \in [behind -> Waiting(Tail(q))]
    BY <2>1
  <2>4. \A i, j \in behind : nearer[i] = nearer[j] => i = j
    BY <2>1
  <2>5. \A j \in Waiting(Tail(q)) : \E i \in behind : nearer[i] = j
    BY <2>2, ZenonT(40)
  <2> QED BY <2>3, <2>4, <2>5, Fun_IsBij
<1>5. Cardinality(Waiting(Tail(q))) = Cardinality(behind)
  BY <1>3, <1>4, FS_Bijection DEF ExistsBijection
<1> QED BY <1>3, <1>5

\* The waiting messages are counted as the steps of the channel need it.
LEMMA MessagesCounted == WaitingCounts
BY AppendWaits, TailWaits, FS_EmptySet DEF WaitingCounts

\* "Allow for subscription before first read, so no messages are missed": for
\* any number of messages and handlers, a handler that the start handler
\* subscribed has heard of every message that was loaded, or is about to.
THEOREM MessagesReachHandlers == Spec => []NoMessageMissed
<1>1. Init => MessageInv
  BY FS_EmptySet DEF Init, MessageInv, Waiting, Subscribers
<1>2. ChannelInv /\ MessageInv /\ [Next]_vars => MessageInv'
  BY MessageStep, MessagesCounted
<1>3. MessageInv => NoMessageMissed
  BY DEF MessageInv, NoMessageMissed, Waiting
<1> QED BY <1>1, <1>2, <1>3, ChannelInvariant, PTL DEF Spec
==============================================================================
