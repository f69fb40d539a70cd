---------------------------- MODULE StartupProofs ----------------------------
(***************************************************************************)
(* Proofs about Startup, for every set of seeds and all settings: a seed   *)
(* is joined at most once and leaves no channel open, a start that         *)
(* succeeds has addresses, no accept is outstanding on a stopped acceptor, *)
(* the seeding awaits each of its seeds, neither a seed nor the accept     *)
(* loop is left with nothing to go on with, and the thread pool ends idle. *)
(***************************************************************************)
EXTENDS Startup, TLAPS

\* The steps of the start sequence before the seeds are started.
BeforeSeeding ==
    {<<"manual", p>> : p \in {"start", "subscribe", "started", "done"}}
        \cup {<<"hosts", p>> : p \in {"start", "done"}}
        \cup {<<"seed", p>> : p \in {"start", "subscribe", "started"}}

SeedTypes ==
    /\ seed \in [Seeds -> SeedSteps]
    /\ joined \in [Seeds -> Nat]
    /\ channel \in [Seeds -> {"none", "open", "stopped"}]
    /\ handler \in [Seeds -> BOOLEAN]
    /\ complete \in [Seeds -> BOOLEAN]

\* What a seed's step says of its join, its protocol and its channel: the
\* handler can fire the synchronizer only while the seed has not been joined.
SeedOK(s) ==
    /\ seed[s] \in {"idle", "start", "connect", "register"} => channel[s] # "open"
    /\ seed[s] \in {"idle", "start", "connect", "register", "attach"} => ~handler[s]
    /\ seed[s] \in {"closing", "done"} => (handler[s] => complete[s])
    /\ joined[s] = (IF seed[s] \in {"closing", "done"} THEN 1 ELSE 0)
    /\ seed[s] = "done" => channel[s] # "open"

\* The inductive invariant of the seeding.
SeedInv ==
    /\ SeedTypes
    /\ step \in BeforeSeeding => \A s \in Seeds : seed[s] = "idle"
    /\ \A s \in Seeds : SeedOK(s)

\* An event moves its seed, and only its seed, from "protocol" to "closing".
LEMMA SetEventSafe ==
    ASSUME SeedInv, NEW s \in Seeds, NEW ec, SetEvent(s, ec),
           \/ channel' = channel
           \/ channel' = [channel EXCEPT ![s] = "stopped"],
           step' = step
    PROVE  SeedInv'
<1> USE DEF SeedInv, SeedTypes, SeedSteps
<1> USE DEF Completes, JoinSeed, joinVars
<1>1. SeedTypes'
  BY DEF SetEvent
<1>2. ASSUME step' \in BeforeSeeding PROVE \A t \in Seeds : seed'[t] = "idle"
  BY <1>2 DEF SetEvent, Fires, SeedOK
<1>3. ASSUME NEW t \in Seeds, t # s PROVE SeedOK(t)'
  <2>1. /\ seed'[t] = seed[t] /\ joined'[t] = joined[t] /\ channel'[t] = channel[t]
        /\ handler'[t] = handler[t] /\ complete'[t] = complete[t]
    BY <1>3 DEF SetEvent
  <2> QED BY <1>3, <2>1 DEF SeedOK
<1>4. SeedOK(s)'
  <2>1. channel'[s] \in {channel[s], "stopped"}
    OBVIOUS
  <2>2. CASE Fires(s, ec)
    <3>1. /\ seed'[s] = "closing" /\ joined'[s] = joined[s] + 1
          /\ complete'[s]
      BY <2>2, ZenonT(40) DEF SetEvent
    <3>2. handler[s] /\ ~complete[s]
      BY <2>2 DEF Fires
    <3>3. seed[s] = "protocol"
      BY <3>2 DEF SeedOK
    <3>4. joined[s] = 0
      BY <3>3 DEF SeedOK
    <3> QED BY <3>1, <3>4 DEF SeedOK
  <2>3. CASE ~Fires(s, ec)
    <3>1. seed'[s] = seed[s] /\ joined'[s] = joined[s]
      BY <2>3 DEF SetEvent
    <3>2. (handler'[s] => handler[s]) /\ (complete[s] => complete'[s])
      BY DEF SetEvent
    <3> QED BY <2>1, <3>1, <3>2 DEF SeedOK
  <2> QED BY <2>2, <2>3
<1> QED
  BY <1>1, <1>2, <1>3, <1>4

\* A step of one seed keeps the invariant.
LEMMA SeedStepSafe ==
    ASSUME SeedInv, NEW s \in Seeds, SeedProceeds(s)
    PROVE  SeedInv'
<1>0. step' = step
  BY DEF SeedProceeds, startVars
<1> USE <1>0
<1>1. CASE StartSeed(s)
  BY <1>1 DEF StartSeed, SeedFails, SeedGoes, JoinSeed, joinVars, SeedInv, SeedTypes, SeedSteps, SeedOK,
              eventVars, wireVars
<1>2. CASE HandleConnect(s)
  BY <1>2 DEF HandleConnect, SeedFails, SeedGoes, JoinSeed, joinVars, SeedInv, SeedTypes, SeedSteps, SeedOK,
              eventVars, wireVars
<1>3. CASE RegisterChannel(s)
  BY <1>3 DEF RegisterChannel, SeedFails, SeedGoes, JoinSeed, joinVars, SeedInv, SeedTypes, SeedSteps, SeedOK,
              eventVars
<1>4. CASE StartProtocol(s)
  BY <1>4 DEF StartProtocol, SeedGoes, joinVars, SeedInv, SeedTypes, SeedSteps, SeedOK
<1>5. CASE StartStopped(s)
  BY <1>5 DEF StartStopped, Completes, JoinSeed, SeedInv, SeedTypes, SeedSteps, SeedOK
<1>6. CASE HandleTimer(s)
  BY <1>6 DEF HandleTimer, Fires, Completes, JoinSeed, joinVars, SeedInv, SeedTypes, SeedSteps, SeedOK, wireVars
<1>7. CASE StopSeed(s)
  BY <1>7 DEF StopSeed, SeedGoes, joinVars, SeedInv, SeedTypes, SeedSteps, SeedOK, eventVars
<1>8. CASE HandleStopped(s)
  BY <1>8, SetEventSafe DEF HandleStopped
<1> QED
  BY <1>1, <1>2, <1>3, <1>4, <1>5, <1>6, <1>7, <1>8 DEF SeedProceeds, SeedStep

\* So does what a peer does to a seed's channel.
LEMMA SeedPeerSafe ==
    ASSUME SeedInv, NEW s \in Seeds, SeedPeer(s)
    PROVE  SeedInv'
<1>0. step' = step
  BY DEF SeedPeer, startVars
<1> USE <1>0
<1>1. ASSUME NEW m \in Messages, NEW ec \in SendCodes, HandleSend(s, m, ec)
      PROVE  SeedInv'
  <2>1. \/ channel' = channel
        \/ channel' = [channel EXCEPT ![s] = "stopped"]
    BY <1>1, Zenon DEF HandleSend, SeedInv, SeedTypes
  <2>2. CASE ec = "channel_stopped"
    BY <1>1, <2>1, <2>2 DEF HandleSend, SeedInv, SeedTypes, SeedSteps, SeedOK, joinVars, eventVars
  <2>3. CASE ec # "channel_stopped"
    BY <1>1, <2>1, <2>3, SetEventSafe, Zenon DEF HandleSend
  <2> QED BY <2>2, <2>3
<1>2. ASSUME NEW n \in Yields, ReceiveAddress(s, n)
      PROVE  SeedInv'
  <2>1. channel' = channel
    BY <1>2 DEF ReceiveAddress
  <2>2. CASE SetEvent(s, "channel_stopped")
    BY <2>1, <2>2, SetEventSafe
  <2>3. CASE UNCHANGED <<seed, joinVars, eventVars>>
    BY <2>1, <2>3 DEF SeedInv, SeedTypes, SeedSteps, SeedOK, joinVars, eventVars
  <2> QED BY <1>2, <2>2, <2>3 DEF ReceiveAddress
<1>3. CASE ChannelStops(s)
  BY <1>3 DEF ChannelStops, SeedInv, SeedTypes, SeedSteps, SeedOK, joinVars, eventVars
<1> QED
  BY <1>1, <1>2, <1>3 DEF SeedPeer, PeerStep

\* The steps of the start and run sequences touch the seeds only to start them,
\* none goes back to where they are started, and only the end of the seeding
\* leaves it.
LEMMA SequenceFrame ==
    ASSUME Sequence \/ Run, ~HandleSeedStarted
    PROVE  /\ UNCHANGED <<seedVars, settings>>
           /\ step' \in BeforeSeeding => step \in BeforeSeeding
           /\ step = <<"seed", "seeding">> => Joined
<1> DEFINE Frame == /\ UNCHANGED <<seedVars, settings>>
                    /\ step' \in BeforeSeeding => step \in BeforeSeeding
                    /\ step = <<"seed", "seeding">> => Joined
<1> SUFFICES Frame
  OBVIOUS
<1> USE DEF Goes, Reports, sessionVars, BeforeSeeding
<1>1. ASSUME NEW k \in Session, StartSession(k) PROVE Frame
  BY <1>1 DEF StartSession, SessionLive, Session
<1>2. ASSUME NEW k \in Session, SubscribeSession(k) PROVE Frame
  BY <1>2 DEF SubscribeSession, SessionSubscribe, Session
<1>3. CASE HandleSessionStarted
  BY <1>3 DEF HandleSessionStarted
<1>4. CASE HandleComplete
  BY <1>4 DEF HandleComplete
<1>5. CASE HandleInboundStarted \/ ListenInbound
  BY <1>5 DEF HandleInboundStarted, SubscribeAcceptor, ListenInbound, Listen
<1>6. CASE HandleManualStarted
  BY <1>6 DEF HandleManualStarted
<1>7. CASE StartHosts
  BY <1>7 DEF StartHosts, HostsStart
<1>8. CASE HandleHostsLoaded \/ HandleStarted
  BY <1>8 DEF HandleHostsLoaded, HandleStarted
<1>9. CASE HandleInboundDone \/ HandleRunning
  BY <1>9 DEF HandleInboundDone, HandleRunning
<1>10. CASE Run
  BY <1>10 DEF Run
<1> HIDE DEF Frame
<1> QED BY <1>1, <1>2, <1>3, <1>4, <1>5, <1>6, <1>7, <1>8, <1>9, <1>10 DEF Sequence

\* Only session_seed::handle_started() begins the seeding.
LEMMA SeedingBegins ==
    ASSUME Sequence \/ Run, ~HandleSeedStarted
    PROVE  step' # <<"seed", "seeding">>
<1> USE DEF Goes, Reports
<1>1. ASSUME NEW k \in Session, StartSession(k) \/ SubscribeSession(k)
      PROVE  step' # <<"seed", "seeding">>
  BY <1>1 DEF StartSession, SubscribeSession
<1>2. CASE HandleSessionStarted \/ HandleComplete \/ HandleInboundStarted \/ ListenInbound
  BY <1>2 DEF HandleSessionStarted, HandleComplete, HandleInboundStarted, ListenInbound
<1>3. CASE HandleManualStarted \/ StartHosts \/ HandleHostsLoaded \/ HandleStarted
  BY <1>3 DEF HandleManualStarted, StartHosts, HandleHostsLoaded, HandleStarted
<1>4. CASE HandleInboundDone \/ HandleRunning
  BY <1>4 DEF HandleInboundDone, HandleRunning
<1>5. CASE Run
  BY <1>5 DEF Run
<1> QED BY <1>1, <1>2, <1>3, <1>4, <1>5 DEF Sequence

\* The stop of the network, its pool and the accept loop touch neither the seeds nor the
\* start and run sequences.
LEMMA RestFrame ==
    ASSUME Stop \/ Stopping \/ Accepting \/ PoolEnds \/ UNCHANGED vars
    PROVE  UNCHANGED <<seedVars, step, settings>>
<1>1. UNCHANGED <<seedVars, step>>
  BY DEF Stop, Stopping, Notify, StopContinues, Accepting, PoolEnds, vars, startVars
<1>2. CASE Stop \/ Stopping
  BY <1>1, <1>2 DEF Stop, StopHosts, Stopping, Notify, NotifyNext, StopContinues, StopProceeds
<1>3. CASE Accepting
  BY <1>1, <1>3 DEF Accepting, AcceptLoop, StartAccept, Accept, HandleAccept, DelayEnds, sessionVars
<1>4. CASE PoolEnds \/ UNCHANGED vars
  BY <1>1, <1>4 DEF PoolEnds, vars, sessionVars
<1> QED BY <1>2, <1>3, <1>4

\* A step that leaves the seeds alone and does not go back keeps the invariant.
LEMMA SeedsKept ==
    ASSUME SeedInv, UNCHANGED seedVars, step' \in BeforeSeeding => step \in BeforeSeeding
    PROVE  SeedInv'
  BY DEF SeedInv, SeedTypes, SeedOK, seedVars, joinVars, eventVars, wireVars

\* The start and run sequences keep the invariant.
LEMMA SequenceSafe ==
    ASSUME SeedInv, Sequence \/ Run
    PROVE  SeedInv'
<1>1. CASE HandleSeedStarted
  <2>0. step = <<"seed", "started">> /\ step' \notin BeforeSeeding
    BY <1>1 DEF HandleSeedStarted, Goes, BeforeSeeding
  <2>1. CASE UNCHANGED seedVars
    BY <2>0, <2>1, SeedsKept
  <2>2. CASE StartSeeding
    <3>1. \A s \in Seeds : seed[s] = "idle"
      BY <2>0 DEF SeedInv, BeforeSeeding
    <3> QED BY <2>0, <2>2, <3>1 DEF StartSeeding, SeedInv, SeedTypes, SeedSteps, SeedOK,
                                   joinVars, eventVars, wireVars
  <2> QED BY <1>1, <2>1, <2>2 DEF HandleSeedStarted
<1>2. CASE ~HandleSeedStarted
  BY <1>2, SequenceFrame, SeedsKept
<1> QED BY <1>1, <1>2

\* The seeding keeps its invariant, whatever the rest of the network does.
LEMMA SeedInvariant == Spec => []SeedInv
<1>1. Init => SeedInv
  BY DEF Init, InitSeeding, SeedInv, SeedTypes, SeedSteps, SeedOK
<1>2. SeedInv /\ [Next]_vars => SeedInv'
  <2> SUFFICES ASSUME SeedInv, [Next]_vars PROVE SeedInv'
    OBVIOUS
  <2>1. CASE Sequence \/ Run
    BY <2>1, SequenceSafe
  <2>2. CASE \E s \in Seeds : SeedProceeds(s) \/ SeedPeer(s)
    BY <2>2, SeedStepSafe, SeedPeerSafe
  <2>3. CASE Stop \/ Stopping \/ Accepting \/ PoolEnds \/ UNCHANGED vars
    BY <2>3, RestFrame, SeedsKept
  <2> QED BY <2>1, <2>2, <2>3 DEF Next
<1> QED BY <1>1, <1>2, PTL DEF Spec

\* session_seed joins a seed at most once, for every set of seeds: whichever
\* of the failures, events, timeouts and stops of its channel come, and in
\* whatever order.
THEOREM SeedsAreJoinedOnce == Spec => []SeedsJoinedOnce
<1>1. SeedInv => SeedsJoinedOnce
  BY DEF SeedInv, SeedOK, SeedsJoinedOnce
<1> QED BY <1>1, SeedInvariant, PTL

\* handle_seeding_complete() and a failed registration leave no channel open.
THEOREM SeedChannelsAreClosed == Spec => []SeedChannelsClosed
<1>1. SeedInv => SeedChannelsClosed
  BY DEF SeedInv, SeedOK, SeedChannelsClosed
<1> QED BY <1>1, SeedInvariant, PTL

-----------------------------------------------------------------------------
\* The codes the start and run sequences carry.
Codes == {"success", "peer_throttling", "operation_failed", "service_stopped", "bad_port"}

ReportTypes == report \in [start : Seq(Codes), run : Seq(Codes)]

\* A seeding that succeeds on an enabled pool has left addresses in it, as long
\* as p2p::stop() has not begun.
SeededHasHosts ==
    step = <<"seed", "done">> /\ code = "success" /\ settings.pool /\ stopPc = "hosts"
        => hostCount > 0

HostsInv ==
    /\ hostCount \in Nat
    /\ code \in Codes
    /\ ReportTypes
    /\ SeededHasHosts
    /\ StartedHasHosts

\* Storing addresses leaves a pool that has some with some.
LEMMA StoredCounts ==
    ASSUME hostCount \in Nat, NEW n \in Nat
    PROVE  Stored(n) \in Nat /\ (hostCount > 0 => Stored(n) > 0)
<1>1. \E x \in {hostCount + n, Capacity} : \A y \in {hostCount + n, Capacity} : x <= y
  <2>1. CASE hostCount + n <= Capacity
    BY <2>1, SeedingAssumption
  <2>2. CASE Capacity <= hostCount + n
    BY <2>2, SeedingAssumption
  <2> QED BY <2>1, <2>2, SeedingAssumption
<1>2. Stored(n) \in {hostCount + n, Capacity}
  BY <1>1, Zenon DEF Stored, Min
<1> QED
  BY <1>2, SeedingAssumption

\* What a seed does leaves the start sequence alone, and adds to the pool only.
LEMMA SeedFrame ==
    ASSUME NEW s \in Seeds, SeedProceeds(s) \/ SeedPeer(s)
    PROVE  /\ UNCHANGED <<step, code, report, settings, stopPc>>
           /\ hostCount' = hostCount \/ \E n \in Yields : hostCount' = Stored(n)
<1>1. UNCHANGED <<step, code, report>>
  BY DEF SeedProceeds, SeedPeer, startVars
<1>2. CASE UNCHANGED sessionVars
  BY <1>1, <1>2 DEF sessionVars
<1>3. CASE StartSeed(s) \/ HandleConnect(s) \/ RegisterChannel(s)
  BY <1>2, <1>3 DEF StartSeed, HandleConnect, RegisterChannel
<1>4. CASE StartProtocol(s) \/ StartStopped(s) \/ HandleTimer(s)
  BY <1>2, <1>4, Zenon DEF StartProtocol, StartStopped, HandleTimer
<1>5. CASE StopSeed(s) \/ HandleStopped(s) \/ ChannelStops(s)
  BY <1>2, <1>5 DEF StopSeed, HandleStopped, ChannelStops
<1>6. ASSUME NEW m \in Messages, NEW ec \in SendCodes, HandleSend(s, m, ec)
      PROVE  UNCHANGED sessionVars
  BY <1>6 DEF HandleSend
<1>7. ASSUME NEW n \in Yields, ReceiveAddress(s, n)
      PROVE  UNCHANGED <<settings, stopPc>> /\ hostCount' \in {hostCount, Stored(n)}
  BY <1>7 DEF ReceiveAddress
<1> QED
  BY <1>1, <1>2, <1>3, <1>4, <1>5, <1>6, <1>7 DEF SeedProceeds, SeedPeer, SeedStep, PeerStep

\* Nor does it stop or start a session.
LEMMA SeedLive ==
    ASSUME NEW s \in Seeds, SeedProceeds(s) \/ SeedPeer(s)
    PROVE  live' = live
<1>1. CASE SeedStep(s)
  BY <1>1 DEF SeedStep, StartSeed, HandleConnect, RegisterChannel, StartProtocol, StartStopped,
       HandleTimer, StopSeed, HandleStopped, sessionVars
<1>2. CASE PeerStep(s)
  BY <1>2 DEF PeerStep, HandleSend, ReceiveAddress, ChannelStops, sessionVars
<1> QED BY <1>1, <1>2 DEF SeedProceeds, SeedPeer

\* A report that makes <<"success">> of a sequence of codes reports success.
LEMMA ReportSuccess ==
    ASSUME NEW q \in Seq(Codes), NEW ec \in Codes
    PROVE  /\ Append(q, ec) \in Seq(Codes)
           /\ Append(q, ec) = <<"success">> => ec = "success"
<1> HIDE DEF Codes
<1>1. /\ Append(q, ec) \in Seq(Codes)
      /\ Len(q) \in Nat
      /\ Len(Append(q, ec)) = Len(q) + 1
      /\ Append(q, ec)[Len(q) + 1] = ec
  OBVIOUS
<1>2. ASSUME Append(q, ec) = <<"success">> PROVE ec = "success"
  <2>1. Len(q) + 1 = 1
    BY <1>1, <1>2
  <2> QED BY <1>1, <1>2, <2>1
<1> QED BY <1>1, <1>2

\* A step that reports nothing keeps the invariant when it keeps a pool with
\* addresses so, resumes no stopped network, and its code is one the seeding
\* may end with.
LEMMA HostsKept ==
    ASSUME HostsInv, UNCHANGED <<report, settings>>, hostCount' \in Nat, code' \in Codes,
           stopPc' = "hosts" => stopPc = "hosts" /\ (hostCount > 0 => hostCount' > 0),
           \/ step' # <<"seed", "done">>
           \/ UNCHANGED <<step, code>>
           \/ code' = "success" /\ settings.pool => hostCount' > 0
    PROVE  HostsInv'
<1>1. ReportTypes'
  BY DEF HostsInv, ReportTypes
<1>2. SeededHasHosts'
  BY DEF HostsInv, SeededHasHosts
<1>3. StartedHasHosts'
  BY DEF HostsInv, StartedHasHosts
<1> QED BY <1>1, <1>2, <1>3 DEF HostsInv

\* HostsInv is an invariant of the start and run sequences.
LEMMA HostsInvariant == Spec => []HostsInv
<1>1. Init => HostsInv
  <2> SUFFICES ASSUME Init PROVE HostsInv
    OBVIOUS
  <2>1. ReportTypes
    BY DEF Init, ReportTypes
  <2>2. SeededHasHosts /\ hostCount \in Nat /\ code \in Codes
    BY DEF Init, InitSessions, SeededHasHosts, Codes
  <2>3. StartedHasHosts
    <3>1. report.start = <<>> /\ <<>> # <<"success">>
      BY DEF Init
    <3> QED BY <3>1, Zenon DEF StartedHasHosts
  <2> QED BY <2>1, <2>2, <2>3 DEF HostsInv
<1>2. HostsInv /\ [Next]_vars => HostsInv'
  <2> SUFFICES ASSUME HostsInv, [Next]_vars PROVE HostsInv'
    OBVIOUS
  <2>0. hostCount \in Nat /\ code \in Codes
    BY DEF HostsInv
  <2>1. ASSUME NEW s \in Seeds, SeedProceeds(s) \/ SeedPeer(s) PROVE HostsInv'
    <3>1. /\ UNCHANGED <<step, code, report, settings, stopPc>>
          /\ hostCount' = hostCount \/ \E n \in Yields : hostCount' = Stored(n)
      BY <2>1, SeedFrame
    <3>2. hostCount' \in Nat /\ (hostCount > 0 => hostCount' > 0)
      BY <2>0, <3>1, StoredCounts, SeedingAssumption
    <3> QED BY <2>0, <3>1, <3>2, HostsKept
  <2>2. CASE HandleSeedStarted
    BY <2>0, <2>2, HostsKept DEF HandleSeedStarted, StartSeeding, Goes, sessionVars, Codes
  <2>3. CASE HandleComplete
    BY <2>0, <2>3, HostsKept, SeedingAssumption
       DEF HandleComplete, SeedingCode, Goes, sessionVars, Codes
  <2>4. ASSUME NEW k \in Session, StartSession(k) PROVE HostsInv'
    <3>1. UNCHANGED <<report, settings, hostCount, stopPc>> /\ code' = "success"
      BY <2>4 DEF StartSession, SessionLive, Goes, sessionVars
    <3>2. step' = <<"seed", "done">> => k = "seed" /\ ~Configured(k)
      BY <2>4 DEF StartSession, Goes
    <3>3. k = "seed" => (Configured(k) <=> settings.pool)
      BY DEF Configured
    <3>4. step' # <<"seed", "done">> \/ ~settings.pool
      BY <3>2, <3>3
    <3> QED BY <2>0, <3>1, <3>4, HostsKept DEF Codes
  <2>5. ASSUME NEW k \in Session, SubscribeSession(k) PROVE HostsInv'
    BY <2>0, <2>5, HostsKept
       DEF SubscribeSession, SessionSubscribe, Session, Codes
  <2>6. CASE HandleSessionStarted
    BY <2>0, <2>6, HostsKept DEF HandleSessionStarted, Goes, sessionVars, Codes
  <2>7. CASE HandleInboundStarted
    BY <2>0, <2>7, HostsKept DEF HandleInboundStarted, SubscribeAcceptor, Goes, Codes
  <2>8. CASE ListenInbound
    BY <2>0, <2>8, HostsKept DEF ListenInbound, Listen, Goes, sessionVars, Codes
  <2>9. ASSUME NEW call \in {"start", "run"}, NEW ec \in Codes, Reports(call, ec),
               UNCHANGED sessionVars,
               call = "start" /\ ec = "success" => step = <<"seed", "done">> /\ code = "success"
        PROVE  HostsInv'
    <3>1. report \in [start : Seq(Codes), run : Seq(Codes)]
      BY DEF HostsInv, ReportTypes
    <3>2. report' = [report EXCEPT ![call] = Append(report[call], ec)]
      BY <2>9 DEF Reports
    <3>3. /\ Append(report[call], ec) \in Seq(Codes)
          /\ Append(report[call], ec) = <<"success">> => ec = "success"
      BY <2>9, <3>1, ReportSuccess
    <3>4. ReportTypes'
      BY <2>9, <3>1, <3>2, <3>3, Zenon DEF ReportTypes
    <3>5. StartedHasHosts'
      <4>1. CASE call = "start"
        <5>1. report'.start = Append(report[call], ec)
          BY <3>1, <3>2, <4>1
        <5> QED BY <2>9, <3>3, <4>1, <5>1 DEF HostsInv, SeededHasHosts, StartedHasHosts, sessionVars
      <4>2. CASE call = "run"
        <5>1. report'.start = report.start
          BY <3>1, <3>2, <4>2
        <5> QED BY <2>9, <5>1 DEF HostsInv, StartedHasHosts, sessionVars
      <4> QED BY <2>9, <4>1, <4>2
    <3> QED BY <2>0, <2>9, <3>4, <3>5 DEF Reports, HostsInv, SeededHasHosts, Codes, sessionVars
  <2>10. CASE HandleManualStarted \/ HandleHostsLoaded \/ HandleStarted
    <3>1. CASE \E ec \in Codes :
                  /\ Reports("start", ec)
                  /\ ec = "success" => step = <<"seed", "done">> /\ code = "success"
      BY <2>9, <2>10, <3>1 DEF HandleManualStarted, HandleHostsLoaded, HandleStarted
    <3>2. CASE \E p \in Steps \ {<<"seed", "done">>} : Goes(p, "success")
      BY <2>0, <2>10, <3>2, HostsKept
         DEF HandleManualStarted, HandleHostsLoaded, HandleStarted, Goes, sessionVars, Codes
    <3> QED
      BY <2>0, <2>10, <3>1, <3>2
         DEF HandleManualStarted, HandleHostsLoaded, HandleStarted, Codes, Steps, Session
  <2>11. CASE StartHosts
    BY <2>0, <2>11, HostsKept, StartupAssumption, SeedingAssumption
       DEF StartHosts, HostsStart, Goes, Codes
  <2>12. CASE HandleInboundDone \/ HandleRunning
    <3>1. CASE Reports("run", code)
      BY <2>0, <2>9, <2>12, <3>1 DEF HandleInboundDone, HandleRunning
    <3>2. CASE Goes(<<"outbound", "start">>, "success")
      BY <2>0, <2>12, <3>2, HostsKept DEF HandleInboundDone, HandleRunning, Goes, sessionVars, Codes
    <3> QED BY <2>12, <3>1, <3>2 DEF HandleInboundDone, HandleRunning
  <2>13. CASE Run
    BY <2>0, <2>13, HostsKept DEF Run, sessionVars, Codes
  <2>14. CASE Stop
    BY <2>0, <2>14, HostsKept DEF Stop, StopHosts, startVars
  <2>15. CASE Stopping
    BY <2>0, <2>15, HostsKept DEF Stopping, Notify, NotifyNext, StopContinues, StopProceeds, startVars
  <2>16. CASE Accepting \/ UNCHANGED vars
    BY <2>0, <2>16, HostsKept DEF Accepting, AcceptLoop, StartAccept, Accept, HandleAccept,
         DelayEnds, vars, startVars, sessionVars
  <2>17. CASE PoolEnds
    BY <2>0, <2>17, HostsKept DEF PoolEnds, sessionVars
  <2> QED
    BY <2>1, <2>2, <2>3, <2>4, <2>5, <2>6, <2>7, <2>8, <2>10, <2>11, <2>12, <2>13, <2>14,
       <2>15, <2>16, <2>17 DEF Next, Sequence
<1> QED BY <1>1, <1>2, PTL DEF Spec

\* p2p::start() succeeds on an enabled pool only with an address in it, for
\* every file, all seeds and whatever they answer, unless the network is
\* stopping: handle_started() forwards the code that the seeding settled.
THEOREM StartsHaveHosts == Spec => []StartedHasHosts
<1>1. HostsInv => StartedHasHosts
  BY DEF HostsInv
<1> QED BY <1>1, HostsInvariant, PTL

-----------------------------------------------------------------------------
\* acceptor::stop() and acceptor::accept(), each under the acceptor's mutex,
\* never leave an accept outstanding on a stopped acceptor.
THEOREM AcceptsAreCanceled == Spec => []NoAcceptOnStopped
<1>1. Init => NoAcceptOnStopped
  BY DEF Init, InitInbound, NoAcceptOnStopped
<1>2. NoAcceptOnStopped /\ [Next]_vars => NoAcceptOnStopped'
  <2> SUFFICES ASSUME NoAcceptOnStopped, [Next]_vars PROVE NoAcceptOnStopped'
    OBVIOUS
  <2> USE DEF NoAcceptOnStopped
  <2>1. CASE Accepting
    BY <2>1 DEF Accepting, AcceptLoop, StartAccept, Accept, HandleAccept, DelayEnds
  <2>2. CASE Notify
    BY <2>2 DEF Notify, AcceptorStop, inboundVars
  <2>3. CASE HandleInboundStarted
    BY <2>3 DEF HandleInboundStarted, SubscribeAcceptor, AcceptorStop, inboundVars
  <2>4. CASE ListenInbound
    BY <2>4 DEF ListenInbound, Listen
  <2>5. CASE UNCHANGED inboundVars
    BY <2>5 DEF inboundVars
  <2>6. CASE Sequence /\ ~HandleInboundStarted /\ ~ListenInbound
    BY <2>5, <2>6, Zenon DEF Sequence, StartSession, SubscribeSession, HandleSessionStarted,
         HandleSeedStarted, HandleComplete, HandleManualStarted, StartHosts,
         HandleHostsLoaded, HandleStarted, HandleInboundDone, HandleRunning
  <2>7. CASE Run \/ Stop \/ StopContinues \/ PoolEnds \/ UNCHANGED vars
    BY <2>5, <2>7, Zenon DEF Run, Stop, StopContinues, PoolEnds, vars
  <2>8. CASE \E s \in Seeds : SeedProceeds(s) \/ SeedPeer(s)
    BY <2>5, <2>8 DEF SeedProceeds, SeedPeer
  <2> QED BY <2>1, <2>2, <2>3, <2>4, <2>6, <2>7, <2>8 DEF Next, Stopping
<1> QED BY <1>1, <1>2, PTL DEF Spec

-----------------------------------------------------------------------------
(* The accept loop goes on.                                                 *)

InboundSteps == {<<"inbound", p>> : p \in {"subscribe", "started", "listen"}}
OutboundSteps == {<<"outbound", p>> : p \in {"start", "subscribe", "started", "done"}}

\* The run sequence is past a session_inbound that has started.
InboundStarted == step \in OutboundSteps \/ (step = <<"inbound", "done">> /\ code = "success")

\* run() has not reported while its sequence goes on; and, until p2p::stop()
\* begins, the inbound session that started is not stopped, nor is its acceptor.
LoopInv ==
    /\ step # <<"p2p", "idle">> => report.run = <<>>
    /\ stopPc = "hosts" =>
          /\ acceptPc # "off" => /\ acceptPc \in {"start", "accept", "pending", "delayed"}
                                 /\ ~acceptorStopped
                                 /\ "inbound" \in live
          /\ step \in InboundSteps => "inbound" \in live
          /\ settings.inbound /\ (InboundStarted \/ report.run = <<"success">>)
                => acceptPc # "off"

\* A step that leaves the accept loop alone and stops no session.
LEMMA LoopKept ==
    ASSUME LoopInv, UNCHANGED <<inboundVars, report, settings>>,
           step' # <<"p2p", "idle">> => step # <<"p2p", "idle">>,
           stopPc' = "hosts" =>
              /\ stopPc = "hosts" /\ live \subseteq live'
              /\ step' \in InboundSteps => step \in InboundSteps \/ "inbound" \in live'
              /\ InboundStarted' /\ settings.inbound => InboundStarted
    PROVE  LoopInv'
<1>1. UNCHANGED <<acceptPc, acceptorStopped>>
  BY DEF inboundVars
<1>2. step' # <<"p2p", "idle">> => report'.run = <<>>
  BY DEF LoopInv
<1>3. ASSUME stopPc' = "hosts"
      PROVE  /\ acceptPc # "off" => /\ acceptPc \in {"start", "accept", "pending", "delayed"}
                                    /\ ~acceptorStopped
                                    /\ "inbound" \in live'
             /\ step' \in InboundSteps => "inbound" \in live'
             /\ settings'.inbound /\ (InboundStarted' \/ report'.run = <<"success">>)
                   => acceptPc # "off"
  BY <1>3 DEF LoopInv
<1> QED BY <1>1, <1>2, <1>3 DEF LoopInv

\* The steps of the inbound session itself.
LEMMA LoopInbound ==
    ASSUME LoopInv, \/ HandleInboundStarted \/ ListenInbound \/ Accepting
    PROVE  LoopInv'
<1>1. CASE HandleInboundStarted
  <2>1. CASE stopPc = "hosts"
    <3>1. UNCHANGED <<inboundVars, stopPc, live, settings, report>>
      BY <1>1, <2>1 DEF HandleInboundStarted, SubscribeAcceptor, SubscriberStopped, NetStopped, Goes
    <3>2. step = <<"inbound", "started">> /\ step' = <<"inbound", "listen">>
      BY <1>1 DEF HandleInboundStarted, Goes
    <3> QED
      BY <3>1, <3>2, LoopKept DEF InboundSteps, InboundStarted, OutboundSteps
  <2>2. CASE stopPc # "hosts"
    <3>1. stopPc' = stopPc /\ report' = report /\ step = <<"inbound", "started">>
      BY <1>1 DEF HandleInboundStarted, SubscribeAcceptor, Goes
    <3> QED
      BY <2>2, <3>1 DEF LoopInv
  <2> QED BY <2>1, <2>2
<1>2. CASE ListenInbound
  <2>1. PICK ec \in {"success", "bad_port", "operation_failed"} :
           Goes(<<"inbound", "done">>, ec) /\ Listen(ec)
    BY <1>2 DEF ListenInbound
  <2>2. step = <<"inbound", "listen">> /\ step' = <<"inbound", "done">> /\ code' = ec
        /\ report' = report /\ UNCHANGED <<stopPc, live, settings>>
    BY <1>2, <2>1 DEF ListenInbound, Goes, Listen, sessionVars
  <2>3. ~acceptorStopped' /\ acceptPc' = IF ec = "success" THEN "start" ELSE "off"
    BY <2>1 DEF Listen
  <2>4. report.run = <<>> /\ <<>> # <<"success">>
    BY <2>2 DEF LoopInv
  <2>5. stopPc = "hosts" => "inbound" \in live
    BY <2>2 DEF LoopInv, InboundSteps
  <2>6. step' \notin InboundSteps /\ (InboundStarted' => ec = "success")
    BY <2>2 DEF InboundSteps, InboundStarted, OutboundSteps
  <2> QED
    BY <2>2, <2>3, <2>4, <2>5, <2>6 DEF LoopInv
<1>3. CASE Accepting
  <2>1. /\ UNCHANGED <<step, code, report, stopPc, live, settings, acceptorStopped>>
        /\ acceptPc # "off"
    BY <1>3 DEF Accepting, AcceptLoop, StartAccept, Accept, HandleAccept, DelayEnds, startVars,
         sessionVars
  <2>2. ASSUME stopPc = "hosts" PROVE acceptPc' \in {"start", "accept", "pending", "delayed"}
    <3>1. acceptPc \in {"start", "accept", "pending", "delayed"} /\ ~acceptorStopped /\ "inbound" \in live
      BY <2>1, <2>2 DEF LoopInv
    <3> QED
      BY <1>3, <3>1 DEF Accepting, AcceptLoop, StartAccept, Accept, HandleAccept, DelayEnds
  <2>3. InboundStarted' <=> InboundStarted
    BY <2>1 DEF InboundStarted
  <2> QED
    BY <2>1, <2>2, <2>3 DEF LoopInv
<1> QED BY <1>1, <1>2, <1>3

\* The steps of the sequences that report to the caller.
LEMMA LoopReports ==
    ASSUME LoopInv, HostsInv, UNCHANGED <<inboundVars, sessionVars>>, step # <<"p2p", "idle">>,
           NEW call \in {"start", "run"}, NEW ec \in Codes, Reports(call, ec),
           call = "run" /\ ec = "success" => step \in OutboundSteps
    PROVE  LoopInv'
<1>1. report \in [start : Seq(Codes), run : Seq(Codes)]
  BY DEF HostsInv, ReportTypes
<1>2. report' = [report EXCEPT ![call] = Append(report[call], ec)] /\ step' = <<"p2p", "idle">>
  BY DEF Reports
<1>3. report.run = <<>> /\ <<>> # <<"success">>
  BY DEF LoopInv
<1>4. report'.run = <<"success">> => InboundStarted
  <2>1. CASE call = "start"
    BY <1>1, <1>2, <1>3, <2>1
  <2>2. CASE call = "run"
    <3>1. report'.run = Append(report.run, ec)
      BY <1>1, <1>2, <2>2
    <3>2. Append(report.run, ec) = <<"success">> => ec = "success"
      BY <1>1, ReportSuccess
    <3> QED BY <2>2, <3>1, <3>2 DEF InboundStarted
  <2> QED BY <2>1, <2>2
<1>5. step' \notin InboundSteps /\ ~InboundStarted'
  BY <1>2 DEF InboundSteps, InboundStarted, OutboundSteps
<1>6. UNCHANGED <<acceptPc, acceptorStopped, stopPc, live, settings>>
  BY DEF inboundVars, sessionVars
<1> QED
  BY <1>2, <1>4, <1>5, <1>6 DEF LoopInv

\* Every step keeps the accept loop going.
LEMMA LoopStep == ASSUME LoopInv, HostsInv, [Next]_vars PROVE LoopInv'
<1>0. code \in Codes
  BY DEF HostsInv
<1>1. ASSUME NEW s \in Seeds, SeedProceeds(s) \/ SeedPeer(s) PROVE LoopInv'
  <2>1. UNCHANGED <<step, code, report, settings, stopPc, inboundVars>>
    BY <1>1, SeedFrame DEF SeedProceeds, SeedPeer
  <2>2. live' = live
    BY <1>1, SeedLive
  <2> QED
    BY <2>1, <2>2, LoopKept DEF InboundStarted
<1>2. ASSUME NEW k \in Session, StartSession(k) PROVE LoopInv'
  <2>1. UNCHANGED <<inboundVars, report, settings, stopPc>> /\ step = <<k, "start">>
        /\ (live' = live \/ live' = live \cup {k})
    BY <1>2 DEF StartSession, SessionLive, Goes, sessionVars
  <2>2. step' \in InboundSteps => "inbound" \in live'
    BY <1>2 DEF StartSession, SessionLive, Goes, InboundSteps
  <2>3. InboundStarted' /\ settings.inbound => InboundStarted
    <3>1. CASE k = "outbound"
      BY <2>1, <3>1 DEF InboundStarted, OutboundSteps
    <3>2. CASE k = "inbound"
      BY <1>2, <3>2 DEF StartSession, Goes, Configured, InboundStarted, OutboundSteps
    <3>3. CASE k \in {"manual", "seed"}
      BY <1>2, <3>3 DEF StartSession, Goes, InboundStarted, OutboundSteps
    <3> QED BY <3>1, <3>2, <3>3 DEF Session
  <2> QED
    BY <2>1, <2>2, <2>3, LoopKept
<1>3. ASSUME NEW k \in Session, SubscribeSession(k) PROVE LoopInv'
  <2>1. UNCHANGED <<inboundVars, report, settings, stopPc>> /\ step = <<k, "subscribe">>
        /\ step' = <<k, "started">>
    BY <1>3 DEF SubscribeSession, SessionSubscribe
  <2>2. stopPc = "hosts" => live' = live
    BY <1>3 DEF SubscribeSession, SessionSubscribe, SubscriberStopped, NetStopped
  <2> QED
    BY <2>1, <2>2, LoopKept DEF InboundSteps, InboundStarted, OutboundSteps
<1>4. CASE HandleSessionStarted \/ HandleSeedStarted \/ HandleComplete
  <2>1. UNCHANGED <<inboundVars, report, sessionVars>> /\ step # <<"p2p", "idle">>
    BY <1>4 DEF HandleSessionStarted, HandleSeedStarted, StartSeeding, HandleComplete, Goes
  <2>2. step' \notin InboundSteps /\ (InboundStarted' => InboundStarted)
    BY <1>4 DEF HandleSessionStarted, HandleSeedStarted, HandleComplete, Goes, InboundSteps,
         InboundStarted, OutboundSteps
  <2> QED
    BY <2>1, <2>2, LoopKept DEF sessionVars
<1>5. CASE HandleManualStarted \/ HandleHostsLoaded \/ HandleStarted
  <2>1. UNCHANGED <<inboundVars, sessionVars>> /\ step # <<"p2p", "idle">>
    BY <1>5 DEF HandleManualStarted, HandleHostsLoaded, HandleStarted
  <2>2. CASE \E ec \in Codes : Reports("start", ec)
    BY <2>1, <2>2, LoopReports
  <2>3. CASE Goes(<<"hosts", "start">>, "success") \/ Goes(<<"seed", "start">>, "success")
    BY <2>1, <2>3, LoopKept DEF Goes, sessionVars, InboundSteps, InboundStarted, OutboundSteps
  <2> QED
    BY <1>0, <1>5, <2>2, <2>3 DEF HandleManualStarted, HandleHostsLoaded, HandleStarted, Codes
<1>6. CASE StartHosts
  <2>1. UNCHANGED <<inboundVars, report, settings, stopPc, live>> /\ step = <<"hosts", "start">>
        /\ step' = <<"hosts", "done">>
    BY <1>6 DEF StartHosts, HostsStart, Goes
  <2> QED
    BY <2>1, LoopKept DEF InboundSteps, InboundStarted, OutboundSteps
<1>7. CASE HandleInboundDone \/ HandleRunning
  <2>1. UNCHANGED <<inboundVars, sessionVars>> /\ step # <<"p2p", "idle">>
    BY <1>7 DEF HandleInboundDone, HandleRunning
  <2>2. CASE Reports("run", code) /\ (code = "success" => step \in OutboundSteps)
    BY <1>0, <2>1, <2>2, LoopReports
  <2>3. CASE InboundStarted /\ Goes(<<"outbound", "start">>, "success")
    BY <2>1, <2>3, LoopKept DEF Goes, sessionVars, InboundSteps
  <2> QED
    BY <1>7, <2>2, <2>3 DEF HandleInboundDone, HandleRunning, OutboundSteps, InboundStarted
<1>8. CASE Run
  <2>1. /\ UNCHANGED <<acceptPc, acceptorStopped, stopPc, live, settings, report>>
        /\ report.run = <<>> /\ step' = <<"inbound", "start">>
    BY <1>8 DEF Run, inboundVars, sessionVars
  <2>2. step' \notin InboundSteps /\ ~InboundStarted' /\ <<>> # <<"success">>
    BY <2>1 DEF InboundSteps, InboundStarted, OutboundSteps
  <2> QED
    BY <2>1, <2>2 DEF LoopInv
<1>9. CASE Stop \/ Stopping
  <2>1. stopPc' # "hosts" /\ UNCHANGED <<step, report>>
    BY <1>9 DEF Stop, StopHosts, Stopping, Notify, NotifyNext, StopContinues, StopProceeds, startVars
  <2> QED
    BY <2>1 DEF LoopInv
<1>10. CASE PoolEnds \/ UNCHANGED vars
  <2>1. UNCHANGED <<step, code, report, sessionVars, inboundVars>>
    BY <1>10, Zenon DEF PoolEnds, vars, startVars
  <2> QED
    BY <2>1, LoopKept DEF sessionVars, InboundStarted
<1> QED
  BY <1>1, <1>2, <1>3, <1>4, <1>5, <1>6, <1>7, <1>8, <1>9, <1>10, LoopInbound, Zenon
     DEF Next, Sequence

\* A network that runs with an inbound session, and is not being stopped, always
\* has an accept outstanding or its loop on the way to the next one: no result
\* of an accept ends the loop of session_inbound.
THEOREM AcceptsGoOn == Spec => []AcceptToCome
<1>1. Init => LoopInv
  <2> SUFFICES ASSUME Init PROVE LoopInv
    OBVIOUS
  <2>1. report.run = <<>> /\ <<>> # <<"success">> /\ acceptPc = "off"
        /\ step = <<"manual", "start">>
    BY DEF Init, InitInbound
  <2> QED
    BY <2>1 DEF LoopInv, InboundSteps, InboundStarted, OutboundSteps
<1>2. LoopInv /\ HostsInv /\ [Next]_vars => LoopInv'
  BY LoopStep
<1>3. LoopInv => AcceptToCome
  BY DEF LoopInv, AcceptToCome
<1> QED BY <1>1, <1>2, <1>3, HostsInvariant, PTL DEF Spec

-----------------------------------------------------------------------------
(* The thread pool ends with nothing left to do.                            *)

\* The steps that only a thread of the pool takes.
PoolSteps ==
    {<<"manual", "done">>, <<"seed", "seeding">>, <<"inbound", "listen">>}
        \cup {<<"hosts", p>> : p \in {"start", "done"}}
        \cup {<<"seed", p>> : p \in {"start", "subscribe", "started", "done"}}

\* While a step is on the pool its threads run; they end after p2p::stop(), when
\* neither the accept loop nor a seed has anything to do.
PoolInv ==
    /\ onPool => threads
    /\ step \in PoolSteps => onPool
    /\ ~threads => /\ stopPc = "stopped" /\ acceptPc = "off"
                   /\ \A s \in Seeds : ~SeedBusy(s)

\* What has nothing left to do does nothing.
LEMMA IdleSeed ==
    ASSUME NEW s \in Seeds, SeedProceeds(s) \/ SeedPeer(s)
    PROVE  SeedBusy(s)
<1>1. CASE SeedStep(s)
  BY <1>1 DEF SeedStep, StartSeed, HandleConnect, RegisterChannel, StartProtocol, StartStopped,
       HandleTimer, StopSeed, HandleStopped, SeedBusy
<1>2. CASE PeerStep(s)
  BY <1>2 DEF PeerStep, HandleSend, ReceiveAddress, ChannelStops, SeedBusy
<1> QED BY <1>1, <1>2 DEF SeedProceeds, SeedPeer

\* A step of a pool whose threads run, which it leaves running.
LEMMA PoolRuns ==
    ASSUME PoolInv, threads' = threads, step' \in PoolSteps => onPool',
           \/ threads
           \/ ~onPool' /\ UNCHANGED <<stopPc, acceptPc, seedVars>>
    PROVE  PoolInv'
<1>1. CASE threads
  BY <1>1 DEF PoolInv
<1>2. CASE ~onPool' /\ UNCHANGED <<stopPc, acceptPc, seedVars>>
  <2>1. \A s \in Seeds : SeedBusy(s)' <=> SeedBusy(s)
    BY <1>2 DEF SeedBusy, StopDue, seedVars, joinVars, eventVars, wireVars
  <2> QED BY <1>2, <2>1 DEF PoolInv
<1> QED BY <1>1, <1>2

\* The start and run sequences take the steps of the pool on the pool.
LEMMA PoolSequence ==
    ASSUME PoolInv, Sequence \/ Run
    PROVE  PoolInv'
<1>0. (onPool => threads) /\ (step \in PoolSteps => onPool)
  BY DEF PoolInv
<1>1. ASSUME NEW k \in Session, StartSession(k) PROVE PoolInv'
  <2>1. UNCHANGED <<threads, onPool, stopPc, inboundVars, seedVars>>
    BY <1>1 DEF StartSession, SessionLive, Goes, poolVars, sessionVars
  <2>2. step' \in PoolSteps => step \in PoolSteps
    <3>1. step = <<k, "start">> /\ step' \in {<<k, "subscribe">>, <<k, "done">>}
      BY <1>1 DEF StartSession, Goes
    <3>2. k = "manual" => step' = <<k, "subscribe">>
      BY <1>1 DEF StartSession, Goes, Configured
    <3> QED BY <3>1, <3>2 DEF PoolSteps, Session
  <2> QED BY <1>0, <2>1, <2>2, PoolRuns DEF inboundVars
<1>2. ASSUME NEW k \in Session, SubscribeSession(k) PROVE PoolInv'
  <2>1. UNCHANGED <<threads, stopPc, inboundVars, seedVars>> /\ onPool' = threads
    BY <1>2 DEF SubscribeSession, SessionSubscribe
  <2>2. step' \in PoolSteps => step \in PoolSteps
    BY <1>2 DEF SubscribeSession, PoolSteps, Session
  <2> QED BY <1>0, <2>1, <2>2, PoolRuns DEF inboundVars
<1>3. ASSUME onPool, UNCHANGED <<threads, onPool>> PROVE PoolInv'
  BY <1>0, <1>3, PoolRuns
<1>4. CASE HandleSessionStarted \/ HandleSeedStarted \/ HandleInboundStarted
  BY <1>3, <1>4 DEF HandleSessionStarted, HandleSeedStarted, HandleInboundStarted, Goes, poolVars
<1>5. CASE HandleComplete \/ ListenInbound \/ StartHosts
  BY <1>0, <1>3, <1>5 DEF HandleComplete, ListenInbound, StartHosts, Goes, poolVars, PoolSteps
<1>6. ASSUME NEW call \in {"start", "run"}, NEW ec, Reports(call, ec),
             UNCHANGED <<sessionVars, seedVars, inboundVars>>
      PROVE  PoolInv'
  <2>1. step' \notin PoolSteps
    BY <1>6 DEF Reports, PoolSteps
  <2> QED BY <1>6, <2>1, PoolRuns DEF Reports, sessionVars, inboundVars
<1>7. CASE HandleManualStarted \/ HandleHostsLoaded \/ HandleStarted
  <2>1. step \in PoolSteps /\ UNCHANGED <<sessionVars, seedVars, inboundVars>>
    BY <1>7 DEF HandleManualStarted, HandleHostsLoaded, HandleStarted, PoolSteps
  <2>2. (\E ec : Reports("start", ec)) \/ UNCHANGED <<threads, onPool>>
    BY <1>7 DEF HandleManualStarted, HandleHostsLoaded, HandleStarted, Goes, poolVars
  <2> QED BY <1>0, <1>3, <1>6, <2>1, <2>2
<1>8. CASE HandleInboundDone \/ HandleRunning
  <2>1. UNCHANGED <<sessionVars, seedVars, inboundVars>>
    BY <1>8 DEF HandleInboundDone, HandleRunning
  <2>2. CASE Reports("run", code)
    BY <1>6, <2>1, <2>2
  <2>3. CASE Goes(<<"outbound", "start">>, "success")
    <3>1. step' \notin PoolSteps /\ UNCHANGED <<threads, onPool>>
      BY <2>3 DEF Goes, poolVars, PoolSteps
    <3> QED BY <1>0, <2>1, <3>1, PoolRuns DEF sessionVars, inboundVars
  <2> QED BY <1>8, <2>2, <2>3 DEF HandleInboundDone, HandleRunning
<1>9. CASE Run
  <2>1. step' \notin PoolSteps
    BY <1>9 DEF Run, PoolSteps
  <2>2. UNCHANGED <<threads, stopPc, acceptPc, seedVars>>
    BY <1>9 DEF Run, sessionVars, inboundVars
  <2>3. ~threads => ~onPool'
    BY <1>9, Zenon DEF Run
  <2> QED BY <2>1, <2>2, <2>3, PoolRuns
<1> QED BY <1>1, <1>2, <1>4, <1>5, <1>7, <1>8, <1>9 DEF Sequence

\* threadpool_.shutdown() of p2p::stop() lets the threads end, and what p2p::stop()
\* stopped before leaves nothing that begins later: for any seeds and settings,
\* once the threads have ended nothing is queued for them or under way on them,
\* whatever start() and run() still do.
THEOREM EndedPoolIsIdle == Spec => []EndedPoolIdle
<1>1. Init => PoolInv
  BY DEF Init, PoolInv, PoolSteps
<1>2. PoolInv /\ [Next]_vars => PoolInv'
  <2> SUFFICES ASSUME PoolInv, [Next]_vars PROVE PoolInv'
    OBVIOUS
  <2>0. /\ (onPool => threads) /\ (step \in PoolSteps => onPool)
        /\ ~threads => /\ stopPc = "stopped" /\ acceptPc = "off"
                       /\ \A s \in Seeds : ~SeedBusy(s)
    BY DEF PoolInv
  <2>1. CASE Sequence \/ Run
    BY <2>1, PoolSequence
  <2>2. ASSUME threads, UNCHANGED startVars PROVE PoolInv'
    BY <2>0, <2>2, PoolRuns DEF startVars, poolVars
  <2>3. CASE \E s \in Seeds : SeedProceeds(s) \/ SeedPeer(s)
    BY <2>0, <2>2, <2>3, IdleSeed DEF SeedProceeds, SeedPeer
  <2>4. CASE Stop \/ Stopping
    BY <2>0, <2>2, <2>4 DEF Stop, StopHosts, Stopping, Notify, NotifyNext, StopContinues, StopProceeds
  <2>5. CASE Accepting
    BY <2>0, <2>2, <2>5 DEF Accepting, AcceptLoop, StartAccept, Accept, HandleAccept, DelayEnds
  <2>6. CASE PoolEnds
    <3>1. \A s \in Seeds : ~SeedBusy(s)'
      BY <2>6 DEF PoolEnds, SeedBusy, StopDue, seedVars, joinVars, eventVars, wireVars
    <3>2. UNCHANGED <<step, onPool, stopPc, acceptPc>>
      BY <2>6 DEF PoolEnds, sessionVars, inboundVars
    <3> QED BY <2>0, <2>6, <3>1, <3>2 DEF PoolEnds, PoolInv
  <2>7. CASE UNCHANGED vars
    <3>1. UNCHANGED <<threads, onPool, step, stopPc, acceptPc, seedVars>>
      BY <2>7 DEF vars, startVars, poolVars, sessionVars, inboundVars
    <3> QED BY <2>0, <3>1, PoolRuns
  <2> QED BY <2>1, <2>3, <2>4, <2>5, <2>6, <2>7 DEF Next
<1>3. PoolInv => EndedPoolIdle
  BY DEF PoolInv, EndedPoolIdle
<1> QED BY <1>1, <1>2, <1>3, PTL DEF Spec

-----------------------------------------------------------------------------
(* No seed is lost.                                                         *)

\* A seed whose channel waits for its protocol has that channel, and one in its
\* protocol is timed until it completes.
WaitOK(s) ==
    /\ seed[s] \in {"idle", "start", "connect", "register", "attach"} => ~complete[s]
    /\ seed[s] = "attach" => channel[s] # "none"
    /\ seed[s] = "protocol" => handler[s] /\ timer[s] /\ ~complete[s]

WaitInv ==
    /\ timer \in [Seeds -> BOOLEAN]
    /\ step = <<"seed", "seeding">> => \A s \in settings.seeds : s \in Seeds => seed[s] # "idle"
    /\ \A s \in Seeds : WaitOK(s)

\* A step of seed s leaves the other seeds where they are.
LEMMA WaitOthers ==
    ASSUME SeedInv, WaitInv, NEW s \in Seeds, UNCHANGED <<step, settings>>,
           seed' \in {[seed EXCEPT ![s] = p] : p \in SeedSteps \ {"idle"}} \cup {seed},
           handler' \in {[handler EXCEPT ![s] = b] : b \in BOOLEAN} \cup {handler},
           timer' \in {[timer EXCEPT ![s] = b] : b \in BOOLEAN} \cup {timer},
           complete' \in {[complete EXCEPT ![s] = b] : b \in BOOLEAN} \cup {complete},
           channel' \in {[channel EXCEPT ![s] = c] : c \in {"open", "stopped"}} \cup {channel},
           WaitOK(s)'
    PROVE  WaitInv'
<1>1. /\ seed \in [Seeds -> SeedSteps] /\ handler \in [Seeds -> BOOLEAN]
      /\ complete \in [Seeds -> BOOLEAN] /\ channel \in [Seeds -> {"none", "open", "stopped"}]
      /\ timer \in [Seeds -> BOOLEAN]
  BY DEF SeedInv, SeedTypes, WaitInv
<1>2. timer' \in [Seeds -> BOOLEAN]
  BY <1>1
<1>3. \A t \in Seeds : seed[t] # "idle" => seed'[t] # "idle"
  BY <1>1
<1>4. ASSUME NEW t \in Seeds, t # s PROVE WaitOK(t)'
  <2>1. seed'[t] = seed[t] /\ channel'[t] = channel[t]
    BY <1>1, <1>4
  <2>2. handler'[t] = handler[t] /\ timer'[t] = timer[t] /\ complete'[t] = complete[t]
    BY <1>1, <1>4
  <2> QED BY <2>1, <2>2 DEF WaitInv, WaitOK
<1> QED BY <1>2, <1>3, <1>4 DEF WaitInv

\* An event of a seed in its protocol leaves it timed, or completes it.
LEMMA WaitEvent ==
    ASSUME SeedInv, WaitInv, NEW s \in Seeds, NEW ec, SetEvent(s, ec), UNCHANGED <<step, settings>>,
           channel' \in {[channel EXCEPT ![s] = "stopped"], channel}
    PROVE  WaitInv'
<1>1. /\ seed \in [Seeds -> SeedSteps] /\ handler \in [Seeds -> BOOLEAN]
      /\ complete \in [Seeds -> BOOLEAN] /\ channel \in [Seeds -> {"none", "open", "stopped"}]
      /\ timer \in [Seeds -> BOOLEAN]
  BY DEF SeedInv, SeedTypes, WaitInv
<1>2. /\ handler' = [handler EXCEPT ![s] = handler[s] /\ ec \notin StopCodes]
      /\ timer' = [timer EXCEPT ![s] = timer[s] /\ ~(handler[s] /\ ec = "channel_stopped")]
      /\ complete' = [complete EXCEPT ![s] = complete[s] \/ Fires(s, ec)]
  BY DEF SetEvent
<1>3. seed' = IF Fires(s, ec) THEN [seed EXCEPT ![s] = "closing"] ELSE seed
  BY DEF SetEvent, Completes
<1>4. WaitOK(s)'
  <2>1. CASE Fires(s, ec)
    BY <1>1, <1>3, <2>1 DEF WaitOK
  <2>2. CASE ~Fires(s, ec)
    <3>1. seed'[s] = seed[s] /\ complete'[s] = complete[s]
      BY <1>1, <1>2, <1>3, <2>2
    <3>2. seed[s] = "protocol" => handler[s] /\ timer[s] /\ ~complete[s]
      BY DEF WaitInv, WaitOK
    <3>3. seed[s] = "protocol" => ec = "success"
      BY <2>2, <3>2 DEF Fires
    <3>4. seed[s] = "protocol" => handler'[s] /\ timer'[s]
      BY <1>1, <1>2, <3>2, <3>3 DEF StopCodes
    <3>5. seed[s] = "attach" => channel'[s] # "none"
      BY <1>1 DEF WaitInv, WaitOK
    <3> QED BY <3>1, <3>2, <3>4, <3>5 DEF WaitInv, WaitOK
  <2> QED BY <2>1, <2>2
<1>5. seed' \in {[seed EXCEPT ![s] = p] : p \in SeedSteps \ {"idle"}} \cup {seed}
  BY <1>3 DEF SeedSteps
<1>6. /\ handler' \in {[handler EXCEPT ![s] = b] : b \in BOOLEAN} \cup {handler}
      /\ timer' \in {[timer EXCEPT ![s] = b] : b \in BOOLEAN} \cup {timer}
      /\ complete' \in {[complete EXCEPT ![s] = b] : b \in BOOLEAN} \cup {complete}
  BY <1>2
<1>7. channel' \in {[channel EXCEPT ![s] = c] : c \in {"open", "stopped"}} \cup {channel}
  OBVIOUS
<1> QED BY <1>4, <1>5, <1>6, <1>7, WaitOthers

\* What a seed does keeps it timed.
LEMMA WaitSeed ==
    ASSUME SeedInv, WaitInv, NEW s \in Seeds, SeedProceeds(s) \/ SeedPeer(s)
    PROVE  WaitInv'
<1>0. UNCHANGED <<settings, step>>
  BY SeedFrame
<1>1. /\ seed \in [Seeds -> SeedSteps] /\ handler \in [Seeds -> BOOLEAN]
      /\ complete \in [Seeds -> BOOLEAN] /\ channel \in [Seeds -> {"none", "open", "stopped"}]
      /\ timer \in [Seeds -> BOOLEAN]
  BY DEF SeedInv, SeedTypes, WaitInv
<1>2. WaitOK(s)
  BY DEF WaitInv
<1>3. CASE StartSeed(s) \/ HandleConnect(s) \/ RegisterChannel(s) \/ StopSeed(s)
  <2>1. UNCHANGED eventVars
    BY <1>3 DEF StartSeed, HandleConnect, RegisterChannel, StopSeed
  <2>2. \E p \in SeedSteps \ {"idle"} : seed' = [seed EXCEPT ![s] = p]
    BY <1>3 DEF StartSeed, HandleConnect, RegisterChannel, StopSeed, SeedGoes, SeedFails, SeedSteps
  <2>3. channel' \in {[channel EXCEPT ![s] = c] : c \in {"open", "stopped"}} \cup {channel}
    BY <1>3 DEF StartSeed, HandleConnect, RegisterChannel, StopSeed, wireVars
  <2>4. WaitOK(s)'
    BY <1>1, <1>2, <1>3, <2>1 DEF StartSeed, HandleConnect, RegisterChannel, StopSeed, SeedGoes,
         SeedFails, WaitOK, eventVars
  <2> QED BY <1>0, <2>1, <2>2, <2>3, <2>4, WaitOthers DEF eventVars
<1>4. CASE StartProtocol(s) \/ StartStopped(s)
  <2>1. \E p \in SeedSteps \ {"idle"} : seed' = [seed EXCEPT ![s] = p]
    BY <1>4 DEF StartProtocol, StartStopped, SeedGoes, Completes, SeedSteps
  <2>2. /\ handler' \in {[handler EXCEPT ![s] = TRUE], handler}
        /\ timer' \in {[timer EXCEPT ![s] = TRUE], timer}
        /\ complete' \in {[complete EXCEPT ![s] = TRUE], complete}
        /\ channel' = channel
    BY <1>4 DEF StartProtocol, StartStopped
  <2>3. WaitOK(s)'
    BY <1>1, <1>2, <1>4 DEF StartProtocol, StartStopped, SeedGoes, Completes, WaitOK
  <2> QED BY <1>0, <2>1, <2>2, <2>3, WaitOthers
<1>5. CASE HandleTimer(s)
  <2>1. /\ timer[s] /\ timer' = [timer EXCEPT ![s] = FALSE] /\ handler' = handler
        /\ channel' = channel
        /\ complete' = [complete EXCEPT ![s] = complete[s] \/ Fires(s, "channel_timeout")]
    BY <1>5 DEF HandleTimer, wireVars
  <2>2. seed' = IF Fires(s, "channel_timeout") THEN [seed EXCEPT ![s] = "closing"] ELSE seed
    BY <1>5 DEF HandleTimer, Completes
  <2>3. WaitOK(s)'
    BY <1>1, <1>2, <2>1, <2>2 DEF WaitOK, Fires
  <2>4. seed' \in {[seed EXCEPT ![s] = p] : p \in SeedSteps \ {"idle"}} \cup {seed}
    BY <2>2 DEF SeedSteps
  <2> QED BY <1>0, <2>1, <2>3, <2>4, WaitOthers
<1>6. CASE HandleStopped(s)
  BY <1>0, <1>6, WaitEvent DEF HandleStopped
<1>7. CASE ChannelStops(s)
  <2>1. UNCHANGED <<seed, eventVars>> /\ channel' = [channel EXCEPT ![s] = "stopped"]
    BY <1>7 DEF ChannelStops
  <2>2. WaitOK(s)'
    BY <1>1, <1>2, <2>1 DEF WaitOK, eventVars
  <2> QED BY <1>0, <2>1, <2>2, WaitOthers DEF eventVars
<1>8. ASSUME NEW m \in Messages, NEW ec \in SendCodes, HandleSend(s, m, ec) PROVE WaitInv'
  <2>1. channel' \in {[channel EXCEPT ![s] = "stopped"], channel}
    BY <1>1, <1>8 DEF HandleSend
  <2>2. CASE ec = "channel_stopped"
    <3>1. UNCHANGED <<seed, eventVars>> /\ channel' = [channel EXCEPT ![s] = "stopped"]
      BY <1>8, <2>2 DEF HandleSend
    <3>2. WaitOK(s)'
      BY <1>1, <1>2, <3>1 DEF WaitOK, eventVars
    <3> QED BY <1>0, <3>1, <3>2, WaitOthers DEF eventVars
  <2>3. CASE ec # "channel_stopped"
    <3>1. PICK e : SetEvent(s, e)
      BY <1>8, <2>3 DEF HandleSend
    <3> QED BY <1>0, <2>1, <3>1, WaitEvent
  <2> QED BY <2>2, <2>3
<1>9. ASSUME NEW n \in Yields, ReceiveAddress(s, n) PROVE WaitInv'
  <2>1. channel' = channel
    BY <1>9 DEF ReceiveAddress
  <2>2. CASE SetEvent(s, "channel_stopped")
    BY <1>0, <2>1, <2>2, WaitEvent
  <2>3. CASE UNCHANGED <<seed, eventVars>>
    BY <1>0, <1>1, <1>2, <2>1, <2>3, WaitOthers DEF WaitOK, eventVars
  <2> QED BY <1>9, <2>2, <2>3 DEF ReceiveAddress
<1> QED
  BY <1>3, <1>4, <1>5, <1>6, <1>7, <1>8, <1>9 DEF SeedProceeds, SeedPeer, SeedStep, PeerStep

\* Steps that leave the seeds alone and do not begin the seeding.
LEMMA WaitKept ==
    ASSUME WaitInv, UNCHANGED <<seedVars, settings>>,
           step' = <<"seed", "seeding">> => step = <<"seed", "seeding">>
    PROVE  WaitInv'
  BY DEF WaitInv, WaitOK, seedVars, eventVars, wireVars

\* The start of the seeding wakes every seed of the settings.
LEMMA WaitSequence ==
    ASSUME SeedInv, WaitInv, Sequence \/ Run
    PROVE  WaitInv'
<1>1. CASE HandleSeedStarted
  <2>1. settings' = settings /\ \A s \in Seeds : seed[s] = "idle"
    BY <1>1 DEF HandleSeedStarted, StartSeeding, sessionVars, SeedInv, BeforeSeeding
  <2>2. CASE UNCHANGED seedVars /\ step' = <<"seed", "done">>
    BY <2>1, <2>2, WaitKept
  <2>3. CASE StartSeeding
    <3>1. UNCHANGED <<eventVars, wireVars>>
      BY <2>3 DEF StartSeeding
    <3>2. \A s \in Seeds : seed'[s] = IF s \in settings.seeds THEN "start" ELSE "idle"
      BY <2>3 DEF StartSeeding
    <3> QED BY <2>1, <3>1, <3>2 DEF WaitInv, WaitOK, eventVars, wireVars
  <2> QED BY <1>1, <2>2, <2>3 DEF HandleSeedStarted, Goes
<1>2. CASE ~HandleSeedStarted
  <2>1. step' = <<"seed", "seeding">> => step = <<"seed", "seeding">>
    BY <1>2, SeedingBegins
  <2> QED BY <1>2, <2>1, SequenceFrame, WaitKept
<1> QED BY <1>1, <1>2

\* The seeds keep their timers, whatever the rest of the network does.
LEMMA WaitInvariant == Spec => []WaitInv
<1>1. Init => WaitInv
  <2> SUFFICES ASSUME Init PROVE WaitInv
    OBVIOUS
  <2>1. \A s \in Seeds : seed[s] = "idle" /\ ~complete[s]
    BY DEF Init, InitSeeding
  <2>2. timer \in [Seeds -> BOOLEAN] /\ step # <<"seed", "seeding">>
    BY DEF Init, InitSeeding
  <2> QED BY <2>1, <2>2 DEF WaitInv, WaitOK
<1>2. SeedInv /\ WaitInv /\ [Next]_vars => WaitInv'
  <2> SUFFICES ASSUME SeedInv, WaitInv, [Next]_vars PROVE WaitInv'
    OBVIOUS
  <2>1. CASE Sequence \/ Run
    BY <2>1, WaitSequence
  <2>2. CASE \E s \in Seeds : SeedProceeds(s) \/ SeedPeer(s)
    BY <2>2, WaitSeed
  <2>3. CASE Stop \/ Stopping \/ Accepting \/ PoolEnds \/ UNCHANGED vars
    BY <2>3, RestFrame, WaitKept
  <2> QED BY <2>1, <2>2, <2>3 DEF Next
<1> QED BY <1>1, <1>2, SeedInvariant, PTL DEF Spec

-----------------------------------------------------------------------------
(* The seeding waits for its seeds.  The library's facts about finite sets  *)
(* are only needed from here on.                                            *)
INSTANCE FiniteSetTheorems

JoinedSeeds == {s \in Seeds : joined[s] = 1}

\* The synchronizer has counted the seeds that were joined, which are seeds of
\* the settings.
AwaitInv ==
    /\ settings.seeds \in SUBSET Seeds
    /\ \A s \in Seeds : seed[s] # "idle" => s \in settings.seeds
    /\ counted = Cardinality(JoinedSeeds)
    /\ SeedsAwaited

\* What a seed does joins that seed or none, and wakes no seed.
LEMMA SeedJoins ==
    ASSUME SeedInv, NEW s \in Seeds, SeedProceeds(s) \/ SeedPeer(s)
    PROVE  /\ JoinSeed(s) \/ UNCHANGED joinVars
           /\ \A t \in Seeds : seed'[t] # "idle" => seed[t] # "idle"
<1> DEFINE Joins == JoinSeed(s) \/ UNCHANGED joinVars
           Wakes == \A t \in Seeds : seed'[t] # "idle" => seed[t] # "idle"
<1> SUFFICES Joins /\ Wakes
  OBVIOUS
<1>0. seed \in [Seeds -> SeedSteps] /\ (handler[s] => seed[s] # "idle")
  BY DEF SeedInv, SeedTypes, SeedOK
<1>1. ASSUME NEW p, seed[s] # "idle", seed' = [seed EXCEPT ![s] = p] PROVE Wakes
  BY <1>0, <1>1
<1>2. ASSUME NEW ec, SetEvent(s, ec) PROVE Joins /\ Wakes
  <2>1. CASE Fires(s, ec)
    BY <1>0, <1>1, <1>2, <2>1 DEF SetEvent, Completes, Fires
  <2>2. CASE ~Fires(s, ec)
    BY <1>2, <2>2 DEF SetEvent, Completes
  <2> QED BY <2>1, <2>2
<1>3. CASE StartSeed(s) \/ HandleConnect(s) \/ RegisterChannel(s)
  BY <1>1, <1>3 DEF StartSeed, HandleConnect, RegisterChannel, SeedFails, SeedGoes
<1>4. CASE StartProtocol(s) \/ StartStopped(s) \/ StopSeed(s)
  BY <1>1, <1>4 DEF StartProtocol, StartStopped, StopSeed, SeedGoes, Completes
<1>5. CASE HandleTimer(s)
  <2>1. CASE Fires(s, "channel_timeout")
    BY <1>0, <1>1, <1>5, <2>1 DEF HandleTimer, Completes, Fires
  <2>2. CASE ~Fires(s, "channel_timeout")
    BY <1>5, <2>2 DEF HandleTimer, Completes
  <2> QED BY <2>1, <2>2
<1>6. CASE HandleStopped(s) \/ ChannelStops(s)
  BY <1>2, <1>6 DEF HandleStopped, ChannelStops
<1>7. ASSUME NEW m \in Messages, NEW ec \in SendCodes, HandleSend(s, m, ec) PROVE Joins /\ Wakes
  BY <1>2, <1>7 DEF HandleSend
<1>8. ASSUME NEW n \in Yields, ReceiveAddress(s, n) PROVE Joins /\ Wakes
  BY <1>2, <1>8 DEF ReceiveAddress
<1> HIDE DEF Joins, Wakes
<1> QED
  BY <1>3, <1>4, <1>5, <1>6, <1>7, <1>8 DEF SeedProceeds, SeedPeer, SeedStep, PeerStep

\* The joined seeds can be counted, and are seeds of the settings.
LEMMA JoinedFinite ==
    ASSUME SeedInv, AwaitInv
    PROVE  /\ IsFiniteSet(settings.seeds)
           /\ JoinedSeeds \in SUBSET settings.seeds
           /\ IsFiniteSet(JoinedSeeds)
<1>1. IsFiniteSet(settings.seeds)
  BY FS_Subset, SeedingAssumption DEF AwaitInv
<1>2. JoinedSeeds \in SUBSET settings.seeds
  <2> SUFFICES ASSUME NEW s \in Seeds, joined[s] = 1 PROVE s \in settings.seeds
    BY DEF JoinedSeeds
  <2>1. joined[s] = (IF seed[s] \in {"closing", "done"} THEN 1 ELSE 0)
    BY Zenon DEF SeedInv, SeedOK
  <2>2. seed[s] # "idle"
    BY <2>1
  <2> QED BY <2>2 DEF AwaitInv
<1> QED BY <1>1, <1>2, FS_Subset

\* A step of a seed keeps the count.
LEMMA AwaitSeed ==
    ASSUME SeedInv, SeedInv', AwaitInv, NEW s \in Seeds, SeedProceeds(s) \/ SeedPeer(s)
    PROVE  AwaitInv'
<1>1. UNCHANGED <<settings, step>>
  BY SeedFrame
<1>2. \A t \in Seeds : seed'[t] # "idle" => seed[t] # "idle"
  BY SeedJoins
<1>3. \A t \in Seeds : joined[t] \in {0, 1} /\ joined'[t] \in {0, 1}
  BY DEF SeedInv, SeedOK
<1>4. CASE UNCHANGED joinVars
  BY <1>1, <1>2, <1>4 DEF AwaitInv, JoinedSeeds, SeedsAwaited, joinVars
<1>5. CASE JoinSeed(s)
  <2>1. joined \in [Seeds -> Nat]
    BY DEF SeedInv, SeedTypes
  <2>2. joined'[s] = joined[s] + 1 /\ \A t \in Seeds : t # s => joined'[t] = joined[t]
    BY <1>5, <2>1 DEF JoinSeed
  <2>3. joined[s] = 0 /\ joined'[s] = 1
    BY <1>3, <2>2
  <2>4. JoinedSeeds' = JoinedSeeds \cup {s} /\ s \notin JoinedSeeds
    BY <2>2, <2>3 DEF JoinedSeeds
  <2>5. Cardinality(JoinedSeeds') = Cardinality(JoinedSeeds) + 1
    <3>1. IsFiniteSet(JoinedSeeds)
      BY JoinedFinite
    <3> QED BY <2>4, <3>1, FS_AddElement, Zenon
  <2>6. SeedsAwaited'
    BY <1>1, <1>2, <2>2, <2>3 DEF AwaitInv, SeedsAwaited
  <2> QED BY <1>1, <1>2, <1>5, <2>5, <2>6 DEF AwaitInv, JoinSeed
<1> QED BY <1>4, <1>5, SeedJoins

\* The end of the seeding finds all seeds joined.
LEMMA AwaitSequence ==
    ASSUME SeedInv, AwaitInv, Sequence \/ Run
    PROVE  AwaitInv'
<1>1. CASE HandleSeedStarted
  <2>1. settings' = settings /\ step = <<"seed", "started">>
    BY <1>1 DEF HandleSeedStarted, StartSeeding, sessionVars
  <2>2. CASE UNCHANGED seedVars
    BY <2>1, <2>2 DEF AwaitInv, JoinedSeeds, SeedsAwaited, seedVars, joinVars
  <2>3. CASE StartSeeding /\ step' = <<"seed", "seeding">>
    BY <2>1, <2>3 DEF StartSeeding, AwaitInv, JoinedSeeds, SeedsAwaited, joinVars
  <2> QED BY <1>1, <2>2, <2>3 DEF HandleSeedStarted, Goes
<1>2. CASE ~HandleSeedStarted
  <2>1. UNCHANGED <<seed, joined, counted, settings>>
    BY <1>2, SequenceFrame DEF seedVars, joinVars
  <2>2. SeedsAwaited'
    <3>1. CASE step = <<"seed", "seeding">>
      <4>1. Cardinality(JoinedSeeds) = Cardinality(settings.seeds)
        BY <1>2, <3>1, SequenceFrame DEF Joined, AwaitInv
      <4>2. JoinedSeeds = settings.seeds
        BY <4>1, JoinedFinite, FS_Subset
      <4> QED BY <2>1, <4>2 DEF JoinedSeeds, SeedsAwaited
    <3>2. CASE step # <<"seed", "seeding">>
      BY <2>1, <3>2 DEF AwaitInv, SeedsAwaited
    <3> QED BY <3>1, <3>2
  <2> QED BY <2>1, <2>2 DEF AwaitInv, JoinedSeeds
<1> QED BY <1>1, <1>2

\* The count of the seeds is right throughout.
LEMMA AwaitInvariant == Spec => []AwaitInv
<1>1. Init => AwaitInv
  <2> SUFFICES ASSUME Init PROVE AwaitInv
    OBVIOUS
  <2>1. settings.seeds \in SUBSET Seeds
    BY StartupAssumption DEF Init, Settings
  <2>2. JoinedSeeds = {}
    BY DEF Init, InitSeeding, JoinedSeeds
  <2>3. counted = Cardinality(JoinedSeeds)
    BY <2>2, FS_EmptySet DEF Init, InitSeeding
  <2> QED BY <2>1, <2>3 DEF Init, InitSeeding, AwaitInv, SeedsAwaited
<1>2. SeedInv /\ SeedInv' /\ AwaitInv /\ [Next]_vars => AwaitInv'
  <2> SUFFICES ASSUME SeedInv, SeedInv', AwaitInv, [Next]_vars PROVE AwaitInv'
    OBVIOUS
  <2>1. CASE Sequence \/ Run
    BY <2>1, AwaitSequence
  <2>2. CASE \E s \in Seeds : SeedProceeds(s) \/ SeedPeer(s)
    BY <2>2, AwaitSeed
  <2>3. CASE Stop \/ Stopping \/ Accepting \/ PoolEnds \/ UNCHANGED vars
    <3>1. UNCHANGED <<seedVars, step, settings>>
      BY <2>3, RestFrame
    <3> QED BY <3>1 DEF AwaitInv, JoinedSeeds, SeedsAwaited, seedVars, joinVars
  <2> QED BY <2>1, <2>2, <2>3 DEF Next
<1> QED BY <1>1, <1>2, SeedInvariant, PTL DEF Spec

\* start_seeding(): the join handler only counts, and yet the seeding of any
\* set of seeds does not end before each of them has: a seed that was counted
\* twice would let another go unawaited.
THEOREM SeedsAreAwaited == Spec => []SeedsAwaited
<1>1. AwaitInv => SeedsAwaited
  BY DEF AwaitInv
<1> QED BY <1>1, AwaitInvariant, PTL

\* The seeding is never left waiting for nothing: as long as session_seed's
\* synchronizer is not joined, some seed is still to connect, to register or to
\* start its protocol, or its protocol_seed_31402 runs with its handler set and
\* its timer started (protocol_seed_31402.cpp 48-67, protocol_timer.cpp 46-90).
THEOREM SeedsGoOn == Spec => []SeedToCome
<1>1. SeedInv /\ AwaitInv /\ WaitInv => SeedToCome
  <2> SUFFICES ASSUME SeedInv, AwaitInv, WaitInv, step = <<"seed", "seeding">>, ~Joined
               PROVE  \E s \in settings.seeds :
                         \/ seed[s] \in {"start", "connect", "register"}
                         \/ seed[s] = "attach" /\ channel[s] \in {"open", "stopped"}
                         \/ seed[s] = "protocol" /\ handler[s] /\ timer[s] /\ ~complete[s]
    BY DEF SeedToCome
  <2>1. JoinedSeeds # settings.seeds
    BY DEF Joined, AwaitInv
  <2>2. PICK s \in settings.seeds : s \in Seeds /\ s \notin JoinedSeeds
    BY <2>1, JoinedFinite DEF AwaitInv
  <2>3. seed[s] \in SeedSteps \ {"idle", "closing", "done"}
    BY <2>2 DEF JoinedSeeds, SeedInv, SeedTypes, SeedOK, WaitInv
  <2>4. channel[s] \in {"none", "open", "stopped"}
    BY <2>2 DEF SeedInv, SeedTypes
  <2>5. WaitOK(s)
    BY <2>2 DEF WaitInv
  <2> QED BY <2>3, <2>4, <2>5 DEF SeedSteps, WaitOK
<1> QED BY <1>1, SeedInvariant, AwaitInvariant, WaitInvariant, PTL
==============================================================================
