---------------------------- MODULE ConnectBatch -----------------------------
(***************************************************************************)
(* One batch of the outbound session (src/sessions/session_batch.cpp): it  *)
(* starts connect_batch_size connectors (src/connector.cpp) and reports    *)
(* the first success, or a failure when all have failed, while p2p::stop() *)
(* stops the session and the pended connectors from another thread.  The   *)
(* manual and seed sessions use a single connector the same way.           *)
(*                                                                         *)
(* A connector resolves the host, then races its timer against the TCP     *)
(* connect; a synchronizer passes the first answer on.  Each callback is a *)
(* step, since each takes the connector's mutex or runs on the thread pool *)
(* by itself.  The synchronizers, the deadline timer, the resolver and the *)
(* socket are libraries, modelled from their use here.                     *)
(***************************************************************************)
EXTENDS Naturals, FiniteSets

CONSTANT BatchSize      \* batch_size_, settings.connect_batch_size or one

ASSUME BatchAssumption == BatchSize \in Nat \ {0}

Connector == 1..BatchSize

VARIABLES
    sessionStopped,     \* the session's stopped_
    refused,            \* pending_connect_ is stopped
    pended,             \* pending_connect_
    toStop,             \* connectors pending_connect_.stop() has yet to stop
    pc,                 \* per connector: how far its connect sequence is
    stopped,            \* per connector: stopped_
    timer,              \* per connector: its deadline timer
    tcp,                \* per connector: the asynchronous TCP connect
    joined,             \* per connector: its synchronizer has passed an answer
    calls,              \* per connector: how often its handler was invoked
    answer,             \* per connector: the code its handler was given
    handled,            \* connectors whose handle_connect has run
    count,              \* calls of the batch's synchronizer until it cleared
    told,               \* how often the batch's handler was invoked
    outcome             \* the code the batch's handler was given

connectorVars == <<stopped, timer, tcp, joined, calls, answer>>
batchVars == <<handled, count, told, outcome>>
stopVars == <<sessionStopped, refused, toStop>>
vars == <<stopVars, pended, pc, connectorVars, batchVars>>

TcpCodes == {"success", "connect_failed"}
Codes == TcpCodes \cup {"service_stopped", "channel_stopped", "address_unavailable",
                       "resolve_failed", "channel_timeout"}

PcValues == {"new", "fetch", "pend", "connect", "resolve", "race", "answered", "done"}

Init ==
    /\ sessionStopped = FALSE
    /\ refused = FALSE
    /\ pended = {}
    /\ toStop = {}
    /\ pc = [n \in Connector |-> "new"]
    /\ stopped = [n \in Connector |-> FALSE]
    /\ timer = [n \in Connector |-> "none"]
    /\ tcp = [n \in Connector |-> "none"]
    /\ joined = [n \in Connector |-> FALSE]
    /\ calls = [n \in Connector |-> 0]
    /\ answer = [n \in Connector |-> "none"]
    /\ handled = {}
    /\ count = 0
    /\ told = 0
    /\ outcome = "none"

\* The loop of session_batch::connect() starts the connectors in turn.
Turn(n) == \A m \in Connector : m < n => pc[m] \notin {"new", "fetch", "pend", "connect"}

-----------------------------------------------------------------------------
(* The batch's synchronizer, of BatchSize calls, terminates on success.     *)

\* The synchronizer counts up to n and invokes the batch's handler if due.
Clear(n, due, code) ==
    /\ count' = n
    /\ told' = IF due THEN told + 1 ELSE told
    /\ outcome' = IF due THEN code ELSE outcome

\* A mutant of JoinBatch: a success does not keep later answers from counting.
JoinBatchUncleared(code) ==
    IF count < BatchSize
    THEN Clear(count + 1, code = "success" \/ count + 1 = BatchSize, code)
    ELSE UNCHANGED <<count, told, outcome>>

\* A call after the synchronizer has cleared is ignored.
JoinBatch(code) ==
    IF count < BatchSize
    THEN LET n == IF code = "success" THEN BatchSize ELSE count + 1
         IN  Clear(n, n = BatchSize, code)
    ELSE UNCHANGED <<count, told, outcome>>

\* An attempt that fails before it has a connector.
NotConnected(n, code) ==
    /\ pc' = [pc EXCEPT ![n] = "done"]
    /\ handled' = handled \cup {n}
    /\ JoinBatch(code)

-----------------------------------------------------------------------------
(* The start of one attempt.                                                *)

\* session_batch::new_connect().
NewConnect(n) ==
    /\ pc[n] = "new"
    /\ Turn(n)
    /\ \/ sessionStopped /\ NotConnected(n, "channel_stopped")
       \/ ~sessionStopped /\ pc' = [pc EXCEPT ![n] = "fetch"] /\ UNCHANGED batchVars
    /\ UNCHANGED <<stopVars, pended, connectorVars>>

\* session_batch::start_connect() up to the connector: the pool, which stops
\* before the session, or the session may have stopped, the pool may be empty,
\* the address may be blacklisted.
StartConnect(n) ==
    /\ pc[n] = "fetch"
    /\ \/ NotConnected(n, "service_stopped")
       \/ ~sessionStopped /\ NotConnected(n, "address_unavailable")
       \/ ~sessionStopped /\ pc' = [pc EXCEPT ![n] = "pend"] /\ UNCHANGED batchVars
    /\ UNCHANGED <<stopVars, pended, connectorVars>>

\* pend(connector), whose code start_connect() ignores.
Pend(n) ==
    /\ pc[n] = "pend"
    /\ pended' = IF refused THEN pended ELSE pended \cup {n}
    /\ pc' = [pc EXCEPT ![n] = "connect"]
    /\ UNCHANGED <<stopVars, connectorVars, batchVars>>

-----------------------------------------------------------------------------
(* The connector.                                                           *)

\* The handler of the connector is invoked.
Answer(n, code) ==
    /\ calls' = [calls EXCEPT ![n] = @ + 1]
    /\ answer' = [answer EXCEPT ![n] = code]
    /\ pc' = [pc EXCEPT ![n] = "answered"]

\* connector::stop(): a timer that has not expired will not call back.
Stop(n) ==
    /\ stopped' = [stopped EXCEPT ![n] = TRUE]
    /\ timer' = [timer EXCEPT ![n] = IF @ = "armed" /\ ~stopped[n] THEN "none" ELSE @]

\* connector::connect().
Connect(n) ==
    /\ pc[n] = "connect"
    /\ \/ stopped[n] /\ Answer(n, "service_stopped")
       \/ ~stopped[n] /\ pc' = [pc EXCEPT ![n] = "resolve"] /\ UNCHANGED <<calls, answer>>
    /\ UNCHANGED <<stopVars, pended, stopped, timer, tcp, joined, batchVars>>

\* A mutant of HandleResolve: the timer is not started.
HandleResolveUntimed(n) ==
    /\ pc[n] = "resolve"
    /\ \/ /\ \/ stopped[n] /\ Answer(n, "service_stopped")
             \/ ~stopped[n] /\ Answer(n, "resolve_failed")
          /\ UNCHANGED <<timer, tcp>>
       \/ /\ ~stopped[n]
          /\ pc' = [pc EXCEPT ![n] = "race"]
          /\ tcp' = [tcp EXCEPT ![n] = "connecting"]
          /\ UNCHANGED <<timer, calls, answer>>
    /\ UNCHANGED <<stopVars, pended, stopped, joined, batchVars>>

\* connector::handle_resolve(): stopped, failed, or the race begins.
HandleResolve(n) ==
    /\ pc[n] = "resolve"
    /\ \/ /\ \/ stopped[n] /\ Answer(n, "service_stopped")
             \/ ~stopped[n] /\ Answer(n, "resolve_failed")
          /\ UNCHANGED <<timer, tcp>>
       \/ /\ ~stopped[n]
          /\ pc' = [pc EXCEPT ![n] = "race"]
          /\ timer' = [timer EXCEPT ![n] = "armed"]
          /\ tcp' = [tcp EXCEPT ![n] = "connecting"]
          /\ UNCHANGED <<calls, answer>>
    /\ UNCHANGED <<stopVars, pended, stopped, joined, batchVars>>

\* A mutant of Join: every answer is passed on.
JoinAll(n, code) ==
    /\ joined' = [joined EXCEPT ![n] = TRUE]
    /\ Answer(n, code)

\* The connector's synchronizer, of one call, manages the timer-connect race.
Join(n, code) ==
    IF joined[n] THEN UNCHANGED <<joined, calls, answer, pc>>
    ELSE joined' = [joined EXCEPT ![n] = TRUE] /\ Answer(n, code)

\* The timer expires and its callback is queued: a stop is too late for it.
TimerExpires(n) ==
    /\ timer[n] = "armed"
    /\ timer' = [timer EXCEPT ![n] = "expired"]
    /\ UNCHANGED <<stopVars, pended, pc, stopped, tcp, joined, calls, answer, batchVars>>

\* connector::handle_timer().
HandleTimer(n) ==
    /\ timer[n] = "expired"
    /\ timer' = [timer EXCEPT ![n] = "none"]
    /\ Join(n, "channel_timeout")
    /\ UNCHANGED <<stopVars, pended, stopped, tcp, batchVars>>

\* connector::handle_connect(): the channel of an answer that is not passed on
\* is dropped, and closes its socket.
HandleTcp(n, code) ==
    /\ tcp[n] = "connecting"
    /\ tcp' = [tcp EXCEPT ![n] = "none"]
    /\ Join(n, code)
    /\ UNCHANGED <<stopVars, pended, stopped, timer, batchVars>>

\* A mutant of HandleConnect: the connector is not unpended on an error.
HandleConnectKeeps(n) ==
    /\ pc[n] = "answered"
    /\ n \notin handled
    /\ handled' = handled \cup {n}
    /\ IF answer[n] = "success"
       THEN Stop(n) /\ pended' = pended \ {n}
       ELSE UNCHANGED <<stopped, timer, pended>>
    /\ pc' = [pc EXCEPT ![n] = "done"]
    /\ JoinBatch(answer[n])
    /\ UNCHANGED <<stopVars, tcp, joined, calls, answer>>

\* session_batch::handle_connect() and p2p::unpend().
HandleConnect(n) ==
    /\ pc[n] = "answered"
    /\ handled' = handled \cup {n}
    /\ Stop(n)
    /\ pended' = pended \ {n}
    /\ pc' = [pc EXCEPT ![n] = "done"]
    /\ JoinBatch(answer[n])
    /\ UNCHANGED <<stopVars, tcp, joined, calls, answer>>

-----------------------------------------------------------------------------
(* p2p::stop(): the session, then the pended connectors.                    *)

StopSession ==
    /\ ~sessionStopped
    /\ sessionStopped' = TRUE
    /\ UNCHANGED <<refused, toStop, pended, pc, connectorVars, batchVars>>

\* pending_connect_.stop() refuses from now on and copies the connectors.
StopPending ==
    /\ sessionStopped
    /\ ~refused
    /\ refused' = TRUE
    /\ toStop' = pended
    /\ UNCHANGED <<sessionStopped, pended, pc, connectorVars, batchVars>>

StopConnector(n) ==
    /\ n \in toStop
    /\ toStop' = toStop \ {n}
    /\ Stop(n)
    /\ UNCHANGED <<sessionStopped, refused, pended, pc, tcp, joined, calls, answer, batchVars>>

-----------------------------------------------------------------------------
\* What the thread pool and the timer of connector n do.
Proceed(n) ==
    \/ NewConnect(n) \/ StartConnect(n) \/ Pend(n) \/ Connect(n) \/ HandleResolve(n)
    \/ HandleConnect(n)

Expire(n) == TimerExpires(n) \/ HandleTimer(n)

Next ==
    \/ StopSession \/ StopPending
    \/ \E n \in Connector :
          \/ Proceed(n) \/ Expire(n) \/ StopConnector(n)
          \/ \E code \in TcpCodes : HandleTcp(n, code)

Spec == Init /\ [][Next]_vars

\* Threads are scheduled, names are resolved and timers expire; a peer may
\* never answer a TCP connect.
FairSpec == Spec /\ \A n \in Connector : WF_vars(Proceed(n)) /\ WF_vars(Expire(n))

-----------------------------------------------------------------------------
\* The state of the batch has the shape of the code's.
TypeOK ==
    /\ sessionStopped \in BOOLEAN
    /\ refused \in BOOLEAN
    /\ pended \subseteq Connector
    /\ toStop \subseteq Connector
    /\ pc \in [Connector -> PcValues]
    /\ stopped \in [Connector -> BOOLEAN]
    /\ timer \in [Connector -> {"none", "armed", "expired"}]
    /\ tcp \in [Connector -> {"none", "connecting"}]
    /\ joined \in [Connector -> BOOLEAN]
    /\ calls \in [Connector -> Nat]
    /\ answer \in [Connector -> Codes \cup {"none"}]
    /\ handled \subseteq Connector
    /\ count \in 0..BatchSize
    /\ told \in Nat
    /\ outcome \in Codes \cup {"none"}

\* A connector answers its session at most once, although the timer, the TCP
\* connect, the resolver and a stop each end the attempt.
AnsweredOnce == \A n \in Connector : calls[n] <= 1

\* The batch's handler is called once, with the first success or when the last
\* attempt has failed, and with a success exactly when an attempt succeeded,
\* whatever order the connectors answer in: one connection cycle of the
\* outbound session neither becomes two, nor ends early, nor is lost.
DecidedOnce ==
    LET won == \E n \in handled : answer[n] = "success"
    IN  /\ told = IF won \/ handled = Connector THEN 1 ELSE 0
        /\ told = 1 => (outcome = "success" <=> won)

\* A connector that has answered and has no callback left is stopped, as its
\* destructor asserts, and is no longer pended.
EndedIsStopped ==
    \A n \in Connector : pc[n] = "done" /\ calls[n] > 0 => stopped[n] /\ n \notin pended

\* No attempt is lost: a race goes on as long as its TCP connect does, and is
\* timed, unless p2p::stop() has stopped the connector and with it the timer.
AttemptTimed ==
    \A n \in Connector :
        pc[n] = "race" =>
            /\ tcp[n] = "connecting"
            /\ timer[n] # "none" \/ (stopped[n] /\ sessionStopped)

\* While the session runs, the timers alone complete the batch, even if no
\* peer ever answers.
BatchCompletes == <>(told > 0 \/ sessionStopped)
==============================================================================
