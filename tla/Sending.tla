------------------------------- MODULE Sending --------------------------------
(***************************************************************************)
(* The send sequence of proxy.cpp, on each of a set of channels.           *)
(*                                                                         *)
(* proxy::send() is called by protocols and by p2p::broadcast() on any     *)
(* thread.  The dispatcher's sequencer (external) posts do_send() when it  *)
(* is free and queues it otherwise; unlock() posts the next one.  The      *)
(* queue here holds the actions that have not run: `posted' says that its  *)
(* head has been handed to the thread pool.  handle_send() unlocks first,  *)
(* so the steps that follow it run beside the next write.                  *)
(***************************************************************************)
EXTENDS Sequences

CONSTANTS Channel, Message

VARIABLES
    stopped,    \* per channel: stopped_
    closed,     \* per channel: socket_->stop() was called
    queue,      \* per channel: the sends whose do_send() has not run, in order
    executing,  \* per channel: the sequencer is locked
    posted,     \* per channel: the head of the queue is posted
    stage,      \* per channel and message: the next step of the send
    result      \* per channel and message: the code of the write

sequencerVars == <<queue, executing, posted>>
stopVars == <<stopped, closed>>
sendingVars == <<stopVars, sequencerVars, stage, result>>

Stages == {"new", "queued", "writing", "unlocked", "stop", "close", "report", "join", "reported"}

InitSending ==
    /\ stopped = [c \in Channel |-> FALSE]
    /\ closed = [c \in Channel |-> FALSE]
    /\ queue = [c \in Channel |-> <<>>]
    /\ executing = [c \in Channel |-> FALSE]
    /\ posted = [c \in Channel |-> FALSE]
    /\ stage = [c \in Channel |-> [m \in Message |-> "new"]]
    /\ result = [c \in Channel |-> [m \in Message |-> "none"]]

Advance(c, m, from, to) ==
    /\ stage[c][m] = from
    /\ stage' = [stage EXCEPT ![c][m] = to]

-----------------------------------------------------------------------------
\* sequencer::lock(): post the action, or queue it while another one runs.
Lock(c, m) ==
    /\ queue' = [queue EXCEPT ![c] = Append(@, m)]
    /\ executing' = [executing EXCEPT ![c] = TRUE]
    /\ posted' = [posted EXCEPT ![c] = @ \/ ~executing[c]]

\* sequencer::unlock(): post the next action, if there is one.
Unlock(c) ==
    /\ executing' = [executing EXCEPT ![c] = queue[c] # <<>>]
    /\ posted' = [posted EXCEPT ![c] = queue[c] # <<>>]
    /\ queue' = queue

\* A mutant of Send: the dispatch is concurrent, not sequential.
SendConcurrent(c, m) ==
    /\ Advance(c, m, "new", "queued")
    /\ queue' = [queue EXCEPT ![c] = Append(@, m)]
    /\ executing' = [executing EXCEPT ![c] = TRUE]
    /\ posted' = [posted EXCEPT ![c] = TRUE]
    /\ UNCHANGED <<stopVars, result>>

\* proxy::send(), whether or not the channel is stopped.
Send(c, m) ==
    /\ Advance(c, m, "new", "queued")
    /\ Lock(c, m)
    /\ UNCHANGED <<stopVars, result>>

\* proxy::do_send(): a write that begins on a closed socket fails.
DoSend(c) ==
    /\ posted[c]
    /\ posted' = [posted EXCEPT ![c] = FALSE]
    /\ queue' = [queue EXCEPT ![c] = Tail(@)]
    /\ Advance(c, Head(queue[c]), "queued", "writing")
    /\ result' = [result EXCEPT ![c][Head(queue[c])] = IF closed[c] THEN "failed" ELSE "none"]
    /\ UNCHANGED <<stopVars, executing>>

\* A mutant of HandleSend: only a write that succeeds unlocks the dispatcher.
HandleSendLocked(c, m, ec) ==
    /\ Advance(c, m, "writing", "unlocked")
    /\ result[c][m] \in {"none", ec}
    /\ result' = [result EXCEPT ![c][m] = ec]
    /\ IF ec = "success" THEN Unlock(c) ELSE UNCHANGED sequencerVars
    /\ UNCHANGED stopVars

\* proxy::handle_send(), up to the test of stopped(): the write has ended.
HandleSend(c, m, ec) ==
    /\ Advance(c, m, "writing", "unlocked")
    /\ result[c][m] \in {"none", ec}
    /\ result' = [result EXCEPT ![c][m] = ec]
    /\ Unlock(c)
    /\ UNCHANGED stopVars

\* handle_send(): the error of a running channel stops it first.
TestStopped(c, m) ==
    /\ Advance(c, m, "unlocked", IF stopped[c] \/ result[c][m] = "success" THEN "report" ELSE "stop")
    /\ UNCHANGED <<stopVars, sequencerVars, result>>

\* handle_send(): the stop(error), of which the flag and the socket matter here.
StopOnError(c, m) ==
    /\ \/ /\ Advance(c, m, "stop", "close")
          /\ stopped' = [stopped EXCEPT ![c] = TRUE]
          /\ closed' = closed
       \/ /\ Advance(c, m, "close", "report")
          /\ closed' = [closed EXCEPT ![c] = TRUE]
          /\ stopped' = stopped
    /\ UNCHANGED <<sequencerVars, result>>

\* proxy::stop() by the reader, a timer, a protocol, the session or the network.
StopChannel(c) ==
    /\ \/ /\ ~stopped[c]
          /\ stopped' = [stopped EXCEPT ![c] = TRUE]
          /\ closed' = closed
       \/ /\ stopped[c]
          /\ ~closed[c]
          /\ closed' = [closed EXCEPT ![c] = TRUE]
          /\ stopped' = stopped
    /\ UNCHANGED <<sequencerVars, stage, result>>
==============================================================================
