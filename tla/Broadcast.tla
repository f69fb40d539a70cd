------------------------------ MODULE Broadcast -------------------------------
(***************************************************************************)
(* p2p::broadcast() over the open connections, beside the sends of the     *)
(* protocols: the collection is copied, one send is made per channel, and  *)
(* a synchronizer waits for the handlers of all of them, while channels    *)
(* are stored, stop and are removed.                                       *)
(***************************************************************************)
EXTENDS Sending, Naturals, FiniteSets

CONSTANTS
    Broadcasts,     \* the messages given to broadcast()
    Directs         \* what protocols send: pairs of a channel and another message

ASSUME BroadcastAssumption ==
    /\ Broadcasts \subseteq Message
    /\ Directs \subseteq Channel \X (Message \ Broadcasts)
    /\ IsFiniteSet(Channel)

VARIABLES
    member,         \* per channel: whether pending_close_ holds it
    channels,       \* per broadcast: its copy of the collection
    toSend,         \* per broadcast: the channels its loop has not reached
    loop,           \* per broadcast: the loop of broadcast()
    joined,         \* per broadcast: what the synchronizer has counted
    completed       \* per broadcast: how often handle_complete was invoked

joinVars == <<joined, completed>>
loopVars == <<channels, toSend, loop>>
vars == <<sendingVars, member, loopVars, joinVars>>

Init ==
    /\ InitSending
    /\ member \in [Channel -> {"new", "open"}]
    /\ channels = [b \in Broadcasts |-> {}]
    /\ toSend = [b \in Broadcasts |-> {}]
    /\ loop = [b \in Broadcasts |-> "idle"]
    /\ joined = [b \in Broadcasts |-> 0]
    /\ completed = [b \in Broadcasts |-> 0]

-----------------------------------------------------------------------------
\* p2p::store(): the registration of a channel is complete.
StoreChannel(c) ==
    /\ member[c] = "new"
    /\ member' = [member EXCEPT ![c] = "open"]
    /\ UNCHANGED <<sendingVars, loopVars, joinVars>>

\* p2p::remove(), from handle_remove() of the stopped channel.
RemoveChannel(c) ==
    /\ member[c] = "open"
    /\ stopped[c]
    /\ member' = [member EXCEPT ![c] = "removed"]
    /\ UNCHANGED <<sendingVars, loopVars, joinVars>>

\* A protocol sends a message of its own.
SendDirect(c, m) ==
    /\ <<c, m>> \in Directs
    /\ Send(c, m)
    /\ UNCHANGED <<member, loopVars, joinVars>>

\* p2p::broadcast(): the collection is copied and counted.
CopyCollection(b) ==
    /\ loop[b] = "idle"
    /\ loop' = [loop EXCEPT ![b] = "sending"]
    /\ channels' = [channels EXCEPT ![b] = {c \in Channel : member[c] = "open"}]
    /\ toSend' = [toSend EXCEPT ![b] = {c \in Channel : member[c] = "open"}]
    /\ UNCHANGED <<sendingVars, member, joinVars>>

\* p2p::broadcast(): the next send of the loop.
SendNext(b, c) ==
    /\ c \in toSend[b]
    /\ toSend' = [toSend EXCEPT ![b] = @ \ {c}]
    /\ Send(c, b)
    /\ UNCHANGED <<member, channels, loop, joinVars>>

\* The handler of a protocol's send is invoked.
ReportDirect(c, m) ==
    /\ m \notin Broadcasts
    /\ Advance(c, m, "report", "reported")
    /\ UNCHANGED <<stopVars, sequencerVars, result, member, loopVars, joinVars>>

\* p2p::handle_send(): handle_channel is invoked ...
HandleChannel(c, b) ==
    /\ b \in Broadcasts
    /\ Advance(c, b, "report", "join")
    /\ UNCHANGED <<stopVars, sequencerVars, result, member, loopVars, joinVars>>

\* A mutant of Join: a failed send completes the broadcast.
JoinOnError(b, ec) ==
    LET size == Cardinality(channels[b])
        count == IF ec = "success" THEN joined[b] + 1 ELSE size
    IN  IF joined[b] = size THEN UNCHANGED joinVars
        ELSE /\ joined' = [joined EXCEPT ![b] = count]
             /\ completed' = [completed EXCEPT ![b] = IF count = size THEN @ + 1 ELSE @]

\* synchronize(handle_complete, channels.size(), on_count): whatever its code,
\* a call counts, and the last one invokes handle_complete.
Join(b, ec) ==
    LET size == Cardinality(channels[b])
        count == joined[b] + 1
    IN  IF joined[b] = size THEN UNCHANGED joinVars
        ELSE /\ joined' = [joined EXCEPT ![b] = count]
             /\ completed' = [completed EXCEPT ![b] = IF count = size THEN @ + 1 ELSE @]

\* A mutant of HandleComplete: a failed send is not joined.
HandleCompleteSucceeded(c, b) ==
    /\ b \in Broadcasts
    /\ Advance(c, b, "join", "reported")
    /\ IF result[c][b] = "success" THEN Join(b, result[c][b]) ELSE UNCHANGED joinVars
    /\ UNCHANGED <<stopVars, sequencerVars, result, member, loopVars>>

\* p2p::handle_send(): ... and then the join handler.
HandleComplete(c, b) ==
    /\ b \in Broadcasts
    /\ Advance(c, b, "join", "reported")
    /\ Join(b, result[c][b])
    /\ UNCHANGED <<stopVars, sequencerVars, result, member, loopVars>>

-----------------------------------------------------------------------------
\* A step of the send sequence itself changes nothing of the network.
SendSequence(c) ==
    /\ \/ DoSend(c) \/ StopChannel(c)
       \/ \E m \in Message : \/ TestStopped(c, m) \/ StopOnError(c, m)
                             \/ \E ec \in {"success", "failed"} : HandleSend(c, m, ec)
    /\ UNCHANGED <<member, loopVars, joinVars>>

Report(c, m) == ReportDirect(c, m) \/ HandleChannel(c, m) \/ HandleComplete(c, m)

Next ==
    \/ \E c \in Channel :
          \/ StoreChannel(c) \/ RemoveChannel(c) \/ SendSequence(c)
          \/ \E m \in Message : SendDirect(c, m) \/ Report(c, m)
    \/ \E b \in Broadcasts : CopyCollection(b) \/ \E c \in Channel : SendNext(b, c)

Spec == Init /\ [][Next]_vars

\* Threads run, a write on a closed socket ends, and every channel stops in the
\* end (Channel!ChannelEnds: its expiration timer sees to that).  A peer that
\* does not read may block the write on an open socket for as long as it lasts.
FairSpec ==
    /\ Spec
    /\ \A c \in Channel :
          /\ WF_vars(DoSend(c) /\ UNCHANGED <<member, loopVars, joinVars>>)
          /\ WF_vars(StopChannel(c) /\ UNCHANGED <<member, loopVars, joinVars>>)
          /\ \A m \in Message :
                /\ WF_vars(/\ TestStopped(c, m) \/ StopOnError(c, m)
                           /\ UNCHANGED <<member, loopVars, joinVars>>)
                /\ WF_vars(/\ closed[c]
                           /\ \E ec \in {"success", "failed"} : HandleSend(c, m, ec)
                           /\ UNCHANGED <<member, loopVars, joinVars>>)
                /\ WF_vars(Report(c, m))
    /\ \A b \in Broadcasts : WF_vars(\E c \in Channel : SendNext(b, c))

-----------------------------------------------------------------------------
TypeOK ==
    /\ stopped \in [Channel -> BOOLEAN]
    /\ closed \in [Channel -> BOOLEAN]
    /\ queue \in [Channel -> Seq(Message)]
    /\ executing \in [Channel -> BOOLEAN]
    /\ posted \in [Channel -> BOOLEAN]
    /\ stage \in [Channel -> [Message -> Stages]]
    /\ result \in [Channel -> [Message -> {"none", "success", "failed"}]]
    /\ member \in [Channel -> {"new", "open", "removed"}]
    /\ channels \in [Broadcasts -> SUBSET Channel]
    /\ toSend \in [Broadcasts -> SUBSET Channel]
    /\ loop \in [Broadcasts -> {"idle", "sending"}]
    /\ joined \in [Broadcasts -> Nat]
    /\ completed \in [Broadcasts -> Nat]

\* What the caller of send() sees of the stages of a send.
StatusOf(c, m) ==
    CASE stage[c][m] = "queued" -> "waiting"
      [] stage[c][m] \in {"unlocked", "stop", "close", "report"} -> "written"
      [] stage[c][m] \in {"join", "reported"} -> result[c][m]
      [] OTHER -> stage[c][m]

Status == [c \in Channel |-> [m \in Message |-> StatusOf(c, m)]]

O == INSTANCE Outbox WITH waiting <- queue, status <- Status

\* proxy::send(): "Sequential dispatch is required because write may occur in
\* multiple asynchronous steps".  The send sequence implements Outbox, although
\* senders, ends of writes and stops overlap on different threads: no two writes
\* of a channel overlap, the order of send() is kept, each handler is invoked
\* once, and a failure is reported only on a stopped channel.
ImplementsOutbox == O!Spec

\* p2p::broadcast(): "Invoke the completion handler after send complete on all
\* channels."  It is invoked at most once, and after handle_channel of every
\* channel that was open when the broadcast began, failed and removed ones too.
CompletedLast ==
    \A b \in Broadcasts :
        /\ completed[b] <= 1
        /\ completed[b] = 1 => \A c \in channels[b] : stage[c][b] \in {"join", "reported"}

\* No send is lost: the sequencer is locked exactly while a write is posted or
\* under way, so that what is queued is posted when that write ends.
SendToCome ==
    \A c \in Channel :
        /\ executing[c] <=> posted[c] \/ \E m \in Message : stage[c][m] = "writing"
        /\ queue[c] # <<>> => executing[c]

\* No broadcast is lost: one that has not completed has a channel to send to, or
\* one whose send goes on and has not been joined.
JoinToCome ==
    \A b \in Broadcasts :
        channels[b] # {} /\ completed[b] = 0 =>
            \E c \in channels[b] : stage[c][b] # "reported" /\ (stage[c][b] = "new" => c \in toSend[b])

\* Every message given to send() has its handler invoked in the end, on a channel
\* that fails or stops as well: no early return leaves the dispatcher locked.
AllReported ==
    <>[](\A c \in Channel, m \in Message : stage[c][m] \in {"new", "reported"})

\* A broadcast to at least one channel completes, whatever becomes of them.
BroadcastCompletes ==
    \A b \in Broadcasts : (channels[b] # {}) ~> (completed[b] = 1)
==============================================================================
