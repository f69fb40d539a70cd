--------------------------- MODULE BroadcastProofs ---------------------------
(***************************************************************************)
(* For every set of channels and messages: the send sequence implements    *)
(* Outbox, and a broadcast completes after all of its sends.  The first    *)
(* rests on SequencerInv, which relates the flags of the sequencer to the  *)
(* stages of the sends, the second on JoinInv, which says that the         *)
(* synchronizer has counted the channels whose join handler was called.    *)
(* ToCome says that neither a send nor a broadcast is left waiting.        *)
(***************************************************************************)
EXTENDS Broadcast, TLAPS

Ended == {"unlocked", "stop", "close", "report", "join", "reported"}

\* One channel: what is queued waits, one message at most is being written and
\* then nothing is posted, and the codes of the writes that have ended.
ChannelInv(c) ==
    /\ posted[c] => queue[c] # <<>>
    /\ queue[c] # <<>> => executing[c]
    /\ \A m \in Message : stage[c][m] = "writing" => executing[c] /\ ~posted[c]
    /\ \A m, n \in Message : stage[c][m] = "writing" /\ stage[c][n] = "writing" => m = n
    /\ \A i \in 1..Len(queue[c]) : stage[c][queue[c][i]] = "queued"
    /\ \A i, j \in 1..Len(queue[c]) : queue[c][i] = queue[c][j] => i = j
    /\ \A m \in Message :
          /\ stage[c][m] \in Ended => result[c][m] \in {"success", "failed"}
          /\ stage[c][m] \in {"close", "report", "join", "reported"} /\ result[c][m] = "failed"
                => stopped[c]

SequencerInv == TypeOK /\ \A c \in Channel : ChannelInv(c)

Counted(b) == {c \in channels[b] : stage[c][b] = "reported"}

\* One broadcast: its loop sends to its own channels only, each of which counts
\* once, and handle_complete is invoked when all have.
JoinInv(b) ==
    /\ toSend[b] \subseteq channels[b]
    /\ loop[b] = "idle" => channels[b] = {}
    /\ \A c \in Channel : stage[c][b] # "new" => c \in channels[b] \ toSend[b]
    /\ joined[b] = Cardinality(Counted(b))
    /\ completed[b] = IF channels[b] # {} /\ Counted(b) = channels[b] THEN 1 ELSE 0

BroadcastInv == SequencerInv /\ \A b \in Broadcasts : JoinInv(b)

\* What is used of the number of the counted channels.
ChannelCounts ==
    /\ Cardinality({}) = 0
    /\ \A S \in SUBSET Channel : Cardinality(S) \in Nat
    /\ \A S \in SUBSET Channel : \A c \in Channel \ S :
          Cardinality(S \cup {c}) = Cardinality(S) + 1
    /\ \A S \in SUBSET Channel : \A T \in SUBSET S :
          Cardinality(T) = Cardinality(S) => T = S

-----------------------------------------------------------------------------
\* The initial states satisfy the invariant.
LEMMA InitHolds == ASSUME Init, ChannelCounts PROVE BroadcastInv
<1>1. TypeOK
  BY DEF Init, InitSending, TypeOK, Stages
<1>2. ASSUME NEW c \in Channel PROVE ChannelInv(c)
  BY DEF Init, InitSending, ChannelInv, Ended
<1>3. ASSUME NEW b \in Broadcasts PROVE JoinInv(b)
  BY BroadcastAssumption DEF ChannelCounts, Init, InitSending, JoinInv, Counted
<1> QED
  BY <1>1, <1>2, <1>3 DEF BroadcastInv, SequencerInv

\* A send moves to another stage.
LEMMA AdvanceType ==
  ASSUME stage \in [Channel -> [Message -> Stages]],
         NEW c \in Channel, NEW m \in Message, NEW from, NEW to \in Stages, Advance(c, m, from, to)
  PROVE  /\ stage' \in [Channel -> [Message -> Stages]]
         /\ stage[c][m] = from
         /\ stage'[c][m] = to
         /\ \A n \in Message : n # m => stage'[c][n] = stage[c][n]
         /\ \A d \in Channel : d # c => stage'[d] = stage[d]
  BY DEF Advance

\* The same, from the types of all the variables.
LEMMA StageMoves ==
  ASSUME TypeOK, NEW c \in Channel, NEW m \in Message, NEW from, NEW to \in Stages,
         Advance(c, m, from, to)
  PROVE  /\ stage' \in [Channel -> [Message -> Stages]]
         /\ stage[c][m] = from
         /\ stage'[c][m] = to
         /\ \A n \in Message : n # m => stage'[c][n] = stage[c][n]
         /\ \A d \in Channel : d # c => stage'[d] = stage[d]
<1>1. stage \in [Channel -> [Message -> Stages]]
  BY DEF TypeOK
<1> QED BY <1>1, AdvanceType

\* Every step preserves the types.
LEMMA TypeStep == ASSUME SequencerInv, [Next]_vars PROVE TypeOK'
<1> TypeOK /\ \A c \in Channel : posted[c] => queue[c] # <<>>
  BY DEF SequencerInv, ChannelInv
<1> USE BroadcastAssumption DEF TypeOK, stopVars, sequencerVars, sendingVars, loopVars, joinVars
<1>1. ASSUME NEW c \in Channel, StoreChannel(c) \/ RemoveChannel(c) PROVE TypeOK'
  BY <1>1, Zenon DEF StoreChannel, RemoveChannel
<1>2. ASSUME NEW c \in Channel, NEW m \in Message, Send(c, m),
             UNCHANGED <<member, channels, loop, joinVars>>,
             toSend' \in [Broadcasts -> SUBSET Channel]
      PROVE  TypeOK'
  <2>1. stage' \in [Channel -> [Message -> Stages]]
    BY <1>2, AdvanceType DEF Send, Stages
  <2>2. queue' \in [Channel -> Seq(Message)]
    BY <1>2 DEF Send, Lock
  <2>3. executing' \in [Channel -> BOOLEAN] /\ posted' \in [Channel -> BOOLEAN]
    BY <1>2 DEF Send, Lock
  <2> QED
    BY <1>2, <2>1, <2>2, <2>3 DEF Send
<1>3. ASSUME NEW c \in Channel, DoSend(c), queue[c] # <<>>, UNCHANGED <<member, loopVars, joinVars>>
      PROVE  TypeOK'
  <2>1. Head(queue[c]) \in Message
    BY <1>3
  <2>2. stage' \in [Channel -> [Message -> Stages]]
    BY <1>3, <2>1, AdvanceType DEF DoSend, Stages
  <2>3. queue' \in [Channel -> Seq(Message)]
    BY <1>3 DEF DoSend
  <2> QED
    BY <1>3, <2>1, <2>2, <2>3 DEF DoSend
<1>4. ASSUME NEW c \in Channel, StopChannel(c), UNCHANGED <<member, loopVars, joinVars>> PROVE TypeOK'
  BY <1>4, Zenon DEF StopChannel
<1>5. ASSUME NEW c \in Channel, NEW m \in Message, TestStopped(c, m) \/ StopOnError(c, m),
             UNCHANGED <<member, loopVars, joinVars>>
      PROVE  TypeOK'
  <2>1. stage' \in [Channel -> [Message -> Stages]]
    BY <1>5, AdvanceType DEF TestStopped, StopOnError, Stages
  <2> QED
    BY <1>5, <2>1, ZenonT(40) DEF TestStopped, StopOnError
<1>6. ASSUME NEW c \in Channel, NEW m \in Message, NEW ec \in {"success", "failed"},
             HandleSend(c, m, ec), UNCHANGED <<member, loopVars, joinVars>>
      PROVE  TypeOK'
  <2>1. stage' \in [Channel -> [Message -> Stages]]
    BY <1>6, AdvanceType DEF HandleSend, Stages
  <2> QED
    BY <1>6, <2>1, ZenonT(40) DEF HandleSend, Unlock
<1>7. ASSUME NEW c \in Channel, NEW m \in Message, ReportDirect(c, m) \/ HandleChannel(c, m)
      PROVE  TypeOK'
  <2>1. stage' \in [Channel -> [Message -> Stages]]
    BY <1>7, AdvanceType DEF ReportDirect, HandleChannel, Stages
  <2> QED
    BY <1>7, <2>1 DEF ReportDirect, HandleChannel
<1>8. ASSUME NEW c \in Channel, NEW b \in Message, HandleComplete(c, b) PROVE TypeOK'
  <2>1. stage' \in [Channel -> [Message -> Stages]]
    BY <1>8, AdvanceType DEF HandleComplete, Stages
  <2>2. joined' \in [Broadcasts -> Nat] /\ completed' \in [Broadcasts -> Nat]
    <3>1. b \in Broadcasts /\ Join(b, result[c][b])
      BY <1>8 DEF HandleComplete
    <3>2. CASE joined[b] = Cardinality(channels[b])
      BY <3>1, <3>2 DEF Join
    <3>3. CASE joined[b] # Cardinality(channels[b])
      <4>1. joined' = [joined EXCEPT ![b] = joined[b] + 1]
        BY <3>1, <3>3 DEF Join
      <4>2. completed' = [completed EXCEPT ![b] = IF joined[b] + 1 = Cardinality(channels[b])
                                                  THEN completed[b] + 1 ELSE completed[b]]
        BY <3>1, <3>3 DEF Join
      <4> QED
        BY <3>1, <4>1, <4>2
    <3> QED
      BY <3>2, <3>3
  <2>3. UNCHANGED <<stopVars, sequencerVars, result, member, loopVars>>
    BY <1>8 DEF HandleComplete
  <2> QED
    BY <2>1, <2>2, <2>3
<1>9. ASSUME NEW b \in Broadcasts, CopyCollection(b) PROVE TypeOK'
  BY <1>9 DEF CopyCollection
<1>10. ASSUME NEW b \in Broadcasts, NEW c \in Channel, SendNext(b, c) PROVE TypeOK'
  BY <1>10, <1>2, ZenonT(40) DEF SendNext
<1>11. ASSUME NEW c \in Channel, NEW m \in Message, SendDirect(c, m) PROVE TypeOK'
  BY <1>11, <1>2 DEF SendDirect
<1>12. CASE UNCHANGED vars
  BY <1>12 DEF vars
<1> HIDE DEF TypeOK
<1> QED
  BY <1>1, <1>3, <1>4, <1>5, <1>6, <1>7, <1>8, <1>9, <1>10, <1>11, <1>12
     DEF Next, SendSequence, Report, DoSend

-----------------------------------------------------------------------------
\* What a send() does to the invariant of its channel.
LEMMA SendStep ==
  ASSUME SequencerInv, NEW c \in Channel, NEW m \in Message, Send(c, m), NEW d \in Channel
  PROVE  ChannelInv(d)'
<1>0. ChannelInv(c) /\ ChannelInv(d)
  BY DEF SequencerInv
<1>t. TypeOK
  BY DEF SequencerInv
<1>1. stage[c][m] = "new" /\ stage'[c][m] = "queued"
  BY <1>t, StageMoves DEF Send, Stages
<1>2. \A n \in Message : n # m => stage'[c][n] = stage[c][n]
  BY <1>t, StageMoves DEF Send, Stages
<1>3. \A e \in Channel : e # c => stage'[e] = stage[e]
  BY <1>t, StageMoves DEF Send, Stages
<1>4. CASE d # c
  BY <1>0, <1>t, <1>3, <1>4 DEF Send, Lock, ChannelInv, stopVars, TypeOK
<1>5. CASE d = c
  <2>1. /\ queue'[c] = Append(queue[c], m) /\ executing'[c]
        /\ posted'[c] <=> (posted[c] \/ ~executing[c])
        /\ UNCHANGED <<stopped, result>>
    BY <1>t, Zenon DEF TypeOK, Send, Lock, stopVars
  <2>2. /\ Len(queue[c]) \in Nat
        /\ Len(queue'[c]) = Len(queue[c]) + 1
        /\ queue'[c][Len(queue[c]) + 1] = m
        /\ \A i \in 1..Len(queue[c]) : queue'[c][i] = queue[c][i] /\ queue[c][i] \in Message
    BY <1>t, <2>1 DEF TypeOK
  <2>3. \A i \in 1..Len(queue[c]) : queue[c][i] # m
    BY <1>0, <1>1 DEF ChannelInv
  <2>4. \A i \in 1..Len(queue'[c]) : stage'[c][queue'[c][i]] = "queued"
    <3> SUFFICES ASSUME NEW i \in 1..Len(queue'[c]) PROVE stage'[c][queue'[c][i]] = "queued"
      OBVIOUS
    <3>1. CASE i \in 1..Len(queue[c])
      BY <1>0, <1>2, <2>2, <2>3, <3>1 DEF ChannelInv
    <3>2. CASE i = Len(queue[c]) + 1
      BY <1>1, <2>2, <3>2
    <3> QED
      BY <2>2, <3>1, <3>2
  <2>5. \A i, j \in 1..Len(queue'[c]) : queue'[c][i] = queue'[c][j] => i = j
    <3>1. \A i, j \in 1..Len(queue[c]) : queue[c][i] = queue[c][j] => i = j
      BY <1>0 DEF ChannelInv
    <3>2. \A i \in 1..Len(queue'[c]) : i \in 1..Len(queue[c]) \/ i = Len(queue[c]) + 1
      BY <2>2
    <3> QED
      BY <2>2, <2>3, <3>1, <3>2
  <2>6. queue'[c] # <<>>
    BY <2>2
  <2>7. \A n \in Message : stage'[c][n] = "writing" => executing'[c] /\ ~posted'[c]
    BY <1>0, <1>1, <1>2, <2>1 DEF ChannelInv
  <2>8. \A n, k \in Message : stage'[c][n] = "writing" /\ stage'[c][k] = "writing" => n = k
    BY <1>0, <1>1, <1>2 DEF ChannelInv
  <2>9. \A n \in Message :
          /\ stage'[c][n] \in Ended => result'[c][n] \in {"success", "failed"}
          /\ stage'[c][n] \in {"close", "report", "join", "reported"} /\ result'[c][n] = "failed"
                => stopped'[c]
    BY <1>0, <1>1, <1>2, <2>1 DEF ChannelInv, Ended
  <2> QED
    BY <1>0, <1>5, <2>1, <2>4, <2>5, <2>6, <2>7, <2>8, <2>9 DEF ChannelInv
<1> QED
  BY <1>4, <1>5

\* do_send() takes the head of the queue, when nothing is being written.
LEMMA DoSendStep ==
  ASSUME SequencerInv, NEW c \in Channel, DoSend(c), NEW d \in Channel
  PROVE  ChannelInv(d)'
<1>0. ChannelInv(c) /\ ChannelInv(d)
  BY DEF SequencerInv
<1>t. TypeOK
  BY DEF SequencerInv
<1> DEFINE m == Head(queue[c])
<1>1. queue[c] # <<>> /\ executing[c] /\ m \in Message /\ m = queue[c][1]
  BY <1>0, <1>t DEF DoSend, ChannelInv, TypeOK
<1>2. /\ stage'[c][m] = "writing"
      /\ \A n \in Message : n # m => stage'[c][n] = stage[c][n]
      /\ \A e \in Channel : e # c => stage'[e] = stage[e]
  BY <1>t, <1>1, StageMoves DEF DoSend, Stages
<1>3. /\ queue' = [queue EXCEPT ![c] = Tail(@)]
      /\ posted' = [posted EXCEPT ![c] = FALSE]
      /\ UNCHANGED <<stopped, executing>>
      /\ \A e \in Channel : e # c => result'[e] = result[e]
      /\ \A n \in Message : n # m => result'[c][n] = result[c][n]
  BY <1>t, <1>1 DEF TypeOK, DoSend, stopVars
<1> HIDE DEF m
<1>4. CASE d # c
  BY <1>0, <1>t, <1>2, <1>3, <1>4 DEF ChannelInv, TypeOK
<1>5. CASE d = c
  <2>1. /\ Len(queue[c]) \in Nat
        /\ Len(queue'[c]) = Len(queue[c]) - 1
        /\ \A i \in 1..Len(queue'[c]) : /\ i + 1 \in 1..Len(queue[c])
                                        /\ queue'[c][i] = queue[c][i + 1]
                                        /\ queue[c][i + 1] \in Message
    BY <1>t, <1>1, <1>3 DEF TypeOK
  <2>2. \A i \in 1..Len(queue'[c]) : queue'[c][i] # m
    <3> SUFFICES ASSUME NEW i \in 1..Len(queue'[c]), queue[c][i + 1] = queue[c][1]
                 PROVE  FALSE
      BY <1>1, <2>1
    <3>1. i + 1 \in 1..Len(queue[c]) /\ 1 \in 1..Len(queue[c]) /\ i + 1 # 1
      BY <2>1
    <3>2. \A k, j \in 1..Len(queue[c]) : queue[c][k] = queue[c][j] => k = j
      BY <1>0, Zenon DEF ChannelInv
    <3> QED
      BY <3>1, <3>2, Zenon
  <2>3. \A i \in 1..Len(queue'[c]) : stage'[c][queue'[c][i]] = "queued"
    <3>1. \A i \in 1..Len(queue[c]) : stage[c][queue[c][i]] = "queued"
      BY <1>0, Zenon DEF ChannelInv
    <3> QED
      BY <1>2, <2>1, <2>2, <3>1, SMTT(30)
  <2>4. \A i, j \in 1..Len(queue'[c]) : queue'[c][i] = queue'[c][j] => i = j
    <3>1. \A i, j \in 1..Len(queue[c]) : queue[c][i] = queue[c][j] => i = j
      BY <1>0 DEF ChannelInv
    <3> QED
      BY <2>1, <3>1
  <2>5. \A n \in Message : n # m => stage[c][n] # "writing"
    BY <1>0 DEF ChannelInv, DoSend
  <2>6. \A n \in Message : stage'[c][n] = "writing" => n = m
    BY <1>2, <2>5
  <2>7. \A n \in Message :
          /\ stage'[c][n] \in Ended => result'[c][n] \in {"success", "failed"}
          /\ stage'[c][n] \in {"close", "report", "join", "reported"} /\ result'[c][n] = "failed"
                => stopped'[c]
    BY <1>0, <1>2, <1>3 DEF ChannelInv, Ended
  <2>8. ~posted'[c] /\ executing'[c]
    BY <1>t, <1>1, <1>3 DEF TypeOK
  <2> QED
    BY <1>5, <2>3, <2>4, <2>6, <2>7, <2>8 DEF ChannelInv
<1> QED
  BY <1>4, <1>5

\* The other steps of the send sequence leave the queue as it is.
LEMMA HandleSendStep ==
  ASSUME SequencerInv, NEW c \in Channel, NEW m \in Message, NEW ec \in {"success", "failed"},
         HandleSend(c, m, ec), NEW d \in Channel
  PROVE  ChannelInv(d)'
<1>0. ChannelInv(c) /\ ChannelInv(d)
  BY DEF SequencerInv
<1>t. TypeOK
  BY DEF SequencerInv
<1>1. /\ stage[c][m] = "writing" /\ stage'[c][m] = "unlocked"
      /\ \A n \in Message : n # m => stage'[c][n] = stage[c][n]
      /\ \A e \in Channel : e # c => stage'[e] = stage[e]
  BY <1>t, StageMoves DEF HandleSend, Stages
<1>2. /\ queue' = queue /\ stopped' = stopped
      /\ executing'[c] <=> queue[c] # <<>>
      /\ posted'[c] <=> queue[c] # <<>>
      /\ result'[c][m] = ec
      /\ \A n \in Message : n # m => result'[c][n] = result[c][n]
      /\ \A e \in Channel : e # c => result'[e] = result[e] /\ executing'[e] = executing[e]
                                    /\ posted'[e] = posted[e]
  BY <1>t, ZenonT(40) DEF TypeOK, HandleSend, Unlock, stopVars
<1>3. CASE d # c
  BY <1>0, <1>1, <1>2, <1>3 DEF ChannelInv
<1>4. CASE d = c
  <2>1. \A n \in Message : stage'[c][n] # "writing"
    <3>1. \A n \in Message : stage[c][n] = "writing" => n = m
      BY <1>0, <1>1, Zenon DEF ChannelInv
    <3> QED BY <1>1, <3>1
  <2>2. \A i \in 1..Len(queue[c]) : queue[c][i] \in Message /\ queue[c][i] # m
    <3>1. \A i \in 1..Len(queue[c]) : queue[c][i] \in Message
      BY <1>t DEF TypeOK
    <3>2. \A i \in 1..Len(queue[c]) : stage[c][queue[c][i]] = "queued"
      BY <1>0, <1>4, Zenon DEF ChannelInv
    <3> QED BY <1>1, <3>1, <3>2
  <2>3. \A i \in 1..Len(queue[c]) : stage'[c][queue[c][i]] = "queued"
    BY <1>0, <1>1, <2>2 DEF ChannelInv
  <2>4. \A n \in Message :
          /\ stage'[c][n] \in Ended => result'[c][n] \in {"success", "failed"}
          /\ stage'[c][n] \in {"close", "report", "join", "reported"} /\ result'[c][n] = "failed"
                => stopped'[c]
    BY <1>0, <1>1, <1>2 DEF ChannelInv, Ended
  <2> QED
    BY <1>0, <1>2, <1>4, <2>1, <2>3, <2>4 DEF ChannelInv
<1> QED
  BY <1>3, <1>4

\* A send that has been written moves on: its code is known, and when it gets
\* to the close of the socket, or reports a failure, the channel is stopped.
LEMMA LaterStep ==
  ASSUME SequencerInv, NEW c \in Channel, NEW m \in Message, NEW from \in Ended, NEW to \in Ended,
         Advance(c, m, from, to), UNCHANGED <<sequencerVars, result>>,
         \A e \in Channel : stopped[e] => stopped'[e],
         to # "stop" /\ result[c][m] = "failed" => stopped'[c],
         NEW d \in Channel
  PROVE  ChannelInv(d)'
<1>0. ChannelInv(c) /\ ChannelInv(d)
  BY DEF SequencerInv
<1>t. TypeOK
  BY DEF SequencerInv
<1>1. /\ stage[c][m] = from /\ stage'[c][m] = to
      /\ \A n \in Message : n # m => stage'[c][n] = stage[c][n]
      /\ \A e \in Channel : e # c => stage'[e] = stage[e]
  BY <1>t, StageMoves DEF Ended, Stages
<1>2. queue' = queue /\ executing' = executing /\ posted' = posted /\ result' = result
  BY DEF sequencerVars
<1>3. CASE d # c
  BY <1>0, <1>1, <1>2, <1>3 DEF ChannelInv
<1>4. CASE d = c
  <2>1. \A i \in 1..Len(queue[c]) : queue[c][i] \in Message /\ queue[c][i] # m
    <3>1. \A i \in 1..Len(queue[c]) : queue[c][i] \in Message
      BY <1>t DEF TypeOK
    <3>2. stage[c][m] # "queued"
      BY <1>1 DEF Ended
    <3> QED
      BY <1>0, <3>1, <3>2 DEF ChannelInv
  <2>2. \A i \in 1..Len(queue[c]) : stage'[c][queue[c][i]] = "queued"
    BY <1>0, <1>1, <2>1 DEF ChannelInv
  <2>3. \A n \in Message : stage'[c][n] = "writing" => n # m /\ stage[c][n] = "writing"
    BY <1>1 DEF Ended
  <2>4. ASSUME NEW n \in Message
        PROVE
          /\ stage'[c][n] \in Ended => result'[c][n] \in {"success", "failed"}
          /\ stage'[c][n] \in {"close", "report", "join", "reported"} /\ result'[c][n] = "failed"
                => stopped'[c]
    <3>1. CASE n = m
      BY <1>0, <1>1, <1>2, <3>1 DEF ChannelInv, Ended
    <3>2. CASE n # m
      BY <1>0, <1>1, <1>2, <3>2 DEF ChannelInv
    <3> QED
      BY <3>1, <3>2
  <2> QED
    BY <1>0, <1>2, <1>4, <2>2, <2>3, <2>4 DEF ChannelInv
<1> QED
  BY <1>3, <1>4

\* Every step preserves the invariant of the send sequence.
LEMMA SequencerStep == ASSUME SequencerInv, [Next]_vars PROVE SequencerInv'
<1>1. TypeOK'
  BY TypeStep
<1>2. ASSUME NEW d \in Channel PROVE ChannelInv(d)'
  <2>0. ChannelInv(d) /\ TypeOK
    BY DEF SequencerInv
  <2>1. ASSUME NEW c \in Channel, StoreChannel(c) \/ RemoveChannel(c) PROVE ChannelInv(d)'
    BY <2>0, <2>1 DEF StoreChannel, RemoveChannel, sendingVars, stopVars, sequencerVars, ChannelInv
  <2>2. ASSUME NEW c \in Channel, NEW m \in Message, SendDirect(c, m) PROVE ChannelInv(d)'
    BY <2>2, SendStep DEF SendDirect
  <2>3. ASSUME NEW b \in Broadcasts, NEW c \in Channel, SendNext(b, c) PROVE ChannelInv(d)'
    BY <2>3, SendStep, BroadcastAssumption DEF SendNext
  <2>4. ASSUME NEW b \in Broadcasts, CopyCollection(b) PROVE ChannelInv(d)'
    BY <2>0, <2>4, ZenonT(40) DEF CopyCollection, sendingVars, stopVars, sequencerVars, ChannelInv
  <2>5. ASSUME NEW c \in Channel, DoSend(c) PROVE ChannelInv(d)'
    BY <2>5, DoSendStep
  <2>6. ASSUME NEW c \in Channel, StopChannel(c) PROVE ChannelInv(d)'
    <3>1. stopped[d] => stopped'[d]
      BY <2>0, <2>6, ZenonT(40) DEF StopChannel, TypeOK
    <3>2. UNCHANGED <<stage, result, sequencerVars>>
      BY <2>6 DEF StopChannel
    <3> QED
      BY <2>0, <3>1, <3>2 DEF sequencerVars, ChannelInv
  <2>7. ASSUME NEW c \in Channel, NEW m \in Message, TestStopped(c, m) PROVE ChannelInv(d)'
    <3> DEFINE to == IF stopped[c] \/ result[c][m] = "success" THEN "report" ELSE "stop"
    <3>1. Advance(c, m, "unlocked", to) /\ UNCHANGED <<sequencerVars, result>> /\ stopped' = stopped
      BY <2>7 DEF TestStopped, stopVars
    <3>2. to \in Ended /\ "unlocked" \in Ended
      BY DEF Ended
    <3>3. to # "stop" /\ result[c][m] = "failed" => stopped'[c]
      BY <3>1
    <3> HIDE DEF to
    <3> QED
      BY <3>1, <3>2, <3>3, LaterStep
  <2>8. ASSUME NEW c \in Channel, NEW m \in Message, StopOnError(c, m) PROVE ChannelInv(d)'
    <3>1. CASE Advance(c, m, "stop", "close") /\ stopped' = [stopped EXCEPT ![c] = TRUE]
      <4>1. "stop" \in Ended /\ "close" \in Ended /\ UNCHANGED <<sequencerVars, result>>
        BY <2>8 DEF StopOnError, Ended
      <4>2. stopped'[c] /\ \A e \in Channel : stopped[e] => stopped'[e]
        BY <2>0, <3>1 DEF TypeOK
      <4> QED
        BY <3>1, <4>1, <4>2, LaterStep
    <3>2. CASE Advance(c, m, "close", "report") /\ stopped' = stopped
      <4>1. "report" \in Ended /\ "close" \in Ended /\ UNCHANGED <<sequencerVars, result>>
        BY <2>8 DEF StopOnError, Ended
      <4>2. result[c][m] = "failed" => stopped'[c]
        BY <3>2 DEF SequencerInv, ChannelInv, Advance
      <4> QED
        BY <3>2, <4>1, <4>2, LaterStep
    <3> QED
      BY <2>8, <3>1, <3>2 DEF StopOnError
  <2>9. ASSUME NEW c \in Channel, NEW m \in Message, NEW ec \in {"success", "failed"},
               HandleSend(c, m, ec)
        PROVE  ChannelInv(d)'
    BY <2>9, HandleSendStep
  <2>10. ASSUME NEW c \in Channel, NEW m \in Message, NEW from \in {"report", "join"},
                NEW to \in {"join", "reported"},
                Advance(c, m, from, to), UNCHANGED <<stopVars, sequencerVars, result>>
         PROVE  ChannelInv(d)'
    <3>1. from \in Ended /\ to \in Ended /\ to # "stop"
      BY DEF Ended
    <3>2. result[c][m] = "failed" => stopped'[c]
      BY <2>10 DEF SequencerInv, ChannelInv, Advance, stopVars
    <3>3. UNCHANGED <<sequencerVars, result>> /\ stopped' = stopped
      BY <2>10 DEF stopVars
    <3> QED
      BY <2>10, <3>1, <3>2, <3>3, LaterStep
  <2>11. ASSUME NEW c \in Channel, NEW m \in Message, Report(c, m) PROVE ChannelInv(d)'
    BY <2>10, <2>11 DEF Report, ReportDirect, HandleChannel, HandleComplete
  <2>12. CASE UNCHANGED vars
    BY <2>0, <2>12 DEF vars, sendingVars, stopVars, sequencerVars, ChannelInv
  <2> QED
    BY <2>1, <2>2, <2>3, <2>4, <2>5, <2>6, <2>7, <2>8, <2>9, <2>11, <2>12 DEF Next, SendSequence
<1> QED
  BY <1>1, <1>2 DEF SequencerInv

-----------------------------------------------------------------------------
\* A step that reports nothing of a broadcast, and sends nothing of it.
LEMMA JoinKept ==
  ASSUME NEW b \in Broadcasts, JoinInv(b), TypeOK,
         channels'[b] = channels[b], toSend'[b] = toSend[b], loop'[b] = loop[b],
         joined'[b] = joined[b], completed'[b] = completed[b],
         \A e \in Channel : /\ stage'[e][b] = "reported" <=> stage[e][b] = "reported"
                            /\ stage[e][b] = "new" => stage'[e][b] = "new"
  PROVE  JoinInv(b)'
<1>1. Counted(b)' = Counted(b)
  BY DEF Counted, TypeOK
<1> QED
  BY <1>1 DEF JoinInv

\* A step that moves a send on, short of its join.
LEMMA JoinAdvance ==
  ASSUME TypeOK, NEW b \in Broadcasts, JoinInv(b), NEW c \in Channel, NEW m \in Message,
         NEW from \in Stages \ {"new", "reported"}, NEW to \in Stages \ {"new"}, Advance(c, m, from, to),
         m = b => to # "reported",
         UNCHANGED <<loopVars, joinVars>>
  PROVE  JoinInv(b)'
<1>1. stage[c][m] = from /\ stage'[c][m] = to
  BY StageMoves
<1>2. \A n \in Message : n # m => stage'[c][n] = stage[c][n]
  BY StageMoves
<1>3. \A e \in Channel : e # c => stage'[e] = stage[e]
  BY StageMoves
<1>4. b \in Message
  BY BroadcastAssumption
<1>5. ASSUME NEW e \in Channel
      PROVE  /\ stage'[e][b] = "reported" <=> stage[e][b] = "reported"
             /\ stage[e][b] = "new" => stage'[e][b] = "new"
  <2>1. CASE e # c
    BY <1>3, <2>1
  <2>2. CASE e = c /\ m # b
    BY <1>2, <1>4, <2>2
  <2>3. CASE e = c /\ m = b
    BY <1>1, <2>3
  <2> QED
    BY <2>1, <2>2, <2>3
<1>6. /\ channels'[b] = channels[b] /\ toSend'[b] = toSend[b] /\ loop'[b] = loop[b]
      /\ joined'[b] = joined[b] /\ completed'[b] = completed[b]
  BY DEF loopVars, joinVars
<1> QED
  BY <1>5, <1>6, JoinKept

\* The last step of a send of a broadcast: its channel counts.
LEMMA JoinCounts ==
  ASSUME TypeOK, NEW b \in Broadcasts, JoinInv(b), NEW c \in Channel, HandleComplete(c, b),
         ChannelCounts
  PROVE  JoinInv(b)'
<1>1. b \in Message
  BY BroadcastAssumption
<1>2. /\ stage[c][b] = "join" /\ stage'[c][b] = "reported"
      /\ \A e \in Channel : e # c => stage'[e] = stage[e]
  <2>1. Advance(c, b, "join", "reported") /\ "reported" \in Stages
    BY DEF HandleComplete, Stages
  <2> QED BY <1>1, <2>1, StageMoves, SMTT(30)
<1>3. channels' = channels /\ toSend' = toSend /\ loop' = loop /\ Join(b, result[c][b])
  BY DEF HandleComplete, loopVars
<1>4. c \in channels[b] \ toSend[b]
  BY <1>2 DEF JoinInv
<1>5. Counted(b) \subseteq channels[b] /\ Counted(b)' \subseteq channels[b] /\ c \notin Counted(b)
  BY <1>2, <1>3 DEF Counted
<1>6. Counted(b)' = Counted(b) \cup {c}
  BY <1>2, <1>3, <1>4 DEF Counted, TypeOK
<1>7. channels[b] \in SUBSET Channel
  BY DEF TypeOK
<1>8. Cardinality(Counted(b)) \in Nat /\ Cardinality(Counted(b)) # Cardinality(channels[b])
  BY <1>4, <1>5, <1>7 DEF ChannelCounts
<1>9. Cardinality(Counted(b)') = Cardinality(Counted(b)) + 1
  <2>1. Counted(b) \in SUBSET Channel /\ c \in Channel \ Counted(b)
    BY <1>5, <1>7
  <2> QED BY <1>6, <2>1 DEF ChannelCounts
<1>10. Cardinality(Counted(b)') = Cardinality(channels[b]) <=> Counted(b)' = channels[b]
  BY <1>5, <1>7 DEF ChannelCounts
<1>11. joined[b] = Cardinality(Counted(b)) /\ completed[b] = 0
  BY <1>4, <1>5 DEF JoinInv
<1>12. joined'[b] = joined[b] + 1
  BY <1>3, <1>8, <1>11 DEF Join, TypeOK
<1>13. completed' = [completed EXCEPT ![b] = IF joined[b] + 1 = Cardinality(channels[b])
                                             THEN completed[b] + 1 ELSE completed[b]]
  BY <1>3, <1>8, <1>11 DEF Join
<1>14. completed'[b] = IF joined[b] + 1 = Cardinality(channels[b]) THEN 1 ELSE 0
  BY <1>11, <1>13 DEF TypeOK
<1>15. joined'[b] = Cardinality(Counted(b)')
  BY <1>9, <1>11, <1>12
<1>16. completed'[b] = IF channels'[b] # {} /\ Counted(b)' = channels'[b] THEN 1 ELSE 0
  BY <1>3, <1>4, <1>9, <1>10, <1>11, <1>14
<1>17. \A e \in Channel : stage'[e][b] # "new" => e \in channels'[b] \ toSend'[b]
  BY <1>2, <1>3, <1>4 DEF JoinInv
<1> QED
  BY <1>3, <1>15, <1>16, <1>17 DEF JoinInv

\* Every step preserves the invariant of each broadcast.
LEMMA JoinStep ==
  ASSUME BroadcastInv, [Next]_vars, ChannelCounts, NEW b \in Broadcasts
  PROVE  JoinInv(b)'
<1>0. TypeOK /\ JoinInv(b) /\ b \in Message
  BY BroadcastAssumption DEF BroadcastInv, SequencerInv
<1>1. ASSUME stage' = stage, UNCHANGED <<loopVars, joinVars>> PROVE JoinInv(b)'
  BY <1>0, <1>1, JoinKept DEF loopVars, joinVars
<1>2. ASSUME NEW c \in Channel, StoreChannel(c) \/ RemoveChannel(c) PROVE JoinInv(b)'
  BY <1>1, <1>2 DEF StoreChannel, RemoveChannel, sendingVars
<1>3. ASSUME NEW c \in Channel, NEW m \in Message, Send(c, m), m # b,
             toSend'[b] = toSend[b], UNCHANGED <<channels, loop, joinVars>>
      PROVE  JoinInv(b)'
  <2>1. /\ \A n \in Message : n # m => stage'[c][n] = stage[c][n]
        /\ \A e \in Channel : e # c => stage'[e] = stage[e]
    BY <1>0, <1>3, StageMoves DEF Send, Stages
  <2>2. \A e \in Channel : stage'[e][b] = stage[e][b]
    BY <1>0, <1>3, <2>1
  <2> QED
    BY <1>0, <1>3, <2>2, JoinKept DEF joinVars
<1>4. ASSUME NEW c \in Channel, NEW m \in Message, SendDirect(c, m) PROVE JoinInv(b)'
  BY <1>3, <1>4, BroadcastAssumption DEF SendDirect, loopVars
<1>5. ASSUME NEW a \in Broadcasts, NEW c \in Channel, SendNext(a, c) PROVE JoinInv(b)'
  <2>1. CASE a # b
    <3>1. toSend'[b] = toSend[b] /\ a \in Message
      BY <1>0, <1>5, <2>1, BroadcastAssumption DEF SendNext, TypeOK
    <3> QED
      BY <1>3, <1>5, <2>1, <3>1 DEF SendNext
  <2>2. CASE a = b
    <3>1. /\ stage[c][b] = "new" /\ stage'[c][b] = "queued"
          /\ \A e \in Channel : e # c => stage'[e] = stage[e]
      BY <1>0, <1>5, <2>2, StageMoves DEF SendNext, Send, Stages
    <3>2. /\ c \in toSend[b] /\ toSend'[b] = toSend[b] \ {c}
          /\ UNCHANGED <<channels, loop, joined, completed>>
      BY <1>0, <1>5, <2>2 DEF SendNext, joinVars, TypeOK
    <3>3. Counted(b)' = Counted(b)
      BY <1>0, <3>1, <3>2, Zenon DEF Counted, TypeOK
    <3> QED
      BY <1>0, <3>1, <3>2, <3>3 DEF JoinInv
  <2> QED
    BY <2>1, <2>2
<1>6. ASSUME NEW a \in Broadcasts, CopyCollection(a) PROVE JoinInv(b)'
  <2>1. stage' = stage /\ joined' = joined /\ completed' = completed
    BY <1>6 DEF CopyCollection, sendingVars, joinVars
  <2>2. CASE a # b
    <3>1. channels'[b] = channels[b] /\ toSend'[b] = toSend[b] /\ loop'[b] = loop[b]
      BY <1>0, <1>6, <2>2 DEF CopyCollection, TypeOK
    <3> QED
      BY <1>0, <2>1, <3>1, JoinKept
  <2>3. CASE a = b
    <3>1. channels[b] = {} /\ \A e \in Channel : stage[e][b] = "new"
      BY <1>0, <1>6, <2>3 DEF CopyCollection, JoinInv
    <3>2. channels'[b] = toSend'[b] /\ channels'[b] \subseteq Channel /\ loop'[b] = "sending"
      BY <1>0, <1>6, <2>3 DEF CopyCollection, TypeOK
    <3>3. Counted(b) = {} /\ Counted(b)' = {}
      BY <2>1, <3>1, <3>2 DEF Counted
    <3>4. joined[b] = Cardinality({}) /\ completed[b] = 0
      BY <1>0, <3>1, <3>3 DEF JoinInv
    <3> QED
      BY <2>1, <3>1, <3>2, <3>3, <3>4 DEF JoinInv
  <2> QED
    BY <2>2, <2>3
<1>7. ASSUME NEW c \in Channel, DoSend(c), UNCHANGED <<loopVars, joinVars>> PROVE JoinInv(b)'
  <2>1. Head(queue[c]) \in Message /\ Advance(c, Head(queue[c]), "queued", "writing")
    BY <1>7 DEF DoSend, BroadcastInv, SequencerInv, ChannelInv, TypeOK
  <2> QED
    BY <1>0, <1>7, <2>1, JoinAdvance DEF Stages
<1>8. ASSUME NEW c \in Channel, StopChannel(c), UNCHANGED <<loopVars, joinVars>> PROVE JoinInv(b)'
  BY <1>1, <1>8 DEF StopChannel
<1>9. ASSUME NEW c \in Channel, NEW m \in Message, TestStopped(c, m), UNCHANGED <<loopVars, joinVars>>
      PROVE  JoinInv(b)'
  BY <1>0, <1>9, JoinAdvance DEF TestStopped, Stages
<1>10. ASSUME NEW c \in Channel, NEW m \in Message, StopOnError(c, m), UNCHANGED <<loopVars, joinVars>>
       PROVE  JoinInv(b)'
  BY <1>0, <1>10, JoinAdvance DEF StopOnError, Stages
<1>11. ASSUME NEW c \in Channel, NEW m \in Message, NEW ec \in {"success", "failed"},
              HandleSend(c, m, ec), UNCHANGED <<loopVars, joinVars>>
       PROVE  JoinInv(b)'
  BY <1>0, <1>11, JoinAdvance DEF HandleSend, Stages
<1>12. ASSUME NEW c \in Channel, NEW m \in Message, ReportDirect(c, m) PROVE JoinInv(b)'
  BY <1>0, <1>12, JoinAdvance DEF ReportDirect, Stages
<1>13. ASSUME NEW c \in Channel, NEW m \in Message, HandleChannel(c, m) PROVE JoinInv(b)'
  BY <1>0, <1>13, JoinAdvance DEF HandleChannel, Stages
<1>14. ASSUME NEW c \in Channel, NEW a \in Message, HandleComplete(c, a) PROVE JoinInv(b)'
  <2>1. CASE a = b
    BY <1>0, <1>14, <2>1, JoinCounts
  <2>2. CASE a # b
    <3>1. /\ \A n \in Message : n # a => stage'[c][n] = stage[c][n]
          /\ \A e \in Channel : e # c => stage'[e] = stage[e]
      <4>1. Advance(c, a, "join", "reported") /\ "reported" \in Stages
        BY <1>14 DEF HandleComplete, Stages
      <4> QED BY <1>0, <4>1, StageMoves, Zenon
    <3>2. \A e \in Channel : stage'[e][b] = stage[e][b]
      BY <1>0, <2>2, <3>1
    <3>3. joined'[b] = joined[b] /\ completed'[b] = completed[b]
      BY <1>0, <1>14, <2>2 DEF HandleComplete, Join, TypeOK, joinVars
    <3> QED
      BY <1>0, <1>14, <3>2, <3>3, JoinKept DEF HandleComplete, loopVars
  <2> QED
    BY <2>1, <2>2
<1>15. CASE UNCHANGED vars
  BY <1>1, <1>15 DEF vars, sendingVars
<1> QED
  BY <1>2, <1>4, <1>5, <1>6, <1>7, <1>8, <1>9, <1>10, <1>11, <1>12, <1>13, <1>14, <1>15
     DEF Next, SendSequence, Report

-----------------------------------------------------------------------------
\* A step of one send changes its own status only.
LEMMA StatusStep ==
  ASSUME TypeOK, NEW c \in Channel, NEW m \in Message, NEW from, NEW to \in Stages,
         Advance(c, m, from, to),
         \A d \in Channel : d # c => result'[d] = result[d],
         \A n \in Message : n # m => result'[c][n] = result[c][n]
  PROVE  /\ Status' = [Status EXCEPT ![c][m] = StatusOf(c, m)']
         /\ \A d \in Channel, n \in Message : d # c \/ n # m => StatusOf(d, n)' = StatusOf(d, n)
<1>1. /\ \A n \in Message : n # m => stage'[c][n] = stage[c][n]
      /\ \A d \in Channel : d # c => stage'[d] = stage[d]
  BY StageMoves
<1>2. \A d \in Channel, n \in Message : d # c \/ n # m => StatusOf(d, n)' = StatusOf(d, n)
  BY <1>1 DEF StatusOf
<1> QED
  BY <1>2, ZenonT(40) DEF Status

\* Every step of the send sequence is a step of Outbox, or leaves it unchanged.
LEMMA OutboxStep == ASSUME BroadcastInv, [Next]_vars PROVE [O!Next]_(O!vars)
<1>0. TypeOK /\ \A c \in Channel : ChannelInv(c)
  BY DEF BroadcastInv, SequencerInv
<1>1. ASSUME queue' = queue, stage' = stage, result' = result, stopped' = stopped PROVE UNCHANGED O!vars
  BY <1>1 DEF O!vars, Status, StatusOf
<1>2. ASSUME NEW c \in Channel, StoreChannel(c) \/ RemoveChannel(c) PROVE UNCHANGED O!vars
  BY <1>1, <1>2 DEF StoreChannel, RemoveChannel, sendingVars, stopVars, sequencerVars
<1>3. ASSUME NEW c \in Channel, NEW m \in Message, Send(c, m) PROVE O!Accept(c, m)
  <2>1. stage[c][m] = "new" /\ stage'[c][m] = "queued" /\ result' = result
    BY <1>0, <1>3, StageMoves DEF Send, Stages
  <2>2. Status' = [Status EXCEPT ![c][m] = StatusOf(c, m)']
    BY <1>0, <1>3, StatusStep DEF Send, Stages
  <2>3. StatusOf(c, m) = "new" /\ StatusOf(c, m)' = "waiting"
    BY <2>1 DEF StatusOf
  <2>4. Status[c][m] = "new"
    BY <2>3 DEF Status
  <2> QED
    BY <1>3, <2>2, <2>3, <2>4 DEF O!Accept, Send, Lock, stopVars
<1>4. ASSUME NEW c \in Channel, DoSend(c) PROVE O!Write(c)
  <2>0. queue[c] # <<>> /\ Head(queue[c]) \in Message
    BY <1>0, <1>4 DEF DoSend, ChannelInv, TypeOK
  <2> PICK m \in Message : m = Head(queue[c])
    BY <2>0
  <2>1. Advance(c, m, "queued", "writing")
    BY <1>4 DEF DoSend
  <2>2. /\ \A d \in Channel : d # c => result'[d] = result[d]
        /\ \A n \in Message : n # m => result'[c][n] = result[c][n]
    BY <1>0, <1>4, <2>1 DEF DoSend, TypeOK
  <2>3. stage'[c][m] = "writing"
    BY <1>0, <2>1, StageMoves DEF Stages
  <2>4. Status' = [Status EXCEPT ![c][m] = StatusOf(c, m)']
    BY <1>0, <2>1, <2>2, StatusStep DEF Stages
  <2>5. StatusOf(c, m)' = "writing"
    BY <2>3 DEF StatusOf
  <2>6. \A n \in Message : stage[c][n] # "writing"
    BY <1>0, <1>4 DEF DoSend, ChannelInv
  <2>7. \A n \in Message : Status[c][n] # "writing"
    <3> SUFFICES ASSUME NEW n \in Message PROVE StatusOf(c, n) # "writing"
      BY DEF Status
    <3>1. stage[c][n] \in Ended => result[c][n] \in {"success", "failed"}
      BY <1>0 DEF ChannelInv
    <3> QED
      BY <2>6, <3>1 DEF StatusOf, Ended
  <2> QED
    BY <1>4, <2>0, <2>4, <2>5, <2>7, ZenonT(40) DEF O!Write, DoSend, stopVars
<1>5. ASSUME NEW c \in Channel, NEW m \in Message, NEW ec \in {"success", "failed"}, HandleSend(c, m, ec)
      PROVE  O!Finish(c, m)
  <2>1. stage[c][m] = "writing" /\ stage'[c][m] = "unlocked"
    BY <1>0, <1>5, StageMoves DEF HandleSend, Stages
  <2>2. /\ \A d \in Channel : d # c => result'[d] = result[d]
        /\ \A n \in Message : n # m => result'[c][n] = result[c][n]
    BY <1>0, <1>5 DEF HandleSend, TypeOK
  <2>3. Status' = [Status EXCEPT ![c][m] = StatusOf(c, m)']
    BY <1>0, <1>5, <2>2, StatusStep DEF HandleSend, Stages
  <2>4. StatusOf(c, m) = "writing" /\ StatusOf(c, m)' = "written"
    BY <2>1 DEF StatusOf
  <2>5. Status[c][m] = "writing"
    BY <2>4 DEF Status
  <2> QED
    BY <1>5, <2>3, <2>4, <2>5 DEF O!Finish, HandleSend, Unlock, stopVars
\* A step between two stages that are the same to the caller.
<1>6. ASSUME NEW c \in Channel, NEW m \in Message, NEW from, NEW to, Advance(c, m, from, to),
             \/ /\ from \in {"unlocked", "stop", "close"}
                /\ to \in {"stop", "close", "report"}
             \/ from = "join" /\ to = "reported",
             result' = result
      PROVE  Status' = Status
  <2>1. stage[c][m] = from /\ stage'[c][m] = to /\ to \in Stages
    BY <1>0, <1>6, StageMoves DEF Stages
  <2>2. \A d \in Channel, n \in Message : d # c \/ n # m => StatusOf(d, n)' = StatusOf(d, n)
    BY <1>0, <1>6, <2>1, StatusStep
  <2>3. StatusOf(c, m)' = StatusOf(c, m)
    BY <1>6, <2>1 DEF StatusOf
  <2> QED
    BY <2>2, <2>3 DEF Status
<1>7. ASSUME NEW c \in Channel, NEW m \in Message, TestStopped(c, m) PROVE UNCHANGED O!vars
  BY <1>6, <1>7 DEF TestStopped, stopVars, sequencerVars, O!vars
<1>8. ASSUME NEW c \in Channel, NEW m \in Message, StopOnError(c, m) PROVE O!Stop(c) \/ UNCHANGED O!vars
  BY <1>6, <1>8 DEF StopOnError, sequencerVars, O!Stop, O!vars
<1>9. ASSUME NEW c \in Channel, StopChannel(c) PROVE O!Stop(c) \/ UNCHANGED O!vars
  <2>1. Status' = Status /\ queue' = queue
    BY <1>9 DEF StopChannel, Status, StatusOf, sequencerVars
  <2> QED
    BY <1>9, <2>1 DEF StopChannel, O!Stop, O!vars
<1>10. ASSUME NEW c \in Channel, NEW m \in Message, NEW to \in {"join", "reported"},
              Advance(c, m, "report", to), UNCHANGED <<stopVars, sequencerVars, result>>
       PROVE  \E ec \in {"success", "failed"} : O!Report(c, m, ec)
  <2>1. stage[c][m] = "report" /\ stage'[c][m] = to
    BY <1>0, <1>10, StageMoves DEF Stages
  <2>2. Status' = [Status EXCEPT ![c][m] = StatusOf(c, m)']
    BY <1>0, <1>10, StatusStep DEF Stages
  <2>3. StatusOf(c, m) = "written" /\ StatusOf(c, m)' = result[c][m]
    BY <1>10, <2>1 DEF StatusOf
  <2>4. result[c][m] \in {"success", "failed"} /\ (result[c][m] = "failed" => stopped[c])
    BY <1>0, <2>1 DEF ChannelInv, Ended
  <2>5. Status[c][m] = "written"
    BY <2>3 DEF Status
  <2>6. O!Report(c, m, result[c][m])
    BY <1>10, <2>2, <2>3, <2>4, <2>5 DEF O!Report, stopVars, sequencerVars
  <2> QED
    BY <2>4, <2>6
<1>11. ASSUME NEW c \in Channel, NEW m \in Message, ReportDirect(c, m) \/ HandleChannel(c, m)
       PROVE  \E ec \in {"success", "failed"} : O!Report(c, m, ec)
  BY <1>10, <1>11 DEF ReportDirect, HandleChannel
<1>12. ASSUME NEW c \in Channel, NEW m \in Message, HandleComplete(c, m) PROVE UNCHANGED O!vars
  BY <1>6, <1>12 DEF HandleComplete, stopVars, sequencerVars, O!vars
<1>13. ASSUME NEW b \in Broadcasts, CopyCollection(b) PROVE UNCHANGED O!vars
  BY <1>1, <1>13 DEF CopyCollection, sendingVars, stopVars, sequencerVars
<1>14. ASSUME NEW b \in Broadcasts, NEW c \in Channel, SendNext(b, c) PROVE O!Accept(c, b)
  BY <1>3, <1>14, BroadcastAssumption DEF SendNext
<1>15. CASE UNCHANGED vars
  BY <1>1, <1>15 DEF vars, sendingVars, stopVars, sequencerVars
<1> QED
  BY <1>2, <1>3, <1>4, <1>5, <1>7, <1>8, <1>9, <1>11, <1>12, <1>13, <1>14, <1>15, BroadcastAssumption, Zenon
     DEF Next, SendSequence, Report, SendDirect, O!Next

-----------------------------------------------------------------------------
(* Neither a send nor a broadcast is lost.                                  *)

\* A locked sequencer has a write posted or under way.
Locked(c) == executing[c] => posted[c] \/ \E m \in Message : stage[c][m] = "writing"

\* The loop of broadcast b has sent to the channels it has passed.
Sent(b) == \A c \in channels[b] \ toSend[b] : stage[c][b] # "new"

ToCome == (\A c \in Channel : Locked(c)) /\ \A b \in Broadcasts : Sent(b)

\* The steps by what they do to the stages: one send advances, or none.
LEMMA StageSteps ==
  ASSUME SequencerInv, [Next]_vars
  PROVE  \/ stage' = stage /\ UNCHANGED sequencerVars
         \/ \E c \in Channel, m \in Message : Send(c, m)
         \/ \E c \in Channel : DoSend(c)
         \/ \E c \in Channel, m \in Message, ec \in {"success", "failed"} : HandleSend(c, m, ec)
         \/ /\ UNCHANGED sequencerVars
            /\ \E c \in Channel, m \in Message, from \in Ended, to \in Ended : Advance(c, m, from, to)
<1>1. ASSUME NEW c \in Channel, \/ StoreChannel(c) \/ RemoveChannel(c) \/ StopChannel(c)
      PROVE  stage' = stage /\ UNCHANGED sequencerVars
  BY <1>1 DEF StoreChannel, RemoveChannel, StopChannel, sendingVars
<1>2. ASSUME NEW b \in Broadcasts, CopyCollection(b) PROVE stage' = stage /\ UNCHANGED sequencerVars
  BY <1>2 DEF CopyCollection, sendingVars
<1>3. ASSUME NEW c \in Channel, NEW m \in Message, TestStopped(c, m) \/ StopOnError(c, m)
      PROVE  /\ UNCHANGED sequencerVars
             /\ \E from \in Ended, to \in Ended : Advance(c, m, from, to)
  BY <1>3 DEF TestStopped, StopOnError, Ended
<1>4. ASSUME NEW c \in Channel, NEW m \in Message, Report(c, m)
      PROVE  /\ UNCHANGED sequencerVars
             /\ \E from \in Ended, to \in Ended : Advance(c, m, from, to)
  BY <1>4 DEF Report, ReportDirect, HandleChannel, HandleComplete, Ended
<1>5. ASSUME NEW c \in Channel, NEW m \in Message, SendDirect(c, m) PROVE Send(c, m)
  BY <1>5 DEF SendDirect
<1>6. ASSUME NEW b \in Broadcasts, NEW c \in Channel, SendNext(b, c)
      PROVE  b \in Message /\ Send(c, b)
  BY <1>6, BroadcastAssumption DEF SendNext
<1>7. CASE UNCHANGED vars
  BY <1>7 DEF vars, sendingVars
<1> QED
  BY <1>1, <1>2, <1>3, <1>4, <1>5, <1>6, <1>7, Zenon DEF Next, SendSequence

\* A sequencer that stays as it is, on which no write ends, stays locked.
LEMMA LockedKept ==
  ASSUME NEW d \in Channel, Locked(d), executing'[d] = executing[d], posted'[d] = posted[d],
         \A m \in Message : stage[d][m] = "writing" => stage'[d][m] = "writing"
  PROVE  Locked(d)'
  BY DEF Locked

\* Every step keeps a locked sequencer working, and takes no send back.
LEMMA LockedStep ==
  ASSUME SequencerInv, [Next]_vars, NEW d \in Channel, Locked(d)
  PROVE  Locked(d)' /\ \A n \in Message : stage[d][n] # "new" => stage'[d][n] # "new"
<1>t. TypeOK
  BY DEF SequencerInv
<1>1. CASE stage' = stage /\ UNCHANGED sequencerVars
  BY <1>1, LockedKept DEF sequencerVars
<1>2. ASSUME NEW c \in Channel, NEW m \in Message, NEW from, NEW to \in Stages \ {"new"},
             Advance(c, m, from, to)
      PROVE  /\ \A n \in Message : stage[d][n] # "new" => stage'[d][n] # "new"
             /\ d # c => stage'[d] = stage[d]
             /\ stage[c][m] = from /\ stage'[c][m] = to
             /\ \A n \in Message : n # m => stage'[c][n] = stage[c][n]
  BY <1>2, <1>t, StageMoves
<1>3. ASSUME NEW c \in Channel, NEW m \in Message, Send(c, m)
      PROVE  Locked(d)' /\ \A n \in Message : stage[d][n] # "new" => stage'[d][n] # "new"
  <2>1. /\ \A n \in Message : stage[d][n] # "new" => stage'[d][n] # "new"
        /\ d # c => stage'[d] = stage[d]
        /\ stage[c][m] = "new"
        /\ \A n \in Message : n # m => stage'[c][n] = stage[c][n]
    BY <1>2, <1>3 DEF Send, Stages
  <2>2. CASE d # c
    BY <1>3, <1>t, <2>1, <2>2, LockedKept DEF Send, Lock, TypeOK
  <2>3. CASE d = c
    <3>1. posted'[d] <=> posted[d] \/ ~executing[d]
      BY <1>3, <1>t, <2>3, Zenon DEF Send, Lock, TypeOK
    <3> QED
      BY <2>1, <2>3, <3>1 DEF Locked
  <2> QED
    BY <2>2, <2>3
<1>4. ASSUME NEW c \in Channel, DoSend(c)
      PROVE  Locked(d)' /\ \A n \in Message : stage[d][n] # "new" => stage'[d][n] # "new"
  <2>1. Head(queue[c]) \in Message /\ Advance(c, Head(queue[c]), "queued", "writing")
    BY <1>4 DEF DoSend, SequencerInv, ChannelInv, TypeOK
  <2>2. /\ \A n \in Message : stage[d][n] # "new" => stage'[d][n] # "new"
        /\ d # c => stage'[d] = stage[d]
        /\ stage'[c][Head(queue[c])] = "writing"
    BY <1>2, <2>1 DEF Stages
  <2>3. CASE d # c
    BY <1>4, <1>t, <2>2, <2>3, LockedKept DEF DoSend, TypeOK
  <2>4. CASE d = c
    BY <2>1, <2>2, <2>4 DEF Locked
  <2> QED
    BY <2>2, <2>3, <2>4
<1>5. ASSUME NEW c \in Channel, NEW m \in Message, NEW ec \in {"success", "failed"},
             HandleSend(c, m, ec)
      PROVE  Locked(d)' /\ \A n \in Message : stage[d][n] # "new" => stage'[d][n] # "new"
  <2>1. /\ \A n \in Message : stage[d][n] # "new" => stage'[d][n] # "new"
        /\ d # c => stage'[d] = stage[d]
    BY <1>2, <1>5 DEF HandleSend, Stages
  <2>2. CASE d # c
    BY <1>5, <1>t, <2>1, <2>2, LockedKept DEF HandleSend, Unlock, TypeOK
  <2>3. CASE d = c
    <3>1. executing'[d] = (queue[d] # <<>>) /\ posted'[d] = (queue[d] # <<>>)
      BY <1>5, <1>t, <2>3, Zenon DEF HandleSend, Unlock, TypeOK
    <3> QED
      BY <2>1, <3>1 DEF Locked
  <2> QED
    BY <2>2, <2>3
<1>6. ASSUME NEW c \in Channel, NEW m \in Message, NEW from \in Ended, NEW to \in Ended,
             Advance(c, m, from, to), UNCHANGED sequencerVars
      PROVE  Locked(d)' /\ \A n \in Message : stage[d][n] # "new" => stage'[d][n] # "new"
  <2>1. from # "writing" /\ to \in Stages \ {"new"}
    BY DEF Ended, Stages
  <2>2. /\ \A n \in Message : stage[d][n] # "new" => stage'[d][n] # "new"
        /\ \A n \in Message : stage[d][n] = "writing" => stage'[d][n] = "writing"
    BY <1>2, <1>6, <2>1
  <2> QED
    BY <1>6, <2>2, LockedKept DEF sequencerVars
<1> QED
  BY <1>1, <1>3, <1>4, <1>5, <1>6, StageSteps, Zenon

\* Every step keeps what the loop of a broadcast has sent.
LEMMA SentStep ==
  ASSUME SequencerInv, [Next]_vars, NEW b \in Broadcasts, Sent(b),
         \A d \in Channel, n \in Message : stage[d][n] # "new" => stage'[d][n] # "new"
  PROVE  Sent(b)'
<1>t. /\ TypeOK /\ b \in Message /\ channels[b] \subseteq Channel
      /\ channels \in [Broadcasts -> SUBSET Channel] /\ toSend \in [Broadcasts -> SUBSET Channel]
  BY BroadcastAssumption DEF SequencerInv, TypeOK
<1>1. ASSUME channels'[b] = channels[b], toSend'[b] = toSend[b] PROVE Sent(b)'
  BY <1>1, <1>t DEF Sent
<1>2. ASSUME NEW a \in Broadcasts, CopyCollection(a) PROVE Sent(b)'
  <2>1. CASE a = b
    <3>1. channels'[b] = toSend'[b]
      BY <1>t, <1>2, <2>1 DEF CopyCollection
    <3> QED
      BY <3>1 DEF Sent
  <2>2. CASE a # b
    BY <1>t, <1>1, <1>2, <2>2 DEF CopyCollection
  <2> QED
    BY <2>1, <2>2
<1>3. ASSUME NEW a \in Broadcasts, NEW c \in Channel, SendNext(a, c) PROVE Sent(b)'
  <2>1. CASE a = b
    <3>1. channels' = channels /\ toSend'[b] = toSend[b] \ {c} /\ Advance(c, b, "new", "queued")
      BY <1>t, <1>3, <2>1 DEF SendNext, Send
    <3>2. stage'[c][b] = "queued"
      BY <1>t, <3>1, StageMoves DEF Stages
    <3> QED
      BY <1>t, <3>1, <3>2 DEF Sent
  <2>2. CASE a # b
    BY <1>t, <1>1, <1>3, <2>2 DEF SendNext
  <2> QED
    BY <2>1, <2>2
<1>4. ASSUME NEW c \in Channel, StoreChannel(c) \/ RemoveChannel(c) \/ SendSequence(c) PROVE Sent(b)'
  BY <1>1, <1>4 DEF StoreChannel, RemoveChannel, SendSequence, loopVars
<1>5. ASSUME NEW c \in Channel, NEW m \in Message, SendDirect(c, m) \/ Report(c, m) PROVE Sent(b)'
  BY <1>1, <1>5 DEF SendDirect, Report, ReportDirect, HandleChannel, HandleComplete, loopVars
<1>6. CASE UNCHANGED vars
  BY <1>1, <1>6 DEF vars, loopVars
<1> QED
  BY <1>2, <1>3, <1>4, <1>5, <1>6, Zenon DEF Next

-----------------------------------------------------------------------------
(* The number of the counted channels.  The library's facts about finite    *)
(* sets are only needed from here on.                                       *)
INSTANCE FiniteSetTheorems

\* The channels of a broadcast are counted as the steps need it.
LEMMA ChannelsCounted == ChannelCounts
<1>1. ASSUME NEW S \in SUBSET Channel PROVE IsFiniteSet(S)
  BY FS_Subset, BroadcastAssumption
<1>2. Cardinality({}) = 0
  BY FS_EmptySet
<1>3. ASSUME NEW S \in SUBSET Channel PROVE Cardinality(S) \in Nat
  BY <1>1, FS_CardinalityType
<1>4. ASSUME NEW S \in SUBSET Channel, NEW c \in Channel \ S
      PROVE  Cardinality(S \cup {c}) = Cardinality(S) + 1
  <2>1. IsFiniteSet(S) /\ c \notin S
    BY <1>1
  <2> QED BY <2>1, FS_AddElement
<1>5. ASSUME NEW S \in SUBSET Channel, NEW T \in SUBSET S, Cardinality(T) = Cardinality(S)
      PROVE  T = S
  <2>1. IsFiniteSet(S)
    BY <1>1
  <2> QED BY <1>5, <2>1, FS_Subset
<1> QED BY <1>2, <1>3, <1>4, <1>5 DEF ChannelCounts

\* BroadcastInv is an invariant of the channels and the broadcasts.
LEMMA Invariant == Spec => []BroadcastInv
<1>1. Init => BroadcastInv
  BY InitHolds, ChannelsCounted
<1>2. BroadcastInv /\ [Next]_vars => BroadcastInv'
  BY SequencerStep, JoinStep, ChannelsCounted DEF BroadcastInv
<1> QED
  BY <1>1, <1>2, PTL DEF Spec

\* The variables of the channels and of the broadcasts keep their types.
THEOREM TypeCorrect == Spec => []TypeOK
  BY Invariant, PTL DEF BroadcastInv, SequencerInv

\* p2p::broadcast(): handle_complete is invoked once at most, after the sends to
\* all the channels have been reported, for every number of channels.
THEOREM BroadcastCompletesLast == Spec => []CompletedLast
<1>1. ASSUME BroadcastInv, NEW b \in Broadcasts
      PROVE  /\ completed[b] <= 1
             /\ completed[b] = 1 => \A c \in channels[b] : stage[c][b] \in {"join", "reported"}
  <2>1. completed[b] = IF channels[b] # {} /\ Counted(b) = channels[b] THEN 1 ELSE 0
    BY <1>1 DEF BroadcastInv, JoinInv
  <2>2. Counted(b) = channels[b] => \A c \in channels[b] : stage[c][b] = "reported"
    BY DEF Counted
  <2> QED
    BY <2>1, <2>2
<1>2. BroadcastInv => CompletedLast
  BY <1>1 DEF CompletedLast
<1> QED
  BY <1>2, Invariant, PTL

\* The send sequence of proxy.cpp implements Outbox for all channels, messages
\* and broadcasts: whole messages in the order of send(), one write at a time,
\* one report each, and failures on stopped channels only.
THEOREM SendingImplementsOutbox == Spec => ImplementsOutbox
<1>1. Init => O!Init
  BY DEF Init, InitSending, O!Init, Status, StatusOf
<1>2. BroadcastInv /\ [Next]_vars => [O!Next]_(O!vars)
  BY OutboxStep
<1> QED
  BY <1>1, <1>2, Invariant, PTL DEF Spec, O!Spec, ImplementsOutbox
\* ToCome is an invariant of the channels and the broadcasts.
LEMMA ToComeInvariant == Spec => []ToCome
<1>1. Init => ToCome
  BY DEF Init, InitSending, ToCome, Locked, Sent
<1>2. BroadcastInv /\ ToCome /\ [Next]_vars => ToCome'
  BY LockedStep, SentStep DEF BroadcastInv, ToCome
<1> QED
  BY <1>1, <1>2, Invariant, PTL DEF Spec

\* No send is lost in the sequencer (proxy.cpp 268-303): whichever threads call
\* send() and end writes, it is locked just while a write is posted or under
\* way, and what is queued waits for that write.
THEOREM SendsGoOn == Spec => []SendToCome
<1>1. ASSUME BroadcastInv, ToCome, NEW c \in Channel
      PROVE  /\ executing[c] <=> posted[c] \/ \E m \in Message : stage[c][m] = "writing"
             /\ queue[c] # <<>> => executing[c]
  BY <1>1 DEF BroadcastInv, SequencerInv, ChannelInv, ToCome, Locked
<1>2. BroadcastInv /\ ToCome => SendToCome
  BY <1>1 DEF SendToCome
<1> QED
  BY <1>2, Invariant, ToComeInvariant, PTL

\* A broadcast that has not completed waits for a channel whose send is still to
\* be made or joined, however many channels it has and whatever becomes of them.
THEOREM JoinsGoOn == Spec => []JoinToCome
<1>1. ASSUME BroadcastInv, ToCome, NEW b \in Broadcasts, channels[b] # {}, completed[b] = 0
      PROVE  \E c \in channels[b] : stage[c][b] # "reported" /\ (stage[c][b] = "new" => c \in toSend[b])
  <2>1. Counted(b) # channels[b]
    BY <1>1 DEF BroadcastInv, JoinInv
  <2>2. PICK c \in channels[b] : stage[c][b] # "reported"
    BY <2>1 DEF Counted
  <2>3. stage[c][b] = "new" => c \in toSend[b]
    BY <1>1 DEF ToCome, Sent
  <2> QED
    BY <2>2, <2>3
<1>2. BroadcastInv /\ ToCome => JoinToCome
  BY <1>1 DEF JoinToCome
<1> QED
  BY <1>2, Invariant, ToComeInvariant, PTL
==============================================================================
