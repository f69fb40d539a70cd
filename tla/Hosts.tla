-------------------------------- MODULE Hosts --------------------------------
(***************************************************************************)
(* The address pool of src/hosts.cpp: a circular buffer of peer addresses  *)
(* that is loaded from a file by start(), saved to it by stop(), and fed   *)
(* one address or one peer's list of addresses at a time.                  *)
(*                                                                         *)
(* Every operation runs under mutex_, so operations are atomic with        *)
(* respect to each other.  The three that loop (load, save, store a list)  *)
(* hold the unique lock for the whole loop; they are modelled one          *)
(* iteration per step, `lock' naming the holder, because the process can   *)
(* be killed between two iterations and because it makes the loops part of *)
(* the induction.                                                          *)
(*                                                                         *)
(* An address is an element of Host: its ip and port, the only parts that  *)
(* find() compares and that the file keeps.                                *)
(***************************************************************************)
EXTENDS Integers, Sequences, FiniteSets

CONSTANTS
    Host,              \* addresses (ip and port)
    ZeroPort,          \* the addresses whose port is zero
    Invalid,           \* the addresses for which is_valid() is false
    HostPoolCapacity,  \* settings.host_pool_capacity
    Batches,           \* the address lists a peer may send
    SavedFiles         \* the files a previous process may have left

ASSUME HostsAssumption ==
    /\ ZeroPort \subseteq Host
    /\ Invalid \subseteq Host
    /\ HostPoolCapacity \in Nat
    /\ Batches \subseteq Seq(Host)
    /\ SavedFiles \subseteq Seq(Host)

\* No element of the sequence s occurs twice.
Distinct(s) == \A i, j \in 1..Len(s) : s[i] = s[j] => i = j

\* A file that an earlier stop() wrote lists no address twice.
ASSUME SavedFilesAssumption == \A f \in SavedFiles : Distinct(f)

VARIABLES
    buffer,    \* buffer_, oldest first
    stopped,   \* stopped_
    file,      \* the lines of the hosts file
    lock,      \* the looping operation that holds mutex_, or "free"
    index,     \* the loop's index, from 1
    opened,    \* did the stream of the load or save open?
    batch,     \* the locals of store(list)
    code       \* what the last operation returned

vars == <<buffer, stopped, file, lock, index, opened, batch, code>>

disabled == HostPoolCapacity = 0
Capacity == IF HostPoolCapacity > 1 THEN HostPoolCapacity ELSE 1

Lesser(a, b) == IF a < b THEN a ELSE b
Greater(a, b) == IF a > b THEN a ELSE b

Codes == {"success", "operation_failed", "service_stopped", "not_found"}

\* The addresses a pool or a file holds.
Members(s) == {s[i] : i \in 1..Len(s)}

\* find(host) == buffer_.end().
Absent(h) == h \notin Members(buffer)

\* boost::circular_buffer::push_back: a full buffer loses its oldest entry.
PushBack(b, h) == Append(IF Len(b) < Capacity THEN b ELSE Tail(b), h)

\* The locals of store(list); `gap' and `examined' (iterations so far) are
\* kept for the properties, `accepted' is the set the code counts.
BatchType ==
    [list : Seq(Host), usable : Nat, accept : Nat, step : Nat \ {0},
     gap : Nat, examined : Nat, accepted : SUBSET Host]

NoBatch ==
    [list |-> <<>>, usable |-> 0, accept |-> 0, step |-> 1,
     gap |-> 0, examined |-> 0, accepted |-> {}]

Init ==
    /\ buffer = <<>>
    /\ stopped = TRUE
    /\ file \in SavedFiles
    /\ lock = "free"
    /\ index = 1
    /\ opened = FALSE
    /\ batch = NoBatch
    /\ code = "success"

Return(c) ==
    /\ code' = c
    /\ UNCHANGED <<buffer, stopped, file, lock, index, opened, batch>>

(***************************************************************************)
(* start(): load the file.  The stream's bad() is false when it could not  *)
(* be opened (only the failbit is set), so file_error is never seen and    *)
(* getline() then reads no line.                                           *)
(***************************************************************************)
StartRefused ==
    /\ lock = "free"
    /\ \/ disabled /\ Return("success")
       \/ ~disabled /\ ~stopped /\ Return("operation_failed")

StartLoad ==
    /\ lock = "free"
    /\ ~disabled
    /\ stopped
    /\ stopped' = FALSE
    /\ lock' = "load"
    /\ index' = 1
    /\ opened' \in BOOLEAN
    /\ UNCHANGED <<buffer, file, batch, code>>

LoadLine ==
    /\ lock = "load"
    /\ opened
    /\ index <= Len(file)
    /\ buffer' = IF file[index] \in ZeroPort THEN buffer
                 ELSE PushBack(buffer, file[index])
    /\ index' = index + 1
    /\ UNCHANGED <<stopped, file, lock, opened, batch, code>>

LoadEnd ==
    /\ lock = "load"
    /\ ~opened \/ index > Len(file)
    /\ lock' = "free"
    /\ code' = "success"
    /\ UNCHANGED <<buffer, stopped, file, index, opened, batch>>

(***************************************************************************)
(* stop(): save the file.  Opening the stream truncates the file.  Writes  *)
(* to a stream that did not open are dropped without an error; bad() was   *)
(* read before the first of them.                                          *)
(***************************************************************************)
StopIdle ==
    /\ lock = "free"
    /\ disabled \/ stopped
    /\ Return("success")

\* A mutant of StopSave: the stream is opened for appending.
StopSaveAppends ==
    /\ lock = "free"
    /\ ~disabled
    /\ ~stopped
    /\ stopped' = TRUE
    /\ lock' = "save"
    /\ index' = 1
    /\ opened' \in BOOLEAN
    /\ UNCHANGED <<buffer, file, batch, code>>

StopSave ==
    /\ lock = "free"
    /\ ~disabled
    /\ ~stopped
    /\ stopped' = TRUE
    /\ lock' = "save"
    /\ index' = 1
    /\ opened' \in BOOLEAN
    /\ file' = IF opened' THEN <<>> ELSE file
    /\ UNCHANGED <<buffer, batch, code>>

SaveEntry ==
    /\ lock = "save"
    /\ index <= Len(buffer)
    /\ file' = IF opened THEN Append(file, buffer[index]) ELSE file
    /\ index' = index + 1
    /\ UNCHANGED <<buffer, stopped, lock, opened, batch, code>>

SaveEnd ==
    /\ lock = "save"
    /\ index > Len(buffer)
    /\ buffer' = <<>>
    /\ lock' = "free"
    /\ code' = "success"
    /\ UNCHANGED <<stopped, file, index, opened, batch>>

(***************************************************************************)
(* remove(host) and store(host).                                           *)
(***************************************************************************)
Remove(h) ==
    /\ lock = "free"
    /\ \/ disabled /\ Return("not_found")
       \/ ~disabled /\ stopped /\ Return("service_stopped")
       \/ ~disabled /\ ~stopped /\ Absent(h) /\ Return("not_found")
       \/ /\ ~disabled /\ ~stopped
          /\ \E i \in 1..Len(buffer) :
                /\ buffer[i] = h
                /\ \A j \in 1..(i - 1) : buffer[j] # h
                /\ buffer' = SubSeq(buffer, 1, i - 1)
                                \o SubSeq(buffer, i + 1, Len(buffer))
          /\ code' = "success"
          /\ UNCHANGED <<stopped, file, lock, index, opened, batch>>

StoreOne(h) ==
    /\ lock = "free"
    /\ \/ (disabled \/ h \in Invalid) /\ Return("success")
       \/ ~disabled /\ h \notin Invalid /\ stopped /\ Return("service_stopped")
       \/ ~disabled /\ h \notin Invalid /\ ~stopped /\ ~Absent(h)
          /\ Return("success")
       \/ /\ ~disabled /\ h \notin Invalid /\ ~stopped /\ Absent(h)
          /\ buffer' = PushBack(buffer, h)
          /\ code' = "success"
          /\ UNCHANGED <<stopped, file, lock, index, opened, batch>>

(***************************************************************************)
(* store(list): accept a random share of one peer's addresses, at least    *)
(* the free slots.                                                         *)
(***************************************************************************)
\* A mutant of Usable: the list is not cut to the capacity.
UsableUncut(l) == Len(l)

Usable(l) == Lesser(Len(l), Capacity)

Gap == Capacity - Len(buffer)

\* A mutant of Step: the stride is too long.
StepTooLong(use, acc) == use \div acc + 1

Step(use, acc) == Greater(use \div acc, 1)

StoreListRefused(l) ==
    /\ lock = "free"
    /\ \/ (disabled \/ l = <<>>) /\ Return("success")
       \/ ~disabled /\ l # <<>> /\ stopped /\ Return("service_stopped")

\* A mutant of StoreListBegin: the shortfall is not considered.
StoreListBeginRandom(l) ==
    /\ lock = "free"
    /\ ~disabled
    /\ l # <<>>
    /\ ~stopped
    /\ \E random \in 1..Usable(l) :
          batch' = [list |-> l, usable |-> Usable(l), accept |-> random,
                    step |-> Step(Usable(l), random), gap |-> Gap, examined |-> 0,
                    accepted |-> {}]
    /\ lock' = "store"
    /\ index' = 1
    /\ UNCHANGED <<buffer, stopped, file, opened, code>>

StoreListBegin(l) ==
    /\ lock = "free"
    /\ ~disabled
    /\ l # <<>>
    /\ ~stopped
    /\ \E random \in 1..Usable(l) :
          batch' = [list |-> l,
                    usable |-> Usable(l),
                    accept |-> Greater(Gap, random),
                    step |-> Step(Usable(l), Greater(Gap, random)),
                    gap |-> Gap,
                    examined |-> 0,
                    accepted |-> {}]
    /\ lock' = "store"
    /\ index' = 1
    /\ UNCHANGED <<buffer, stopped, file, opened, code>>

\* A mutant of StoreListEntry: the pool is not searched.
StoreListEntryUnsearched ==
    /\ lock = "store"
    /\ index <= batch.usable
    /\ LET host == batch.list[index]
       IN  /\ buffer' = IF host \notin Invalid THEN PushBack(buffer, host) ELSE buffer
           /\ batch' = [batch EXCEPT !.examined = @ + 1,
                                    !.accepted = @ \cup ({host} \ Invalid)]
    /\ index' = index + batch.step
    /\ UNCHANGED <<stopped, file, lock, opened, code>>

StoreListEntry ==
    /\ lock = "store"
    /\ index <= batch.usable
    /\ LET host == batch.list[index]
           pushed == host \notin Invalid /\ Absent(host)
       IN  /\ buffer' = IF pushed THEN PushBack(buffer, host) ELSE buffer
           /\ batch' = [batch EXCEPT
                           !.examined = @ + 1,
                           !.accepted = IF pushed THEN @ \cup {host} ELSE @]
    /\ index' = index + batch.step
    /\ UNCHANGED <<stopped, file, lock, opened, code>>

StoreListEnd ==
    /\ lock = "store"
    /\ index > batch.usable
    /\ lock' = "free"
    /\ batch' = NoBatch
    /\ code' = "success"
    /\ UNCHANGED <<buffer, stopped, file, index, opened>>

(***************************************************************************)
(* The process is killed and started again: memory is lost, the file stays *)
(* as far as it was written.                                               *)
(***************************************************************************)
Crash ==
    /\ buffer' = <<>>
    /\ stopped' = TRUE
    /\ lock' = "free"
    /\ index' = 1
    /\ opened' = FALSE
    /\ batch' = NoBatch
    /\ code' = "success"
    /\ UNCHANGED file

Next ==
    \/ StartRefused \/ StartLoad \/ LoadLine \/ LoadEnd
    \/ StopIdle \/ StopSave \/ SaveEntry \/ SaveEnd
    \/ \E h \in Host : Remove(h) \/ StoreOne(h)
    \/ \E l \in Batches : StoreListRefused(l) \/ StoreListBegin(l)
    \/ StoreListEntry \/ StoreListEnd
    \/ Crash

Spec == Init /\ [][Next]_vars

------------------------------------------------------------------------------
\* The pool, the file and the locals of the loops keep their types.
TypeOK ==
    /\ buffer \in Seq(Host)
    /\ stopped \in BOOLEAN
    /\ file \in Seq(Host)
    /\ lock \in {"free", "load", "save", "store"}
    /\ index \in Nat \ {0}
    /\ opened \in BOOLEAN
    /\ batch \in BatchType
    /\ code \in Codes

\* Neither the pool nor the file ever lists an address twice: find() guards
\* every push_back but the one of the load loop (hosts.cpp 115-123), which
\* relies on an empty pool and on what an earlier stop(), perhaps killed in
\* the middle of its save, left in the file.
NoDuplicates == Distinct(buffer) /\ Distinct(file)

\* A list never pushes its own entries out: what store(list) accepted is
\* still in the pool at every later iteration, even when the list is longer
\* than the pool and older entries are evicted (hosts.cpp 289-322).
AcceptedKept == lock = "store" => batch.accepted \subseteq Members(buffer)

\* The stride leaves enough of the list: when the loop ends it has looked at
\* no fewer entries than there were free slots, or at all usable ones
\* (hosts.cpp 293-304).
GapExamined ==
    lock = "store" /\ index > batch.usable =>
        batch.examined >= Lesser(batch.gap, batch.usable)

\* A list that fits in the free slots is taken whole: the random share may
\* not cost an address while there is room for all (hosts.cpp 293-298).
FittingListTaken ==
    lock = "store" /\ index > batch.usable /\ batch.usable <= batch.gap =>
        \A i \in 1..batch.usable :
            batch.list[i] \in Invalid \cup Members(buffer)

\* The sequence b is made of the first n lines of f in their order, each once,
\* less those with a zero port: `at' gives the line of each entry of b.
Loaded(b, f, n) ==
    \E at \in [1..Len(b) -> 1..n] :
        /\ \A i \in 1..Len(b) : b[i] = f[at[i]] /\ b[i] \notin ZeroPort
        /\ \A i, j \in 1..Len(b) : i < j => at[i] < at[j]
        /\ \A k \in 1..n : f[k] \notin ZeroPort => \E i \in 1..Len(b) : at[i] = k

\* A save that opened its stream leaves the pool in the file, in order, and a
\* load that opened it rebuilds that pool, less the zero ports, whatever was
\* stored, saved or killed before (hosts.cpp 107-124 and 158-172).
SaveLoadRoundTrip ==
    [][/\ SaveEnd /\ opened => file' = buffer
       /\ LoadEnd /\ opened /\ Len(file) <= Capacity => Loaded(buffer', file, Len(file))]_vars
==============================================================================
