----------------------------- MODULE HostsProofs -----------------------------
(***************************************************************************)
(* Theorems about Hosts, for every set of addresses, every capacity, every *)
(* list a peer may send and every file without duplicates.                 *)
(*                                                                         *)
(* NoDuplicates is not inductive: the load loop pushes without looking.    *)
(* PoolInv adds what the loops know: a stopped pool is empty, a load has   *)
(* pushed lines it has already read, a save has written the entries it has *)
(* passed.  BatchInv adds what store(list) knows of its index, LoadInv     *)
(* what a load has made of its file.                                       *)
(***************************************************************************)
EXTENDS Hosts, SequenceTheorems, TLAPS

\* The pool is bounded and has no duplicates, and the loops over it know how
\* far they are.
PoolInv ==
    /\ Len(buffer) <= Capacity
    /\ Distinct(buffer)
    /\ Distinct(file)
    /\ stopped /\ lock # "save" => buffer = <<>>
    /\ lock \in {"load", "store"} => ~stopped
    /\ lock = "load" =>
          \A i \in 1..Len(buffer) : \E j \in 1..Len(file) :
                j < index /\ buffer[i] = file[j]
    /\ lock = "save" /\ opened =>
          /\ Len(file) = index - 1
          /\ \A j \in 1..Len(file) : j <= Len(buffer) /\ file[j] = buffer[j]

\* While a list is stored: the index counts strides, the accepted addresses
\* are among the newest `examined' of the pool, and a list that fits is
\* walked in strides of one.
BatchInv ==
    lock = "store" =>
        /\ batch.usable <= Capacity
        /\ batch.usable <= Len(batch.list)
        /\ batch.gap <= batch.accept
        /\ batch.step = 1 \/ batch.step * batch.accept <= batch.usable
        /\ index = 1 + batch.examined * batch.step
        /\ batch.examined <= batch.usable
        /\ batch.examined < index
        /\ \A h \in batch.accepted : \E p \in 1..Len(buffer) :
              p > Len(buffer) - batch.examined /\ buffer[p] = h
        /\ batch.usable <= batch.gap =>
              /\ batch.step = 1
              /\ Len(buffer) + batch.gap <= Capacity + batch.examined
              /\ \A i \in 1..batch.usable :
                    i < index => batch.list[i] \in Invalid \cup Members(buffer)

HostsInv == TypeOK /\ PoolInv /\ BatchInv

\* While a file is loaded, the pool has the lines read so far, less the zero
\* ports, unless the file is longer than the pool and pushed some out.
LoadInv ==
    lock = "load" =>
        /\ index <= Len(file) + 1
        /\ Len(buffer) < index
        /\ Len(file) <= Capacity => Loaded(buffer, file, index - 1)
------------------------------------------------------------------------------
\* The capacity of the pool is a positive number, whatever the setting.
LEMMA CapacityPositive == Capacity \in Nat /\ Capacity >= 1
  BY HostsAssumption DEF Capacity

\* What push_back does to a pool within its capacity: the new address comes
\* last, and the others move down by one place if the oldest had to go.
LEMMA PushBackFacts ==
  ASSUME NEW b \in Seq(Host), NEW h \in Host, Len(b) <= Capacity
  PROVE  LET d == IF Len(b) < Capacity THEN 0 ELSE 1
             r == PushBack(b, h)
         IN  /\ r \in Seq(Host)
             /\ Len(r) = Len(b) + 1 - d
             /\ Len(r) <= Capacity
             /\ \A i \in 1..Len(b) : i > d => r[i - d] = b[i]
             /\ \A i \in 1..(Len(r) - 1) : i + d \in 1..Len(b) /\ r[i] = b[i + d]
             /\ r[Len(r)] = h
  <1>1. CASE Len(b) < Capacity
    BY <1>1, CapacityPositive DEF PushBack
  <1>2. CASE ~(Len(b) < Capacity)
    <2>1. Len(b) = Capacity /\ Len(b) >= 1 /\ b # <<>>
      BY <1>2, CapacityPositive
    <2>2. /\ Tail(b) \in Seq(Host)
          /\ Len(Tail(b)) = Len(b) - 1
          /\ \A i \in 1..(Len(b) - 1) : Tail(b)[i] = b[i + 1]
      BY <2>1
    <2>3. PushBack(b, h) = Append(Tail(b), h)
      BY <1>2 DEF PushBack
    <2>. QED
      BY <1>2, <2>1, <2>2, <2>3, CapacityPositive
  <1>. QED
    BY <1>1, <1>2

\* What is in the pool after push_back was there before, or is the address
\* pushed.
LEMMA PushBackMembers ==
  ASSUME NEW b \in Seq(Host), NEW h \in Host, Len(b) <= Capacity,
         NEW i \in 1..Len(PushBack(b, h))
  PROVE  PushBack(b, h)[i] = h \/ \E k \in 1..Len(b) : PushBack(b, h)[i] = b[k]
  <1> DEFINE r == PushBack(b, h)
             d == IF Len(b) < Capacity THEN 0 ELSE 1
  <1>1. /\ r \in Seq(Host)
        /\ \A j \in 1..(Len(r) - 1) : j + d \in 1..Len(b) /\ r[j] = b[j + d]
        /\ r[Len(r)] = h
    BY PushBackFacts, Zenon
  <1> HIDE DEF r, d
  <1>2. i \in 1..Len(r)
    BY DEF r
  <1>3. CASE i = Len(r)
    BY <1>1, <1>3 DEF r
  <1>4. CASE i # Len(r)
    <2>1. i \in 1..(Len(r) - 1)
      BY <1>1, <1>2, <1>4
    <2>. QED
      BY <1>1, <2>1 DEF r
  <1>. QED
    BY <1>3, <1>4

\* Pushing an address the pool does not hold keeps it without duplicates.
LEMMA PushBackDistinct ==
  ASSUME NEW b \in Seq(Host), NEW h \in Host, Len(b) <= Capacity,
         Distinct(b), \A i \in 1..Len(b) : b[i] # h
  PROVE  Distinct(PushBack(b, h))
  <1> DEFINE r == PushBack(b, h)
             d == IF Len(b) < Capacity THEN 0 ELSE 1
  <1>1. /\ r \in Seq(Host)
        /\ \A i \in 1..(Len(r) - 1) : i + d \in 1..Len(b) /\ r[i] = b[i + d]
        /\ r[Len(r)] = h
        /\ d \in {0, 1}
    BY PushBackFacts, Zenon
  <1> HIDE DEF r, d
  <1>2. ASSUME NEW i \in 1..Len(r), NEW j \in 1..Len(r), r[i] = r[j]
        PROVE  i = j
    <2>1. CASE i < Len(r) /\ j < Len(r)
      <3>1. Len(r) \in Nat /\ i \in 1..(Len(r) - 1) /\ j \in 1..(Len(r) - 1)
        BY <1>1, <2>1
      <3>2. i + d \in 1..Len(b) /\ j + d \in 1..Len(b) /\ b[i + d] = b[j + d]
        BY <1>1, <1>2, <3>1, Zenon
      <3>3. i + d = j + d
        BY <3>2, Zenon DEF Distinct
      <3>. QED
        BY <1>1, <3>3
    <2>2. CASE i = Len(r) \/ j = Len(r)
      <3>1. \A k \in 1..(Len(r) - 1) : r[k] # h
        BY <1>1, Zenon
      <3>2. ASSUME NEW k \in 1..Len(r), r[k] = h PROVE k = Len(r)
        <4>1. Len(r) \in Nat /\ k \notin 1..(Len(r) - 1)
          BY <1>1, <3>1, <3>2
        <4>. QED
          BY <4>1
      <3>. QED
        BY <1>1, <1>2, <2>2, <3>2, Zenon
    <2>. QED
      BY <1>1, <2>1, <2>2
  <1>. QED
    BY <1>2 DEF Distinct, r

\* Erasing one position keeps a sequence typed and without duplicates.
LEMMA EraseFacts ==
  ASSUME NEW b \in Seq(Host), NEW i \in 1..Len(b), Distinct(b)
  PROVE  LET r == SubSeq(b, 1, i - 1) \o SubSeq(b, i + 1, Len(b))
         IN  r \in Seq(Host) /\ Len(r) = Len(b) - 1 /\ Distinct(r)
  <1> DEFINE l == SubSeq(b, 1, i - 1)
             u == SubSeq(b, i + 1, Len(b))
             r == l \o u
  <1>1. /\ l \in Seq(Host) /\ Len(l) = i - 1
        /\ \A k \in 1..(i - 1) : l[k] = b[k]
    OBVIOUS
  <1>2. /\ u \in Seq(Host) /\ Len(u) = Len(b) - i
        /\ \A k \in 1..(Len(b) - i) : u[k] = b[i + k]
    OBVIOUS
  <1> HIDE DEF l, u
  <1>3. /\ r \in Seq(Host) /\ Len(r) = Len(b) - 1
        /\ \A k \in 1..Len(r) : r[k] = IF k < i THEN b[k] ELSE b[k + 1]
    <2>1. /\ r \in Seq(Host)
          /\ Len(r) = Len(l) + Len(u)
          /\ \A k \in 1..(Len(l) + Len(u)) :
                r[k] = IF k <= Len(l) THEN l[k] ELSE u[k - Len(l)]
      BY <1>1, <1>2, ConcatProperties, Zenon
    <2> HIDE DEF r
    <2>2. Len(r) = Len(b) - 1
      BY <1>1, <1>2, <2>1
    <2>3. ASSUME NEW k \in 1..Len(r)
          PROVE  r[k] = IF k < i THEN b[k] ELSE b[k + 1]
      <3>1. CASE k < i
        BY <1>1, <2>1, <2>2, <3>1
      <3>2. CASE ~(k < i)
        <4>1. k - Len(l) \in 1..(Len(b) - i) /\ i + (k - Len(l)) = k + 1
          BY <1>1, <2>2, <3>2
        <4>2. k \in 1..(Len(l) + Len(u)) /\ ~(k <= Len(l))
          BY <1>1, <2>1, <3>2
        <4>3. r[k] = u[k - Len(l)]
          BY <2>1, <4>2
        <4>4. u[k - Len(l)] = b[i + (k - Len(l))]
          BY <1>2, <4>1, Zenon
        <4>. QED
          BY <3>2, <4>1, <4>3, <4>4
      <3>. QED
        BY <3>1, <3>2
    <2>. QED
      BY <2>1, <2>2, <2>3
  <1> HIDE DEF r
  <1>4. Distinct(r)
    <2> DEFINE at(x) == IF x < i THEN x ELSE x + 1
    <2>1. ASSUME NEW x \in 1..Len(r)
          PROVE  at(x) \in 1..Len(b) /\ r[x] = b[at(x)]
      <3>1. at(x) \in 1..Len(b)
        BY <1>3
      <3>2. r[x] = b[at(x)]
        BY <1>3
      <3>. QED
        BY <3>1, <3>2
    <2>2. ASSUME NEW x \in 1..Len(r), NEW y \in 1..Len(r), at(x) = at(y)
          PROVE  x = y
      BY <2>2
    <2> HIDE DEF at
    <2>. QED
      BY <2>1, <2>2 DEF Distinct
  <1>. QED
    BY <1>3, <1>4, Zenon DEF r, l, u

\* The locals of store(list) when it does not run.
LEMMA NoBatchType == NoBatch \in BatchType
  <1>1. <<>> \in Seq(Host)
    OBVIOUS
  <1>. QED
    BY <1>1 DEF NoBatch, BatchType

\* The pool is empty and nothing runs when the process begins.
LEMMA InitHolds == Init => HostsInv
  <1> SUFFICES ASSUME Init PROVE HostsInv
    OBVIOUS
  <1>1. TypeOK
    <2>1. buffer \in Seq(Host) /\ file \in Seq(Host) /\ index \in Nat \ {0}
      BY HostsAssumption DEF Init
    <2>2. batch \in BatchType /\ code \in Codes
      BY NoBatchType DEF Init, Codes
    <2>3. stopped \in BOOLEAN /\ opened \in BOOLEAN
      BY Zenon DEF Init
    <2>. QED
      BY <2>1, <2>2, <2>3 DEF TypeOK, Init
  <1>2. PoolInv
    BY SavedFilesAssumption, CapacityPositive DEF Init, PoolInv, Distinct
  <1>3. BatchInv
    BY DEF Init, BatchInv
  <1>. QED
    BY <1>1, <1>2, <1>3 DEF HostsInv

\* Operations that only return a code leave the invariant alone.
LEMMA ReturnHolds ==
  ASSUME HostsInv, NEW c \in Codes, Return(c)
  PROVE  HostsInv'
  <1>1. TypeOK'
    BY DEF HostsInv, Return, TypeOK
  <1>2. PoolInv'
    BY DEF HostsInv, Return, PoolInv, Distinct
  <1>3. BatchInv'
    BY DEF HostsInv, Return, BatchInv, Members
  <1>. QED
    BY <1>1, <1>2, <1>3 DEF HostsInv

\* The load loop: a line not read yet is not in the pool.
LEMMA LoadLineHolds ==
  ASSUME HostsInv, LoadLine
  PROVE  HostsInv'
  <1> USE DEF HostsInv
  <1>1. file[index] \in Host /\ index \in 1..Len(file)
    BY DEF TypeOK, LoadLine
  <1>2. \A i \in 1..Len(buffer) : buffer[i] # file[index]
    BY <1>1 DEF PoolInv, LoadLine, Distinct, TypeOK
  <1>3. TypeOK'
    <2>1. PushBack(buffer, file[index]) \in Seq(Host)
      BY <1>1, PushBackFacts, Zenon DEF TypeOK, PoolInv
    <2>. QED
      BY <2>1 DEF TypeOK, LoadLine
  <1>4. PoolInv'
    <2>1. CASE file[index] \in ZeroPort
      BY <2>1, <1>1 DEF PoolInv, LoadLine, Distinct, TypeOK
    <2>2. CASE file[index] \notin ZeroPort
      <3>1. buffer' = PushBack(buffer, file[index])
        BY <2>2 DEF LoadLine
      <3>2. Len(buffer') <= Capacity /\ Distinct(buffer')
        BY <1>1, <1>2, <3>1, PushBackFacts, PushBackDistinct, Zenon DEF TypeOK, PoolInv
      <3>3. ASSUME NEW i \in 1..Len(buffer')
            PROVE  \E j \in 1..Len(file) : j < index + 1 /\ buffer'[i] = file[j]
        <4>1. \/ buffer'[i] = file[index]
              \/ \E k \in 1..Len(buffer) : buffer'[i] = buffer[k]
          BY <1>1, <3>1, PushBackMembers DEF TypeOK, PoolInv
        <4>. QED
          BY <1>1, <4>1 DEF PoolInv, LoadLine, TypeOK
      <3>. QED
        BY <3>2, <3>3 DEF PoolInv, LoadLine, Distinct
    <2>. QED
      BY <2>1, <2>2
  <1>5. BatchInv'
    BY DEF BatchInv, LoadLine
  <1>. QED
    BY <1>3, <1>4, <1>5

\* The save loop: the file is the part of the pool that has been passed.
LEMMA SaveEntryHolds ==
  ASSUME HostsInv, SaveEntry
  PROVE  HostsInv'
  <1> USE DEF HostsInv
  <1>1. index \in 1..Len(buffer) /\ buffer[index] \in Host
    BY DEF TypeOK, SaveEntry
  <1>2. TypeOK'
    BY <1>1 DEF TypeOK, SaveEntry
  <1>3. PoolInv'
    <2>1. CASE ~opened
      BY <2>1 DEF PoolInv, SaveEntry, Distinct
    <2>2. CASE opened
      <3>1. /\ file' \in Seq(Host)
            /\ Len(file') = index
            /\ \A j \in 1..Len(file') : j <= Len(buffer) /\ file'[j] = buffer[j]
        BY <1>1, <2>2 DEF PoolInv, SaveEntry, TypeOK
      <3>2. Distinct(file')
        BY <3>1 DEF PoolInv, Distinct, TypeOK
      <3>. QED
        BY <2>2, <3>1, <3>2 DEF PoolInv, SaveEntry, Distinct, TypeOK
    <2>. QED
      BY <2>1, <2>2
  <1>4. BatchInv'
    BY DEF BatchInv, SaveEntry
  <1>. QED
    BY <1>2, <1>3, <1>4

\* What store(list) computes before its loop.
LEMMA StoreListBeginHolds ==
  ASSUME HostsInv, NEW l \in Batches, StoreListBegin(l)
  PROVE  HostsInv'
  <1> USE DEF HostsInv
  <1>1. PICK random \in 1..Usable(l) :
          batch' = [list |-> l,
                    usable |-> Usable(l),
                    accept |-> Greater(Gap, random),
                    step |-> Step(Usable(l), Greater(Gap, random)),
                    gap |-> Gap,
                    examined |-> 0,
                    accepted |-> {}]
    BY Zenon DEF StoreListBegin
  <1> DEFINE use == Usable(l)
             acc == Greater(Gap, random)
             str == Step(use, acc)
  <1>2. l \in Seq(Host) /\ Len(l) \in Nat
    BY HostsAssumption
  <1>3. Gap \in Nat /\ Gap <= Capacity
    BY CapacityPositive DEF Gap, PoolInv, TypeOK
  <1>4. use \in Nat /\ use <= Capacity /\ use <= Len(l) /\ random \in Nat \ {0}
    BY <1>2, CapacityPositive DEF Usable, Lesser
  <1>5. acc \in Nat \ {0} /\ acc >= Gap
    BY <1>3, <1>4 DEF Greater
  <1> HIDE DEF use, acc
  <1>6. /\ str \in Nat \ {0}
        /\ str = 1 \/ str * acc <= use
        /\ use <= Gap => str = 1
    <2>1. /\ use \div acc \in Nat
          /\ (use \div acc) * acc <= use
          /\ use <= acc => use \div acc <= 1
      BY <1>4, <1>5
    <2>. QED
      BY <1>3, <1>4, <1>5, <2>1 DEF Step, Greater
  <1> HIDE DEF str
  <1>7. batch' = [list |-> l, usable |-> use, accept |-> acc, step |-> str,
                  gap |-> Gap, examined |-> 0, accepted |-> {}]
    BY <1>1 DEF use, acc, str
  <1>8. TypeOK'
    <2>1. batch' \in BatchType
      BY <1>2, <1>3, <1>4, <1>5, <1>6, <1>7 DEF BatchType
    <2>. QED
      BY <2>1 DEF TypeOK, StoreListBegin
  <1>9. PoolInv'
    BY DEF PoolInv, StoreListBegin, Distinct
  <1>10. BatchInv'
    <2>1. /\ batch'.list = l /\ batch'.usable = use /\ batch'.accept = acc
          /\ batch'.step = str /\ batch'.gap = Gap /\ batch'.examined = 0
          /\ batch'.accepted = {} /\ index' = 1 /\ buffer' = buffer
      BY <1>7 DEF StoreListBegin
    <2>2. Len(buffer) + Gap <= Capacity + 0 /\ 1 = 1 + 0 * str
      BY <1>6, CapacityPositive DEF Gap, TypeOK
    <2>. QED
      BY <1>3, <1>4, <1>5, <1>6, <2>1, <2>2 DEF BatchInv
  <1>. QED
    BY <1>8, <1>9, <1>10

\* One iteration of the list loop.
LEMMA StoreListEntryHolds ==
  ASSUME HostsInv, StoreListEntry
  PROVE  HostsInv'
  <1> USE DEF HostsInv
  <1> DEFINE host == batch.list[index]
             pushed == host \notin Invalid /\ Absent(host)
             e == batch.examined
  <1>1. /\ batch.list \in Seq(Host) /\ batch.usable \in Nat /\ batch.accept \in Nat
        /\ batch.step \in Nat \ {0} /\ batch.gap \in Nat /\ e \in Nat
        /\ batch.accepted \subseteq Host /\ index \in Nat \ {0}
        /\ buffer \in Seq(Host) /\ Len(buffer) <= Capacity /\ Capacity \in Nat
    BY CapacityPositive DEF TypeOK, BatchType, PoolInv
  <1>2. /\ index <= batch.usable
        /\ buffer' = IF pushed THEN PushBack(buffer, host) ELSE buffer
        /\ index' = index + batch.step
        /\ UNCHANGED <<stopped, file, lock, opened, code>>
        /\ lock = "store"
    BY DEF StoreListEntry
  <1>a. /\ e \in Nat /\ index \in Nat \ {0} /\ batch.step \in Nat \ {0}
        /\ batch.usable \in Nat /\ batch.gap \in Nat /\ Capacity \in Nat
        /\ index <= batch.usable /\ index' = index + batch.step
    BY <1>1, <1>2, Zenon
  <1>3. /\ batch'.list = batch.list /\ batch'.usable = batch.usable
        /\ batch'.accept = batch.accept /\ batch'.step = batch.step
        /\ batch'.gap = batch.gap /\ batch'.examined = e + 1
        /\ batch'.accepted = IF pushed THEN batch.accepted \cup {host} ELSE batch.accepted
        /\ host \in Host => batch' \in BatchType
    <2> DEFINE acc == IF pushed THEN batch.accepted \cup {host} ELSE batch.accepted
    <2>1. batch' = [batch EXCEPT !.examined = e + 1, !.accepted = acc]
      BY DEF StoreListEntry
    <2>2. host \in Host => acc \subseteq Host
      BY <1>1
    <2> HIDE DEF acc
    <2>3. batch \in BatchType
      BY DEF TypeOK
    <2>4. /\ batch'.list = batch.list /\ batch'.usable = batch.usable
          /\ batch'.accept = batch.accept /\ batch'.step = batch.step
          /\ batch'.gap = batch.gap /\ batch'.examined = e + 1
          /\ batch'.accepted = acc
      BY <2>1, <2>3 DEF BatchType
    <2>5. ASSUME acc \subseteq Host
          PROVE  batch' \in BatchType
      <3> DEFINE n == e + 1
      <3>1. n \in Nat /\ acc \in SUBSET Host
        BY <1>a, <2>5
      <3>2. batch' = [batch EXCEPT !.examined = n, !.accepted = acc]
        BY <2>1
      <3> HIDE DEF n
      <3>. QED
        BY <2>3, <3>1, <3>2, Zenon DEF BatchType
    <2>. QED
      BY <2>2, <2>4, <2>5 DEF acc
  <1>4. host \in Host /\ e < index /\ e < batch.usable /\ e < Capacity
    <2>1. e < index /\ batch.usable <= Capacity /\ batch.usable <= Len(batch.list)
      BY <1>2 DEF BatchInv
    <2>2. batch.list \in Seq(Host) /\ Len(batch.list) \in Nat
      BY <1>1
    <2>3. index \in 1..Len(batch.list)
      BY <1>a, <2>1, <2>2
    <2>4. host \in Host
      BY <2>2, <2>3
    <2>. QED
      BY <1>a, <2>1, <2>4
  <1> HIDE DEF host
  <1>5. pushed => \A i \in 1..Len(buffer) : buffer[i] # host
    BY DEF Absent, Members
  <1> HIDE DEF pushed
  <1>6. TypeOK'
    <2>1. buffer' \in Seq(Host)
      BY <1>1, <1>2, <1>4, PushBackFacts, Zenon
    <2>2. index' \in Nat \ {0}
      BY <1>a
    <2>3. batch' \in BatchType
      BY <1>3, <1>4, Zenon
    <2>. QED
      BY <1>2, <2>1, <2>2, <2>3 DEF TypeOK
  <1>7. PoolInv'
    <2>1. Len(buffer') <= Capacity /\ Distinct(buffer')
      BY <1>1, <1>2, <1>4, <1>5, PushBackFacts, PushBackDistinct, Zenon DEF PoolInv
    <2>. QED
      BY <1>2, <2>1 DEF PoolInv, Distinct
  <1>8. BatchInv'
    <2> DEFINE d == IF Len(buffer) < Capacity THEN 0 ELSE 1
    <2>1. ASSUME pushed
          PROVE  /\ Len(buffer') = Len(buffer) + 1 - d
                 /\ \A i \in 1..Len(buffer) : i > d => buffer'[i - d] = buffer[i]
                 /\ buffer'[Len(buffer')] = host
      <3>1. buffer' = PushBack(buffer, host)
        BY <1>2, <2>1
      <3>2. /\ Len(PushBack(buffer, host)) = Len(buffer) + 1 - d
            /\ \A i \in 1..Len(buffer) : i > d =>
                   PushBack(buffer, host)[i - d] = buffer[i]
            /\ PushBack(buffer, host)[Len(PushBack(buffer, host))] = host
        BY <1>1, <1>4, PushBackFacts
      <3>. QED
        BY <3>1, <3>2
    <2>2. d \in {0, 1} /\ (d = 1 => Len(buffer) = Capacity)
      BY <1>1
    <2> HIDE DEF d
    <2>3. index' = 1 + (e + 1) * batch.step
      <3>1. index = 1 + e * batch.step
        BY <1>2 DEF BatchInv
      <3>. QED
        BY <1>a, <3>1
    <2>4. ASSUME NEW h \in batch'.accepted
          PROVE  \E p \in 1..Len(buffer') :
                     p > Len(buffer') - (e + 1) /\ buffer'[p] = h
      <3>1. CASE h \in batch.accepted
        <4>1. PICK p \in 1..Len(buffer) : p > Len(buffer) - e /\ buffer[p] = h
          BY <1>2, <3>1 DEF BatchInv
        <4>2. CASE ~pushed
          <5>1. buffer' = buffer /\ Len(buffer) \in Nat /\ e \in Nat
            BY <1>1, <1>2, <4>2
          <5>. QED
            BY <4>1, <5>1
        <4>3. CASE pushed
          <5>1. p > d /\ p - d \in 1..Len(buffer') /\ p - d > Len(buffer') - (e + 1)
            <6>1. Len(buffer') = Len(buffer) + 1 - d
              BY <2>1, <4>3
            <6>2. p \in Int /\ p > Len(buffer) - e /\ p <= Len(buffer) /\ p >= 1
              BY <1>1, <4>1
            <6>3. CASE d = 0
              BY <1>1, <6>1, <6>2, <6>3
            <6>4. CASE d = 1
              <7>1. Len(buffer) = Capacity /\ Len(buffer') = Len(buffer)
                BY <1>1, <2>2, <6>1, <6>4
              <7>. QED
                BY <1>1, <1>4, <6>2, <6>4, <7>1
            <6>. QED
              BY <2>2, <6>3, <6>4
          <5>. QED
            BY <2>1, <4>1, <4>3, <5>1
        <4>. QED
          BY <4>2, <4>3
      <3>2. CASE pushed /\ h = host
        <4>1. /\ Len(buffer') = Len(buffer) + 1 - d /\ buffer'[Len(buffer')] = h
              /\ Len(buffer) \in Nat /\ e \in Nat /\ Capacity \in Nat /\ e < Capacity
          BY <1>1, <1>4, <2>1, <3>2
        <4>2. Len(buffer') \in 1..Len(buffer') /\ Len(buffer') > Len(buffer') - (e + 1)
          BY <2>2, <4>1
        <4>. QED
          BY <4>1, <4>2, Zenon
      <3>. QED
        BY <1>3, <2>4, <3>1, <3>2
    <2>5. ASSUME batch.usable <= batch.gap
          PROVE  /\ Len(buffer') + batch.gap <= Capacity + (e + 1)
                 /\ \A i \in 1..batch.usable : i < index' =>
                        batch.list[i] \in Invalid \cup Members(buffer')
      <3>1. /\ batch.step = 1 /\ Len(buffer) + batch.gap <= Capacity + e
            /\ \A i \in 1..batch.usable : i < index =>
                   batch.list[i] \in Invalid \cup Members(buffer)
        BY <1>2, <2>5 DEF BatchInv
      <3>2. Len(buffer) < Capacity /\ d = 0
        BY <1>1, <1>4, <2>2, <2>5, <3>1 DEF d
      <3>3. Members(buffer) \subseteq Members(buffer')
        <4>1. CASE ~pushed
          BY <1>2, <4>1
        <4>2. CASE pushed
          <5>1. \A i \in 1..Len(buffer) : i \in 1..Len(buffer') /\ buffer'[i] = buffer[i]
            BY <1>1, <2>1, <3>2, <4>2
          <5>. QED
            BY <5>1 DEF Members
        <4>. QED
          BY <4>1, <4>2
      <3>4. host \in Invalid \cup Members(buffer')
        <4>1. CASE pushed
          BY <1>1, <2>1, <3>2, <4>1 DEF Members
        <4>2. CASE ~pushed
          BY <3>3, <4>2 DEF pushed, Absent
        <4>. QED
          BY <4>1, <4>2
      <3>5. Len(buffer') + batch.gap <= Capacity + (e + 1)
        <4>1. Len(buffer') = Len(buffer) \/ Len(buffer') = Len(buffer) + 1
          BY <1>1, <1>2, <2>1, <3>2
        <4>2. Len(buffer) \in Nat
          BY <1>1
        <4> DEFINE x == batch.gap
                   y == batch.examined
        <4>3. x \in Nat /\ y \in Nat /\ Capacity \in Nat /\ Len(buffer) + x <= Capacity + y
          BY <1>a, <3>1, Zenon
        <4> HIDE DEF x, y
        <4>4. Len(buffer') + x <= Capacity + (y + 1)
          BY <4>1, <4>2, <4>3
        <4>. QED
          BY <4>4 DEF x, y
      <3>6. ASSUME NEW i \in 1..batch.usable, i < index'
            PROVE  batch.list[i] \in Invalid \cup Members(buffer')
        <4>1. i < index \/ i = index
          BY <1>1, <1>2, <3>1, <3>6
        <4>. QED
          BY <3>1, <3>3, <3>4, <4>1 DEF host
      <3>. QED
        BY <3>5, <3>6
    <2>6. e + 1 <= batch.usable /\ e + 1 < index'
      BY <1>a, <1>4
    <2>. QED
      BY <1>2, <1>3, <2>3, <2>4, <2>5, <2>6 DEF BatchInv
  <1>. QED
    BY <1>6, <1>7, <1>8

\* Every step of the pool preserves the invariant.
LEMMA NextHolds == HostsInv /\ [Next]_vars => HostsInv'
  <1> SUFFICES ASSUME HostsInv, [Next]_vars
               PROVE  HostsInv'
    OBVIOUS
  <1> USE DEF HostsInv
  <1>1. CASE StartRefused
    BY <1>1, ReturnHolds DEF StartRefused, Codes
  <1>2. CASE StartLoad
    <2>1. TypeOK'
      <3>1. stopped' \in BOOLEAN /\ opened' \in BOOLEAN
        BY <1>2, Zenon DEF StartLoad
      <3>. QED
        BY <1>2, <3>1 DEF StartLoad, TypeOK
    <2>2. PoolInv'
      <3>1. buffer = <<>> /\ buffer' = buffer /\ Len(buffer) = 0
        BY <1>2 DEF StartLoad, PoolInv
      <3>. QED
        BY <1>2, <3>1 DEF StartLoad, PoolInv, Distinct
    <2>3. BatchInv'
      BY <1>2 DEF StartLoad, BatchInv
    <2>. QED
      BY <2>1, <2>2, <2>3
  <1>3. CASE LoadLine
    BY <1>3, LoadLineHolds
  <1>4. CASE LoadEnd
    <2>1. TypeOK'
      BY <1>4 DEF LoadEnd, TypeOK, Codes
    <2>2. PoolInv'
      BY <1>4 DEF LoadEnd, PoolInv, Distinct
    <2>3. BatchInv'
      BY <1>4 DEF LoadEnd, BatchInv
    <2>. QED
      BY <2>1, <2>2, <2>3
  <1>5. CASE StopIdle
    BY <1>5, ReturnHolds DEF StopIdle, Codes
  <1>6. CASE StopSave
    <2>1. TypeOK'
      <3>1. file' \in Seq(Host)
        BY <1>6 DEF StopSave, TypeOK
      <3>. QED
        BY <1>6, <3>1 DEF StopSave, TypeOK
    <2>2. PoolInv'
      <3>1. Distinct(file') /\ (opened' => Len(file') = 0)
        BY <1>6 DEF StopSave, PoolInv, Distinct
      <3>. QED
        BY <1>6, <3>1 DEF StopSave, PoolInv, Distinct
    <2>3. BatchInv'
      BY <1>6 DEF StopSave, BatchInv
    <2>. QED
      BY <2>1, <2>2, <2>3
  <1>7. CASE SaveEntry
    BY <1>7, SaveEntryHolds
  <1>8. CASE SaveEnd
    <2>1. TypeOK'
      BY <1>8 DEF SaveEnd, TypeOK, Codes
    <2>2. PoolInv'
      BY <1>8, CapacityPositive DEF SaveEnd, PoolInv, Distinct
    <2>3. BatchInv'
      BY <1>8 DEF SaveEnd, BatchInv
    <2>. QED
      BY <2>1, <2>2, <2>3
  <1>9. ASSUME NEW h \in Host, Remove(h)
        PROVE  HostsInv'
    <2>1. CASE \E c \in Codes : Return(c)
      BY <2>1, ReturnHolds
    <2>2. ASSUME NEW i \in 1..Len(buffer),
                 buffer' = SubSeq(buffer, 1, i - 1)
                              \o SubSeq(buffer, i + 1, Len(buffer)),
                 code' = "success", lock = "free", ~stopped,
                 UNCHANGED <<stopped, file, lock, index, opened, batch>>
          PROVE  HostsInv'
      <3>1. /\ buffer' \in Seq(Host) /\ Len(buffer') = Len(buffer) - 1
            /\ Distinct(buffer')
        BY <2>2, EraseFacts, Zenon DEF TypeOK, PoolInv
      <3>2. TypeOK'
        BY <2>2, <3>1, Zenon DEF TypeOK, Codes
      <3>3. PoolInv'
        <4>1. Len(buffer') <= Capacity
          BY <3>1, CapacityPositive DEF PoolInv, TypeOK
        <4>2. Distinct(file') /\ lock' = "free" /\ ~stopped'
          BY <2>2 DEF PoolInv
        <4>. QED
          BY <3>1, <4>1, <4>2 DEF PoolInv, Distinct
      <3>4. BatchInv'
        BY <2>2 DEF BatchInv
      <3>. QED
        BY <3>2, <3>3, <3>4
    <2>. QED
      BY <1>9, <2>1, <2>2, Zenon DEF Remove, Codes
  <1>10. ASSUME NEW h \in Host, StoreOne(h)
         PROVE  HostsInv'
    <2>1. CASE \E c \in Codes : Return(c)
      BY <2>1, ReturnHolds
    <2>2. ASSUME buffer' = PushBack(buffer, h), Absent(h),
                 code' = "success", lock = "free", ~stopped,
                 UNCHANGED <<stopped, file, lock, index, opened, batch>>
          PROVE  HostsInv'
      <3>1. /\ buffer' \in Seq(Host) /\ Len(buffer') <= Capacity
            /\ Distinct(buffer')
        <4>1. \A i \in 1..Len(buffer) : buffer[i] # h
          BY <2>2 DEF Absent, Members
        <4>. QED
          BY <2>2, <4>1, PushBackFacts, PushBackDistinct DEF TypeOK, PoolInv
      <3>2. TypeOK'
        BY <2>2, <3>1 DEF TypeOK, Codes
      <3>3. PoolInv'
        BY <2>2, <3>1 DEF PoolInv, Distinct
      <3>4. BatchInv'
        BY <2>2 DEF BatchInv
      <3>. QED
        BY <3>2, <3>3, <3>4
    <2>. QED
      BY <1>10, <2>1, <2>2 DEF StoreOne, Codes
  <1>11. ASSUME NEW l \in Batches, StoreListRefused(l)
         PROVE  HostsInv'
    BY <1>11, ReturnHolds DEF StoreListRefused, Codes
  <1>12. ASSUME NEW l \in Batches, StoreListBegin(l)
         PROVE  HostsInv'
    BY <1>12, StoreListBeginHolds
  <1>13. CASE StoreListEntry
    BY <1>13, StoreListEntryHolds
  <1>14. CASE StoreListEnd
    <2>1. TypeOK'
      BY <1>14, NoBatchType DEF StoreListEnd, TypeOK, Codes
    <2>2. PoolInv'
      BY <1>14 DEF StoreListEnd, PoolInv, Distinct
    <2>3. BatchInv'
      BY <1>14 DEF StoreListEnd, BatchInv
    <2>. QED
      BY <2>1, <2>2, <2>3
  <1>15. CASE Crash
    <2>1. TypeOK'
      <3>1. stopped' \in BOOLEAN /\ opened' \in BOOLEAN
        BY <1>15, Zenon DEF Crash
      <3>2. buffer' \in Seq(Host) /\ index' \in Nat \ {0}
        BY <1>15 DEF Crash
      <3>. QED
        BY <1>15, <3>1, <3>2, NoBatchType DEF Crash, TypeOK, Codes
    <2>2. PoolInv'
      BY <1>15, CapacityPositive DEF Crash, PoolInv, Distinct
    <2>3. BatchInv'
      BY <1>15 DEF Crash, BatchInv
    <2>. QED
      BY <2>1, <2>2, <2>3
  <1>16. CASE UNCHANGED vars
    <2>1. TypeOK'
      BY <1>16 DEF vars, TypeOK
    <2>2. PoolInv'
      BY <1>16 DEF vars, PoolInv, Distinct
    <2>3. BatchInv'
      BY <1>16 DEF vars, BatchInv, Members
    <2>. QED
      BY <2>1, <2>2, <2>3
  <1>. QED
    BY <1>1, <1>2, <1>3, <1>4, <1>5, <1>6, <1>7, <1>8, <1>9, <1>10, <1>11,
       <1>12, <1>13, <1>14, <1>15, <1>16 DEF Next

\* The invariant holds in every state of every run of the pool.
LEMMA HostsInvariant == Spec => []HostsInv
  BY InitHolds, NextHolds, PTL DEF Spec
------------------------------------------------------------------------------
\* The pool, the file and the loops' locals keep their types (hosts.cpp).
THEOREM TypeCorrect == Spec => []TypeOK
  BY HostsInvariant, PTL DEF HostsInv

\* No address is ever listed twice, in the pool or in the file, whatever is
\* stored, removed, saved, loaded or killed in the middle (hosts.cpp 115-123,
\* 247-251, 304-322).
THEOREM PoolHasNoDuplicates == Spec => []NoDuplicates
  <1>1. HostsInv => NoDuplicates
    BY DEF HostsInv, PoolInv, NoDuplicates
  <1>. QED
    BY <1>1, HostsInvariant, PTL

\* store(list) never evicts an address of the list it is storing, for every
\* list, capacity and random share (hosts.cpp 289-322).
THEOREM ListNeverEvictsItself == Spec => []AcceptedKept
  <1>1. HostsInv => AcceptedKept
    <2> SUFFICES ASSUME HostsInv, lock = "store", NEW h \in batch.accepted
                 PROVE  h \in Members(buffer)
      BY DEF AcceptedKept
    <2>1. \E p \in 1..Len(buffer) : buffer[p] = h
      BY DEF HostsInv, BatchInv
    <2>. QED
      BY <2>1 DEF Members
  <1>. QED
    BY <1>1, HostsInvariant, PTL

\* The stride computed from the random share always looks at as many entries
\* as there are free slots, or at the whole list (hosts.cpp 289-304).
THEOREM StrideCoversGap == Spec => []GapExamined
  <1>1. HostsInv => GapExamined
    <2> SUFFICES ASSUME HostsInv, lock = "store", index > batch.usable
                 PROVE  batch.examined >= Lesser(batch.gap, batch.usable)
      BY DEF GapExamined
    <2> DEFINE e == batch.examined
               s == batch.step
               a == batch.accept
               u == batch.usable
               g == batch.gap
    <2>1. e \in Nat /\ s \in Nat \ {0} /\ a \in Nat /\ u \in Nat /\ g \in Nat /\ index \in Nat
      BY DEF HostsInv, TypeOK, BatchType
    <2>2. g <= a /\ (s = 1 \/ s * a <= u) /\ index = 1 + e * s /\ index > u
      BY DEF HostsInv, BatchInv
    <2> HIDE DEF e, s, a, u, g
    <2>3. CASE s = 1
      BY <2>1, <2>2, <2>3 DEF Lesser, e, g, u
    <2>4. CASE s * a <= u
      <3>1. s * a <= e * s
        BY <2>1, <2>2, <2>4
      <3>2. a <= e
        BY <2>1, <3>1
      <3>. QED
        BY <2>1, <2>2, <3>2 DEF Lesser, e, g, u
    <2>. QED
      BY <2>2, <2>3, <2>4
  <1>. QED
    BY <1>1, HostsInvariant, PTL

\* A list that fits in the free slots is stored whole, whatever the random
\* share (hosts.cpp 293-298).
THEOREM FittingListStored == Spec => []FittingListTaken
  <1>1. HostsInv => FittingListTaken
    BY DEF HostsInv, TypeOK, BatchType, BatchInv, FittingListTaken
  <1>. QED
    BY <1>1, HostsInvariant, PTL

------------------------------------------------------------------------------
\* The load loop passes a line with a zero port.
LEMMA LoadedSkip ==
  ASSUME NEW b \in Seq(Host), NEW f \in Seq(Host), NEW n \in Nat,
         Loaded(b, f, n), f[n + 1] \in ZeroPort
  PROVE  Loaded(b, f, n + 1)
  <1>1. PICK at \in [1..Len(b) -> 1..n] :
          /\ \A i \in 1..Len(b) : b[i] = f[at[i]] /\ b[i] \notin ZeroPort
          /\ \A i, j \in 1..Len(b) : i < j => at[i] < at[j]
          /\ \A k \in 1..n : f[k] \notin ZeroPort => \E i \in 1..Len(b) : at[i] = k
    BY Zenon DEF Loaded
  <1>2. at \in [1..Len(b) -> 1..(n + 1)]
    BY <1>1
  <1>3. ASSUME NEW k \in 1..(n + 1), f[k] \notin ZeroPort
        PROVE  \E i \in 1..Len(b) : at[i] = k
    <2>1. k \in 1..n
      BY <1>3
    <2>. QED
      BY <1>1, <1>3, <2>1, Zenon
  <1>. QED
    BY <1>1, <1>2, <1>3, Zenon DEF Loaded

\* The load loop pushes a line with a port.
LEMMA LoadedPush ==
  ASSUME NEW b \in Seq(Host), NEW f \in Seq(Host), NEW n \in Nat,
         Loaded(b, f, n), f[n + 1] \in Host \ ZeroPort
  PROVE  Loaded(Append(b, f[n + 1]), f, n + 1)
  <1> DEFINE c == Append(b, f[n + 1])
             m == Len(b) + 1
  <1>1. PICK at \in [1..Len(b) -> 1..n] :
          /\ \A i \in 1..Len(b) : b[i] = f[at[i]] /\ b[i] \notin ZeroPort
          /\ \A i, j \in 1..Len(b) : i < j => at[i] < at[j]
          /\ \A k \in 1..n : f[k] \notin ZeroPort => \E i \in 1..Len(b) : at[i] = k
    BY Zenon DEF Loaded
  <1> DEFINE to == [i \in 1..m |-> IF i = m THEN n + 1 ELSE at[i]]
  <1>2. /\ Len(b) \in Nat /\ Len(c) = m /\ c[m] = f[n + 1]
        /\ \A i \in 1..Len(b) : c[i] = b[i]
    OBVIOUS
  <1>3. \A i \in 1..m : i = m \/ (i # m /\ i \in 1..Len(b))
    BY <1>2
  <1>4. /\ to \in [1..m -> 1..(n + 1)]
        /\ to[m] = n + 1
        /\ \A i \in 1..Len(b) : i \in 1..m /\ i # m /\ to[i] = at[i] /\ at[i] \in 1..n
    <2>1. \A i \in 1..Len(b) : i \in 1..m /\ i # m /\ at[i] \in 1..n
      BY <1>1, <1>2
    <2>2. n + 1 \in 1..(n + 1) /\ m \in 1..m /\ \A x \in 1..n : x \in 1..(n + 1)
      BY <1>2
    <2>. QED
      BY <1>3, <2>1, <2>2
  <1> HIDE DEF c, to
  <1>5. ASSUME NEW i \in 1..m PROVE c[i] = f[to[i]] /\ c[i] \notin ZeroPort
    BY <1>1, <1>2, <1>3, <1>4, Zenon
  <1>6. ASSUME NEW i \in 1..m, NEW j \in 1..m, i < j PROVE to[i] < to[j]
    <2>1. i \in 1..Len(b)
      BY <1>2, <1>6
    <2>2. CASE j = m
      <3>1. at[i] \in 1..n /\ to[i] = at[i] /\ to[j] = n + 1
        BY <1>4, <2>1, <2>2, Zenon
      <3>. QED
        BY <3>1
    <2>3. CASE j \in 1..Len(b)
      BY <1>1, <1>4, <1>6, <2>1, <2>3
    <2>. QED
      BY <1>3, <2>2, <2>3, Zenon
  <1>7. ASSUME NEW k \in 1..(n + 1), f[k] \notin ZeroPort
        PROVE  \E i \in 1..m : to[i] = k
    <2>1. CASE k = n + 1
      <3>1. m \in 1..m
        BY <1>2
      <3>. QED
        BY <1>4, <2>1, <3>1, Zenon
    <2>2. CASE k \in 1..n
      BY <1>1, <1>4, <1>7, <2>2, Zenon
    <2>3. k = n + 1 \/ k \in 1..n
      OBVIOUS
    <2>. QED
      BY <2>1, <2>2, <2>3
  <1> HIDE DEF m
  <1>8. Loaded(c, f, n + 1)
    <2>1. Len(c) = m
      BY <1>2
    <2>2. /\ to \in [1..Len(c) -> 1..(n + 1)]
          /\ \A i \in 1..Len(c) : c[i] = f[to[i]] /\ c[i] \notin ZeroPort
      BY <1>4, <1>5, <2>1
    <2>3. /\ \A i, j \in 1..Len(c) : i < j => to[i] < to[j]
          /\ \A k \in 1..(n + 1) : f[k] \notin ZeroPort => \E i \in 1..Len(c) : to[i] = k
      BY <1>6, <1>7, <2>1
    <2>. QED
      BY <2>2, <2>3, Zenon DEF Loaded
  <1>. QED
    BY <1>8 DEF c

\* Every step of the pool preserves what is known of the load.
LEMMA LoadStep ==
  ASSUME HostsInv, LoadInv, [Next]_vars
  PROVE  LoadInv'
  <1>1. CASE StartLoad
    <2>1. /\ buffer' = <<>> /\ index' = 1 /\ file' = file /\ Len(file) \in Nat
      BY <1>1 DEF StartLoad, HostsInv, PoolInv, TypeOK
    <2>2. Loaded(<<>>, file, 0)
      <3>1. Len(<<>>) = 0 /\ 1..0 = {}
        OBVIOUS
      <3>2. <<>> \in [{} -> {}]
        OBVIOUS
      <3>. QED
        BY <3>1, <3>2, Zenon DEF Loaded
    <2>. QED
      BY <2>1, <2>2 DEF LoadInv
  <1>2. CASE LoadLine
    <2>1. /\ lock = "load" /\ index \in 1..Len(file) /\ Len(file) \in Nat
          /\ file[index] \in Host /\ buffer \in Seq(Host) /\ file \in Seq(Host)
          /\ buffer' = IF file[index] \in ZeroPort THEN buffer ELSE PushBack(buffer, file[index])
          /\ index' = index + 1 /\ UNCHANGED <<file, lock>>
      BY <1>2 DEF LoadLine, HostsInv, TypeOK
    <2>2. Len(buffer) < index /\ (Len(file) <= Capacity => Loaded(buffer, file, index - 1))
      BY <2>1 DEF LoadInv
    <2> DEFINE n == index - 1
    <2>3. n \in Nat /\ n + 1 = index /\ index' - 1 = n + 1
      BY <2>1
    <2>4. index' <= Len(file') + 1
      BY <2>1
    <2>5. CASE file[index] \in ZeroPort
      <3>1. Len(file) <= Capacity => Loaded(buffer, file, n + 1)
        BY <2>1, <2>2, <2>3, <2>5, LoadedSkip
      <3>2. buffer' = buffer /\ Len(buffer) < index'
        BY <2>1, <2>2, <2>5
      <3> HIDE DEF n
      <3>. QED
        BY <2>1, <2>3, <2>4, <3>1, <3>2 DEF LoadInv
    <2>6. CASE file[index] \notin ZeroPort
      <3>1. Len(buffer') < index'
        <4>1. Len(buffer') <= Len(buffer) + 1 /\ Len(buffer) \in Nat /\ Len(buffer') \in Nat
          <5>1. Len(buffer) <= Capacity
            BY DEF HostsInv, PoolInv
          <5>2. /\ buffer' = PushBack(buffer, file[index])
                /\ Len(PushBack(buffer, file[index])) =
                       Len(buffer) + 1 - (IF Len(buffer) < Capacity THEN 0 ELSE 1)
            BY <2>1, <2>6, <5>1, PushBackFacts, Zenon
          <5>3. Len(buffer) \in Nat /\ (Len(buffer) = 0 => Len(buffer) < Capacity)
            BY <2>1, CapacityPositive
          <5>. QED
            BY <5>2, <5>3
        <4>. QED
          BY <2>1, <2>2, <4>1
      <3>2. ASSUME Len(file) <= Capacity PROVE Loaded(buffer', file, n + 1)
        <4>1. Len(buffer) < Capacity
          BY <2>1, <2>2, <3>2, CapacityPositive
        <4>2. buffer' = Append(buffer, file[n + 1])
          BY <2>1, <2>3, <2>6, <4>1 DEF PushBack
        <4>3. Loaded(buffer, file, n) /\ file[n + 1] \in Host \ ZeroPort
          BY <2>1, <2>2, <2>3, <2>6, <3>2
        <4> HIDE DEF n
        <4>. QED
          BY <2>1, <2>3, <4>2, <4>3, LoadedPush, Zenon
      <3> HIDE DEF n
      <3>. QED
        BY <2>1, <2>3, <2>4, <3>1, <3>2 DEF LoadInv
    <2>. QED
      BY <2>5, <2>6
  <1>3. CASE UNCHANGED vars
    BY <1>3 DEF vars, LoadInv, Loaded
  <1>4. CASE StartRefused \/ LoadEnd \/ StopIdle \/ StopSave
    BY <1>4 DEF StartRefused, LoadEnd, StopIdle, StopSave, Return, LoadInv
  <1>5. CASE SaveEntry \/ SaveEnd \/ Crash
    BY <1>5 DEF SaveEntry, SaveEnd, Crash, LoadInv
  <1>8. CASE StoreListEntry \/ StoreListEnd
    BY <1>8 DEF StoreListEntry, StoreListEnd, LoadInv
  <1>6. ASSUME NEW h \in Host, Remove(h) \/ StoreOne(h) PROVE LoadInv'
    <2>1. lock' # "load"
      BY <1>6, Zenon DEF Remove, StoreOne, Return
    <2>. QED
      BY <2>1 DEF LoadInv
  <1>7. CASE \E l \in Batches : StoreListRefused(l) \/ StoreListBegin(l)
    BY <1>7 DEF StoreListRefused, StoreListBegin, Return, LoadInv
  <1>. QED
    BY <1>1, <1>2, <1>3, <1>4, <1>5, <1>6, <1>7, <1>8 DEF Next

\* A pool that was saved is in the file as it was, and a file that fits is in
\* the pool line by line, for every file, capacity and crash (hosts.cpp
\* 107-124 and 158-172).
THEOREM SavedPoolComesBack == Spec => SaveLoadRoundTrip
  <1>1. Init => LoadInv
    BY DEF Init, LoadInv
  <1>2. Spec => []LoadInv
    BY <1>1, LoadStep, HostsInvariant, PTL DEF Spec
  <1>3. ASSUME HostsInv, SaveEnd, opened PROVE file' = buffer
    <2>1. /\ Len(file) = index - 1 /\ index > Len(buffer) /\ file' = file
          /\ \A j \in 1..Len(file) : j <= Len(buffer) /\ file[j] = buffer[j]
      BY <1>3, Zenon DEF SaveEnd, HostsInv, PoolInv
    <2>2. file \in Seq(Host) /\ buffer \in Seq(Host) /\ index \in Nat \ {0}
      BY <1>3 DEF HostsInv, TypeOK
    <2>3. Len(file) = Len(buffer)
      BY <2>1, <2>2
    <2>. QED
      BY <2>1, <2>2, <2>3
  <1>4. ASSUME HostsInv, LoadInv, LoadEnd, opened, Len(file) <= Capacity
        PROVE  Loaded(buffer', file, Len(file))
    <2>1. index - 1 = Len(file)
      BY <1>4 DEF LoadEnd, LoadInv, HostsInv, TypeOK
    <2>. QED
      BY <1>4, <2>1 DEF LoadEnd, LoadInv
  <1>. QED
    BY <1>2, <1>3, <1>4, HostsInvariant, PTL DEF Spec, SaveLoadRoundTrip
==============================================================================
