------------------------------ MODULE AuditLog_proofs -----------------------------
(***************************************************************************)
(* Proofs about the audit log for every set of tasks and every size: its   *)
(* chain, that its file never rewinds, and that no saved record is lost.   *)
(***************************************************************************)
EXTENDS AuditLog, SequenceTheorems, TLAPS

\* A log of which no hash is newer than "top", and each is newer than the last.
Rising(s, top) == /\ \A i \in 1..Len(s) : s[i].hash <= top
                  /\ \A i, j \in 1..Len(s) : i < j => s[i].hash < s[j].hash

\* What s lacks of the returned records is older than all that it has.
Covers(s) == \A h \in returned \ Hashes(s) :
                Len(s) = MaxEntries /\ \A g \in Hashes(s) : h < g

Log(s) == s \in Seq(Record) /\ Len(s) <= MaxEntries

Typed == /\ Log(records) /\ Log(disk)
         /\ made \in Nat /\ lastHash \in 0..made
         /\ queue \in Seq(Tasks)
         /\ at \in [Tasks -> {"idle", "waiting", "saving"}]
         /\ DOMAIN saving = Tasks
         /\ returned \subseteq 1..made

\* The task that saves owns the lock, so what it saves is still the log, and that
\* is one record ahead of the file.
Owns(t) == /\ queue # <<>> /\ Head(queue) = t
           /\ saving[t] = records
           /\ records # <<>> /\ lastHash = made
           /\ disk # <<>> => disk[Len(disk)].hash < made

Owner == \A t \in Tasks : at[t] = "saving" => Owns(t)

Increasing == Rising(records, made) /\ Rising(disk, made)
Covering == Covers(records) /\ Covers(disk)

IInv == Typed /\ ChainIntact /\ Owner /\ Increasing /\ Covering
--------------------------------------------------------------------------------
LEMMA LogRecords ==
    ASSUME NEW s, Log(s)
    PROVE  /\ Len(s) \in Nat /\ Len(s) <= MaxEntries
           /\ \A i \in 1..Len(s) : s[i] \in Record /\ s[i].hash \in Nat \ {Genesis}
           /\ s # <<>> => Len(s) >= 1 /\ Len(s) \in 1..Len(s)
<1>1. s \in Seq(Record) /\ Len(s) \in Nat /\ Len(s) <= MaxEntries  BY DEF Log
<1>2. \A i \in 1..Len(s) : s[i] \in Record  BY <1>1
<1>3. s # <<>> => Len(s) >= 1  BY <1>1
<1> QED  BY <1>1, <1>2, <1>3 DEF Record

LEMMA RisingLater ==
    ASSUME NEW s, Log(s), NEW top \in Nat, Rising(s, top)
    PROVE  Rising(s, top + 1)
<1>1. \A i \in 1..Len(s) : s[i].hash \in Nat  BY LogRecords
<1> QED  BY <1>1 DEF Rising

\* The newest records of a log with one more: at most the first one is dropped.
LEMMA NewestOfAppend ==
    ASSUME NEW s, Log(s), NEW r \in Record
    PROVE  LET n == Newest(Append(s, r)) IN
           /\ Log(n) /\ n # <<>> /\ n[Len(n)] = r
           /\ Len(s) < MaxEntries => n = Append(s, r)
           /\ Len(s) = MaxEntries =>
                 /\ Len(n) = MaxEntries
                 /\ \A i \in 1..(Len(n) - 1) : n[i] = s[i + 1]
<1> USE AuditAssumption
<1> DEFINE a == Append(s, r)
<1>1. /\ a \in Seq(Record) /\ Len(a) = Len(s) + 1 /\ Len(s) \in Nat
      /\ a[Len(s) + 1] = r /\ \A i \in 1..Len(s) : a[i] = s[i]
  BY DEF Log
<1>2. CASE Len(s) < MaxEntries
  <2>1. Newest(a) = a  BY <1>1, <1>2 DEF Newest
  <2>2. a # <<>> /\ Len(a) <= MaxEntries  BY <1>1, <1>2
  <2> QED  BY <1>1, <1>2, <2>1, <2>2 DEF Log
<1>3. CASE Len(s) = MaxEntries
  <2> DEFINE n == SubSeq(a, 2, MaxEntries + 1)
  <2>1. Newest(a) = n
    <3>1. ~(Len(a) <= MaxEntries) /\ Len(a) - MaxEntries + 1 = 2 /\ Len(a) = MaxEntries + 1
      BY <1>1, <1>3
    <3> QED  BY <3>1 DEF Newest
  <2>2. /\ n \in Seq(Record) /\ Len(n) = MaxEntries
        /\ \A i \in 1..MaxEntries : n[i] = a[i + 1]
    <3>1. \A i \in 2..(MaxEntries + 1) : i \in 1..Len(a)  BY <1>1, <1>3
    <3>2. /\ n \in Seq(Record)
          /\ Len(n) = IF 2 <= MaxEntries + 1 THEN MaxEntries + 1 - 2 + 1 ELSE 0
          /\ \A i \in 1..(MaxEntries + 1 - 2 + 1) : n[i] = a[2 + i - 1]
      BY <1>1, <1>3, <3>1, SubSeqProperties
    <3>3. MaxEntries + 1 - 2 + 1 = MaxEntries /\ 2 <= MaxEntries + 1
      OBVIOUS
    <3>4. \A i \in 1..MaxEntries : 2 + i - 1 = i + 1
      OBVIOUS
    <3> HIDE DEF n
    <3> QED  BY <3>2, <3>3, <3>4
  <2> HIDE DEF n
  <2>3. n[Len(n)] = r  BY <1>1, <1>3, <2>2
  <2>4. \A i \in 1..(Len(n) - 1) : n[i] = s[i + 1]  BY <1>1, <1>3, <2>2
  <2>5. n # <<>>  BY <2>2
  <2> QED  BY <1>3, <2>1, <2>2, <2>3, <2>4, <2>5 DEF Log
<1> QED  BY <1>1, <1>2, <1>3 DEF Log

\* A longer log covers at least as much, and still rises.
LEMMA AppendCovers ==
    ASSUME Typed, Increasing, Covers(records),
           NEW r \in Record, r.hash = made + 1, records' = Newest(Append(records, r)),
           made' = made + 1, returned' = returned
    PROVE  Rising(records', made') /\ Covers(records)'
<1> USE AuditAssumption
<1> DEFINE n == Newest(Append(records, r))
<1>1. /\ Log(records) /\ made \in Nat /\ returned \subseteq 1..made
      /\ Rising(records, made) /\ records' = n
  BY DEF Typed, Increasing
<1>2. /\ Log(n) /\ n # <<>> /\ n[Len(n)] = r
      /\ Len(records) < MaxEntries => n = Append(records, r)
      /\ Len(records) = MaxEntries =>
            /\ Len(n) = MaxEntries
            /\ \A i \in 1..(Len(n) - 1) : n[i] = records[i + 1]
  BY <1>1, NewestOfAppend
<1>3. /\ Len(records) \in Nat /\ Len(n) \in Nat /\ Len(n) >= 1
      /\ \A i \in 1..Len(records) : records[i].hash \in Nat
      /\ Len(records) < MaxEntries \/ Len(records) = MaxEntries
  <2> HIDE DEF n
  <2>1. Len(records) \in Nat /\ Len(records) <= MaxEntries  BY <1>1, LogRecords
  <2>2. Len(n) \in Nat /\ Len(n) >= 1  BY <1>2, LogRecords
  <2>3. \A i \in 1..Len(records) : records[i].hash \in Nat  BY <1>1, LogRecords
  <2> QED  BY <2>1, <2>2, <2>3
<1>4. CASE Len(records) < MaxEntries
  <2>1. /\ Len(n) = Len(records) + 1 /\ n[Len(records) + 1] = r
        /\ \A i \in 1..Len(records) : n[i] = records[i]
    BY <1>1, <1>2, <1>4 DEF Log
  <2>2. Rising(n, made + 1)
    <3> HIDE DEF n
    <3>1. \A i \in 1..Len(n) : i \in 1..Len(records) \/ i = Len(records) + 1
      BY <1>3, <2>1
    <3>2. \A i \in 1..Len(records) : records[i].hash < made + 1
      BY <1>1, <1>3 DEF Rising
    <3>3. \A i \in 1..Len(n) : n[i].hash <= made + 1
      BY <1>1, <1>3, <2>1, <3>1, <3>2
    <3>4. ASSUME NEW i \in 1..Len(n), NEW j \in 1..Len(n), i < j
          PROVE  n[i].hash < n[j].hash
      <4>1. i \in 1..Len(records)  BY <1>3, <2>1, <3>4
      <4>2. CASE j \in 1..Len(records)  BY <1>1, <2>1, <3>4, <4>1, <4>2 DEF Rising
      <4>3. CASE j = Len(records) + 1  BY <2>1, <3>2, <4>1, <4>3
      <4> QED  BY <3>1, <4>2, <4>3
    <3> QED  BY <3>3, <3>4 DEF Rising
  <2>3. Hashes(records) \subseteq Hashes(n)
    BY <1>3, <2>1 DEF Hashes
  <2>4. returned \ Hashes(records) = {}
    BY <1>3, <1>4 DEF Covers
  <2>5. returned \ Hashes(n) = {}
    BY <2>3, <2>4
  <2> QED  BY <1>1, <2>2, <2>5 DEF Covers
<1>5. CASE Len(records) = MaxEntries
  <2>1. /\ Len(n) = Len(records) /\ n[Len(n)] = r
        /\ \A i \in 1..(Len(n) - 1) : n[i] = records[i + 1]
    BY <1>2, <1>5
  <2>2. Rising(n, made + 1)
    <3> HIDE DEF n
    <3>1. \A i \in 1..Len(n) : i \in 1..(Len(n) - 1) \/ i = Len(n)
      BY <1>3
    <3>2. \A i \in 1..Len(records) : records[i].hash < made + 1
      BY <1>1, <1>3 DEF Rising
    <3>3. \A i \in 1..(Len(n) - 1) : i + 1 \in 1..Len(records)
      BY <1>3, <2>1
    <3>4. \A i \in 1..Len(n) : n[i].hash <= made + 1
      BY <1>1, <1>3, <2>1, <3>1, <3>2, <3>3
    <3>5. ASSUME NEW i \in 1..Len(n), NEW j \in 1..Len(n), i < j
          PROVE  n[i].hash < n[j].hash
      <4>1. i \in 1..(Len(n) - 1)  BY <1>3, <3>5
      <4>2. CASE j \in 1..(Len(n) - 1)
        BY <1>1, <2>1, <3>3, <3>5, <4>1, <4>2 DEF Rising
      <4>3. CASE j = Len(n)  BY <2>1, <3>2, <3>3, <4>1, <4>3
      <4> QED  BY <3>1, <4>2, <4>3
    <3> QED  BY <3>4, <3>5 DEF Rising
  <2>3. \A g \in Hashes(n) : g = made + 1 \/ \E i \in 2..Len(records) : g = records[i].hash
    BY <1>3, <2>1 DEF Hashes
  <2>4. \A i \in 2..Len(records) : records[i].hash \in Hashes(n)
    <3> SUFFICES ASSUME NEW i \in 2..Len(records)  PROVE records[i].hash \in Hashes(n)
      OBVIOUS
    <3>1. i - 1 \in 1..(Len(n) - 1) /\ (i - 1) + 1 = i  BY <1>3, <2>1
    <3>2. n[i - 1] = records[i]  BY <2>1, <3>1
    <3>3. i - 1 \in 1..Len(n)  BY <1>3, <2>1
    <3> QED  BY <3>2, <3>3 DEF Hashes
  <2>5. ASSUME NEW h \in returned \ Hashes(n), NEW g \in Hashes(n)  PROVE h < g
    <3>1. h \in Nat /\ h <= made  BY <1>1
    <3>2. CASE g = made + 1  BY <1>1, <3>1, <3>2
    <3>3. ASSUME NEW i \in 2..Len(records), g = records[i].hash  PROVE h < g
      <4>1. i \in 1..Len(records) /\ 1 \in 1..Len(records) /\ 1 < i  BY <1>3
      <4>2. CASE h \in Hashes(records)
        <5>1. PICK j \in 1..Len(records) : h = records[j].hash  BY <4>2 DEF Hashes
        <5>2. j = 1  BY <1>3, <2>4, <2>5, <5>1
        <5> QED  BY <1>1, <3>3, <4>1, <5>1, <5>2 DEF Rising
      <4>3. CASE h \notin Hashes(records)
        BY <2>5, <3>3, <4>1, <4>3 DEF Covers, Hashes
      <4> QED  BY <4>2, <4>3
    <3> QED  BY <2>3, <2>5, <3>2, <3>3
  <2> QED  BY <1>1, <1>5, <2>1, <2>2, <2>5 DEF Covers
<1> QED  BY <1>3, <1>4, <1>5
--------------------------------------------------------------------------------
LEMMA InitInvariant == AuditInit => IInv
<1> SUFFICES ASSUME AuditInit  PROVE IInv
  OBVIOUS
<1> USE AuditAssumption DEF AuditInit, Genesis
<1>1. Len(<<>>) = 0 /\ Log(<<>>)  BY DEF Log
<1>2. Typed  BY <1>1 DEF Typed
<1>3. ChainIntact  BY <1>1 DEF ChainIntact, Linked
<1>4. Owner  BY DEF Owner
<1>5. Increasing  BY <1>1 DEF Increasing, Rising
<1>6. Covering  BY DEF Covering, Covers
<1> QED  BY <1>2, <1>3, <1>4, <1>5, <1>6 DEF IInv

\* The critical section, entered by a task when nobody else is in it.
LEMMA LinkInvariant ==
    ASSUME IInv, NEW t \in Tasks, Link(t), at[t] # "saving",
           queue' \in Seq(Tasks), queue' # <<>>, Head(queue') = t,
           queue = <<>> \/ Head(queue) = t
    PROVE  IInv'
<1> USE AuditAssumption
<1> DEFINE r == [hash |-> made + 1, previous |-> lastHash]
           n == Newest(Append(records, r))
<1>1. /\ Typed /\ ChainIntact /\ Owner /\ Increasing /\ Covering
      /\ Log(records) /\ Log(disk) /\ made \in Nat /\ lastHash \in Nat
  BY DEF IInv, Typed
<1>2. /\ made' = made + 1 /\ records' = n /\ lastHash' = made + 1
      /\ saving' = [saving EXCEPT ![t] = n] /\ at' = [at EXCEPT ![t] = "saving"]
      /\ disk' = disk /\ returned' = returned
  BY DEF Link
<1>3. r \in Record /\ r.hash = made + 1 /\ r.previous = lastHash
  BY <1>1 DEF Record, Genesis
<1> HIDE DEF r
<1>4. /\ Log(n) /\ n # <<>> /\ n[Len(n)] = r
      /\ Len(records) < MaxEntries => n = Append(records, r)
      /\ Len(records) = MaxEntries =>
            /\ Len(n) = MaxEntries
            /\ \A i \in 1..(Len(n) - 1) : n[i] = records[i + 1]
  BY <1>1, <1>3, NewestOfAppend
<1>5. /\ Len(records) \in Nat /\ Len(n) \in Nat /\ Len(n) >= 1
      /\ Len(records) < MaxEntries \/ Len(records) = MaxEntries
  BY <1>1, <1>4 DEF Log
<1>6. Typed'
  BY <1>1, <1>2, <1>4 DEF Typed, Log
<1>7. ChainIntact'
  <2>1. ASSUME NEW i \in 1..(Len(n) - 1)  PROVE n[i + 1].previous = n[i].hash
    <3>1. CASE Len(records) < MaxEntries
      <4>1. /\ Len(n) = Len(records) + 1 /\ n[Len(records) + 1] = r
            /\ \A k \in 1..Len(records) : n[k] = records[k]
        BY <1>1, <1>3, <1>4, <3>1 DEF Log
      <4>2. CASE i = Len(records)
        BY <1>1, <1>3, <1>5, <4>1, <4>2 DEF ChainIntact
      <4>3. CASE i \in 1..(Len(records) - 1)
        BY <1>1, <1>5, <4>1, <4>3 DEF ChainIntact, Linked
      <4> QED  BY <1>5, <2>1, <4>1, <4>2, <4>3
    <3>2. CASE Len(records) = MaxEntries
      <4>1. Len(n) = Len(records) /\ \A k \in 1..(Len(n) - 1) : n[k] = records[k + 1]
        BY <1>4, <3>2
      <4>2. CASE i = Len(n) - 1
        <5>1. n[i] = records[Len(records)] /\ n[i + 1] = r
          BY <1>4, <1>5, <2>1, <4>1, <4>2
        <5> QED  BY <1>1, <1>3, <1>5, <2>1, <4>1, <5>1 DEF ChainIntact
      <4>3. CASE i \in 1..(Len(n) - 2)
        <5>1. n[i] = records[i + 1] /\ n[i + 1] = records[i + 1 + 1]
              /\ i + 1 \in 1..(Len(records) - 1)
          BY <1>5, <4>1, <4>3
        <5> QED  BY <1>1, <5>1 DEF ChainIntact, Linked
      <4> QED  BY <1>5, <2>1, <4>2, <4>3
    <3> QED  BY <1>5, <3>1, <3>2
  <2> QED  BY <1>1, <1>2, <1>3, <1>4, <2>1 DEF ChainIntact, Linked
<1>8. Rising(records', made') /\ Covers(records)'
  BY <1>1, <1>2, <1>3, AppendCovers DEF Covering
<1>9. Increasing'
  <2>1. Rising(disk, made + 1)  BY <1>1, RisingLater DEF Increasing
  <2> QED  BY <1>2, <1>8, <2>1 DEF Increasing, Rising
<1>10. Covering'
  BY <1>1, <1>2, <1>8 DEF Covering, Covers, Hashes
<1>11. Owner'
  <2> SUFFICES ASSUME NEW u \in Tasks, at'[u] = "saving"  PROVE Owns(u)'
    BY DEF Owner
  <2>1. u = t
    BY <1>1, <1>2 DEF Owner, Owns, Typed
  <2>2. saving'[t] = n
    BY <1>1, <1>2 DEF Typed
  <2>3. disk # <<>> => disk[Len(disk)].hash < made + 1
    <3> SUFFICES ASSUME disk # <<>>  PROVE disk[Len(disk)].hash < made + 1
      OBVIOUS
    <3>1. Len(disk) \in 1..Len(disk) /\ disk[Len(disk)].hash \in Nat
      BY <1>1, LogRecords
    <3> QED  BY <1>1, <3>1 DEF Increasing, Rising
  <2> QED  BY <1>2, <1>4, <2>1, <2>2, <2>3 DEF Owns
<1> QED  BY <1>6, <1>7, <1>9, <1>10, <1>11 DEF IInv

LEMMA SaveInvariant ==
    ASSUME IInv, NEW t \in Tasks, Save(t)
    PROVE  IInv' /\ disk' # <<>> /\ (disk # <<>> => disk[Len(disk)].hash < disk'[Len(disk')].hash)
<1> USE AuditAssumption
<1>1. /\ Typed /\ ChainIntact /\ Owner /\ Increasing /\ Covering
      /\ Log(records) /\ Log(disk) /\ made \in Nat /\ Owns(t)
  BY DEF IInv, Typed, Save, Owner
<1>2. /\ disk' = records /\ records' = records /\ lastHash' = lastHash /\ made' = made
      /\ saving' = saving /\ queue' = Tail(queue) /\ at' = [at EXCEPT ![t] = "idle"]
      /\ returned' = returned \cup {records[Len(records)].hash}
  BY <1>1 DEF Save, Release, Owns
<1>3. /\ records # <<>> /\ Len(records) \in 1..Len(records)
      /\ records[Len(records)].hash = made
  BY <1>1 DEF Owns, Log, ChainIntact
<1>4. made \in 1..made
  <2>1. records[Len(records)] \in Record  BY <1>1, <1>3 DEF Log
  <2> QED  BY <1>1, <1>3, <2>1 DEF Record, Genesis
<1>5. Typed'
  BY <1>1, <1>2, <1>3, <1>4, HeadTailProperties DEF Typed, Owns, Log
<1>6. ChainIntact'
  BY <1>1, <1>2 DEF ChainIntact, Linked
<1>7. Owner'
  BY <1>1, <1>2 DEF Owner, Owns, Typed
<1>8. Increasing'
  BY <1>1, <1>2 DEF Increasing, Rising
<1>9. made \in Hashes(records)
  BY <1>3 DEF Hashes
<1>10. Covering'
  BY <1>1, <1>2, <1>3, <1>9 DEF Covering, Covers, Hashes
<1> QED  BY <1>1, <1>2, <1>3, <1>5, <1>6, <1>7, <1>8, <1>10 DEF IInv, Owns

\* What the file holds after a crash is a log that a new process may start from.
LEMMA RestartInvariant ==
    ASSUME IInv, RestartAudit
    PROVE  /\ IInv'
           /\ disk' # disk => disk = <<>> \/ disk[Len(disk)].hash < disk'[Len(disk')].hash
<1> USE AuditAssumption
<1>1. /\ Typed /\ ChainIntact /\ Owner /\ Increasing /\ Covering
      /\ Log(records) /\ Log(disk) /\ made \in Nat
  BY DEF IInv, Typed
<1>2. PICK file \in Files :
         /\ disk' = file /\ records' = Newest(file)
         /\ lastHash' = IF file = <<>> THEN Genesis ELSE file[Len(file)].hash
  BY DEF RestartAudit, Load
<1>3. /\ made' = made /\ returned' = returned /\ queue' = <<>>
      /\ at' = [u \in Tasks |-> "idle"] /\ saving' = [u \in Tasks |-> <<>>]
  BY DEF RestartAudit
<1>4. \/ file = disk
      \/ file = records /\ \E t \in Tasks : Owns(t)
  BY <1>1, <1>2 DEF Files, Owner, Owns
<1>5. /\ Log(file) /\ Linked(file) /\ Rising(file, made) /\ Covers(file)
  BY <1>1, <1>4 DEF ChainIntact, Increasing, Covering
<1>6. records' = file
  BY <1>2, <1>5 DEF Newest, Log
<1>7. file # <<>> => Len(file) \in 1..Len(file) /\ file[Len(file)].hash \in 1..made
  <2> SUFFICES ASSUME file # <<>>
               PROVE  Len(file) \in 1..Len(file) /\ file[Len(file)].hash \in 1..made
    OBVIOUS
  <2>1. Len(file) \in 1..Len(file) /\ file[Len(file)] \in Record
    BY <1>5 DEF Log
  <2> QED  BY <1>1, <1>5, <2>1 DEF Rising, Record, Genesis
<1>8. Typed'
  <2>1. lastHash' \in 0..made'  BY <1>1, <1>2, <1>3, <1>7 DEF Genesis
  <2> QED  BY <1>1, <1>2, <1>3, <1>5, <1>6, <2>1 DEF Typed, Log
<1>9. ChainIntact'
  BY <1>2, <1>5, <1>6 DEF ChainIntact, Linked
<1>10. Owner'
  BY <1>3 DEF Owner
<1>11. Increasing'
  BY <1>2, <1>3, <1>5, <1>6 DEF Increasing, Rising
<1>12. Covering'
  BY <1>2, <1>3, <1>5, <1>6 DEF Covering, Covers, Hashes
<1>13. disk' # disk => disk = <<>> \/ disk[Len(disk)].hash < disk'[Len(disk')].hash
  <2> SUFFICES ASSUME file # disk, disk # <<>>
               PROVE  disk[Len(disk)].hash < file[Len(file)].hash
    BY <1>2
  <2>1. PICK t \in Tasks : Owns(t) /\ file = records  BY <1>4
  <2>2. file[Len(file)].hash = made  BY <1>1, <2>1 DEF ChainIntact, Owns
  <2> QED  BY <2>1, <2>2 DEF Owns
<1> QED  BY <1>8, <1>9, <1>10, <1>11, <1>12, <1>13 DEF IInv

LEMMA StepInvariant ==
    ASSUME IInv, [AuditNext]_auditVars
    PROVE  /\ IInv'
           /\ disk' # disk => disk = <<>> \/ disk[Len(disk)].hash < disk'[Len(disk')].hash
<1>1. Typed /\ Owner  BY DEF IInv
<1>2. ASSUME NEW t \in Tasks, EnterFree(t)  PROVE IInv' /\ disk' = disk
  <2>1. queue' = <<t>> /\ queue = <<>> /\ at[t] # "saving" /\ Link(t)
    BY <1>2 DEF EnterFree
  <2>2. queue' \in Seq(Tasks) /\ queue' # <<>> /\ Head(queue') = t  BY <2>1
  <2> QED  BY <2>1, <2>2, LinkInvariant DEF Link
<1>3. ASSUME NEW t \in Tasks, EnterWaiting(t)  PROVE IInv' /\ disk' = disk
  <2>1. /\ queue # <<>> /\ queue' = Append(queue, t) /\ queue \in Seq(Tasks)
        /\ at' = [at EXCEPT ![t] = "waiting"]
        /\ UNCHANGED <<records, lastHash, saving, disk, made, returned>>
    BY <1>1, <1>3 DEF EnterWaiting, Typed
  <2>2. queue' \in Seq(Tasks) /\ queue' # <<>> /\ Head(queue') = Head(queue)
    BY <2>1
  <2>3. Typed'  BY <1>1, <2>1, <2>2 DEF Typed, Log
  <2>4. Owner'  BY <1>1, <2>1, <2>2 DEF Owner, Owns, Typed
  <2> QED  BY <2>1, <2>3, <2>4
           DEF IInv, ChainIntact, Linked, Increasing, Rising, Covering, Covers, Hashes
<1>4. ASSUME NEW t \in Tasks, TakeTurn(t)  PROVE IInv' /\ disk' = disk
  <2>1. at[t] = "waiting" /\ queue # <<>> /\ Head(queue) = t /\ queue' = queue /\ Link(t)
    BY <1>4 DEF TakeTurn
  <2> QED  BY <1>1, <2>1, LinkInvariant DEF Link, Typed
<1>5. ASSUME NEW t \in Tasks, SaveFails(t)  PROVE IInv' /\ disk' = disk
  <2>1. /\ Owns(t) /\ queue' = Tail(queue) /\ at' = [at EXCEPT ![t] = "idle"]
        /\ UNCHANGED <<records, lastHash, saving, disk, made, returned>>
    BY <1>1, <1>5 DEF SaveFails, Release, Owner
  <2>2. Typed'
    BY <1>1, <2>1, HeadTailProperties DEF Typed, Log, Owns
  <2>3. Owner'
    BY <1>1, <2>1 DEF Owner, Owns, Typed
  <2> QED  BY <2>1, <2>2, <2>3
           DEF IInv, ChainIntact, Linked, Increasing, Rising, Covering, Covers, Hashes
<1>6. ASSUME UNCHANGED auditVars  PROVE IInv' /\ disk' = disk
  BY <1>6 DEF auditVars, IInv, Typed, Log, ChainIntact, Linked, Owner, Owns, Increasing,
              Rising, Covering, Covers, Hashes
<1> QED
  BY <1>2, <1>3, <1>4, <1>5, <1>6, SaveInvariant, RestartInvariant DEF AuditNext, Proceed

THEOREM Invariant == AuditSpec => []IInv
<1>1. IInv /\ [AuditNext]_auditVars => IInv'  BY StepInvariant
<1> QED  BY InitInvariant, <1>1, PTL DEF AuditSpec

(* In memory and in the file each record names the one before it.         *)
THEOREM ChainHolds == AuditSpec => []ChainIntact
<1>1. IInv => ChainIntact  BY DEF IInv
<1> QED  BY Invariant, <1>1, PTL

(* No save and no restart puts an older log over a newer one.              *)
THEOREM NeverRewinds == AuditSpec => FileNeverRewinds
<1>1. IInv /\ [AuditNext]_auditVars =>
         [disk' # disk =>
            disk = <<>> \/ disk[Len(disk)].hash < disk'[Len(disk')].hash]_auditVars
  BY StepInvariant
<1> QED  BY Invariant, <1>1, PTL DEF AuditSpec, FileNeverRewinds

(* A record whose append ended with a good save is lost only to            *)
(* MaxEntries newer ones.                                                  *)
THEOREM SavedRecordsStay == AuditSpec => []SavedStays
<1>1. IInv => SavedStays  BY DEF IInv, Covering, Covers, SavedStays
<1> QED  BY Invariant, <1>1, PTL
--------------------------------------------------------------------------------
(***************************************************************************)
(* The lock is given back: the safety half of AppendsEnd.  Every append    *)
(* under way is in the queue, once, and only its head may save, so the     *)
(* head can always proceed; and every step of the head brings each append  *)
(* behind it nearer.                                                       *)
(***************************************************************************)
Lined == /\ \A t \in Tasks : at[t] # "idle" <=> \E i \in 1..Len(queue) : queue[i] = t
         /\ \A i, j \in 1..Len(queue) : queue[i] = queue[j] => i = j
         /\ \A i \in 1..Len(queue) : i # 1 => at[queue[i]] = "waiting"

\* How many steps of heads there may be before the append at place i has ended.
Distance(i) == 2 * i + IF at[queue[1]] = "waiting" THEN 1 ELSE 0

HeadProceeds == \A t \in Tasks : at[t] # "idle" =>
                   /\ queue # <<>> /\ Head(queue) \in Tasks
                   /\ at[Head(queue)] \in {"waiting", "saving"}

Nearer(t) == \A i \in 1..Len(queue), j \in 1..Len(queue') :
                queue[i] = t /\ queue'[j] = t =>
                   /\ Distance(j)' <= Distance(i)
                   /\ (\E u \in Tasks : Proceed(u)) => Distance(j)' < Distance(i)

LEMMA QueueItems ==
    ASSUME Typed
    PROVE  /\ Len(queue) \in Nat /\ \A i \in 1..Len(queue) : queue[i] \in Tasks
           /\ queue # <<>> <=> Len(queue) > 0
           /\ queue # <<>> => Head(queue) = queue[1] /\ 1 \in 1..Len(queue)
BY DEF Typed

LEMMA LinedInit == AuditInit => Lined
BY DEF AuditInit, Lined

\* The lock changes its owner, or an owner its place.
LEMMA LinedTurn ==
    ASSUME Typed, Lined, NEW t \in Tasks, queue # <<>>, Head(queue) = t, queue' = queue,
           at[t] # "idle", at' = [at EXCEPT ![t] = "saving"]
    PROVE  Lined'
<1>1. at \in [Tasks -> {"idle", "waiting", "saving"}]  BY DEF Typed
<1>2. \A u \in Tasks : at'[u] # "idle" <=> at[u] # "idle"  BY <1>1
<1>3. ASSUME NEW i \in 1..Len(queue), i # 1 PROVE at'[queue[i]] = "waiting"
  <2>1. queue[i] \in Tasks /\ queue[1] = t /\ 1 \in 1..Len(queue)  BY QueueItems
  <2>2. queue[i] # t  BY <1>3, <2>1 DEF Lined
  <2> QED  BY <1>1, <1>3, <2>1, <2>2 DEF Lined
<1> QED  BY <1>2, <1>3 DEF Lined

LEMMA LinedFree ==
    ASSUME Typed, Lined, NEW t \in Tasks, queue = <<>>, queue' = <<t>>,
           at' = [at EXCEPT ![t] = "saving"]
    PROVE  Lined'
<1>1. at \in [Tasks -> {"idle", "waiting", "saving"}]  BY DEF Typed
<1>2. Len(queue) = 0 /\ \A u \in Tasks : at[u] = "idle"
  <2>1. Len(queue) = 0  OBVIOUS
  <2> QED  BY <2>1 DEF Lined
<1>3. Len(queue') = 1 /\ queue'[1] = t /\ \A i \in 1..Len(queue') : i = 1  OBVIOUS
<1>4. \A u \in Tasks : at'[u] # "idle" <=> u = t  BY <1>1, <1>2
<1>5. \A u \in Tasks : at'[u] # "idle" <=> \E i \in 1..Len(queue') : queue'[i] = u
  BY <1>3, <1>4
<1> QED  BY <1>3, <1>5 DEF Lined

LEMMA LinedWaiting ==
    ASSUME Typed, Lined, NEW t \in Tasks, queue # <<>>, queue' = Append(queue, t),
           at[t] = "idle", at' = [at EXCEPT ![t] = "waiting"]
    PROVE  /\ Lined' /\ queue'[1] = queue[1] /\ at'[queue'[1]] = at[queue[1]]
           /\ \A i \in 1..Len(queue) : queue'[i] = queue[i] /\ i \in 1..Len(queue')
<1> DEFINE n == Len(queue)
<1>1. at \in [Tasks -> {"idle", "waiting", "saving"}]  BY DEF Typed
<1>2. /\ n \in Nat /\ n >= 1 /\ \A i \in 1..n : queue[i] \in Tasks
      /\ Len(queue') = n + 1 /\ queue'[n + 1] = t
      /\ \A i \in 1..n : queue'[i] = queue[i]
  BY QueueItems DEF Typed
<1>3. \A i \in 1..n : queue[i] # t
  <2>1. ~\E i \in 1..n : queue[i] = t  BY DEF Lined
  <2> QED  BY <2>1
<1>4. /\ \A u \in Tasks : at[u] # "idle" <=> \E i \in 1..n : queue[i] = u
      /\ \A i, j \in 1..n : queue[i] = queue[j] => i = j
      /\ \A i \in 1..n : i # 1 => at[queue[i]] = "waiting"
  BY DEF Lined
<1> HIDE DEF n
<1>5. \A i \in 1..(n + 1) : i = n + 1 \/ i \in 1..n  BY <1>2
<1>6. \A i \in 1..n : i \in 1..(n + 1)  BY <1>2
<1>7. \A u \in Tasks : at'[u] = IF u = t THEN "waiting" ELSE at[u]  BY <1>1
<1>8. ASSUME NEW u \in Tasks
      PROVE  at'[u] # "idle" <=> \E i \in 1..(n + 1) : queue'[i] = u
  <2>1. CASE u = t
    <3>1. n + 1 \in 1..(n + 1)  BY <1>2
    <3> QED  BY <1>2, <1>7, <2>1, <3>1
  <2>2. CASE u # t
    <3>1. (\E i \in 1..(n + 1) : queue'[i] = u) <=> \E i \in 1..n : queue[i] = u
      BY <1>2, <1>5, <1>6, <2>2
    <3>2. at'[u] = at[u]  BY <1>7, <2>2
    <3>3. at[u] # "idle" <=> \E i \in 1..n : queue[i] = u  BY <1>4
    <3> QED  BY <3>1, <3>2, <3>3
  <2> QED  BY <2>1, <2>2
<1>9. ASSUME NEW i \in 1..(n + 1), NEW j \in 1..(n + 1), queue'[i] = queue'[j] PROVE i = j
  BY <1>2, <1>3, <1>4, <1>5, <1>9
<1>10. ASSUME NEW i \in 1..(n + 1), i # 1 PROVE at'[queue'[i]] = "waiting"
  <2>1. CASE i = n + 1  BY <1>2, <1>7, <2>1
  <2>2. CASE i \in 1..n  BY <1>2, <1>3, <1>4, <1>7, <1>10, <2>2
  <2> QED  BY <1>5, <2>1, <2>2
<1>11. 1 \in 1..n  BY <1>2
<1> QED  BY <1>2, <1>3, <1>6, <1>7, <1>8, <1>9, <1>10, <1>11 DEF Lined, n

LEMMA LinedRelease ==
    ASSUME Typed, Lined, NEW t \in Tasks, queue # <<>>, Head(queue) = t, Release(t)
    PROVE  /\ Lined' /\ Len(queue') = Len(queue) - 1
           /\ \A i \in 1..Len(queue') : queue'[i] = queue[i + 1] /\ i + 1 \in 1..Len(queue)
<1> DEFINE n == Len(queue)
<1>1. at \in [Tasks -> {"idle", "waiting", "saving"}]  BY DEF Typed
<1>2. /\ n \in Nat /\ n >= 1 /\ queue[1] = t /\ \A i \in 1..n : queue[i] \in Tasks
  BY QueueItems
<1>3. Len(queue') = n - 1 /\ \A i \in 1..(n - 1) : queue'[i] = queue[i + 1]
  BY HeadTailProperties DEF Typed, Release
<1>4. /\ \A u \in Tasks : at[u] # "idle" <=> \E i \in 1..n : queue[i] = u
      /\ \A i, j \in 1..n : queue[i] = queue[j] => i = j
      /\ \A i \in 1..n : i # 1 => at[queue[i]] = "waiting"
  BY DEF Lined
<1>5. \A u \in Tasks : at'[u] = IF u = t THEN "idle" ELSE at[u]  BY <1>1 DEF Release
<1> HIDE DEF n
<1>6. \A i \in 1..(n - 1) : i + 1 \in 1..n /\ i + 1 # 1  BY <1>2
<1>7. \A i \in 1..n : i = 1 \/ (i - 1 \in 1..(n - 1) /\ (i - 1) + 1 = i)  BY <1>2
<1>8. 1 \in 1..n  BY <1>2
<1>9. ASSUME NEW i \in 1..(n - 1) PROVE queue'[i] # t
  BY <1>2, <1>3, <1>4, <1>6, <1>8
<1>10. ASSUME NEW u \in Tasks
       PROVE  at'[u] # "idle" <=> \E i \in 1..(n - 1) : queue'[i] = u
  <2>1. CASE u = t  BY <1>5, <1>9, <2>1
  <2>2. CASE u # t
    <3>1. ASSUME NEW i \in 1..n, queue[i] = u PROVE \E k \in 1..(n - 1) : queue'[k] = u
      <4> DEFINE k == i - 1
      <4>1. k \in 1..(n - 1) /\ k + 1 = i  BY <1>2, <1>7, <2>2, <3>1
      <4> HIDE DEF k
      <4>2. queue'[k] = u  BY <1>3, <3>1, <4>1
      <4> QED  BY <4>1, <4>2
    <3>2. ASSUME NEW k \in 1..(n - 1), queue'[k] = u PROVE \E i \in 1..n : queue[i] = u
      BY <1>3, <1>6, <3>2
    <3> QED  BY <1>4, <1>5, <2>2, <3>1, <3>2
  <2> QED  BY <2>1, <2>2
<1>11. ASSUME NEW i \in 1..(n - 1), NEW j \in 1..(n - 1), queue'[i] = queue'[j] PROVE i = j
  <2>1. i + 1 = j + 1  BY <1>3, <1>4, <1>6, <1>11
  <2> QED  BY <2>1
<1>12. ASSUME NEW i \in 1..(n - 1) PROVE at'[queue'[i]] = "waiting"
  <2>1. queue'[i] = queue[i + 1] /\ at[queue[i + 1]] = "waiting" /\ queue[i + 1] \in Tasks
    BY <1>2, <1>3, <1>4, <1>6
  <2> QED  BY <1>5, <1>9, <2>1
<1> QED  BY <1>3, <1>6, <1>10, <1>11, <1>12 DEF Lined, n

LEMMA LinedStep ==
    ASSUME IInv, Lined, [AuditNext]_auditVars
    PROVE  Lined' /\ \A t \in Tasks : [Nearer(t)]_auditVars
<1>1. Typed /\ Typed' /\ Owner  BY StepInvariant DEF IInv
<1>2. at \in [Tasks -> {"idle", "waiting", "saving"}]  BY <1>1 DEF Typed
<1>3. ASSUME NEW t \in Tasks, EnterFree(t) PROVE Lined' /\ \A u \in Tasks : Nearer(u)
  <2>1. queue = <<>> /\ queue' = <<t>> /\ at' = [at EXCEPT ![t] = "saving"]
    BY <1>3 DEF EnterFree, Link
  <2>2. ~\E i \in 1..Len(queue) : TRUE  BY <2>1
  <2> QED  BY <1>1, <2>1, <2>2, LinedFree DEF Nearer
<1>4. ASSUME NEW t \in Tasks, EnterWaiting(t) PROVE Lined' /\ \A u \in Tasks : Nearer(u)
  <2>1. /\ queue # <<>> /\ queue' = Append(queue, t) /\ at[t] = "idle"
        /\ at' = [at EXCEPT ![t] = "waiting"]
    BY <1>4 DEF EnterWaiting
  <2>2. /\ Lined' /\ queue'[1] = queue[1] /\ at'[queue'[1]] = at[queue[1]]
        /\ \A i \in 1..Len(queue) : queue'[i] = queue[i] /\ i \in 1..Len(queue')
    BY <1>1, <2>1, LinedWaiting
  <2>3. \A u \in Tasks : ~Proceed(u)
    <3>1. Len(queue) \in Nat /\ Len(queue') = Len(queue) + 1
      BY <1>1, <2>1, QueueItems DEF Typed
    <3>2. queue' # queue  BY <3>1
    <3>3. queue' # Tail(queue)
      <4>1. Len(Tail(queue)) = Len(queue) - 1  BY <1>1, <2>1, HeadTailProperties DEF Typed
      <4> QED  BY <3>1, <4>1
    <3> QED  BY <3>2, <3>3 DEF Proceed, TakeTurn, Save, SaveFails, Release
  <2>4. ASSUME NEW i \in 1..Len(queue), NEW j \in 1..Len(queue'), queue[i] = queue'[j]
        PROVE  Distance(j)' <= Distance(i)
    <3>1. j = i  BY <2>2, <2>4 DEF Lined
    <3> QED  BY <2>2, <3>1 DEF Distance
  <2> QED  BY <2>2, <2>3, <2>4 DEF Nearer
<1>5. ASSUME NEW t \in Tasks, TakeTurn(t) PROVE Lined' /\ \A u \in Tasks : Nearer(u)
  <2>1. /\ queue # <<>> /\ Head(queue) = t /\ queue' = queue /\ at[t] = "waiting"
        /\ at' = [at EXCEPT ![t] = "saving"]
    BY <1>5 DEF TakeTurn, Link
  <2>2. Lined'  BY <1>1, <2>1, LinedTurn
  <2>3. queue[1] = t  BY <1>1, <2>1, QueueItems
  <2>4. ASSUME NEW i \in 1..Len(queue), NEW j \in 1..Len(queue'), queue[i] = queue'[j]
        PROVE  Distance(j)' < Distance(i)
    <3>1. j = i  BY <2>1, <2>4 DEF Lined
    <3>2. at'[queue'[1]] = "saving" /\ at[queue[1]] = "waiting"  BY <1>2, <2>1, <2>3
    <3> QED  BY <3>1, <3>2 DEF Distance
  <2>5. \A i \in 1..Len(queue), j \in 1..Len(queue') :
           Distance(j)' < Distance(i) => Distance(j)' <= Distance(i)
    BY DEF Distance
  <2> QED  BY <2>2, <2>4, <2>5 DEF Nearer
<1>6. ASSUME NEW t \in Tasks, Save(t) \/ SaveFails(t)
      PROVE  Lined' /\ \A u \in Tasks : Nearer(u)
  <2>1. at[t] = "saving" /\ Release(t)  BY <1>6 DEF Save, SaveFails
  <2>2. queue # <<>> /\ Head(queue) = t  BY <1>1, <2>1 DEF Owner, Owns
  <2>3. /\ Lined' /\ Len(queue') = Len(queue) - 1
        /\ \A i \in 1..Len(queue') : queue'[i] = queue[i + 1] /\ i + 1 \in 1..Len(queue)
    BY <1>1, <2>1, <2>2, LinedRelease
  <2>4. ASSUME NEW i \in 1..Len(queue), NEW j \in 1..Len(queue'), queue[i] = queue'[j]
        PROVE  Distance(j)' < Distance(i) /\ Distance(j)' <= Distance(i)
    <3>1. i = j + 1  BY <2>3, <2>4 DEF Lined
    <3> QED  BY <3>1 DEF Distance
  <2> QED  BY <2>3, <2>4 DEF Nearer
<1>7. ASSUME RestartAudit PROVE Lined' /\ \A u \in Tasks : Nearer(u)
  <2>1. queue' = <<>> /\ at' = [t \in Tasks |-> "idle"]  BY <1>7 DEF RestartAudit
  <2>2. Len(queue') = 0 /\ ~\E i \in 1..Len(queue') : TRUE  BY <2>1
  <2> QED  BY <2>1, <2>2 DEF Lined, Nearer
<1>8. ASSUME UNCHANGED auditVars PROVE Lined'
  BY <1>8 DEF auditVars, Lined
<1> QED  BY <1>3, <1>4, <1>5, <1>6, <1>7, <1>8 DEF AuditNext, Proceed

LEMMA LinedHolds == AuditSpec => [](IInv /\ Lined)
<1>1. IInv /\ Lined /\ [AuditNext]_auditVars => Lined'  BY LinedStep
<1> QED  BY Invariant, LinedInit, <1>1, PTL DEF AuditSpec

(* While an append waits or saves, the owner of the lock can take its next *)
(* step: it saves, or it is the waiter that was just given the lock.       *)
THEOREM OwnerProceeds == AuditSpec => []HeadProceeds
<1>1. IInv /\ Lined => HeadProceeds
  <2> SUFFICES ASSUME IInv, Lined, NEW t \in Tasks, at[t] # "idle"
               PROVE  /\ queue # <<>> /\ Head(queue) \in Tasks
                      /\ at[Head(queue)] \in {"waiting", "saving"}
    BY DEF HeadProceeds
  <2>1. Typed  BY DEF IInv
  <2>2. \E i \in 1..Len(queue) : queue[i] = t  BY DEF Lined
  <2>3. queue # <<>>  BY <2>2
  <2>4. Head(queue) = queue[1] /\ 1 \in 1..Len(queue) /\ queue[1] \in Tasks
    BY <2>1, <2>3, QueueItems
  <2>5. at[queue[1]] # "idle"  BY <2>4 DEF Lined
  <2> QED  BY <2>1, <2>3, <2>4, <2>5 DEF Typed
<1> QED  BY LinedHolds, <1>1, PTL

(* No step takes an append further from its end, and every step of the     *)
(* lock's owner brings all that wait behind it nearer, also one that saves *)
(* in vain: nobody is overtaken.                                           *)
THEOREM NobodyIsOvertaken ==
    AuditSpec => [][\A t \in Tasks : Nearer(t)]_auditVars
<1>1. IInv /\ Lined /\ [AuditNext]_auditVars => [\A t \in Tasks : Nearer(t)]_auditVars
  BY LinedStep
<1> QED  BY LinedHolds, <1>1, PTL DEF AuditSpec
================================================================================
