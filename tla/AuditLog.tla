-------------------------------- MODULE AuditLog --------------------------------
(***************************************************************************)
(* audit.py: the bounded, hash-chained audit log.  An append builds and    *)
(* links its record and then awaits the disk with the chain lock held.     *)
(* asyncio.Lock is first come, first served: its owner and the tasks that  *)
(* wait for it are one queue, and a free lock is taken without suspending. *)
(*                                                                         *)
(* The hash of a record covers its previous_hash and a fresh audit_id, so  *)
(* no two records share one: a hash is named by the record's number.  The  *)
(* other fields do not matter to the chain.                                *)
(***************************************************************************)
EXTENDS AuditLimits, Sequences, FiniteSets

VARIABLES records,      \* _entries
          lastHash,     \* _last_hash
          queue,        \* _chain_lock: its owner, then its waiters
          at,           \* where each task is
          saving,       \* what each task has handed to the store to write
          disk,         \* the records in the storage file
          made,         \* how many hashes exist
          returned,     \* history: records whose append ended with a good save
          restarts

auditVars == <<records, lastHash, queue, at, saving, disk, made, returned, restarts>>

Genesis == 0            \* sixty-four zeros

Record == [hash : Nat \ {Genesis}, previous : Nat]

Newest(s) == IF Len(s) <= MaxEntries THEN s
             ELSE SubSeq(s, Len(s) - MaxEntries + 1, Len(s))

AuditInit == /\ records = <<>>
             /\ lastHash = Genesis
             /\ queue = <<>>
             /\ at = [t \in Tasks |-> "idle"]
             /\ saving = [t \in Tasks |-> <<>>]
             /\ disk = <<>>
             /\ made = 0
             /\ returned = {}
             /\ restarts = 0
---------------------------------------------------------------------------------
\* The critical section up to the await of async_save.
Link(t) ==
    /\ made' = made + 1
    /\ records' = Newest(Append(records, [hash |-> made + 1, previous |-> lastHash]))
    /\ lastHash' = made + 1
    /\ saving' = [saving EXCEPT ![t] = records']
    /\ at' = [at EXCEPT ![t] = "saving"]
    /\ UNCHANGED <<disk, returned, restarts>>

\* Appends under way count against the bound on records.
Room == made + Len(SelectSeq(queue, LAMBDA t : at[t] = "waiting")) < MaxRecords

\* append() runs straight into the critical section when the lock is free ...
EnterFree(t) == /\ Room
                /\ at[t] = "idle"
                /\ queue = <<>>
                /\ queue' = <<t>>
                /\ Link(t)

\* Mutant of EnterWaiting: no lock.
EnterAnyway(t) == /\ Room
                  /\ at[t] = "idle"
                  /\ queue # <<>>
                  /\ queue' = Append(queue, t)
                  /\ Link(t)

\* ... and waits for its turn otherwise.
EnterWaiting(t) ==
    /\ Room
    /\ at[t] = "idle"
    /\ queue # <<>>
    /\ queue' = Append(queue, t)
    /\ at' = [at EXCEPT ![t] = "waiting"]
    /\ UNCHANGED <<records, lastHash, saving, disk, made, returned, restarts>>

TakeTurn(t) == /\ at[t] = "waiting"
               /\ queue # <<>> /\ Head(queue) = t
               /\ UNCHANGED queue
               /\ Link(t)

\* The owner of the lock gives it to the first waiter.
Release(t) == /\ queue' = Tail(queue)
              /\ at' = [at EXCEPT ![t] = "idle"]

\* The file is replaced as a whole.  Nothing is assumed of the order in which two
\* saves would end.
Save(t) == /\ at[t] = "saving"
           /\ disk' = saving[t]
           /\ returned' = returned \cup {saving[t][Len(saving[t])].hash}
           /\ Release(t)
           /\ UNCHANGED <<records, lastHash, saving, made, restarts>>

\* Mutant of SaveFails: an exception skips the release of the lock.
FailHoldingLock(t) ==
    /\ at[t] = "saving"
    /\ at' = [at EXCEPT ![t] = "idle"]
    /\ UNCHANGED <<records, lastHash, queue, saving, disk, made, returned, restarts>>

\* A failed save is logged and otherwise ignored.
SaveFails(t) == /\ at[t] = "saving"
                /\ Release(t)
                /\ UNCHANGED <<records, lastHash, saving, disk, made, returned, restarts>>

\* Mutants of Load: the hash, or the records, are not taken from the file.
LoadWithoutHash(file) == records' = Newest(file) /\ lastHash' = Genesis
LoadWithoutEntries(file) ==
    /\ records' = <<>>
    /\ lastHash' = IF file = <<>> THEN Genesis ELSE file[Len(file)].hash

\* async_load, in a new process.
Load(file) ==
    /\ records' = Newest(file)
    /\ lastHash' = IF file = <<>> THEN Genesis ELSE file[Len(file)].hash

\* What the file may hold after a crash: a save under way is in it or is not.
Files == {disk} \cup {saving[t] : t \in {u \in Tasks : at[u] = "saving"}}

\* Home Assistant restarts, perhaps between a record and its save.
RestartAudit == /\ restarts < MaxRestarts
                /\ restarts' = restarts + 1
                /\ \E file \in Files : disk' = file /\ Load(file)
                /\ queue' = <<>>
                /\ at' = [t \in Tasks |-> "idle"]
                /\ saving' = [t \in Tasks |-> <<>>]
                /\ UNCHANGED <<made, returned>>

Proceed(t) == TakeTurn(t) \/ Save(t) \/ SaveFails(t)

AuditNext == \/ \E t \in Tasks : EnterFree(t) \/ EnterWaiting(t) \/ Proceed(t)
             \/ RestartAudit

AuditSpec == AuditInit /\ [][AuditNext]_auditVars

\* The loop resumes the task that a released lock wakes, and a disk write ends.
AuditFairSpec == AuditSpec /\ \A t \in Tasks : WF_auditVars(Proceed(t))
---------------------------------------------------------------------------------
Hashes(s) == {s[i].hash : i \in 1..Len(s)}

AuditTypeOK == /\ records \in Seq(Record) /\ Len(records) <= MaxEntries
               /\ disk \in Seq(Record) /\ Len(disk) <= MaxEntries
               /\ lastHash \in 0..made
               /\ queue \in Seq(Tasks)
               /\ at \in [Tasks -> {"idle", "waiting", "saving"}]
               /\ \A t \in Tasks : at[t] = "saving" => saving[t] \in Seq(Record)
               /\ returned \subseteq 1..made

Linked(s) == \A i \in 1..(Len(s) - 1) : s[i + 1].previous = s[i].hash

(* The chain never forks (audit.py:45-47): in memory and in the file every *)
(* record names the hash of the one before it, and the next append will    *)
(* continue the newest, whatever saves failed or were cut off.             *)
ChainIntact == /\ Linked(records) /\ Linked(disk)
               /\ records = <<>> => lastHash = Genesis
               /\ records # <<>> => lastHash = records[Len(records)].hash

(* No save puts an older log over a newer one: the newest record in the    *)
(* file only ever moves forward.                                           *)
FileNeverRewinds ==
    [][disk' # disk =>
         disk = <<>> \/ disk[Len(disk)].hash < disk'[Len(disk')].hash]_auditVars

(* A record whose append ended with a good save is in the file until       *)
(* MaxEntries newer ones have replaced it: a restart or a later failed     *)
(* save loses none.                                                        *)
SavedStays == \A h \in returned \ Hashes(disk) :
                 Len(disk) = MaxEntries /\ \A g \in Hashes(disk) : h < g

(* The lock is always given back: an append that waits for it gets its     *)
(* turn, also behind one whose save failed.                                *)
AppendsEnd == \A t \in Tasks : at[t] # "idle" ~> at[t] = "idle"
================================================================================
