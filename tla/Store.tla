-------------------------------- MODULE Store --------------------------------
(***************************************************************************)
(* Store (src/src/store.rs): one state file, opened and replayed by one    *)
(* process at a time, and the check-and-update that every cosignature goes *)
(* through.  Instances are witness processes started on that file; Callers *)
(* are the request threads inside them.                                    *)
(*                                                                         *)
(* What the closure given to Store::update decides is left open here: it   *)
(* refuses, or it approves any head.  Witness.tla supplies the closure.    *)
(*                                                                         *)
(* Faults selects what the environment may do, at most MaxFaults times:    *)
(*   kill         a process ends at any point: a signal, a panic, a restart*)
(*   tear         and it may end inside write_all, a piece of the line out *)
(*   power_loss   the machine goes down and unsynced bytes may vanish      *)
(*   fsync_fail   sync_all reports an error; the bytes stay in the cache   *)
(*   short_write  write_all fails part-way (ENOSPC, EIO), process lives on *)
(*   lose_state   the state file is gone when no witness runs              *)
(*   clock_or_signer  the clock or a signature fails (Witness.tla only)    *)
(* A sync_all that succeeds makes the whole file durable.                  *)
(***************************************************************************)
EXTENDS StateFile, FiniteSets

CONSTANTS
    Instances, NoInstance,
    Callers, NoCaller, NoOrigin,
    Faults,             \* the environment faults that can happen
    MaxFaults,          \* bound: how many faults happen in a behaviour
    MaxLines            \* bound: no update starts that could pass this length

FaultKinds == {"kill", "tear", "power_loss", "fsync_fail", "short_write", "lose_state",
               "clock_or_signer"}

ASSUME StoreAssumption ==
    /\ NoInstance \notin Instances
    /\ NoCaller \notin Callers
    /\ NoOrigin \notin Origins
    /\ Faults \subseteq FaultKinds
    /\ MaxFaults \in Nat
    /\ MaxLines \in Nat

VARIABLES
    file,       \* the lines of the state file, as every process reads them
    synced,     \* how many of them are durable
    owner,      \* the instance that holds the exclusive lock of the file
    status,     \* per instance: "down", "repairing", "up" or "refused"
    mem,        \* per instance: Inner::states
    lock,       \* per instance: the caller inside the store's mutex
    op,         \* per caller: where it is in Store::update
    faultsLeft,
    stored,     \* history, per origin: the last head whose update returned Ok
    unsettled   \* history, per origin: heads approved since, not confirmed

disk      == <<file, synced>>
process   == <<owner, status, mem>>
history   == <<stored, unsettled>>
storeVars == <<disk, process, lock, op, faultsLeft, history>>

NoMem   == [o \in Origins |-> NoHead]
IdleOp  == [stage |-> "none", inst |-> NoInstance, origin |-> NoOrigin, head |-> NoHead]

\* An update has a head once the closure has approved one.
UndecidedOp == [stage : {"waiting", "refused"},
                inst : Instances, origin : Origins, head : {NoHead}]
ApprovedOp  == [stage : {"writing", "syncing", "stored", "failed"},
                inst : Instances, origin : Origins, head : Heads]
Op == {IdleOp} \union UndecidedOp \union ApprovedOp

StoreTypeOK ==
    /\ file \in Seq(Line)
    /\ synced \in 0..Len(file)
    /\ owner \in Instances \union {NoInstance}
    /\ status \in [Instances -> {"down", "repairing", "up", "refused"}]
    /\ mem \in [Instances -> [Origins -> HeadOrNone]]
    /\ lock \in [Instances -> Callers \union {NoCaller}]
    /\ op \in [Callers -> Op]
    /\ faultsLeft \in 0..MaxFaults
    /\ stored \in [Origins -> HeadOrNone]
    /\ unsettled \in [Origins -> SUBSET Heads]

StoreInit ==
    /\ file = <<>> /\ synced = 0
    /\ owner = NoInstance
    /\ status = [i \in Instances |-> "down"]
    /\ mem = [i \in Instances |-> NoMem]
    /\ lock = [i \in Instances |-> NoCaller]
    /\ op = [c \in Callers |-> IdleOp]
    /\ faultsLeft = MaxFaults
    /\ stored = NoMem
    /\ unsettled = [o \in Origins |-> {}]

Fault(kind) == kind \in Faults /\ faultsLeft > 0 /\ faultsLeft' = faultsLeft - 1

-----------------------------------------------------------------------------
(***************************************************************************)
(* Store::open.  While another instance holds the file lock, it fails with *)
(* Locked and changes nothing.                                             *)
(***************************************************************************)

\* Mutant of Open: the file is not locked.
OpenUnlocked(i) ==
    /\ status[i] = "down"
    /\ Readable(file)
    /\ \E m \in [Origins -> HeadOrNone] : Replays(file, m) /\ mem' = [mem EXCEPT ![i] = m]
    /\ owner' = i
    /\ status' = [status EXCEPT ![i] = IF Repaired(file) = file THEN "up" ELSE "repairing"]
    /\ UNCHANGED <<disk, lock, op, faultsLeft, history>>

\* Replay succeeds.  The mend that may follow is a step of its own.
Open(i) ==
    /\ status[i] = "down" /\ owner = NoInstance
    /\ Readable(file)
    /\ \E m \in [Origins -> HeadOrNone] : Replays(file, m) /\ mem' = [mem EXCEPT ![i] = m]
    /\ owner' = i
    /\ status' = [status EXCEPT ![i] = IF Repaired(file) = file THEN "up" ELSE "repairing"]
    /\ UNCHANGED <<disk, lock, op, faultsLeft, history>>

\* Replay fails, Corrupt or Io: the process exits and so gives the lock back.
OpenRefused(i) ==
    /\ status[i] = "down" /\ owner = NoInstance
    /\ ~Readable(file)
    /\ status' = [status EXCEPT ![i] = "refused"]
    /\ UNCHANGED <<disk, owner, mem, lock, op, faultsLeft, history>>

\* Mutant of Repair: sync_all before set_len.
RepairSyncsFirst(i) ==
    /\ status[i] = "repairing"
    /\ file' = Repaired(file)
    /\ synced' = Len(file)
    /\ status' = [status EXCEPT ![i] = "up"]
    /\ UNCHANGED <<owner, mem, lock, op, faultsLeft, history>>

\* set_len or the missing '\n', then sync_all.  A crash between the two leaves
\* a file the next open mends the same way, so they are one step.
Repair(i) ==
    /\ status[i] = "repairing"
    /\ file' = Repaired(file)
    /\ synced' = Len(file')
    /\ status' = [status EXCEPT ![i] = "up"]
    /\ UNCHANGED <<owner, mem, lock, op, faultsLeft, history>>

RepairFails(i) ==
    /\ status[i] = "repairing"
    /\ Fault("fsync_fail")
    /\ file' = Repaired(file)
    /\ synced' = IF synced > Len(file') THEN Len(file') ELSE synced
    /\ status' = [status EXCEPT ![i] = "down"]
    /\ owner' = NoInstance
    /\ mem' = [mem EXCEPT ![i] = NoMem]
    /\ UNCHANGED <<lock, op, history>>

-----------------------------------------------------------------------------
(***************************************************************************)
(* Store::update, as the calling thread goes through it.  The mutex is     *)
(* taken in Approve, and given back when the append is over.               *)
(***************************************************************************)
At(c, stage) == op[c].stage = stage

Busy == {c \in Callers : ~At(c, "none")}

GoTo(c, stage) == op' = [op EXCEPT ![c].stage = stage]

Unlock(i) == lock' = [lock EXCEPT ![i] = NoCaller]

Call(c, i, o) ==
    /\ At(c, "none") /\ status[i] = "up"
    /\ Len(file) + Cardinality(Busy) < MaxLines
    /\ op' = [op EXCEPT ![c] = [stage |-> "waiting", inst |-> i, origin |-> o, head |-> NoHead]]
    /\ UNCHANGED <<disk, process, lock, faultsLeft, history>>

\* Mutant of CanCheck: the check does not wait for the mutex.
CanCheckAnyTime(c) == At(c, "waiting")

\* The closure sees mem[inst][origin] under the mutex.
CanCheck(c) == At(c, "waiting") /\ lock[op[c].inst] = NoCaller

Current(c) == mem[op[c].inst][op[c].origin]

\* Mutant of Refuse: a rejection leaves the mutex taken.
RefuseKeepsLock(c) ==
    /\ CanCheck(c)
    /\ GoTo(c, "refused")
    /\ lock' = [lock EXCEPT ![op[c].inst] = c]
    /\ UNCHANGED <<disk, process, faultsLeft, history>>

Refuse(c) ==
    /\ CanCheck(c)
    /\ GoTo(c, "refused")
    /\ UNCHANGED <<disk, process, lock, faultsLeft, history>>

Approve(c, h) ==
    /\ CanCheck(c)
    /\ lock' = [lock EXCEPT ![op[c].inst] = c]
    /\ op' = [op EXCEPT ![c].stage = "writing", ![c].head = h]
    /\ unsettled' = [unsettled EXCEPT ![op[c].origin] = @ \union {h}]
    /\ UNCHANGED <<disk, process, faultsLeft, stored>>

\* Mutant of Write: the map takes the record before sync_all.
WriteThenInsert(c) ==
    /\ At(c, "writing")
    /\ file' = AppendLine(file, Record(op[c].origin, op[c].head, TRUE))
    /\ mem' = [mem EXCEPT ![op[c].inst][op[c].origin] = op[c].head]
    /\ GoTo(c, "syncing")
    /\ UNCHANGED <<synced, owner, status, lock, faultsLeft, history>>

Write(c) ==
    /\ At(c, "writing")
    /\ file' = AppendLine(file, Record(op[c].origin, op[c].head, TRUE))
    /\ GoTo(c, "syncing")
    /\ UNCHANGED <<synced, process, lock, faultsLeft, history>>

\* What of the record of c may be in the file when its write is cut short.
Started(c) ==
    {file} \union {AppendLine(file, Torn(op[c].origin, op[c].head, p)) : p \in Pieces}

\* `?` on write_all: nothing takes the piece back out of the file.
WriteFails(c) ==
    /\ At(c, "writing")
    /\ Fault("short_write")
    /\ file' \in Started(c)
    /\ GoTo(c, "failed") /\ Unlock(op[c].inst)
    /\ UNCHANGED <<synced, process, history>>

\* Mutant of Sync: no sync_all.
SyncSkipped(c) ==
    /\ At(c, "syncing")
    /\ mem' = [mem EXCEPT ![op[c].inst][op[c].origin] = op[c].head]
    /\ GoTo(c, "stored") /\ Unlock(op[c].inst)
    /\ stored' = [stored EXCEPT ![op[c].origin] = op[c].head]
    /\ unsettled' = [unsettled EXCEPT ![op[c].origin] = {}]
    /\ UNCHANGED <<disk, owner, status, faultsLeft>>

\* sync_all returned: insert into the map, unlock, return the payload.
Sync(c) ==
    /\ At(c, "syncing")
    /\ synced' = Len(file)
    /\ mem' = [mem EXCEPT ![op[c].inst][op[c].origin] = op[c].head]
    /\ GoTo(c, "stored") /\ Unlock(op[c].inst)
    /\ stored' = [stored EXCEPT ![op[c].origin] = op[c].head]
    /\ unsettled' = [unsettled EXCEPT ![op[c].origin] = {}]
    /\ UNCHANGED <<file, owner, status, faultsLeft>>

SyncFails(c) ==
    /\ At(c, "syncing")
    /\ Fault("fsync_fail")
    /\ GoTo(c, "failed") /\ Unlock(op[c].inst)
    /\ UNCHANGED <<disk, process, history>>

Return(c) ==
    /\ op[c].stage \in {"stored", "failed", "refused"}
    /\ op' = [op EXCEPT ![c] = IdleOp]
    /\ UNCHANGED <<disk, process, lock, faultsLeft, history>>

-----------------------------------------------------------------------------
(***************************************************************************)
(* Crashes.  The kernel drops the lock of a dead process; its threads and  *)
(* its memory are gone; the page cache outlives it, not the machine.       *)
(***************************************************************************)
DropProcesses(dead) ==
    /\ owner' = IF owner \in dead THEN NoInstance ELSE owner
    /\ status' = [i \in Instances |-> IF i \in dead THEN "down" ELSE status[i]]
    /\ mem' = [i \in Instances |-> IF i \in dead THEN NoMem ELSE mem[i]]
    /\ lock' = [i \in Instances |-> IF i \in dead THEN NoCaller ELSE lock[i]]
    /\ op' = [c \in Callers |-> IF op[c].inst \in dead THEN IdleOp ELSE op[c]]

\* A thread of i that is inside write_all gets some of the record out.
Kill(i) ==
    /\ status[i] \in {"up", "repairing"}
    /\ Fault("kill")
    /\ \/ file' = file
       \/ /\ "tear" \in Faults
          /\ \E c \in Callers : At(c, "writing") /\ op[c].inst = i /\ file' \in Started(c)
    /\ DropProcesses({i})
    /\ UNCHANGED <<synced, history>>

PowerLoss ==
    /\ Fault("power_loss")
    /\ file' \in CrashImages(file, synced)
    /\ synced' = Len(file')
    /\ DropProcesses(Instances)
    /\ UNCHANGED history

LoseState ==
    /\ Fault("lose_state")
    /\ \A i \in Instances : status[i] \in {"down", "refused"}
    /\ file' = <<>> /\ synced' = 0
    /\ status' = [i \in Instances |-> "down"]
    /\ UNCHANGED <<owner, mem, lock, op, history>>

-----------------------------------------------------------------------------
InstanceNext(i) == Open(i) \/ OpenRefused(i) \/ Repair(i) \/ RepairFails(i) \/ Kill(i)

AppendNext(c) == Write(c) \/ WriteFails(c) \/ Sync(c) \/ SyncFails(c)

CallerNext(c) ==
    \/ \E i \in Instances, o \in Origins : Call(c, i, o)
    \/ Refuse(c)
    \/ \E h \in Heads : Approve(c, h)
    \/ AppendNext(c)
    \/ Return(c)

StoreNext ==
    \/ \E i \in Instances : InstanceNext(i)
    \/ \E c \in Callers : CallerNext(c)
    \/ PowerLoss
    \/ LoseState

StoreSpec == StoreInit /\ [][StoreNext]_storeVars
=============================================================================
