------------------------------- MODULE Witness -------------------------------
(***************************************************************************)
(* The add-checkpoint protocol (src/src/witness.rs) over the store of      *)
(* Store.tla, with the allowlist that the discovery poller swaps under it  *)
(* and the monitoring endpoint (src/src/server.rs) beside it.              *)
(*                                                                         *)
(* A request is one caller of the store.  Everything before Store::update  *)
(* depends on the body and on one snapshot of the allowlist alone, so it   *)
(* is one step; the closure is another; the append is Store.tla's.         *)
(*                                                                         *)
(* External to src/: the Merkle and signed-note code of metamorphic-log.   *)
(* Heads are related by Consistent, "the second tree extends the first",   *)
(* and a proof is what the verifier makes of it: "valid" is accepted       *)
(* exactly when the two heads are consistent, "bogus" never is.            *)
(***************************************************************************)
EXTENDS Store, Allowlist

CONSTANTS
    Size,           \* [Heads -> Nat]: the tree size of a head
    EmptyHead,      \* size 0 with the RFC 6962 empty-tree root
    Consistent,     \* pairs of heads: the second tree extends the first
    Keys,           \* log verification keys
    Manual,         \* [Origins -> SUBSET Keys]: the [[logs]] stanzas, {} for none
    ManagedSets,    \* what the managed stanzas may be at a start or a poll
    Submissions     \* bound: the request bodies clients send

Extends(g, h) == <<g, h>> \in Consistent
Comparable(g, h) == Extends(g, h) \/ Extends(h, g)

Submission == [parses : BOOLEAN, origin : Origins, head : Heads, old : Nat,
               proof : {"empty", "valid", "bogus"},
               signers : SUBSET Keys, forged : SUBSET Keys]

Lists == [Origins -> SUBSET Keys]

ASSUME HeadAssumption ==
    /\ Size \in [Heads -> Nat]
    /\ Consistent \subseteq Heads \X Heads
    /\ EmptyHead \in Heads /\ Size[EmptyHead] = 0
    /\ \A h \in Heads : Extends(h, h) /\ (Size[h] > 0 => Extends(EmptyHead, h))
    /\ \A f, g, h \in Heads : Extends(f, g) /\ Extends(g, h) => Extends(f, h)
    /\ \A g, h \in Heads : Extends(g, h) => Size[g] < Size[h] \/ g = h

ASSUME RequestAssumption ==
    /\ Manual \in Lists
    /\ ManagedSets \subseteq Lists
    /\ Submissions \subseteq Submission

VARIABLES
    logs,       \* per instance: Witness::logs, the effective allowlist
    req,        \* per caller: the body it handles, or NoRequest
    answer,     \* per caller: the response not yet written to the connection
    cosigned,   \* history: <<origin, head>> whose cosignatures a 200 released
    served      \* history: <<origin, head>> whose note the monitoring GET gave out

witnessVars == <<storeVars, logs, req, answer, cosigned, served>>

NoRequest == [parses |-> FALSE]
NoAnswer  == [code |-> 0, size |-> 0]
NoLogs    == [o \in Origins |-> {}]

Answer(code) == [code |-> code, size |-> 0]

WitnessTypeOK ==
    /\ StoreTypeOK
    /\ logs \in [Instances -> Lists]
    /\ req \in [Callers -> Submissions \union {NoRequest}]
    /\ answer \in [Callers -> [code : {0, 200, 400, 403, 404, 409, 422, 500}, size : Nat]]
    /\ cosigned \subseteq Origins \X Heads
    /\ served \subseteq Origins \X Heads

WitnessInit ==
    /\ StoreInit
    /\ logs = [i \in Instances |-> NoLogs]
    /\ req = [c \in Callers |-> NoRequest]
    /\ answer = [c \in Callers |-> NoAnswer]
    /\ cosigned = {} /\ served = {}

-----------------------------------------------------------------------------
(***************************************************************************)
(* The allowlist (merged in Allowlist.tla).                                *)
(***************************************************************************)

\* from_config: an empty effective allowlist stops the start before the state
\* file is opened; Witness::logs is filled once it is.
Start(i) ==
    /\ Open(i)
    /\ \E managed \in ManagedSets :
          /\ Effective(Manual, managed) # NoLogs
          /\ logs' = [logs EXCEPT ![i] = Effective(Manual, managed)]
    /\ UNCHANGED <<req, answer, cosigned, served>>

StartRefused(i) == OpenRefused(i) /\ UNCHANGED <<logs, req, answer, cosigned, served>>

\* Mutant of Swap: the states of origins that left the allowlist are dropped.
SwapForgets(i) ==
    /\ status[i] = "up"
    /\ \E managed \in ManagedSets :
          /\ logs' = [logs EXCEPT ![i] = Effective(Manual, managed)]
          /\ mem' = [mem EXCEPT ![i] =
                        [o \in Origins |-> IF logs'[i][o] = {} THEN NoHead ELSE mem[i][o]]]
    /\ UNCHANGED <<disk, owner, status, lock, op, faultsLeft, history,
                   req, answer, cosigned, served>>

\* apply_managed_entries: the whole map is replaced, the store not involved.
Swap(i) ==
    /\ status[i] = "up"
    /\ \E managed \in ManagedSets : logs' = [logs EXCEPT ![i] = Effective(Manual, managed)]
    /\ UNCHANGED <<storeVars, req, answer, cosigned, served>>

-----------------------------------------------------------------------------
(***************************************************************************)
(* add_checkpoint up to Store::update: parse, pin the allowlist, 404, 403, *)
(* old size above the checkpoint's.                                        *)
(***************************************************************************)
Trusted(s, list) ==
    /\ s.signers \intersect list[s.origin] # {}
    /\ s.forged \intersect list[s.origin] = {}

\* The status of a body that reaches Store::update is 200 so far.
Screened(s, list) ==
    IF ~s.parses             THEN 400 ELSE
    IF list[s.origin] = {}   THEN 404 ELSE
    IF ~Trusted(s, list)     THEN 403 ELSE
    IF s.old > Size[s.head]  THEN 400 ELSE 200

Idle(c) == req[c] = NoRequest

Admit(c, i, s) ==
    /\ Idle(c)
    /\ Screened(s, logs[i]) = 200
    /\ Call(c, i, s.origin)
    /\ req' = [req EXCEPT ![c] = s]
    /\ UNCHANGED <<logs, answer, cosigned, served>>

\* Early returns: a rejection, or 500 when the clock is not past the epoch.
TurnAway(c, i, s) ==
    /\ Idle(c) /\ status[i] = "up"
    /\ req' = [req EXCEPT ![c] = s]
    /\ \/ /\ Screened(s, logs[i]) # 200
          /\ answer' = [answer EXCEPT ![c] = Answer(Screened(s, logs[i]))]
       \/ /\ Screened(s, logs[i]) = 200 /\ "clock_or_signer" \in Faults
          /\ answer' = [answer EXCEPT ![c] = Answer(500)]
    /\ UNCHANGED <<storeVars, logs, cosigned, served>>

-----------------------------------------------------------------------------
(***************************************************************************)
(* The closure, run under the store's mutex.                               *)
(***************************************************************************)
LatestSize(current) == IF current = NoHead THEN 0 ELSE Size[current]

\* Mutant of Verifies: equal sizes are taken for equal trees.
VerifiesSizesOnly(g, h, proof) ==
    IF Size[g] = Size[h] THEN proof = "empty" ELSE Extends(g, h) /\ proof = "valid"

\* Checkpoint::verify_consistency for 0 < Size[g] <= Size[h]; external.
Verifies(g, h, proof) ==
    IF Size[g] = Size[h] THEN g = h /\ proof = "empty"
                         ELSE Extends(g, h) /\ proof = "valid"

\* Mutant of Verdict: ST-06 left out.
VerdictAnyOldSize(s, current) ==
    IF Size[s.head] = 0 /\ s.head # EmptyHead THEN Answer(422) ELSE
    IF s.old = 0 /\ s.proof # "empty" THEN Answer(422) ELSE
    IF s.old > 0 /\ current # NoHead /\ ~Verifies(current, s.head, s.proof) THEN Answer(422)
       ELSE Answer(200)

\* Mutant of Verdict: ST-07 left out.
VerdictAnyEmptyTree(s, current) ==
    IF s.old # LatestSize(current)
       THEN [code |-> 409, size |-> LatestSize(current)] ELSE
    IF s.old = 0 /\ s.proof # "empty" THEN Answer(422) ELSE
    IF s.old > 0 /\ ~Verifies(current, s.head, s.proof) THEN Answer(422)
       ELSE Answer(200)

\* Mutant of Verdict: a 409 names the size that was submitted.
VerdictEchoesSize(s, current) ==
    IF s.old # LatestSize(current)
       THEN [code |-> 409, size |-> Size[s.head]] ELSE
    IF Size[s.head] = 0 /\ s.head # EmptyHead THEN Answer(422) ELSE
    IF s.old = 0 /\ s.proof # "empty" THEN Answer(422) ELSE
    IF s.old > 0 /\ ~Verifies(current, s.head, s.proof) THEN Answer(422)
       ELSE Answer(200)

\* Mutant of Verdict: the proof is looked at before the old size.
VerdictProofFirst(s, current) ==
    IF s.old = 0 /\ s.proof # "empty" THEN Answer(422) ELSE
    IF s.old > 0 /\ current # NoHead /\ ~Verifies(current, s.head, s.proof) THEN Answer(422) ELSE
    IF s.old # LatestSize(current)
       THEN [code |-> 409, size |-> LatestSize(current)] ELSE
    IF Size[s.head] = 0 /\ s.head # EmptyHead THEN Answer(422)
       ELSE Answer(200)

Verdict(s, current) ==
    IF s.old # LatestSize(current)
       THEN [code |-> 409, size |-> LatestSize(current)] ELSE
    IF Size[s.head] = 0 /\ s.head # EmptyHead THEN Answer(422) ELSE
    IF s.old = 0 /\ s.proof # "empty" THEN Answer(422) ELSE
    IF s.old > 0 /\ ~Verifies(current, s.head, s.proof) THEN Answer(422)
       ELSE Answer(200)

Check(c) ==
    /\ CanCheck(c)
    /\ LET verdict == Verdict(req[c], Current(c)) IN
          \/ verdict.code = 200 /\ Approve(c, req[c].head) /\ UNCHANGED answer
          \/ verdict.code # 200 /\ Refuse(c) /\ answer' = [answer EXCEPT ![c] = verdict]
    /\ UNCHANGED <<logs, req, cosigned, served>>

\* WitnessError::Sign or Internal out of the closure: nothing is appended.
SignFails(c) ==
    /\ "clock_or_signer" \in Faults
    /\ Refuse(c)
    /\ Verdict(req[c], Current(c)).code = 200
    /\ answer' = [answer EXCEPT ![c] = Answer(500)]
    /\ UNCHANGED <<logs, req, cosigned, served>>

AppendRecord(c) == Write(c) /\ UNCHANGED <<logs, req, answer, cosigned, served>>

AppendFails(c) ==
    /\ WriteFails(c) \/ SyncFails(c)
    /\ answer' = [answer EXCEPT ![c] = Answer(500)]
    /\ UNCHANGED <<logs, req, cosigned, served>>

\* The payload, both cosignature lines, leaves Store::update.
Release(c) ==
    /\ Sync(c)
    /\ answer' = [answer EXCEPT ![c] = Answer(200)]
    /\ cosigned' = cosigned \union {<<op[c].origin, op[c].head>>}
    /\ UNCHANGED <<logs, req, served>>

\* The response is written out, whether or not the client still listens.
Reply(c) ==
    /\ answer[c] # NoAnswer
    /\ Return(c) \/ (At(c, "none") /\ UNCHANGED storeVars)
    /\ req' = [req EXCEPT ![c] = NoRequest]
    /\ answer' = [answer EXCEPT ![c] = NoAnswer]
    /\ UNCHANGED <<logs, cosigned, served>>

-----------------------------------------------------------------------------
\* Mutant of Shown: the note that was stored first, as from a cache never refreshed.
ShownFirst(i, o) ==
    LET records == {k \in 1..Len(file) : IsRecordOf(file[k], o)} IN
    IF records = {} THEN NoHead ELSE file[CHOOSE k \in records : \A j \in records : k <= j].head

\* latest_by_origin_hash, for any origin with a state, allowed or not.
Shown(i, o) == mem[i][o]

\* GET /<origin hash>/checkpoint: the stored note, under the same mutex; or 404.
Serve(i, o) ==
    /\ status[i] = "up" /\ lock[i] = NoCaller
    /\ Shown(i, o) # NoHead
    /\ served' = served \union {<<o, Shown(i, o)>>}
    /\ UNCHANGED <<storeVars, logs, req, answer, cosigned>>

-----------------------------------------------------------------------------
Mend(i) ==
    /\ Repair(i)
    /\ UNCHANGED <<logs, req, answer, cosigned, served>>

\* Memory and connections of the processes in `dead` are gone; a rejection that
\* never reached the store may still be on the wire.
Forget(dead) ==
    /\ logs' = [i \in Instances |-> IF i \in dead THEN NoLogs ELSE logs[i]]
    /\ req' = [c \in Callers |-> IF op[c].inst \in dead THEN NoRequest ELSE req[c]]
    /\ answer' = [c \in Callers |-> IF op[c].inst \in dead THEN NoAnswer ELSE answer[c]]
    /\ UNCHANGED <<cosigned, served>>

MendFails(i) == RepairFails(i) /\ Forget({i})

Die(i) == Kill(i) /\ Forget({i})

MachineDown == PowerLoss /\ Forget(Instances)

\* The operator's loss of the state file.  Nothing stands against a fork then, so it is
\* no step of WitnessNext, but one of honest clients (Rebase.tla) and of LosingSpec.
StateLost == LoseState /\ UNCHANGED <<logs, req, answer, cosigned, served>>

-----------------------------------------------------------------------------
ProcessStep(i) ==
    \/ Start(i) \/ StartRefused(i) \/ Mend(i) \/ MendFails(i) \/ Die(i)
    \/ Swap(i)
    \/ \E o \in Origins : Serve(i, o)

RequestStep(c) ==
    \/ \E i \in Instances, s \in Submissions : Admit(c, i, s) \/ TurnAway(c, i, s)
    \/ Check(c) \/ SignFails(c)
    \/ AppendRecord(c) \/ AppendFails(c) \/ Release(c)
    \/ Reply(c)

WitnessNext ==
    \/ \E i \in Instances : ProcessStep(i)
    \/ \E c \in Callers : RequestStep(c)
    \/ MachineDown

WitnessSpec == WitnessInit /\ [][WitnessNext]_witnessVars
=============================================================================
