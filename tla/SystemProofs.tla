---------------------------- MODULE SystemProofs -----------------------------
(***************************************************************************)
(* Type correctness and OnlyOfferedCosigned of System.tla, for any logs,   *)
(* feeds, deployments, requests and faults, and that the process as a      *)
(* whole publishes one history per log.  The argument: the allowlist       *)
(* is vetted at every moment (DiscoveryProofs); a request is vouched for   *)
(* by the list it was screened with; what vouched for it has been offered, *)
(* and stays offered, while it waits; and the head that is cosigned is the *)
(* one of the request.                                                     *)
(***************************************************************************)
EXTENDS System, WitnessProofs

P == INSTANCE DiscoveryProofs WITH status <- phase, logs <- allowed

\* Keys that the operator pinned for the origin of the body, or that the feed has
\* served for it, have signed it.
Vouched(s) ==
    /\ s.parses
    /\ \E set \in offered \union {Manual} :
          LET keys == IF Manual[s.origin] # {} THEN Manual[s.origin] ELSE set[s.origin] IN
          s.signers \intersect keys # {} /\ s.forged \intersect keys = {}

\* A request in the store is matched, vouched for, and in a process that is up.
Pending(c) ==
    op[c].stage # "none" =>
        /\ status[TheWitness] = "up"
        /\ req[c] \in Submissions /\ req[c].origin = op[c].origin
        /\ op[c].stage \in {"writing", "syncing", "stored", "failed"} => op[c].head = req[c].head
        /\ Vouched(req[c])

RequestsVouched == \A c \in Callers : Pending(c)

SystemInv ==
    /\ P!DiscoveryInv
    /\ SystemTypeOK
    /\ RequestsVouched
    /\ OnlyOfferedCosigned

-----------------------------------------------------------------------------
(***************************************************************************)
(* Discovery as one part of the system.                                    *)
(***************************************************************************)

\* What Discovery assumes of its constants holds here.
LEMMA DiscoveryConstants ==
    /\ {Manual} \union FeedSets \subseteq P!Lists
    /\ P!NoLogs \notin FeedSets
    /\ {Bad, NoFile, Corrupt, NoTag} \intersect P!Lists = {}
    /\ Corrupt # NoFile /\ Bad # NoTag
    /\ Poller \notin OneShots
    /\ Scenarios \subseteq P!Scenario
  BY SystemAssumption, RequestAssumption
     DEF Lists, NoLogs, D!Scenario, D!FaultKinds, P!Lists, P!NoLogs, P!Scenario, P!FaultKinds

\* The invariant of DiscoveryProofs, under the names of the system: its steps keep it.
LEMMA DiscoveryStep ==
    ASSUME P!DiscoveryInv, [P!DiscoveryNext]_(P!vars)
    PROVE  P!DiscoveryInv'
  BY P!DiscoveryInvStep, DiscoveryConstants DEF P!Lists, P!NoLogs, P!Scenario, P!FaultKinds

\* It holds at the start.
LEMMA DiscoveryStart == SystemInit => P!DiscoveryInv
<1>1. SystemInit => P!DiscoveryInit
  BY DEF SystemInit, D!DiscoveryInit, P!DiscoveryInit, D!NoLogs, P!NoLogs, D!Passes, P!Passes,
         D!IdlePass, P!IdlePass
<1> QED
  BY <1>1, P!InvInit, DiscoveryConstants DEF P!Lists, P!NoLogs, P!Scenario, P!FaultKinds

\* It has the types of Discovery in it.
LEMMA DiscoveryTypes ==
    /\ P!DiscoveryInv => D!DiscoveryTypeOK
    /\ P!DiscoveryInv' => D!DiscoveryTypeOK'
  BY DEF P!DiscoveryInv, P!DiscoveryTypeOK, D!DiscoveryTypeOK, P!Lists, D!Lists, P!Contents,
         D!Contents, P!Tags, D!Tags, P!Passes, D!Passes, P!Pass, D!Pass, P!IdlePass, D!IdlePass,
         P!NoLogs, D!NoLogs

\* The actions are those of Discovery.
LEMMA SameProcess ==
    /\ D!FeedChanges => P!FeedChanges
    /\ D!Load => P!Load
    /\ D!Serve => P!Serve
    /\ D!KillWitness => P!KillWitness
    /\ D!LoseFile => P!LoseFile
    /\ D!Apply => P!Apply
    /\ \A p \in D!Passes : p \in P!Passes
  BY DEF D!FeedChanges, P!FeedChanges, D!Load, P!Load, D!Serve, P!Serve, D!KillWitness,
         P!KillWitness, D!LoseFile, P!LoseFile, D!Apply, P!Apply, D!Passes, P!Passes,
         D!Fault, P!Fault, D!Stop, P!Stop, D!EndPass, P!EndPass, D!IdlePass, P!IdlePass,
         D!NoLogs, P!NoLogs, D!Done, P!Done, D!feedVars, P!feedVars, D!fileVars, P!fileVars,
         D!files, P!files, D!witnessVars, P!witnessVars, D!Effective, P!Effective

\* So are the steps of a pass.
LEMMA SamePass ==
    ASSUME NEW p
    PROVE  /\ D!Begin(p) => P!Begin(p)
           /\ D!KillOneShot(p) => P!KillOneShot(p)
           /\ D!Exit10(p) => P!Exit10(p)
           /\ D!SyncStep(p) => P!SyncStep(p)
<1> USE DEF D!Fault, P!Fault, D!Stop, P!Stop, D!EndPass, P!EndPass, D!IdlePass, P!IdlePass,
         D!NoLogs, P!NoLogs, D!Done, P!Done, D!feedVars, P!feedVars, D!fileVars, P!fileVars,
         D!files, P!files, D!witnessVars, P!witnessVars, D!Passes, P!Passes, D!Fails, P!Fails,
         D!Goes, P!Goes
<1>1. D!Begin(p) => P!Begin(p)
  BY DEF D!Begin, P!Begin, D!MayBegin, P!MayBegin
<1>2. D!KillOneShot(p) => P!KillOneShot(p)
  BY DEF D!KillOneShot, P!KillOneShot
<1>3. D!Exit10(p) => P!Exit10(p)
  BY DEF D!Exit10, P!Exit10
<1>4. D!NotModified(p) => P!NotModified(p)
  BY DEF D!NotModified, P!NotModified
<1>5. D!Receive(p) => P!Receive(p)
  BY DEF D!Receive, P!Receive
<1>6. D!RequestFails(p) => P!RequestFails(p)
  BY DEF D!RequestFails, P!RequestFails
<1>7. D!Compare(p) => P!Compare(p)
  BY DEF D!Compare, P!Compare
<1>8. D!CompareFails(p) => P!CompareFails(p)
  BY DEF D!CompareFails, P!CompareFails
<1>9. D!Create(p) => P!Create(p)
  BY DEF D!Create, P!Create
<1>10. D!Write(p) => P!Write(p)
  BY DEF D!Write, P!Write, D!Overwritten, P!Overwritten
<1>11. D!WriteFails(p) => P!WriteFails(p)
  BY DEF D!WriteFails, P!WriteFails
<1>12. D!Rename(p) => P!Rename(p)
  BY DEF D!Rename, P!Rename
<1>13. D!RenameFails(p) => P!RenameFails(p)
  BY DEF D!RenameFails, P!RenameFails
<1>14. D!SaveEtag(p) => P!SaveEtag(p)
  BY DEF D!SaveEtag, P!SaveEtag
<1>15. D!SaveEtagFails(p) => P!SaveEtagFails(p)
  BY DEF D!SaveEtagFails, P!SaveEtagFails
<1>16. D!Unchanged(p) => P!Unchanged(p)
  BY DEF D!Unchanged, P!Unchanged
<1> QED
  BY <1>1, <1>2, <1>3, <1>4, <1>5, <1>6, <1>7, <1>8, <1>9, <1>10, <1>11, <1>12, <1>13, <1>14,
     <1>15, <1>16 DEF D!SyncStep, P!SyncStep

\* A step that takes no part in discovery, but may end the witness and spend a fault.
LEMMA DiscoveryBeside ==
    ASSUME P!DiscoveryInv, faultsLeft' \in 0..MaxFaults,
           UNCHANGED <<scenario, feed, managed, temp, etag, dirty, lasting, pass, fd,
                       changesLeft, offered>>,
           UNCHANGED <<phase, allowed>> \/ D!Stop
    PROVE  P!DiscoveryInv'
<1>1. P!DiscoveryTypeOK'
  <2>1. scenario \in Scenarios /\ scenario.maxFaults = MaxFaults
    BY SystemAssumption DEF P!DiscoveryInv, P!DiscoveryTypeOK
  <2>2. phase' \in {"down", "loaded", "up"} /\ allowed' \in P!Lists
    BY DEF P!DiscoveryInv, P!DiscoveryTypeOK, D!Stop, D!NoLogs, P!Lists
  <2> QED
    BY <2>1, <2>2 DEF P!DiscoveryInv, P!DiscoveryTypeOK
<1>2. P!OnlyVetted'
  BY DEF P!DiscoveryInv, P!OnlyVetted, D!Stop
<1>3. P!FeedOffered' /\ P!FilesVetted' /\ P!PassesVetted' /\ P!OpenIsThere'
  BY DEF P!DiscoveryInv, P!FeedOffered, P!FilesVetted, P!PassesVetted, P!OpenIsThere,
         P!Vetted, P!Kept
<1> QED
  BY <1>1, <1>2, <1>3 DEF P!DiscoveryInv

-----------------------------------------------------------------------------
(***************************************************************************)
(* Types.                                                                  *)
(***************************************************************************)
\* The restart of a unit, for the witness.
StopServer ==
    DropProcesses({TheWitness}) /\ Forget({TheWitness}) /\ UNCHANGED <<disk, history, faultsLeft>>

\* What a step of the system is to the witness.
LEMMA WitnessPart ==
    ASSUME SystemNext
    PROVE  ServiceStep \/ StopServer \/ UNCHANGED serverVars
<1>1. TheWitness \in Instances
  BY SystemAssumption
<1>2. CASE LoadConfig \/ Bind \/ FeedStep
  BY <1>2 DEF LoadConfig, Bind, FeedStep
<1>3. CASE OpenStore \/ OpenFails \/ HotSwap \/ Crash
  BY <1>1, <1>3 DEF OpenStore, OpenFails, HotSwap, Crash, ServiceStep, ProcessStep
<1>4. CASE Request
  BY <1>1, <1>4 DEF Request, ServiceStep, ProcessStep
<1>5. ASSUME NEW p \in OneShots, Restart(p) PROVE StopServer \/ UNCHANGED serverVars
  BY <1>5 DEF Restart, StopServer, D!Exit10
<1> QED
  BY <1>2, <1>3, <1>4, <1>5 DEF SystemNext

\* A step of the service is one of the witness.
LEMMA ServiceKinds == [ServiceStep]_witnessVars => [AnyStep]_witnessVars
  BY DEF ServiceStep, WitnessNext, AnyStep

\* What is vouched for is matched as WitnessProofs wants it.
LEMMA MatchedRequests == RequestsVouched => RequestsMatch
  BY DEF RequestsVouched, Pending, RequestsMatch

\* Either the witness takes a step of its own, or discovery does.
LEMMA DiscoveryKept ==
    ASSUME SystemInv, [SystemNext]_systemVars
    PROVE  P!DiscoveryInv'
<1>1. CASE OpenStore \/ OpenFails \/ Request
  <2>1. ServiceStep
    <3>1. TheWitness \in Instances
      BY SystemAssumption
    <3> QED
      BY <1>1, <3>1 DEF OpenStore, OpenFails, Request, ServiceStep, ProcessStep
  <2>2. faultsLeft' \in 0..MaxFaults
    BY <2>1, ServiceKinds, MatchedRequests, WitnessTypeStep DEF SystemInv, SystemTypeOK, WitnessTypeOK, StoreTypeOK
  <2> QED
    BY <1>1, <2>2, DiscoveryBeside DEF SystemInv, OpenStore, OpenFails, Request, feedVars
<1>2. CASE LoadConfig \/ Bind \/ HotSwap \/ Crash \/ FeedStep \/ \E p \in OneShots : Restart(p)
  <2>1. P!DiscoveryNext
    <3>1. Poller \in P!Passes /\ OneShots \subseteq P!Passes
      BY DEF P!Passes
    <3>2. CASE LoadConfig \/ Bind \/ Crash
      BY <3>2, SameProcess DEF LoadConfig, Bind, Crash, P!DiscoveryNext
    <3>3. CASE HotSwap
      BY <3>1, <3>3, SameProcess DEF HotSwap, P!DiscoveryNext, P!PassStep
    <3>4. CASE FeedStep
      BY <3>4, SameProcess, SamePass DEF FeedStep, P!DiscoveryNext, P!PassStep
    <3>5. CASE \E p \in OneShots : Restart(p)
      BY <3>1, <3>5, SamePass DEF Restart, P!DiscoveryNext, P!PassStep
    <3> QED
      BY <1>2, <3>2, <3>3, <3>4, <3>5
  <2> QED
    BY <2>1, DiscoveryStep DEF SystemInv
<1>3. CASE UNCHANGED systemVars
  <2>1. UNCHANGED P!vars
    BY <1>3 DEF systemVars, feedVars, witnessVars, storeVars, P!vars, P!feedVars, P!fileVars,
       P!files, P!witnessVars
  <2> QED
    BY <2>1, DiscoveryStep DEF SystemInv
<1> QED
  BY <1>1, <1>2, <1>3 DEF SystemNext

\* The witness keeps its types, also when discovery spends a fault or stops it.
LEMMA WitnessTypesKept ==
    ASSUME SystemInv, [SystemNext]_systemVars
    PROVE  WitnessTypeOK'
<1>1. WitnessTypeOK /\ StoreTypeOK /\ RequestsMatch
  BY MatchedRequests DEF SystemInv, SystemTypeOK, WitnessTypeOK
<1>2. faultsLeft' \in 0..MaxFaults
  <2>1. P!DiscoveryTypeOK'
    BY DiscoveryKept DEF P!DiscoveryInv
  <2>2. scenario' \in Scenarios /\ faultsLeft' \in 0..scenario'.maxFaults
    BY <2>1 DEF P!DiscoveryTypeOK
  <2> QED
    BY <2>2, SystemAssumption
<1>3. CASE ServiceStep \/ UNCHANGED systemVars
  <2>1. [AnyStep]_witnessVars
    BY <1>3, ServiceKinds DEF systemVars
  <2> QED
    BY <1>1, <2>1, WitnessTypeStep
<1>4. CASE UNCHANGED serverVars
  BY <1>1, <1>2, <1>4 DEF serverVars, WitnessTypeOK, StoreTypeOK, disk, process, history
<1>5. CASE StopServer
  <2>1. StoreTypeOK'
    BY <1>1, <1>2, <1>5 DEF StopServer, DropProcesses, StoreTypeOK, NoMem, HeadOrNone, Op, disk,
       history
  <2>2. /\ logs' \in [Instances -> Lists]
        /\ req' \in [Callers -> Submissions \union {NoRequest}]
        /\ answer' \in [Callers -> [code : {0, 200, 400, 403, 404, 409, 422, 500}, size : Nat]]
        /\ UNCHANGED <<cosigned, served>>
    BY <1>1, <1>5 DEF StopServer, Forget, WitnessTypeOK, NoLogs, Lists, NoAnswer
  <2> QED
    BY <1>1, <2>1, <2>2 DEF WitnessTypeOK
<1> QED
  BY <1>3, <1>4, <1>5, WitnessPart

\* Both components see the process in the same place.
LEMMA SystemTypesKept ==
    ASSUME SystemInv, [SystemNext]_systemVars
    PROVE  SystemTypeOK'
<1> DEFINE Together ==
        /\ Up => status[TheWitness] = "up"
        /\ phase = "down" => status[TheWitness] \in {"down", "refused"}
        /\ status[TheWitness] \in {"repairing", "up"} => logs[TheWitness] = allowed
<1>1. /\ Together /\ TheWitness \in Instances
      /\ status \in [Instances -> {"down", "repairing", "up", "refused"}]
      /\ logs \in [Instances -> Lists]
      /\ op \in [Callers -> Op]
      /\ phase \in {"down", "loaded", "up"}
  BY SystemAssumption
     DEF SystemInv, SystemTypeOK, WitnessTypeOK, StoreTypeOK, P!DiscoveryInv, P!DiscoveryTypeOK
<1>2. WitnessTypeOK' /\ D!DiscoveryTypeOK'
  BY WitnessTypesKept, DiscoveryKept, DiscoveryTypes
<1>3. Together'
  <2>1. CASE LoadConfig
    BY <1>1, <2>1 DEF LoadConfig, D!Load, serverVars, process, Up
  <2>2. CASE OpenStore
    BY <1>1, <2>2 DEF OpenStore, Start, Open, Mend, Repair, feedVars, Up
  <2>3. CASE OpenFails
    BY <1>1, <2>3 DEF OpenFails, StartRefused, OpenRefused, MendFails, RepairFails, D!Stop, Up
  <2>4. CASE Bind
    BY <1>1, <2>4 DEF Bind, D!Serve, D!witnessVars, serverVars, process, Up
  <2>5. CASE Request
    <3>1. ASSUME NEW c \in Callers, RequestStep(c) PROVE UNCHANGED <<status, logs>>
      <4>1. CASE \E i \in Instances, s \in Submissions : Admit(c, i, s) \/ TurnAway(c, i, s)
        BY <4>1 DEF Admit, TurnAway, Call, storeVars, process
      <4>2. CASE Check(c) \/ SignFails(c) \/ Reply(c)
        BY <4>2 DEF Check, SignFails, Reply, Approve, Refuse, Return, storeVars, process
      <4>3. CASE AppendRecord(c) \/ AppendFails(c) \/ Release(c)
        BY <4>3 DEF AppendRecord, AppendFails, Release, Write, WriteFails, Sync, SyncFails, process
      <4> QED
        BY <3>1, <4>1, <4>2, <4>3 DEF RequestStep
    <3>2. ASSUME NEW o \in Origins, Serve(TheWitness, o) PROVE UNCHANGED <<status, logs>>
      BY <3>2 DEF Serve, storeVars, process
    <3>3. UNCHANGED <<status, logs, phase, allowed>>
      BY <2>5, <3>1, <3>2 DEF Request, feedVars
    <3> QED
      BY <1>1, <3>3 DEF Up
  <2>6. CASE HotSwap
    BY <1>1, <2>6 DEF HotSwap, D!Apply, Swap, storeVars, process, Up
  <2>7. CASE Crash
    <3>1. phase' = "down"
      BY <2>7 DEF Crash, D!KillWitness, D!Stop
    <3>2. status'[TheWitness] = "down"
      BY <1>1, <2>7 DEF Crash, Die, Kill, DropProcesses, serverVars, process
    <3> QED
      BY <3>1, <3>2 DEF Up
  <2>8. ASSUME NEW p \in OneShots, Restart(p) PROVE Together'
    <3>1. CASE "timer" \in scenario.setup
      <4>1. phase' = "down" /\ status'[TheWitness] = "down"
        BY <1>1, <2>8, <3>1 DEF Restart, D!Exit10, D!Stop, DropProcesses
      <4> QED
        BY <4>1 DEF Up
    <3>2. CASE "timer" \notin scenario.setup
      BY <1>1, <2>8, <3>2 DEF Restart, D!Exit10, D!witnessVars, serverVars, process, Up
    <3> QED
      BY <3>1, <3>2
  <2>9. CASE FeedStep
    <3>1. UNCHANGED D!witnessVars
      BY <2>9 DEF FeedStep, D!FeedChanges, D!LoseFile, D!Begin, D!KillOneShot, D!SyncStep,
         D!NotModified, D!Receive, D!RequestFails, D!Compare, D!CompareFails, D!Create, D!Write,
         D!WriteFails, D!Rename, D!RenameFails, D!SaveEtag, D!SaveEtagFails, D!Unchanged, D!Fails
    <3> QED
      BY <1>1, <2>9, <3>1 DEF FeedStep, D!witnessVars, serverVars, process, Up
  <2>10. CASE UNCHANGED systemVars
    BY <1>1, <2>10 DEF systemVars, witnessVars, feedVars, storeVars, process, Up
  <2> QED
    BY <2>1, <2>2, <2>3, <2>4, <2>5, <2>6, <2>7, <2>8, <2>9, <2>10 DEF SystemNext
<1> QED
  BY <1>2, <1>3 DEF SystemTypeOK, Up

-----------------------------------------------------------------------------
(***************************************************************************)
(* Requests.                                                               *)
(***************************************************************************)
\* What the feed has served stays offered.
LEMMA OfferedStays ==
    ASSUME [SystemNext]_systemVars
    PROVE  offered \subseteq offered'
<1>1. CASE FeedStep
  BY <1>1 DEF FeedStep, D!FeedChanges, D!LoseFile, D!Begin, D!KillOneShot, D!SyncStep,
         D!NotModified, D!Receive, D!RequestFails, D!Compare, D!CompareFails, D!Create, D!Write,
         D!WriteFails, D!Rename, D!RenameFails, D!SaveEtag, D!SaveEtagFails, D!Unchanged,
         D!feedVars
<1>2. CASE LoadConfig \/ Bind \/ HotSwap \/ Crash \/ \E p \in OneShots : Restart(p)
  BY <1>2 DEF LoadConfig, Bind, HotSwap, Crash, Restart, D!Load, D!Serve, D!Apply, D!KillWitness,
         D!Exit10, D!feedVars
<1>3. CASE OpenStore \/ OpenFails \/ Request \/ UNCHANGED systemVars
  BY <1>3 DEF OpenStore, OpenFails, Request, systemVars, feedVars
<1> QED
  BY <1>1, <1>2, <1>3 DEF SystemNext

\* So what is vouched for stays so.
LEMMA VouchedStays ==
    ASSUME [SystemNext]_systemVars, NEW s, Vouched(s)
    PROVE  Vouched(s)'
  BY OfferedStays DEF Vouched

\* What gets past the screening is vouched for.
LEMMA ScreenedVouched ==
    ASSUME SystemInv, Up, NEW s \in Submissions, Screened(s, logs[TheWitness]) = 200
    PROVE  Vouched(s)
<1>1. s.origin \in Origins
  BY SubmissionFields
<1>2. s.parses /\ logs[TheWitness][s.origin] # {} /\ Trusted(s, logs[TheWitness])
  BY DEF Screened
<1>3. logs[TheWitness] = allowed
  BY DEF SystemInv, SystemTypeOK, Up
<1>4. IF Manual[s.origin] # {} THEN allowed[s.origin] = Manual[s.origin]
      ELSE allowed[s.origin] = {} \/ \E set \in offered : allowed[s.origin] = set[s.origin]
  BY <1>1 DEF SystemInv, Up, P!DiscoveryInv, P!OnlyVetted
<1> QED
  BY <1>2, <1>3, <1>4 DEF Vouched, Trusted

\* Every step keeps pending requests matched and vouched for, or drops them.
LEMMA RequestsKept ==
    ASSUME SystemInv, [SystemNext]_systemVars
    PROVE  RequestsVouched'
<1> SUFFICES ASSUME NEW d \in Callers PROVE Pending(d)'
  BY DEF RequestsVouched
<1>1. /\ StoreTypeOK /\ WitnessTypeOK
      /\ status \in [Instances -> {"down", "repairing", "up", "refused"}]
      /\ TheWitness \in Instances /\ Pending(d)
  BY SystemAssumption DEF SystemInv, SystemTypeOK, WitnessTypeOK, StoreTypeOK, RequestsVouched
\* A caller that stays where it is, in a process that does.
<1>2. op'[d] = op[d] /\ req'[d] = req[d] /\ (status[TheWitness] = "up" => status'[TheWitness] = "up")
        => Pending(d)'
  BY <1>1, VouchedStays DEF Pending
<1>3. op'[d].stage = "none" => Pending(d)'
  BY DEF Pending
\* One that goes on.
<1>4. ASSUME UNCHANGED <<req, status>>, op[d].stage # "none", op'[d].origin = op[d].origin,
             op'[d].stage \in {"writing", "syncing", "stored", "failed"} => op'[d].head = req[d].head
      PROVE  Pending(d)'
  BY <1>1, <1>4, VouchedStays DEF Pending
\* Nobody is busy in a process that is not up.
<1>5. status[TheWitness] # "up" /\ op' = op => Pending(d)'
  BY <1>1, <1>3 DEF Pending
<1>6. DropProcesses({TheWitness}) => Pending(d)'
  <2> SUFFICES ASSUME DropProcesses({TheWitness}) PROVE op'[d].stage = "none"
    BY <1>3
  <2>1. op[d].stage = "none" \/ op[d].inst = TheWitness
    BY <1>1, OpFields, SystemAssumption DEF At
  <2> QED
    BY <2>1 DEF DropProcesses, IdleOp
<1>7. CASE UNCHANGED serverVars \/ UNCHANGED systemVars
  BY <1>2, <1>7 DEF serverVars, systemVars, witnessVars, storeVars, process
<1>8. CASE StopServer
  BY <1>6, <1>8 DEF StopServer
<1>9. CASE OpenStore \/ OpenFails
  BY <1>5, <1>9 DEF OpenStore, OpenFails, Start, Open, Mend, Repair, StartRefused, OpenRefused,
     MendFails, RepairFails
<1>10. CASE HotSwap \/ Crash
  <2>1. CASE HotSwap
    BY <1>2, <2>1 DEF HotSwap, Swap, storeVars, process
  <2>2. CASE Crash
    BY <1>6, <1>7, <2>2 DEF Crash, Die, Kill
  <2> QED
    BY <1>10, <2>1, <2>2
<1>11. CASE Request
  <2>1. ASSUME NEW o \in Origins, Serve(TheWitness, o) PROVE Pending(d)'
    BY <1>2, <2>1 DEF Serve, storeVars, process
  <2>2. ASSUME NEW c \in Callers, RequestStep(c) PROVE Pending(d)'
    <3>1. ASSUME NEW i \in Instances, NEW s \in Submissions, Admit(c, i, s) PROVE Pending(d)'
      <4>1. i = TheWitness /\ status[i] = "up" /\ UNCHANGED status
        BY <3>1, SystemAssumption DEF Admit, Call, process
      <4>2. CASE d = c
        <5>1. op'[d].origin = s.origin /\ op'[d].stage = "waiting" /\ req'[d] = s
          BY <1>1, <3>1, <4>2 DEF Admit, Call, StoreTypeOK, WitnessTypeOK
        <5>2. Vouched(s)'
          BY <1>11, <3>1, <4>1, ScreenedVouched, VouchedStays DEF Admit, Request
        <5> QED
          BY <3>1, <4>1, <5>1, <5>2 DEF Pending
      <4>3. CASE d # c
        BY <1>1, <1>2, <3>1, <4>1, <4>3 DEF Admit, Call, StoreTypeOK, WitnessTypeOK
      <4> QED
        BY <4>2, <4>3
    <3>2. ASSUME NEW i \in Instances, NEW s \in Submissions, TurnAway(c, i, s) PROVE Pending(d)'
      <4>1. op' = op /\ req[c] = NoRequest /\ UNCHANGED status
        BY <3>2 DEF TurnAway, Idle, storeVars, process
      <4>2. CASE d = c
        BY <1>1, <1>3, <4>1, <4>2, NoRequestApart DEF Pending
      <4>3. CASE d # c
        BY <1>1, <1>2, <3>2, <4>1, <4>3 DEF TurnAway, WitnessTypeOK
      <4> QED
        BY <4>2, <4>3
    <3>3. CASE Check(c) \/ SignFails(c) \/ AppendRecord(c) \/ AppendFails(c) \/ Release(c)
      <4>1. UNCHANGED <<req, status>>
        BY <3>3 DEF Check, SignFails, AppendRecord, AppendFails, Release, Approve, Refuse, Write,
           WriteFails, Sync, SyncFails, process
      <4>2. CASE d # c
        <5>1. Approve(c, req[c].head) \/ \E stage : GoTo(c, stage)
          BY <3>3 DEF Check, SignFails, AppendRecord, AppendFails, Release, Refuse, Write,
                      WriteFails, Sync, SyncFails
        <5>2. op'[d] = op[d]
          BY <1>1, <4>2, <5>1, ApproveFields DEF GoTo, StoreTypeOK
        <5> QED
          BY <1>2, <4>1, <5>2
      <4>3. CASE d = c /\ Approve(c, req[c].head)
        <5>1. op[c].stage # "none"
          BY <4>3 DEF Approve, CanCheck, At
        <5> QED
          BY <1>1, <1>4, <4>1, <4>3, <5>1, ApproveFields
      <4>4. CASE d = c /\ ~Approve(c, req[c].head)
        <5>1. PICK stage : GoTo(c, stage) /\ (stage = "refused" \/ op[c].stage \in {"writing", "syncing"})
                  /\ op[c].stage # "none"
          BY <3>3, <4>4 DEF Check, SignFails, AppendRecord, AppendFails, Release, Refuse, Write,
               WriteFails, Sync, SyncFails, CanCheck, At
        <5>2. op'[c].stage = stage /\ op'[c].origin = op[c].origin /\ op'[c].head = op[c].head
          BY <1>1, <5>1, GoToFields DEF At
        <5>3. op[c].stage \in {"writing", "syncing"} => op[c].head = req[c].head
          BY <1>1, <4>4 DEF Pending
        <5> QED
          BY <1>4, <4>1, <4>4, <5>1, <5>2, <5>3
      <4> QED
        BY <4>2, <4>3, <4>4
    <3>4. CASE Reply(c)
      <4>1. CASE d = c
        <5>1. op'[d].stage = "none"
          BY <1>1, <3>4, <4>1 DEF Reply, Return, At, StoreTypeOK, storeVars, IdleOp
        <5> QED
          BY <1>3, <5>1
      <4>2. CASE d # c
        BY <1>1, <1>2, <3>4, <4>2 DEF Reply, Return, StoreTypeOK, WitnessTypeOK, storeVars, process
      <4> QED
        BY <4>1, <4>2
    <3> QED
      BY <2>2, <3>1, <3>2, <3>3, <3>4 DEF RequestStep
  <2> QED
    BY <1>11, <2>1, <2>2 DEF Request
<1>12. ASSUME NEW p \in OneShots, Restart(p) PROVE Pending(d)'
  BY <1>6, <1>7, <1>12 DEF Restart
<1> QED
  BY <1>7, <1>9, <1>10, <1>11, <1>12 DEF SystemNext, LoadConfig, Bind, FeedStep

\* A head that is released is the one of a pending request.
LEMMA CosignedKept ==
    ASSUME SystemInv, [SystemNext]_systemVars
    PROVE  OnlyOfferedCosigned'
<1> DEFINE Entitled(o, h) ==
        \E s \in Submissions : Vouched(s) /\ s.origin = o /\ s.head = h
<1>1. \A o \in Origins : \A h \in Heads : <<o, h>> \in cosigned => Entitled(o, h)
  BY DEF SystemInv, OnlyOfferedCosigned, Vouched
<1>2. \A o, h : Entitled(o, h) => Entitled(o, h)'
  BY VouchedStays
<1>3. \A o \in Origins : \A h \in Heads : <<o, h>> \in cosigned' => Entitled(o, h)'
  <2>1. CASE UNCHANGED cosigned
    BY <1>1, <1>2, <2>1
  <2>2. ASSUME NEW c \in Callers, Release(c)
        PROVE  \A o \in Origins : \A h \in Heads : <<o, h>> \in cosigned' => Entitled(o, h)'
    <3>1. op[c].stage = "syncing" /\ cosigned' = cosigned \union {<<op[c].origin, op[c].head>>}
      BY <2>2 DEF Release, Sync, At
    <3>2. Entitled(op[c].origin, op[c].head)
      BY <3>1 DEF SystemInv, RequestsVouched, Pending
    <3> QED
      BY <1>1, <1>2, <3>1, <3>2
  <2>3. UNCHANGED cosigned \/ \E c \in Callers : Release(c)
    <3>1. WitnessTypeOK /\ RequestsMatch
      BY MatchedRequests DEF SystemInv, SystemTypeOK
    <3>2. CASE ServiceStep
      <4>1. [AnyStep]_witnessVars
        BY <3>2, ServiceKinds
      <4>2. CASE \E c \in Callers : Check(c) /\ Approve(c, req[c].head)
        BY <4>2 DEF Check
      <4> QED
        BY <3>1, <4>1, <4>2, HistoryStep
    <3>3. CASE StopServer \/ UNCHANGED serverVars \/ UNCHANGED systemVars
      BY <3>3 DEF StopServer, Forget, serverVars, systemVars, witnessVars
    <3> QED
      BY <3>2, <3>3, WitnessPart
  <2> QED
    BY <2>1, <2>2, <2>3
<1>4. ASSUME NEW o \in Origins, NEW h \in Heads, <<o, h>> \in cosigned'
      PROVE  \E s \in Submissions, set \in offered' \union {Manual} :
                LET keys == IF Manual[o] # {} THEN Manual[o] ELSE set[o] IN
                /\ s.parses /\ s.origin = o /\ s.head = h
                /\ s.signers \intersect keys # {} /\ s.forged \intersect keys = {}
  <2>1. PICK s \in Submissions : Vouched(s)' /\ s.origin = o /\ s.head = h
    BY <1>3, <1>4
  <2> QED
    BY <2>1 DEF Vouched
<1> QED
  BY <1>4 DEF OnlyOfferedCosigned

-----------------------------------------------------------------------------
\* The invariant of the whole process: vetted files and allowlist, both components
\* together, every pending request vouched for, and so every cosigned head.
THEOREM SystemInvariant == SystemSpec => []SystemInv
<1>1. SystemInit => SystemInv
  <2> SUFFICES ASSUME SystemInit PROVE SystemInv
    OBVIOUS
  <2>1. TheWitness \in Instances
    BY SystemAssumption
  <2>2. P!DiscoveryInv /\ D!DiscoveryTypeOK
    BY DiscoveryStart, DiscoveryTypes
  <2>3. WitnessTypeOK
    BY StoreTypeInit DEF SystemInit, WitnessInit, WitnessTypeOK, NoLogs, Lists, NoAnswer
  <2>4. phase = "down" /\ status[TheWitness] = "down"
    BY <2>1 DEF SystemInit, D!DiscoveryInit, WitnessInit, StoreInit
  <2>5. RequestsVouched /\ OnlyOfferedCosigned
    BY DEF SystemInit, WitnessInit, StoreInit, IdleOp, RequestsVouched, Pending, OnlyOfferedCosigned
  <2> QED
    BY <2>2, <2>3, <2>4, <2>5 DEF SystemInv, SystemTypeOK, Up
<1>2. SystemInv /\ [SystemNext]_systemVars => SystemInv'
  BY DiscoveryKept, SystemTypesKept, RequestsKept, CosignedKept DEF SystemInv
<1> QED
  BY <1>1, <1>2, PTL DEF SystemSpec

\* Every variable keeps its type, and the two components agree on where the process
\* is and which allowlist it runs on.
THEOREM SystemTypeCorrect == SystemSpec => []SystemTypeOK
<1>1. SystemInv => SystemTypeOK
  BY DEF SystemInv
<1> QED
  BY <1>1, SystemInvariant, PTL

\* T8 from the feed to the cosignature: whatever passes, swaps, boots and restarts do
\* to each other and to requests in flight, a head is cosigned only under a key that
\* the operator pinned for its origin or that the feed has served for it.
THEOREM OnlyOfferedCosignedHolds == SystemSpec => []OnlyOfferedCosigned
<1>1. SystemInv => OnlyOfferedCosigned
  BY DEF SystemInv
<1> QED
  BY <1>1, SystemInvariant, PTL

-----------------------------------------------------------------------------
(***************************************************************************)
(* The witness promises in the system what it promises alone: restarts and *)
(* swaps by discovery set back nothing that was given out.                 *)
(***************************************************************************)

\* A restart at any moment of any request keeps what WitnessProofs shows.
LEMMA StopKept ==
    ASSUME StoreInv, WitnessInv, PublishedInv(FALSE), WitnessTypeOK', RequestsMatch', StopServer
    PROVE  StoreInv' /\ WitnessInv' /\ PublishedInv(FALSE)'
<1>1. /\ MutexInv /\ Framed /\ WrittenLast /\ Settled /\ OpenedCurrent
      /\ HeadsFrom(RootedHeads) /\ ApprovedExtends /\ CosignedBehind /\ CosignedChain
  BY DEF StoreInv, WitnessInv, GuardInv
<1>2. /\ {TheWitness} \in SUBSET Instances /\ DropProcesses({TheWitness})
      /\ UNCHANGED <<file, synced, stored, unsettled, cosigned, served>>
  BY SystemAssumption DEF StopServer, Forget, disk, history
<1>3. /\ \A i \in Instances : status'[i] \in {"repairing", "up"} =>
            status[i] = status'[i] /\ mem'[i] = mem[i]
      /\ \A c \in Callers : op'[c].stage # "none" =>
            op[c].inst \in Instances \ {TheWitness} /\ op'[c] = op[c]
      /\ OwnersOnly' /\ HoldersOnly' /\ OpenedCurrent'
  BY <1>2, DropInv
<1>4. StoreTypeOK' /\ MutexInv'
  BY <1>3 DEF WitnessTypeOK, MutexInv
<1>5. Framed' /\ WrittenLast' /\ Settled'
  BY <1>1, <1>2, <1>3 DEF Framed, WrittenLast, Settled
<1>6. StoreInv'
  BY <1>3, <1>4, <1>5 DEF StoreInv, MutexInv
<1>7. HeadsFrom(RootedHeads)'
  <2>1. \A i \in Instances, o \in Origins : mem'[i][o] # NoHead => mem'[i][o] = mem[i][o]
    BY <1>2 DEF DropProcesses, NoMem
  <2>2. \A c \in Callers : op'[c] = op[c] \/ op'[c].stage = "none"
    BY <1>3
  <2> QED
    BY <1>1, <1>2, <2>1, <2>2 DEF HeadsFrom
<1>8. ApprovedExtends'
  <2> SUFFICES ASSUME NEW c \in Callers, op'[c].stage \in {"writing", "syncing"}
               PROVE  Current(c)' = NoHead \/ Extends(Current(c)', op'[c].head)
    BY DEF ApprovedExtends
  <2>1. op'[c] = op[c] /\ op[c].inst \in Instances \ {TheWitness}
    BY <1>3
  <2>2. mem'[op[c].inst] = mem[op[c].inst]
    BY <1>2, <2>1 DEF DropProcesses
  <2> QED
    BY <1>1, <2>1, <2>2 DEF ApprovedExtends, Current
<1>9. CosignedBehind' /\ CosignedChain'
  BY <1>1, <1>2 DEF CosignedBehind, CosignedChain
<1>10. PublishedInv(FALSE)'
  BY <1>2, <1>3, PublishedQuiet
<1> QED
  BY <1>4, <1>6, <1>7, <1>8, <1>9, <1>10 DEF WitnessInv, GuardInv

\* So does a step of discovery beside it.
LEMMA BesideKept ==
    ASSUME StoreInv, WitnessInv, PublishedInv(FALSE), WitnessTypeOK', UNCHANGED serverVars
    PROVE  StoreInv' /\ WitnessInv' /\ PublishedInv(FALSE)'
<1>1. UNCHANGED <<file, synced, owner, status, mem, lock, op, stored, unsettled, req, cosigned, served>>
  BY DEF serverVars, disk, process, history
<1>2. StoreTypeOK'
  BY DEF WitnessTypeOK
<1>3. OwnersOnly' /\ HoldersOnly' /\ Framed' /\ WrittenLast' /\ Settled' /\ OpenedCurrent'
  BY <1>1 DEF StoreInv, OwnersOnly, HoldersOnly, Framed, WrittenLast, Settled, OpenedCurrent, MayShow
<1>4. StoreInv' /\ MutexInv'
  BY <1>2, <1>3 DEF StoreInv, MutexInv
<1>5. RequestsMatch' /\ HeadsFrom(RootedHeads)' /\ ApprovedExtends' /\ CosignedBehind' /\ CosignedChain'
  BY <1>1 DEF WitnessInv, GuardInv, RequestsMatch, HeadsFrom, ApprovedExtends, Current,
              CosignedBehind, CosignedChain
<1>6. PublishedInv(FALSE)'
  BY <1>1, PublishedQuiet
<1> QED
  BY <1>4, <1>5, <1>6 DEF WitnessInv, GuardInv

\* Every step of the system keeps it all, and publishes as AppendOnly wants it.
LEMMA SystemPublishes ==
    ASSUME SystemInv, SystemInv', StoreInv, WitnessInv, PublishedInv(FALSE), DiskHolds,
           [SystemNext]_systemVars
    PROVE  /\ StoreInv' /\ WitnessInv' /\ PublishedInv(FALSE)'
           /\ [Everything!Next]_(cosigned \union served)
<1>1. WitnessTypeOK' /\ RequestsMatch'
  <2>1. RequestsVouched' => RequestsMatch'
    BY DEF RequestsVouched, Pending, RequestsMatch
  <2> QED
    BY <2>1 DEF SystemInv, SystemTypeOK
<1>2. CASE ServiceStep \/ UNCHANGED systemVars
  <2>1. [ServiceStep]_witnessVars
    BY <1>2 DEF systemVars
  <2>2. [AnyStep]_witnessVars
    BY <2>1, ServiceKinds
  <2> QED
    BY <2>1, <2>2, WitnessInvStep, EverythingStep
<1>3. CASE StopServer
  BY <1>1, <1>3, StopKept DEF StopServer, Forget
<1>4. CASE UNCHANGED serverVars
  BY <1>1, <1>4, BesideKept DEF serverVars
<1> QED
  BY <1>2, <1>3, <1>4, WitnessPart

\* The invariants of the witness hold in every state of the process.
THEOREM SystemHistory ==
    ASSUME DiskHolds
    PROVE  SystemSpec => [](StoreInv /\ WitnessInv /\ PublishedInv(FALSE))
<1>1. SystemInit => StoreInv /\ WitnessInv /\ PublishedInv(FALSE)
  BY WitnessInvInit, PublishedInit DEF SystemInit
<1>2. ASSUME SystemInv, SystemInv', StoreInv, WitnessInv, PublishedInv(FALSE),
             [SystemNext]_systemVars
      PROVE  StoreInv' /\ WitnessInv' /\ PublishedInv(FALSE)'
  BY <1>2, SystemPublishes
<1> QED
  BY <1>1, <1>2, SystemInvariant, PTL DEF SystemSpec

\* I1 and MP-05 for the whole process: with the allowlist swapped under it and the
\* timer's unit restarting it at any moment, its responses and the notes it serves
\* to monitors publish one append-only history per log.
THEOREM SystemEverythingRefines ==
    ASSUME DiskHolds
    PROVE  SystemSpec => EverythingAppendOnly
<1>1. SystemInit => Everything!Init
  BY DEF SystemInit, WitnessInit, Everything!Init
<1>2. ASSUME SystemInv, SystemInv', StoreInv, WitnessInv, PublishedInv(FALSE),
             [SystemNext]_systemVars
      PROVE  [Everything!Next]_(cosigned \union served)
  BY <1>2, SystemPublishes
<1> QED
  BY <1>1, <1>2, SystemInvariant, SystemHistory, PTL
     DEF SystemSpec, EverythingAppendOnly, Everything!Spec

\* I1 for the whole process: no swap of the allowlist and no restart makes it cosign
\* two heads of which neither extends the other.
THEOREM SystemNoConflict ==
    ASSUME DiskHolds
    PROVE  SystemSpec => []NoConflict
  BY NoConflictFrom, SystemHistory, PTL

\* MP-04 and MP-05 for the whole process: the monitoring endpoint is never behind, for
\* origins that left the allowlist and after restarts just as well.
THEOREM SystemNeverServesOlder ==
    ASSUME DiskHolds
    PROVE  SystemSpec => []NeverServesOlder
<1>1. PublishedInv(FALSE) => NeverServesOlder
  BY NeverOlderFrom
<1> QED
  BY <1>1, SystemHistory, PTL

\* SM-04 for the whole process: a witness that starts on what a crash left of the file
\* goes on from a head that extends all that was cosigned, whatever its allowlist is.
THEOREM SystemNeverResumesBehind ==
    ASSUME DiskHolds
    PROVE  SystemSpec => []NeverResumesBehind
  BY ResumesFrom, SystemHistory, PTL

\* I2 for the whole process: the record of every cosigned head is durable, and a
\* restart by the timer's unit, at whatever point of a request, leaves it so.
THEOREM SystemCosignedIsDurable ==
    ASSUME DiskHolds
    PROVE  SystemSpec => []CosignedIsDurable
<1>1. SystemInit => CosignedIsDurable
  BY DEF SystemInit, WitnessInit, CosignedIsDurable
<1>2. ASSUME StoreInv, WitnessInv, CosignedIsDurable, [SystemNext]_systemVars
      PROVE  CosignedIsDurable'
  <2>1. CASE ServiceStep \/ UNCHANGED systemVars
    <3>1. [ServiceStep]_witnessVars
      BY <2>1 DEF systemVars
    <3> QED
      BY <1>2, <3>1, ServiceKinds, DurableStep
  <2>2. CASE StopServer \/ UNCHANGED serverVars
    <3>1. UNCHANGED <<file, synced, cosigned>>
      BY <2>2 DEF StopServer, Forget, serverVars, disk
    <3> QED
      BY <1>2, <3>1 DEF CosignedIsDurable
  <2> QED
    BY <1>2, <2>1, <2>2, WitnessPart
<1> QED
  BY <1>1, <1>2, SystemHistory, PTL DEF SystemSpec
=============================================================================
