-------------------------------- MODULE System --------------------------------
(***************************************************************************)
(* The witness process as a whole (src/src/server.rs, run): Witness.tla    *)
(* and Discovery.tla composed.  The allowlist that requests are judged by  *)
(* is what a boot read from the managed file or what a poll swapped in;    *)
(* the restarts that kill requests are those of crashes and of the timer's *)
(* unit; the feed, the files and the passes are Discovery's.               *)
(*                                                                         *)
(* A step of the one component that the other takes part in is the two     *)
(* actions conjoined.  `phase` and `allowed` are Discovery's view of the   *)
(* process.  Power loss is left to the runs of the two components.         *)
(***************************************************************************)
EXTENDS WitnessSafety

CONSTANTS
    TheWitness,
    FeedSets, Bad, NoFile, Corrupt, NoTag, Poller, OneShots, Scenarios

VARIABLES
    scenario, feed, managed, temp, etag, dirty, lasting, pass, fd, changesLeft, offered,
    phase,      \* Discovery's status: "down", "loaded" (its configuration) or "up"
    allowed     \* Discovery's logs

D == INSTANCE Discovery WITH status <- phase, logs <- allowed

\* The constants of Discovery have the properties that it assumes of them.
ASSUME SystemAssumption ==
    /\ Instances = {TheWitness}
    /\ FeedSets \subseteq ManagedSets /\ NoLogs \notin FeedSets
    /\ {Bad, NoFile, Corrupt, NoTag} \intersect Lists = {}
    /\ Corrupt # NoFile /\ Bad # NoTag
    /\ Poller \notin OneShots
    /\ Scenarios \subseteq D!Scenario
    /\ \A s \in Scenarios : s.maxFaults = MaxFaults

feedVars    == <<scenario, feed, managed, temp, etag, dirty, lasting, pass, fd,
                 changesLeft, offered, phase, allowed>>
serverVars  == <<disk, process, lock, op, history, logs, req, answer, cosigned, served>>
systemVars  == <<witnessVars, feedVars>>

Up == phase = "up"

\* The process is where both components think it is, and it judges requests by the
\* allowlist that Discovery takes it to run on.
SystemTypeOK ==
    /\ WitnessTypeOK
    /\ D!DiscoveryTypeOK
    /\ Up => status[TheWitness] = "up"
    /\ phase = "down" => status[TheWitness] \in {"down", "refused"}
    /\ status[TheWitness] \in {"repairing", "up"} => logs[TheWitness] = allowed

SystemInit == WitnessInit /\ D!DiscoveryInit

-----------------------------------------------------------------------------
(***************************************************************************)
(* run: config::load, Witness::from_config, bind, poller.                  *)
(***************************************************************************)
LoadConfig ==
    /\ status[TheWitness] = "down"
    /\ D!Load
    /\ UNCHANGED serverVars

OpenStore ==
    /\ phase = "loaded"
    /\ (Start(TheWitness) /\ logs'[TheWitness] = allowed) \/ Mend(TheWitness)
    /\ UNCHANGED feedVars

OpenFails ==
    /\ phase = "loaded"
    /\ StartRefused(TheWitness) \/ MendFails(TheWitness)
    /\ D!Stop
    /\ UNCHANGED <<scenario, feed, managed, temp, etag, dirty, lasting, pass, fd,
                   changesLeft, offered>>

Bind ==
    /\ status[TheWitness] = "up"
    /\ D!Serve
    /\ UNCHANGED serverVars

Request ==
    /\ Up
    /\ \/ \E c \in Callers : RequestStep(c)
       \/ \E o \in Origins : Serve(TheWitness, o)
    /\ UNCHANGED feedVars

\* poll_once: the pass is over and its set is swapped in, in one step.
HotSwap ==
    /\ D!Apply
    /\ Swap(TheWitness) /\ logs'[TheWitness] = allowed'

-----------------------------------------------------------------------------
(***************************************************************************)
(* The end of the process, and what goes on beside it.                     *)
(***************************************************************************)
Crash ==
    /\ D!KillWitness
    /\ Die(TheWitness) \/ (status[TheWitness] = "down" /\ UNCHANGED serverVars)

\* systemctl restart on exit 10: the process is stopped wherever its requests are.
\* (A stop by signal lets a handler that runs come to its end, one that takes too
\* long is killed.)  A unit that had failed is started again.
Restart(p) ==
    /\ D!Exit10(p)
    /\ IF "timer" \in scenario.setup
          THEN DropProcesses({TheWitness}) /\ Forget({TheWitness}) /\ UNCHANGED <<disk, history>>
          ELSE UNCHANGED serverVars

FeedStep ==
    /\ \/ D!FeedChanges \/ D!LoseFile
       \/ \E p \in D!Passes : D!Begin(p) \/ D!SyncStep(p) \/ D!KillOneShot(p)
    /\ UNCHANGED serverVars

SystemNext ==
    \/ LoadConfig \/ OpenStore \/ OpenFails \/ Bind
    \/ Request \/ HotSwap
    \/ Crash \/ (\E p \in OneShots : Restart(p))
    \/ FeedStep

\* The process is started whenever it is down, its threads and passes go on, the
\* poller ticks and the timer fires for ever (see Discovery.tla).
SystemSpec ==
    /\ SystemInit /\ [][SystemNext]_systemVars
    /\ WF_systemVars(LoadConfig) /\ WF_systemVars(OpenStore) /\ WF_systemVars(Bind)
    /\ WF_systemVars(HotSwap)
    /\ \A p \in D!Passes : WF_systemVars(D!SyncStep(p) /\ UNCHANGED serverVars)
    /\ \A p \in OneShots : WF_systemVars(Restart(p))
    /\ WF_systemVars(D!Begin(Poller) /\ UNCHANGED serverVars)
    /\ \A p \in OneShots :
          WF_systemVars("timer" \in scenario.setup /\ D!Begin(p) /\ UNCHANGED serverVars)
    /\ \A c \in Callers :
          WF_systemVars((Check(c) \/ AppendRecord(c) \/ Release(c) \/ Reply(c))
                            /\ UNCHANGED feedVars)

-----------------------------------------------------------------------------
\* T8 from the feed to the cosignature: whatever the passes, swaps, boots and
\* restarts do to each other, a head is cosigned only under a key that the operator
\* pinned for its origin or, without a manual stanza, that the feed has served for it.
OnlyOfferedCosigned ==
    \A o \in Origins : \A h \in Heads : <<o, h>> \in cosigned =>
        \E s \in Submissions, set \in offered \union {Manual} :
            LET keys == IF Manual[o] # {} THEN Manual[o] ELSE set[o] IN
            /\ s.parses /\ s.origin = o /\ s.head = h
            /\ s.signers \intersect keys # {} /\ s.forged \intersect keys = {}

\* "Dropped origins 404" and keys rotate out: once the feed has settled, there comes
\* a time from which no request gets past its signature check under a key that the
\* feed has taken back, be it one that had pinned the old allowlist or a witness
\* restarted on an old file.
RevocationTakesHold ==
    <>[](\/ feed = Bad
         \/ status[TheWitness] = "refused"
         \/ \A c \in Callers : op[c].stage # "none" =>
                Trusted(req[c], Effective(Manual, feed)))
=============================================================================
