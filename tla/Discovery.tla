------------------------------ MODULE Discovery ------------------------------
(***************************************************************************)
(* How the allowlist of a running witness follows the discovery feed       *)
(* (src/src/sync.rs, src/src/discovery.rs, src/src/config.rs).             *)
(*                                                                         *)
(* A pass is one call of sync_feed: by the poller inside the witness, or   *)
(* by a one-shot `mosskeys-witness sync` process.  Passes share the feed,  *)
(* the managed file, its temp file and the ETag cache, and no lock.        *)
(*                                                                         *)
(* External to src/: the feed.  Its ETag identifies what it serves, so a   *)
(* set that comes back comes back with its ETag; a 200 may lack one.       *)
(*                                                                         *)
(* Faults: kill (any process ends), feed_down (a request fails), disk_full *)
(* (the temp file cannot be written), etag_lost (the ETag cannot be        *)
(* saved), file_lost (the operator removes the managed file), power_loss   *)
(* (the machine goes down; what has not reached the disk is gone).         *)
(***************************************************************************)
EXTENDS Naturals, Allowlist

CONSTANTS
    Origins, Keys,
    Manual,             \* the [[log]] stanzas of witness.toml
    FeedSets,           \* the valid sets a feed may serve
    Bad,                \* a body that parse_feed rejects
    NoFile, Corrupt,    \* a file that is absent, or is not TOML
    NoTag,              \* no ETag
    Poller,             \* the pass of the witness's poller
    OneShots,           \* passes of `sync` processes
    Scenarios           \* the deployments to look at, and what may befall them

\* `setup` is the operator's choice: "poller" if [discovery] is configured, "timer"
\* if the systemd units run syncs, "by_hand" if somebody does.  `maxFaults` and
\* `maxChanges` are the bounds on faults and on changes of the feed.
FaultKinds == {"kill", "feed_down", "disk_full", "etag_lost", "file_lost", "power_loss"}
Scenario == [setup : SUBSET {"poller", "timer", "by_hand"}, sets : SUBSET FeedSets,
             faults : SUBSET FaultKinds, maxFaults : Nat, maxChanges : Nat]

Lists  == [Origins -> SUBSET Keys]
NoLogs == [o \in Origins |-> {}]

ASSUME DiscoveryAssumption ==
    /\ {Manual} \union FeedSets \subseteq Lists
    /\ NoLogs \notin FeedSets
    /\ {Bad, NoFile, Corrupt, NoTag} \intersect Lists = {}
    /\ Corrupt # NoFile /\ Bad # NoTag
    /\ Poller \notin OneShots
    /\ Scenarios \subseteq Scenario

Passes == OneShots \union {Poller}

VARIABLES
    scenario,   \* never changes
    feed,       \* what the feed serves
    managed,    \* discovered_logs.toml; NoLogs when it is there and empty
    temp,       \* the temp file of write_atomic, one name for every pass
    etag,       \* the ETag cache
    dirty,      \* of "temp" and "managed", the files with content not synced
    lasting,    \* the managed file and the ETag that a power loss would leave, if
                \* the scenario has any
    status,     \* the witness: "down", "loaded" (its configuration) or "up"
    logs,       \* the allowlist of the witness
    pass,       \* per pass: where it is in sync_feed, and what it holds
    fd,         \* per pass: where the file is that it has open for writing
    changesLeft, faultsLeft,
    offered     \* history: the sets the feed has served

feedVars    == <<feed, changesLeft, offered, scenario>>
files       == <<managed, temp, etag, dirty, lasting>>
fileVars    == <<files, fd>>
witnessVars == <<status, logs>>
vars        == <<feedVars, fileVars, witnessVars, pass, faultsLeft>>

Contents == Lists \union {NoFile, Corrupt}
Tags     == FeedSets \union {NoTag}

IdlePass == [stage |-> "idle", set |-> NoLogs, tag |-> NoTag, updated |-> FALSE]
Pass == {IdlePass}
          \union [stage : {"request"}, set : {NoLogs}, tag : Tags, updated : {FALSE}]
          \union [stage : {"compare", "create", "write", "rename"},
                  set : FeedSets, tag : Tags, updated : {FALSE}]
          \union [stage : {"etag", "finish"}, set : FeedSets, tag : Tags, updated : BOOLEAN]

DiscoveryTypeOK ==
    /\ scenario \in Scenarios
    /\ feed \in FeedSets \union {Bad}
    /\ managed \in Contents /\ temp \in Contents
    /\ etag \in Tags
    /\ status \in {"down", "loaded", "up"}
    /\ logs \in Lists
    /\ pass \in [Passes -> Pass]
    /\ fd \in [Passes -> {"none", "temp", "managed", "unlinked"}]
    /\ dirty \subseteq {"temp", "managed"}
    /\ lasting \in [managed : Contents, etag : Tags]
    /\ changesLeft \in 0..scenario.maxChanges /\ faultsLeft \in 0..scenario.maxFaults
    /\ offered \subseteq FeedSets

\* An ETag is there only with the file that it validated.
DiscoveryInit ==
    /\ scenario \in Scenarios
    /\ feed \in scenario.sets
    /\ managed \in scenario.sets \union {NoFile}
    /\ etag \in {NoTag} \union ({managed} \ {NoFile})
    /\ temp = NoFile
    /\ status = "down" /\ logs = NoLogs
    /\ pass = [p \in Passes |-> IdlePass]
    /\ fd = [p \in Passes |-> "none"]
    /\ dirty = {}
    /\ lasting = IF "power_loss" \in scenario.faults THEN [managed |-> managed, etag |-> etag]
                                                    ELSE [managed |-> NoFile, etag |-> NoTag]
    /\ changesLeft = scenario.maxChanges /\ faultsLeft = scenario.maxFaults
    /\ offered = {feed} \union ({managed} \ {NoFile})

Fault(kind) == kind \in scenario.faults /\ faultsLeft > 0 /\ faultsLeft' = faultsLeft - 1

FeedChanges ==
    /\ changesLeft > 0 /\ changesLeft' = changesLeft - 1
    /\ feed' \in (scenario.sets \union {Bad}) \ {feed}
    /\ offered' = offered \union ({feed'} \ {Bad})
    /\ UNCHANGED <<scenario, fileVars, witnessVars, pass, faultsLeft>>

-----------------------------------------------------------------------------
(***************************************************************************)
(* The witness process.                                                    *)
(***************************************************************************)

\* config::load, then from_config: no start on a managed file that does not
\* parse, or without a single log.
Load ==
    /\ status = "down" /\ managed # Corrupt
    /\ logs' = Effective(Manual, IF managed = NoFile THEN NoLogs ELSE managed)
    /\ logs' # NoLogs
    /\ status' = "loaded"
    /\ UNCHANGED <<feedVars, fileVars, pass, faultsLeft>>

\* The listener is bound; from here on the poller polls.
Serve ==
    /\ status = "loaded"
    /\ status' = "up"
    /\ UNCHANGED <<feedVars, fileVars, logs, pass, faultsLeft>>

\* The witness is gone, and its poller, wherever it was.
Stop ==
    /\ status' = "down" /\ logs' = NoLogs

EndPass(p, end) ==
    /\ pass' = [q \in Passes |-> IF q \in {p} \union end THEN IdlePass ELSE pass[q]]
    /\ fd' = [q \in Passes |-> IF q \in {p} \union end THEN "none" ELSE fd[q]]

KillWitness ==
    /\ status # "down" /\ Fault("kill")
    /\ Stop
    /\ EndPass(Poller, {})
    /\ UNCHANGED <<feedVars, files>>

KillOneShot(p) ==
    /\ p \in OneShots /\ pass[p] # IdlePass /\ Fault("kill")
    /\ EndPass(p, {})
    /\ UNCHANGED <<feedVars, files, witnessVars>>

LoseFile ==
    /\ managed # NoFile /\ Fault("file_lost")
    /\ managed' = NoFile
    /\ fd' = [p \in Passes |-> IF fd[p] = "managed" THEN "unlinked" ELSE fd[p]]
    /\ dirty' = dirty \ {"managed"}
    /\ UNCHANGED <<feedVars, temp, etag, lasting, witnessVars, pass>>

\* The kernel writes back, in any order and at any time, what nobody synced: the
\* rename (its directory is not fsynced) and the ETag, which may be torn then and
\* so match nothing.  What was written but not synced may be missing.
WriteBack ==
    /\ "power_loss" \in scenario.faults /\ faultsLeft > 0
    /\ \/ \E content \in {managed} \union (IF "managed" \in dirty THEN {Corrupt} ELSE {}) :
             lasting' = [lasting EXCEPT !.managed = content]
       \/ \E tag \in {etag, NoTag} : lasting' = [lasting EXCEPT !.etag = tag]
    /\ UNCHANGED <<feedVars, managed, temp, etag, dirty, fd, witnessVars, pass, faultsLeft>>

PowerLoss ==
    /\ Fault("power_loss")
    /\ managed' = lasting.managed /\ etag' = lasting.etag
    /\ temp' \in {NoFile, Corrupt}
    /\ dirty' = {}
    /\ Stop
    /\ EndPass(Poller, OneShots)
    /\ UNCHANGED <<feedVars, lasting>>

-----------------------------------------------------------------------------
(***************************************************************************)
(* sync_feed.                                                              *)
(***************************************************************************)
Goes(p, stage) == pass' = [pass EXCEPT ![p].stage = stage]

\* Every failure ends the pass: the poller logs it and goes on with the logs it
\* has, `sync` exits with 1.
Fails(p) == EndPass(p, {}) /\ UNCHANGED witnessVars

\* The poller polls while the witness serves; a `sync` is run by the timer or by
\* hand, and loads the configuration, with the managed file, first.
MayBegin(p) ==
    IF p = Poller THEN "poller" \in scenario.setup /\ status = "up"
    ELSE scenario.setup \intersect {"timer", "by_hand"} # {} /\ managed # Corrupt

\* Mutant of Begin: the request is conditional whether or not the file is there.
BeginConditional(p) ==
    /\ pass[p] = IdlePass
    /\ MayBegin(p)
    /\ pass' = [pass EXCEPT ![p].stage = "request", ![p].tag = etag]
    /\ UNCHANGED <<feedVars, fileVars, witnessVars, faultsLeft>>

\* No file, no If-None-Match.
Begin(p) ==
    /\ pass[p] = IdlePass
    /\ MayBegin(p)
    /\ pass' = [pass EXCEPT ![p].stage = "request",
                            ![p].tag = IF managed = NoFile THEN NoTag ELSE etag]
    /\ UNCHANGED <<feedVars, fileVars, witnessVars, faultsLeft>>

\* 304: nothing else is looked at.
NotModified(p) ==
    /\ pass[p].stage = "request" /\ pass[p].tag = feed
    /\ EndPass(p, {})
    /\ UNCHANGED <<feedVars, files, witnessVars, faultsLeft>>

\* Mutant of Receive: no check for an empty feed.
ReceiveAnything(p) ==
    /\ pass[p].stage = "request" /\ pass[p].tag # feed
    /\ \E tag \in {feed, NoTag} \ {Bad} :
          pass' = [pass EXCEPT ![p] = [stage |-> "compare",
                                       set |-> IF feed = Bad THEN NoLogs ELSE feed,
                                       tag |-> tag, updated |-> FALSE]]
    /\ UNCHANGED <<feedVars, fileVars, witnessVars, faultsLeft>>

\* 200: a body that validates.
Receive(p) ==
    /\ pass[p].stage = "request" /\ feed \notin {Bad, pass[p].tag}
    /\ \E tag \in {feed, NoTag} :
          pass' = [pass EXCEPT ![p] = [stage |-> "compare", set |-> feed,
                                       tag |-> tag, updated |-> FALSE]]
    /\ UNCHANGED <<feedVars, fileVars, witnessVars, faultsLeft>>

\* No answer, another status, or a body that does not validate or is empty.
RequestFails(p) ==
    /\ pass[p].stage = "request"
    /\ (feed = Bad /\ UNCHANGED faultsLeft) \/ Fault("feed_down")
    /\ Fails(p)
    /\ UNCHANGED <<feedVars, files>>

\* The set is compared with the file's, not with what the witness runs on.  (Two
\* sets that differ in their order only count as different in the code; here they
\* are one, and the rewrite that it would bring changes nothing.)
Compare(p) ==
    /\ pass[p].stage = "compare"
    /\ managed # Corrupt
    /\ Goes(p, IF managed = pass[p].set THEN "etag" ELSE "create")
    /\ UNCHANGED <<feedVars, fileVars, witnessVars, faultsLeft>>

CompareFails(p) ==
    /\ pass[p].stage = "compare"
    /\ managed = Corrupt
    /\ Fails(p)
    /\ UNCHANGED <<feedVars, files, faultsLeft>>

\* File::create: the temp file is made, or truncated under who else has it open.
Create(p) ==
    /\ pass[p].stage = "create"
    /\ temp' = NoLogs
    /\ fd' = [fd EXCEPT ![p] = "temp"]
    /\ dirty' = dirty \union {"temp"}
    /\ Goes(p, "write")
    /\ UNCHANGED <<feedVars, managed, etag, lasting, witnessVars, faultsLeft>>

\* Writing from the start of a file that holds something longer leaves the end
\* of that behind it: it does not parse, or lists stanzas of the old content for
\* origins that the new one lacks.
Overwritten(old, set) ==
    IF old \in {NoLogs, set} THEN {set}
    ELSE {Corrupt, set} \union
           (IF old = Corrupt THEN {}
            ELSE {[o \in Origins |-> IF o \in left THEN old[o] ELSE set[o]] :
                     left \in SUBSET {o \in Origins : set[o] = {}}})

\* Mutant of Write: no sync_all.
WriteUnsynced(p) ==
    /\ pass[p].stage = "write"
    /\ temp' \in IF fd[p] = "temp" THEN Overwritten(temp, pass[p].set) ELSE {temp}
    /\ managed' \in IF fd[p] = "managed" THEN Overwritten(managed, pass[p].set) ELSE {managed}
    /\ Goes(p, "rename")
    /\ UNCHANGED <<feedVars, etag, dirty, lasting, fd, witnessVars, faultsLeft>>

\* write_all, then sync_all.
Write(p) ==
    /\ pass[p].stage = "write"
    /\ temp' \in IF fd[p] = "temp" THEN Overwritten(temp, pass[p].set) ELSE {temp}
    /\ managed' \in IF fd[p] = "managed" THEN Overwritten(managed, pass[p].set) ELSE {managed}
    /\ dirty' = dirty \ {fd[p]}
    /\ Goes(p, "rename")
    /\ UNCHANGED <<feedVars, etag, lasting, fd, witnessVars, faultsLeft>>

\* The temp file is removed, whoever made it.
WriteFails(p) ==
    /\ pass[p].stage \in {"create", "write"}
    /\ Fault("disk_full")
    /\ temp' = NoFile /\ dirty' = dirty \ {"temp"}
    /\ pass' = [pass EXCEPT ![p] = IdlePass]
    /\ fd' = [q \in Passes |-> IF q = p THEN "none"
                               ELSE IF fd[q] = "temp" THEN "unlinked" ELSE fd[q]]
    /\ UNCHANGED <<feedVars, managed, etag, lasting, witnessVars>>

\* Whatever has the name of the temp file now gets the name of the managed file.
Rename(p) ==
    /\ pass[p].stage = "rename" /\ temp # NoFile
    /\ managed' = temp /\ temp' = NoFile
    /\ dirty' = IF "temp" \in dirty THEN {"managed"} ELSE {}
    /\ fd' = [q \in Passes |-> IF q = p THEN "none"
                               ELSE CASE fd[q] = "temp"    -> "managed"
                                      [] fd[q] = "managed" -> "unlinked"
                                      [] OTHER             -> fd[q]]
    /\ pass' = [pass EXCEPT ![p].stage = "etag", ![p].updated = TRUE]
    /\ UNCHANGED <<feedVars, etag, lasting, witnessVars, faultsLeft>>

RenameFails(p) ==
    /\ pass[p].stage = "rename" /\ temp = NoFile
    /\ Fails(p)
    /\ UNCHANGED <<feedVars, files, faultsLeft>>

\* Mutant of SaveEtag: a 200 without an ETag leaves the cached one.
SaveEtagKeepsStale(p) ==
    /\ pass[p].stage = "etag"
    /\ etag' = IF pass[p].tag = NoTag THEN etag ELSE pass[p].tag
    /\ Goes(p, "finish")
    /\ UNCHANGED <<feedVars, managed, temp, dirty, lasting, fd, witnessVars, faultsLeft>>

\* A 200 without an ETag removes the cached one.
SaveEtag(p) ==
    /\ pass[p].stage = "etag"
    /\ etag' = pass[p].tag
    /\ Goes(p, "finish")
    /\ UNCHANGED <<feedVars, managed, temp, dirty, lasting, fd, witnessVars, faultsLeft>>

\* A warning, and the old ETag stays.
SaveEtagFails(p) ==
    /\ pass[p].stage = "etag"
    /\ Fault("etag_lost")
    /\ Goes(p, "finish")
    /\ UNCHANGED <<feedVars, fileVars, witnessVars>>

-----------------------------------------------------------------------------
(***************************************************************************)
(* What comes of a pass.                                                   *)
(***************************************************************************)
Done(p) == pass[p].stage = "finish"

Unchanged(p) ==
    /\ Done(p) /\ ~pass[p].updated
    /\ EndPass(p, {})
    /\ UNCHANGED <<feedVars, files, witnessVars, faultsLeft>>

\* poll_once on Updated: apply_managed_entries.
Apply ==
    /\ Done(Poller) /\ pass[Poller].updated
    /\ logs' = Effective(Manual, pass[Poller].set)
    /\ EndPass(Poller, {})
    /\ UNCHANGED <<feedVars, files, status, faultsLeft>>

\* Mutant of Exit10: the update is not passed on to the witness.
Exit10NoRestart(p) ==
    /\ p \in OneShots /\ Done(p) /\ pass[p].updated
    /\ EndPass(p, {})
    /\ UNCHANGED <<feedVars, files, witnessVars, faultsLeft>>

\* Exit 10.  The script of the systemd unit restarts the witness, or starts it.
Exit10(p) ==
    /\ p \in OneShots /\ Done(p) /\ pass[p].updated
    /\ IF "timer" \in scenario.setup
         THEN Stop /\ EndPass(p, {Poller})
         ELSE UNCHANGED witnessVars /\ EndPass(p, {})
    /\ UNCHANGED <<feedVars, files, faultsLeft>>

-----------------------------------------------------------------------------
SyncStep(p) ==
    \/ NotModified(p) \/ Receive(p) \/ RequestFails(p)
    \/ Compare(p) \/ CompareFails(p)
    \/ Create(p) \/ Write(p) \/ WriteFails(p) \/ Rename(p) \/ RenameFails(p)
    \/ SaveEtag(p) \/ SaveEtagFails(p)
    \/ Unchanged(p)

PassStep(p) == SyncStep(p) \/ (p = Poller /\ Apply) \/ Exit10(p)

DiscoveryNext ==
    \/ FeedChanges
    \/ Load \/ Serve \/ KillWitness \/ LoseFile \/ WriteBack \/ PowerLoss
    \/ \E p \in Passes : Begin(p) \/ PassStep(p) \/ KillOneShot(p)

\* The witness is started again whenever it is down; the poller ticks and the
\* timer fires for ever; every pass that has begun goes on to its end.
DiscoverySpec ==
    /\ DiscoveryInit /\ [][DiscoveryNext]_vars
    /\ WF_vars(Load) /\ WF_vars(Serve)
    /\ \A p \in Passes : WF_vars(PassStep(p))
    /\ WF_vars(Begin(Poller))
    /\ \A p \in OneShots : WF_vars("timer" \in scenario.setup /\ Begin(p))

-----------------------------------------------------------------------------
(***************************************************************************)
(* Properties.                                                             *)
(***************************************************************************)
InEffect == feed = Bad \/ (status = "up" /\ logs = Effective(Manual, feed))

\* One pass at a time: nobody runs a sync beside the poller or another sync.
Alone == scenario.setup \in {{"poller"}, {"timer"}}

\* Everything reaches the disk: a power loss can bring the managed file of before
\* a rename back beside the ETag of after it, which the README shows.
KeepsPower == "power_loss" \notin scenario.faults

\* "New origins are cosigned within one interval, dropped origins 404" and "keeps
\* the allowlist current on its own": once the feed has settled on a valid set,
\* the witness comes to run on it and keeps to it.
AllowlistFollows == Alone /\ KeepsPower => <>[]InEffect

\* The managed file holds a whole set that the feed has served, at every moment
\* at which a starting witness or another pass may read it, after a power loss too.
ManagedWasOffered == Alone => managed \in offered \union {NoFile}

\* What the witness runs on is what its file says, so that a set that is not new
\* to the file is not new to the witness either; except in a pass between its
\* rename and its swap or restart.
MemoryMatchesFile ==
    Alone /\ status # "down" /\ managed # NoFile /\ (\A p \in Passes : ~pass[p].updated) =>
        logs = Effective(Manual, managed)

\* T8, whatever passes run into each other, whatever is cut short and whatever a
\* starting witness finds in the file: a manual stanza decides alone on its
\* origin, and any other key was served for that very origin by the feed.
OnlyVetted ==
    status # "down" =>
        \A o \in Origins :
            IF Manual[o] # {} THEN logs[o] = Manual[o]
            ELSE logs[o] = {} \/ \E set \in offered : logs[o] = set[o]

\* "`None` exactly when the answer was `304` (the on-disk managed file is still
\* the current set)": a pass that is told 304 leaves a file that says what the
\* feed serves, unless somebody has just removed it.
NotModifiedMeansCurrent ==
    [][Alone /\ KeepsPower => \A p \in Passes : NotModified(p) => managed \in {feed, NoFile}]_vars
=============================================================================
