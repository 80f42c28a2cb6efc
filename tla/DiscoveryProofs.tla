--------------------------- MODULE DiscoveryProofs ---------------------------
(***************************************************************************)
(* Proofs about Discovery.tla.  First OnlyVetted, for any number of passes *)
(* at once and any faults: there may be a mixture of two sets in the       *)
(* files, or half of one, but stanza by stanza everything in them is from  *)
(* a set that the feed has served.  Then ManagedWasOffered and             *)
(* MemoryMatchesFile, for the poller alone or the timer alone: the temp    *)
(* file belongs to one pass then, and sets are whole.                      *)
(***************************************************************************)
EXTENDS Discovery, TLAPS

Kept(list) == \A o \in Origins : list[o] = {} \/ \E set \in offered : list[o] = set[o]
Vetted(content) == content \in {NoFile, Corrupt} \/ (content \in Lists /\ Kept(content))

FeedOffered == feed = Bad \/ feed \in offered
FilesVetted == Vetted(managed) /\ Vetted(temp) /\ Vetted(lasting.managed)
PassesVetted ==
    \A p \in Passes : pass[p].stage \notin {"idle", "request"} => pass[p].set \in offered

\* A file that a pass has open under its name is there.
OpenIsThere ==
    \A p \in Passes :
        /\ fd[p] = "temp" => temp # NoFile
        /\ fd[p] = "managed" => managed # NoFile

DiscoveryInv ==
    /\ DiscoveryTypeOK
    /\ FeedOffered
    /\ FilesVetted
    /\ PassesVetted
    /\ OpenIsThere
    /\ OnlyVetted

-----------------------------------------------------------------------------
LEMMA Constants ==
    /\ NoLogs \in Lists /\ Manual \in Lists /\ FeedSets \subseteq Lists
    /\ Bad \notin Lists /\ NoFile \notin Lists /\ Corrupt \notin Lists /\ NoTag \notin Lists
    /\ Corrupt # NoFile /\ Poller \in Passes /\ OneShots \subseteq Passes
  BY DiscoveryAssumption DEF Lists, NoLogs, Passes

LEMMA ScenarioFields ==
    ASSUME DiscoveryTypeOK
    PROVE  /\ scenario.sets \subseteq FeedSets
           /\ scenario.maxFaults \in Nat /\ scenario.maxChanges \in Nat
  BY DiscoveryAssumption DEF DiscoveryTypeOK, Scenario

\* What a pass at each stage holds.
LEMMA PassForm ==
    ASSUME NEW x \in Pass
    PROVE  /\ x = [stage |-> x.stage, set |-> x.set, tag |-> x.tag, updated |-> x.updated]
           /\ x.tag \in Tags /\ x.updated \in BOOLEAN
           /\ x.stage \in {"idle", "request", "compare", "create", "write", "rename", "etag",
                           "finish"}
           /\ x.stage = "idle" <=> x = IdlePass
           /\ x.stage \notin {"idle", "request"} => x.set \in FeedSets
           /\ x.stage \in {"request", "compare", "create", "write", "rename"} => x.updated = FALSE
<1>1. CASE x = IdlePass
  BY <1>1 DEF IdlePass, Tags
<1>2. CASE x \in [stage : {"request"}, set : {NoLogs}, tag : Tags, updated : {FALSE}]
  <2>1. x = [stage |-> x.stage, set |-> x.set, tag |-> x.tag, updated |-> x.updated]
    BY <1>2
  <2>2. x.stage \in {"request"} /\ x.tag \in Tags /\ x.updated = FALSE
    BY <1>2
  <2>3. x # IdlePass
    BY <2>2 DEF IdlePass
  <2> QED
    BY <2>1, <2>2, <2>3
<1>3. CASE x \in [stage : {"compare", "create", "write", "rename"},
                  set : FeedSets, tag : Tags, updated : {FALSE}]
  <2>1. x = [stage |-> x.stage, set |-> x.set, tag |-> x.tag, updated |-> x.updated]
    BY <1>3
  <2>2. x.stage \in {"compare", "create", "write", "rename"} /\ x.set \in FeedSets /\ x.tag \in Tags /\ x.updated = FALSE
    BY <1>3
  <2>3. x # IdlePass
    BY <2>2 DEF IdlePass
  <2> QED
    BY <2>1, <2>2, <2>3
<1>4. CASE x \in [stage : {"etag", "finish"}, set : FeedSets, tag : Tags, updated : BOOLEAN]
  <2>1. x = [stage |-> x.stage, set |-> x.set, tag |-> x.tag, updated |-> x.updated]
    BY <1>4
  <2> QED
    BY <1>4, <2>1 DEF IdlePass
<1> QED
  BY <1>1, <1>2, <1>3, <1>4 DEF Pass

\* A pass goes on to a later stage.
LEMMA StageOnly ==
    ASSUME NEW a, NEW b, NEW c, NEW d, NEW stage
    PROVE  [[stage |-> a, set |-> b, tag |-> c, updated |-> d] EXCEPT !.stage = stage]
               = [stage |-> stage, set |-> b, tag |-> c, updated |-> d]
  OBVIOUS

LEMMA PassGoes ==
    ASSUME DiscoveryTypeOK, NEW p \in Passes, pass[p].stage \notin {"idle", "request"},
           NEW stage, Goes(p, stage),
           \/ stage \in {"etag", "finish"}
           \/ stage \in {"create", "write", "rename"} /\ pass[p].updated = FALSE
    PROVE  /\ pass' \in [Passes -> Pass]
           /\ pass'[p].set = pass[p].set /\ pass'[p].stage = stage
           /\ \A q \in Passes : q # p => pass'[q] = pass[q]
<1>1. pass[p] \in Pass /\ pass[p].set \in FeedSets
  BY PassForm DEF DiscoveryTypeOK
<1>2. [pass[p] EXCEPT !.stage = stage] =
          [stage |-> stage, set |-> pass[p].set, tag |-> pass[p].tag, updated |-> pass[p].updated]
  <2>1. pass[p] = [stage |-> pass[p].stage, set |-> pass[p].set, tag |-> pass[p].tag,
                   updated |-> pass[p].updated]
    BY <1>1, PassForm
  <2> QED
    BY <2>1, StageOnly
<1>3. [pass[p] EXCEPT !.stage = stage] \in Pass
  BY <1>1, <1>2, PassForm DEF Pass
<1> QED
  BY <1>2, <1>3 DEF Goes, DiscoveryTypeOK

\* Passes end, and let go of their files.
LEMMA PassEnds ==
    ASSUME DiscoveryTypeOK, NEW p, NEW end, EndPass(p, end)
    PROVE  /\ pass' \in [Passes -> Pass]
           /\ fd' \in [Passes -> {"none", "temp", "managed", "unlinked"}]
           /\ \A q \in Passes : pass'[q] = IdlePass \/ pass'[q] = pass[q]
           /\ \A q \in Passes : fd'[q] = "none" \/ fd'[q] = fd[q]
<1>1. IdlePass \in Pass
  BY DEF Pass
<1> QED
  BY <1>1 DEF EndPass, DiscoveryTypeOK

LEMMA FaultType ==
    ASSUME DiscoveryTypeOK, NEW kind, Fault(kind)
    PROVE  faultsLeft' \in 0..scenario.maxFaults
  BY ScenarioFields DEF Fault, DiscoveryTypeOK

\* A file that is overwritten still has nothing but what the feed has served.
LEMMA OverwrittenVetted ==
    ASSUME NEW old \in Contents, old # NoFile, Vetted(old),
           NEW set \in FeedSets, set \in offered,
           NEW content \in Overwritten(old, set)
    PROVE  content \in Contents /\ content # NoFile /\ Vetted(content)
<1>1. set \in Lists /\ Vetted(set)
  BY Constants DEF Vetted, Kept
<1>2. Vetted(Corrupt)
  BY DEF Vetted
<1>3. CASE content \in {Corrupt, set}
  BY <1>1, <1>2, <1>3, Constants DEF Contents
<1>4. CASE old # Corrupt /\ content \in {[o \in Origins |-> IF o \in left THEN old[o] ELSE set[o]] :
                                            left \in SUBSET {o \in Origins : set[o] = {}}}
  <2>1. old \in Lists /\ Kept(old)
    BY <1>4 DEF Contents, Vetted
  <2>2. PICK left \in SUBSET {o \in Origins : set[o] = {}} :
            content = [o \in Origins |-> IF o \in left THEN old[o] ELSE set[o]]
    BY <1>4
  <2>3. content \in Lists
    BY <1>1, <2>1, <2>2 DEF Lists
  <2>4. Kept(content)
    BY <2>1, <2>2 DEF Kept
  <2> QED
    BY <2>3, <2>4, Constants DEF Contents, Vetted
<1> QED
  BY <1>3, <1>4 DEF Overwritten

-----------------------------------------------------------------------------
(***************************************************************************)
(* The parts of the invariant that a step leaves as they are.              *)
(***************************************************************************)
LEMMA FeedKept ==
    ASSUME FeedOffered, UNCHANGED feedVars
    PROVE  FeedOffered'
  BY DEF FeedOffered, feedVars

LEMMA FilesKept ==
    ASSUME FilesVetted, UNCHANGED feedVars, UNCHANGED files
    PROVE  FilesVetted'
  BY DEF FilesVetted, Vetted, Kept, feedVars, files

LEMMA WitnessKept ==
    ASSUME OnlyVetted, UNCHANGED feedVars, UNCHANGED witnessVars \/ Stop
    PROVE  OnlyVetted'
  BY DEF OnlyVetted, Stop, feedVars, witnessVars

LEMMA PassesKept ==
    ASSUME PassesVetted, UNCHANGED feedVars, UNCHANGED pass
    PROVE  PassesVetted'
  BY DEF PassesVetted, feedVars

\* A pass that ends holds nothing, and has no file open.
LEMMA PassesEnd ==
    ASSUME DiscoveryInv, UNCHANGED feedVars, NEW p, NEW end, EndPass(p, end)
    PROVE  /\ PassesVetted'
           /\ UNCHANGED files => OpenIsThere'
<1>1. /\ \A q \in Passes : pass'[q] = IdlePass \/ pass'[q] = pass[q]
      /\ \A q \in Passes : fd'[q] = "none" \/ fd'[q] = fd[q]
  BY PassEnds DEF DiscoveryInv
<1> QED
  BY <1>1 DEF DiscoveryInv, PassesVetted, OpenIsThere, IdlePass, feedVars, files

\* A pass that goes on keeps its set.
LEMMA PassesGo ==
    ASSUME DiscoveryInv, UNCHANGED feedVars,
           NEW p \in Passes, pass[p].stage \notin {"idle", "request"},
           NEW stage, Goes(p, stage),
           \/ stage \in {"etag", "finish"}
           \/ stage \in {"create", "write", "rename"} /\ pass[p].updated = FALSE
    PROVE  pass' \in [Passes -> Pass] /\ PassesVetted'
<1>1. /\ pass' \in [Passes -> Pass]
      /\ pass'[p].set = pass[p].set
      /\ \A q \in Passes : q # p => pass'[q] = pass[q]
  BY PassGoes DEF DiscoveryInv
<1> QED
  BY <1>1 DEF DiscoveryInv, PassesVetted, feedVars

\* A step that only ends passes, and perhaps the witness.
LEMMA OnlyEnds ==
    ASSUME DiscoveryInv, UNCHANGED feedVars, UNCHANGED files,
           NEW p, NEW end, EndPass(p, end), UNCHANGED witnessVars \/ Stop,
           faultsLeft' \in 0..scenario.maxFaults
    PROVE  DiscoveryInv'
<1>1. DiscoveryTypeOK'
  <2>1. /\ pass' \in [Passes -> Pass]
        /\ fd' \in [Passes -> {"none", "temp", "managed", "unlinked"}]
    BY PassEnds DEF DiscoveryInv
  <2>2. status' \in {"down", "loaded", "up"} /\ logs' \in Lists
    BY Constants DEF DiscoveryInv, DiscoveryTypeOK, witnessVars, Stop
  <2> QED
    BY <2>1, <2>2 DEF DiscoveryInv, DiscoveryTypeOK, feedVars, files
<1>2. FeedOffered' /\ FilesVetted' /\ OnlyVetted'
  BY FeedKept, FilesKept, WitnessKept DEF DiscoveryInv
<1>3. PassesVetted' /\ OpenIsThere'
  BY PassesEnd
<1> QED
  BY <1>1, <1>2, <1>3 DEF DiscoveryInv

\* A step that only takes a pass to its next stage.
LEMMA OnlyGoes ==
    ASSUME DiscoveryInv, UNCHANGED feedVars, UNCHANGED fileVars, UNCHANGED witnessVars,
           faultsLeft' \in 0..scenario.maxFaults,
           pass' \in [Passes -> Pass], PassesVetted'
    PROVE  DiscoveryInv'
<1>1. DiscoveryTypeOK'
  BY DEF DiscoveryInv, DiscoveryTypeOK, feedVars, fileVars, files, witnessVars
<1>2. FeedOffered' /\ FilesVetted' /\ OnlyVetted'
  BY FeedKept, FilesKept, WitnessKept DEF DiscoveryInv, fileVars
<1>3. OpenIsThere'
  BY DEF DiscoveryInv, OpenIsThere, fileVars, files
<1> QED
  BY <1>1, <1>2, <1>3 DEF DiscoveryInv

-----------------------------------------------------------------------------
(***************************************************************************)
(* The feed, the witness and the disk.                                     *)
(***************************************************************************)
LEMMA InvInit == DiscoveryInit => DiscoveryInv
<1> SUFFICES ASSUME DiscoveryInit PROVE DiscoveryInv
  OBVIOUS
<1>1. scenario \in Scenario
  BY DiscoveryAssumption DEF DiscoveryInit
<1>2. /\ scenario.sets \subseteq FeedSets
      /\ scenario.maxFaults \in Nat /\ scenario.maxChanges \in Nat
  BY <1>1 DEF Scenario
<1>3. /\ feed \in FeedSets /\ managed \in FeedSets \union {NoFile} /\ etag \in Tags
      /\ lasting \in [managed : FeedSets \union {NoFile}, etag : Tags]
      /\ lasting.managed \in {managed, NoFile}
  BY <1>2 DEF DiscoveryInit, Tags
<1>4. managed \in Contents /\ temp \in Contents /\ lasting \in [managed : Contents, etag : Tags]
  BY <1>3, Constants DEF DiscoveryInit, Contents
<1>5. offered \subseteq FeedSets /\ feed \in offered
  BY <1>3 DEF DiscoveryInit
<1>6. IdlePass \in Pass /\ IdlePass.stage = "idle"
  BY DEF Pass, IdlePass
<1>7. DiscoveryTypeOK
  BY <1>2, <1>3, <1>4, <1>5, <1>6, Constants DEF DiscoveryInit, DiscoveryTypeOK
<1>8. FilesVetted
  <2>1. managed # NoFile => Vetted(managed)
    BY <1>3, Constants DEF DiscoveryInit, Vetted, Kept
  <2> QED
    BY <1>3, <2>1 DEF DiscoveryInit, FilesVetted, Vetted
<1> QED
  BY <1>5, <1>6, <1>7, <1>8
     DEF DiscoveryInit, DiscoveryInv, FeedOffered, PassesVetted, OpenIsThere, OnlyVetted

LEMMA InvFeedChanges ==
    ASSUME DiscoveryInv, FeedChanges
    PROVE  DiscoveryInv'
<1>1. /\ feed' \in FeedSets \union {Bad}
      /\ changesLeft' \in 0..scenario.maxChanges
  BY ScenarioFields DEF DiscoveryInv, DiscoveryTypeOK, FeedChanges
<1>2. offered \subseteq offered' /\ offered' \subseteq FeedSets /\ (feed' = Bad \/ feed' \in offered')
  BY <1>1 DEF DiscoveryInv, DiscoveryTypeOK, FeedChanges
<1>3. DiscoveryTypeOK'
  BY <1>1, <1>2 DEF DiscoveryInv, DiscoveryTypeOK, FeedChanges, fileVars, files, witnessVars
<1>4. FilesVetted'
  BY <1>2 DEF DiscoveryInv, FilesVetted, Vetted, Kept, FeedChanges, fileVars, files
<1>5. PassesVetted' /\ OpenIsThere'
  BY <1>2 DEF DiscoveryInv, PassesVetted, OpenIsThere, FeedChanges, fileVars, files
<1>6. OnlyVetted'
  BY <1>2 DEF DiscoveryInv, OnlyVetted, FeedChanges, witnessVars
<1> QED
  BY <1>2, <1>3, <1>4, <1>5, <1>6 DEF DiscoveryInv, FeedOffered

\* What a vetted file gives the witness.
LEMMA EffectiveVetted ==
    ASSUME NEW list \in Lists, Kept(list)
    PROVE  /\ Effective(Manual, list) \in Lists
           /\ \A o \in Origins :
                  IF Manual[o] # {} THEN Effective(Manual, list)[o] = Manual[o]
                  ELSE \/ Effective(Manual, list)[o] = {}
                       \/ \E set \in offered : Effective(Manual, list)[o] = set[o]
<1>1. Manual \in [Origins -> SUBSET Keys] /\ list \in [Origins -> SUBSET Keys]
  BY Constants DEF Lists
<1>2. Effective(Manual, list) = [o \in Origins |-> IF Manual[o] # {} THEN Manual[o] ELSE list[o]]
  BY <1>1 DEF Effective
<1> QED
  BY <1>1, <1>2 DEF Lists, Kept

LEMMA InvLoad ==
    ASSUME DiscoveryInv, Load
    PROVE  DiscoveryInv'
<1> DEFINE list == IF managed = NoFile THEN NoLogs ELSE managed
<1>1. list \in Lists /\ Kept(list)
  BY Constants DEF DiscoveryInv, DiscoveryTypeOK, FilesVetted, Vetted, Kept, Contents, Load, NoLogs
<1>2. logs' = Effective(Manual, list) /\ status' = "loaded"
  BY DEF Load
<1>3. logs' \in Lists
  BY <1>1, <1>2, EffectiveVetted
<1>4. DiscoveryTypeOK'
  BY <1>2, <1>3 DEF DiscoveryInv, DiscoveryTypeOK, Load, feedVars, fileVars, files
<1>5. FeedOffered' /\ FilesVetted' /\ PassesVetted'
  BY FeedKept, FilesKept, PassesKept DEF DiscoveryInv, Load, fileVars
<1>6. OpenIsThere'
  BY DEF DiscoveryInv, OpenIsThere, Load, fileVars, files
<1>7. OnlyVetted'
  <2>1. offered' = offered
    BY DEF Load, feedVars
  <2> QED
    BY <1>1, <1>2, <2>1, EffectiveVetted DEF OnlyVetted
<1> QED
  BY <1>4, <1>5, <1>6, <1>7 DEF DiscoveryInv

LEMMA InvServe ==
    ASSUME DiscoveryInv, Serve
    PROVE  DiscoveryInv'
<1>1. DiscoveryTypeOK' /\ OnlyVetted' /\ OpenIsThere'
  BY DEF DiscoveryInv, DiscoveryTypeOK, OnlyVetted, OpenIsThere, Serve, feedVars, fileVars, files
<1>2. FeedOffered' /\ FilesVetted' /\ PassesVetted'
  BY FeedKept, FilesKept, PassesKept DEF DiscoveryInv, Serve, fileVars
<1> QED
  BY <1>1, <1>2 DEF DiscoveryInv

LEMMA InvKills ==
    ASSUME DiscoveryInv, KillWitness \/ \E p \in Passes : KillOneShot(p)
    PROVE  DiscoveryInv'
<1>1. CASE KillWitness
  <2>1. UNCHANGED feedVars /\ UNCHANGED files /\ EndPass(Poller, {}) /\ Stop
    BY <1>1 DEF KillWitness
  <2>2. faultsLeft' \in 0..scenario.maxFaults
    BY <1>1, FaultType DEF DiscoveryInv, KillWitness
  <2> QED
    BY <2>1, <2>2, OnlyEnds
<1>2. ASSUME NEW p \in Passes, KillOneShot(p) PROVE DiscoveryInv'
  <2>1. UNCHANGED feedVars /\ UNCHANGED files /\ EndPass(p, {}) /\ UNCHANGED witnessVars
    BY <1>2 DEF KillOneShot
  <2>2. faultsLeft' \in 0..scenario.maxFaults
    BY <1>2, FaultType DEF DiscoveryInv, KillOneShot
  <2> QED
    BY <2>1, <2>2, OnlyEnds
<1> QED
  BY <1>1, <1>2

LEMMA InvLoseFile ==
    ASSUME DiscoveryInv, LoseFile
    PROVE  DiscoveryInv'
<1>1. faultsLeft' \in 0..scenario.maxFaults
  BY FaultType DEF DiscoveryInv, LoseFile
<1>2. DiscoveryTypeOK'
  BY <1>1 DEF DiscoveryInv, DiscoveryTypeOK, LoseFile, Contents, feedVars, witnessVars
<1>3. FeedOffered' /\ PassesVetted' /\ OnlyVetted'
  BY FeedKept, PassesKept, WitnessKept DEF DiscoveryInv, LoseFile
<1>4. FilesVetted'
  BY DEF DiscoveryInv, FilesVetted, Vetted, Kept, LoseFile, feedVars
<1>5. OpenIsThere'
  BY DEF DiscoveryInv, DiscoveryTypeOK, OpenIsThere, LoseFile
<1> QED
  BY <1>2, <1>3, <1>4, <1>5 DEF DiscoveryInv

LEMMA InvWriteBack ==
    ASSUME DiscoveryInv, WriteBack
    PROVE  DiscoveryInv'
<1>1. lasting' \in [managed : Contents, etag : Tags] /\ Vetted(lasting.managed)'
  <2>1. lasting \in [managed : Contents, etag : Tags] /\ Vetted(lasting.managed)
        /\ managed \in Contents /\ Vetted(managed) /\ etag \in Tags /\ offered' = offered
    BY DEF DiscoveryInv, DiscoveryTypeOK, FilesVetted, WriteBack, feedVars
  <2>2. ASSUME NEW content \in {managed, Corrupt}, lasting' = [lasting EXCEPT !.managed = content]
        PROVE  lasting' \in [managed : Contents, etag : Tags] /\ Vetted(lasting.managed)'
    <3>1. content \in Contents /\ Vetted(content)
      BY <2>1, <2>2 DEF Contents, Vetted
    <3>2. lasting'.managed = content
      BY <2>1, <2>2
    <3> QED
      BY <2>1, <2>2, <3>1, <3>2 DEF Vetted, Kept
  <2>3. ASSUME NEW tag \in {etag, NoTag}, lasting' = [lasting EXCEPT !.etag = tag]
        PROVE  lasting' \in [managed : Contents, etag : Tags] /\ Vetted(lasting.managed)'
    <3>1. tag \in Tags /\ lasting'.managed = lasting.managed
      BY <2>1, <2>3 DEF Tags
    <3> QED
      BY <2>1, <2>3, <3>1 DEF Vetted, Kept
  <2> QED
    BY <2>2, <2>3 DEF WriteBack
<1>2. DiscoveryTypeOK'
  BY <1>1 DEF DiscoveryInv, DiscoveryTypeOK, WriteBack, feedVars, witnessVars
<1>3. FeedOffered' /\ PassesVetted' /\ OnlyVetted'
  BY FeedKept, PassesKept, WitnessKept DEF DiscoveryInv, WriteBack
<1>4. FilesVetted' /\ OpenIsThere'
  BY <1>1 DEF DiscoveryInv, FilesVetted, OpenIsThere, Vetted, Kept, WriteBack, feedVars
<1> QED
  BY <1>2, <1>3, <1>4 DEF DiscoveryInv

LEMMA InvPowerLoss ==
    ASSUME DiscoveryInv, PowerLoss
    PROVE  DiscoveryInv'
<1>1. faultsLeft' \in 0..scenario.maxFaults
  BY FaultType DEF DiscoveryInv, PowerLoss
<1>2. /\ pass' \in [Passes -> Pass]
      /\ fd' \in [Passes -> {"none", "temp", "managed", "unlinked"}]
  BY PassEnds DEF DiscoveryInv, PowerLoss
<1>3. managed' \in Contents /\ temp' \in Contents /\ etag' \in Tags
  BY DEF DiscoveryInv, DiscoveryTypeOK, PowerLoss, Contents
<1>4. status' = "down" /\ logs' \in Lists
  BY Constants DEF PowerLoss, Stop
<1>5. DiscoveryTypeOK'
  BY <1>1, <1>2, <1>3, <1>4 DEF DiscoveryInv, DiscoveryTypeOK, PowerLoss, feedVars
<1>6. FeedOffered' /\ OnlyVetted'
  BY FeedKept, WitnessKept DEF DiscoveryInv, PowerLoss
<1>7. FilesVetted'
  BY DEF DiscoveryInv, FilesVetted, Vetted, Kept, PowerLoss, feedVars
<1>8. PassesVetted'
  BY PassesEnd DEF PowerLoss
<1>9. OpenIsThere'
  BY DEF OpenIsThere, PowerLoss, EndPass, Passes
<1> QED
  BY <1>5, <1>6, <1>7, <1>8, <1>9 DEF DiscoveryInv

-----------------------------------------------------------------------------
(***************************************************************************)
(* The steps of a pass.                                                    *)
(***************************************************************************)
LEMMA InvBegin ==
    ASSUME DiscoveryInv, NEW p \in Passes, Begin(p)
    PROVE  DiscoveryInv'
<1> DEFINE tag == IF managed = NoFile THEN NoTag ELSE etag
<1>1. tag \in Tags
  BY DEF DiscoveryInv, DiscoveryTypeOK, Tags
<1>2. IdlePass \in [stage : {"idle"}, set : {NoLogs}, tag : Tags, updated : {FALSE}]
  BY DEF IdlePass, Tags
<1>3. [IdlePass EXCEPT !.stage = "request", !.tag = tag]
          \in [stage : {"request"}, set : {NoLogs}, tag : Tags, updated : {FALSE}]
  BY <1>1, <1>2
<1>4. pass' \in [Passes -> Pass] /\ pass'[p].stage = "request"
      /\ \A q \in Passes : q # p => pass'[q] = pass[q]
  <2>1. pass \in [Passes -> Pass] /\ pass[p] = IdlePass
    BY DEF DiscoveryInv, DiscoveryTypeOK, Begin
  <2>2. pass' = [pass EXCEPT ![p] = [pass[p] EXCEPT !.stage = "request", !.tag = tag]]
    BY <2>1 DEF Begin
  <2>3. pass' = [pass EXCEPT ![p] = [IdlePass EXCEPT !.stage = "request", !.tag = tag]]
    BY <2>1, <2>2
  <2>4. [IdlePass EXCEPT !.stage = "request", !.tag = tag] \in Pass
    BY <1>3 DEF Pass
  <2> QED
    BY <1>3, <2>1, <2>3, <2>4
<1>5. PassesVetted'
  BY <1>4 DEF DiscoveryInv, PassesVetted, Begin, feedVars
<1>6. faultsLeft' \in 0..scenario.maxFaults
  BY DEF Begin, DiscoveryInv, DiscoveryTypeOK
<1> QED
  BY <1>4, <1>5, <1>6, OnlyGoes DEF Begin

LEMMA InvReceive ==
    ASSUME DiscoveryInv, NEW p \in Passes, Receive(p)
    PROVE  DiscoveryInv'
<1>1. PICK tag \in {feed, NoTag} :
          pass' = [pass EXCEPT ![p] = [stage |-> "compare", set |-> feed, tag |-> tag,
                                       updated |-> FALSE]]
  BY DEF Receive
<1>2. feed \in FeedSets /\ feed \in offered /\ tag \in Tags
  BY DEF Receive, DiscoveryInv, DiscoveryTypeOK, FeedOffered, Tags
<1>3. [stage |-> "compare", set |-> feed, tag |-> tag, updated |-> FALSE] \in Pass
  BY <1>2 DEF Pass
<1>4. pass' \in [Passes -> Pass] /\ pass'[p].set = feed
      /\ \A q \in Passes : q # p => pass'[q] = pass[q]
  BY <1>1, <1>3 DEF DiscoveryInv, DiscoveryTypeOK
<1>5. PassesVetted'
  BY <1>2, <1>4 DEF DiscoveryInv, PassesVetted, Receive, feedVars
<1>6. faultsLeft' \in 0..scenario.maxFaults
  BY DEF Receive, DiscoveryInv, DiscoveryTypeOK
<1> QED
  BY <1>4, <1>5, <1>6, OnlyGoes DEF Receive

\* The steps after which a pass is over and nothing else has changed, but for the
\* witness that the script restarts.
LEMMA InvEnds ==
    ASSUME DiscoveryInv, NEW p \in Passes,
           \/ NotModified(p) \/ RequestFails(p) \/ CompareFails(p) \/ RenameFails(p)
           \/ Unchanged(p) \/ Exit10(p)
    PROVE  DiscoveryInv'
<1>1. faultsLeft' \in 0..scenario.maxFaults
  <2>1. UNCHANGED faultsLeft \/ Fault("feed_down")
    BY DEF NotModified, RequestFails, CompareFails, RenameFails, Unchanged, Exit10
  <2> QED
    BY <2>1, FaultType DEF DiscoveryInv, DiscoveryTypeOK, NotModified, RequestFails
<1>2. UNCHANGED feedVars /\ UNCHANGED files
  BY DEF NotModified, RequestFails, CompareFails, RenameFails, Unchanged, Exit10
<1>3. CASE ~Exit10(p)
  <2>1. EndPass(p, {}) /\ UNCHANGED witnessVars
    BY <1>3 DEF NotModified, RequestFails, CompareFails, RenameFails, Unchanged, Fails
  <2> QED
    BY <1>1, <1>2, <2>1, OnlyEnds
<1>4. CASE Exit10(p) /\ "timer" \in scenario.setup
  <2>1. EndPass(p, {Poller}) /\ Stop
    BY <1>4 DEF Exit10
  <2> QED
    BY <1>1, <1>2, <2>1, OnlyEnds
<1>5. CASE Exit10(p) /\ "timer" \notin scenario.setup
  <2>1. EndPass(p, {}) /\ UNCHANGED witnessVars
    BY <1>5 DEF Exit10
  <2> QED
    BY <1>1, <1>2, <2>1, OnlyEnds
<1> QED
  BY <1>3, <1>4, <1>5

LEMMA InvCompare ==
    ASSUME DiscoveryInv, NEW p \in Passes, Compare(p)
    PROVE  DiscoveryInv'
<1> DEFINE stage == IF managed = pass[p].set THEN "etag" ELSE "create"
<1>1. pass[p].stage = "compare" /\ pass[p].updated = FALSE
  BY PassForm DEF DiscoveryInv, DiscoveryTypeOK, Compare
<1>2. UNCHANGED feedVars /\ Goes(p, stage) /\ stage \in {"etag", "create"}
  BY DEF Compare
<1>3. pass' \in [Passes -> Pass] /\ PassesVetted'
  <2> HIDE DEF stage
  <2> QED
    BY <1>1, <1>2, PassesGo
<1>4. faultsLeft' \in 0..scenario.maxFaults
  BY DEF Compare, DiscoveryInv, DiscoveryTypeOK
<1> QED
  BY <1>2, <1>3, <1>4, OnlyGoes DEF Compare

LEMMA InvSaveEtag ==
    ASSUME DiscoveryInv, NEW p \in Passes, SaveEtag(p) \/ SaveEtagFails(p)
    PROVE  DiscoveryInv'
<1>1. pass[p].stage = "etag" /\ UNCHANGED feedVars /\ Goes(p, "finish")
  BY DEF SaveEtag, SaveEtagFails
<1>2. pass' \in [Passes -> Pass] /\ PassesVetted'
  BY <1>1, PassesGo
<1>3. faultsLeft' \in 0..scenario.maxFaults
  <2>1. UNCHANGED faultsLeft \/ Fault("etag_lost")
    BY DEF SaveEtag, SaveEtagFails
  <2> QED
    BY <2>1, FaultType DEF DiscoveryInv, DiscoveryTypeOK, SaveEtag
<1>4. CASE SaveEtag(p)
  <2>1. pass[p].tag \in Tags
    BY PassForm DEF DiscoveryInv, DiscoveryTypeOK
  <2>2. DiscoveryTypeOK'
    BY <1>2, <1>3, <1>4, <2>1
       DEF DiscoveryInv, DiscoveryTypeOK, SaveEtag, feedVars, witnessVars
  <2>3. FeedOffered' /\ OnlyVetted'
    BY <1>4, FeedKept, WitnessKept DEF DiscoveryInv, SaveEtag
  <2>4. FilesVetted' /\ OpenIsThere'
    BY <1>4 DEF DiscoveryInv, FilesVetted, Vetted, Kept, OpenIsThere, SaveEtag, feedVars
  <2> QED
    BY <1>2, <2>2, <2>3, <2>4 DEF DiscoveryInv
<1>5. CASE SaveEtagFails(p)
  BY <1>2, <1>3, <1>5, OnlyGoes DEF SaveEtagFails
<1> QED
  BY <1>4, <1>5

LEMMA InvCreate ==
    ASSUME DiscoveryInv, NEW p \in Passes, Create(p)
    PROVE  DiscoveryInv'
<1>1. pass[p].stage = "create" /\ pass[p].updated = FALSE
  BY PassForm DEF DiscoveryInv, DiscoveryTypeOK, Create
<1>2. pass' \in [Passes -> Pass] /\ PassesVetted'
  BY <1>1, PassesGo DEF Create
<1>3. temp' = NoLogs /\ NoLogs \in Lists /\ NoLogs # NoFile
  BY Constants DEF Create
<1>4. DiscoveryTypeOK'
  <2>1. temp' \in Contents
    BY <1>3 DEF Contents
  <2>2. /\ fd' \in [Passes -> {"none", "temp", "managed", "unlinked"}]
        /\ dirty' \subseteq {"temp", "managed"}
    BY DEF DiscoveryInv, DiscoveryTypeOK, Create
  <2> QED
    BY <1>2, <2>1, <2>2 DEF DiscoveryInv, DiscoveryTypeOK, Create, feedVars, witnessVars
<1>5. FeedOffered' /\ OnlyVetted'
  BY FeedKept, WitnessKept DEF DiscoveryInv, Create
<1>6. FilesVetted'
  <2>1. Vetted(temp)'
    BY <1>3 DEF Vetted, Kept, NoLogs
  <2> QED
    BY <2>1 DEF DiscoveryInv, FilesVetted, Vetted, Kept, Create, feedVars
<1>7. OpenIsThere'
  BY <1>3 DEF DiscoveryInv, DiscoveryTypeOK, OpenIsThere, Create
<1> QED
  BY <1>2, <1>4, <1>5, <1>6, <1>7 DEF DiscoveryInv

LEMMA InvWrite ==
    ASSUME DiscoveryInv, NEW p \in Passes, Write(p)
    PROVE  DiscoveryInv'
<1>1. /\ pass[p].stage = "write" /\ pass[p].updated = FALSE
      /\ pass[p].set \in FeedSets /\ pass[p].set \in offered
  BY PassForm DEF DiscoveryInv, DiscoveryTypeOK, PassesVetted, Write
<1>2. pass' \in [Passes -> Pass] /\ PassesVetted'
  BY <1>1, PassesGo DEF Write
<1>3. temp' \in Contents /\ Vetted(temp') /\ (temp # NoFile => temp' # NoFile)
  <2>1. CASE fd[p] = "temp"
    BY <1>1, <2>1, OverwrittenVetted
       DEF DiscoveryInv, DiscoveryTypeOK, FilesVetted, OpenIsThere, Write
  <2>2. CASE fd[p] # "temp"
    BY <2>2 DEF DiscoveryInv, DiscoveryTypeOK, FilesVetted, Write
  <2> QED
    BY <2>1, <2>2
<1>4. managed' \in Contents /\ Vetted(managed') /\ (managed # NoFile => managed' # NoFile)
  <2>1. CASE fd[p] = "managed"
    BY <1>1, <2>1, OverwrittenVetted
       DEF DiscoveryInv, DiscoveryTypeOK, FilesVetted, OpenIsThere, Write
  <2>2. CASE fd[p] # "managed"
    BY <2>2 DEF DiscoveryInv, DiscoveryTypeOK, FilesVetted, Write
  <2> QED
    BY <2>1, <2>2
<1>5. DiscoveryTypeOK'
  BY <1>2, <1>3, <1>4 DEF DiscoveryInv, DiscoveryTypeOK, Write, feedVars, witnessVars
<1>6. FeedOffered' /\ OnlyVetted'
  BY FeedKept, WitnessKept DEF DiscoveryInv, Write
<1>7. FilesVetted'
  BY <1>3, <1>4 DEF DiscoveryInv, FilesVetted, Vetted, Kept, Write, feedVars
<1>8. OpenIsThere'
  BY <1>3, <1>4 DEF DiscoveryInv, OpenIsThere, Write
<1> QED
  BY <1>2, <1>5, <1>6, <1>7, <1>8 DEF DiscoveryInv

LEMMA InvWriteFails ==
    ASSUME DiscoveryInv, NEW p \in Passes, WriteFails(p)
    PROVE  DiscoveryInv'
<1>1. IdlePass \in Pass /\ IdlePass.stage = "idle"
  BY DEF Pass, IdlePass
<1>2. faultsLeft' \in 0..scenario.maxFaults
  BY FaultType DEF DiscoveryInv, WriteFails
<1>3. DiscoveryTypeOK'
  BY <1>1, <1>2 DEF DiscoveryInv, DiscoveryTypeOK, Contents, WriteFails, feedVars, witnessVars
<1>4. FeedOffered' /\ OnlyVetted'
  BY FeedKept, WitnessKept DEF DiscoveryInv, WriteFails
<1>5. FilesVetted'
  BY DEF DiscoveryInv, FilesVetted, Vetted, Kept, WriteFails, feedVars
<1>6. PassesVetted'
  BY <1>1 DEF DiscoveryInv, DiscoveryTypeOK, PassesVetted, WriteFails, feedVars
<1>7. OpenIsThere'
  BY DEF DiscoveryInv, DiscoveryTypeOK, OpenIsThere, WriteFails
<1> QED
  BY <1>3, <1>4, <1>5, <1>6, <1>7 DEF DiscoveryInv

LEMMA InvRename ==
    ASSUME DiscoveryInv, NEW p \in Passes, Rename(p)
    PROVE  DiscoveryInv'
<1> DEFINE next == [pass[p] EXCEPT !.stage = "etag", !.updated = TRUE]
<1>1. /\ pass[p] \in [stage : {"rename"}, set : FeedSets, tag : Tags, updated : {FALSE}]
      /\ pass[p].set \in offered
  <2>1. pass \in [Passes -> Pass] /\ pass[p].stage = "rename" /\ pass[p].set \in offered
    BY DEF DiscoveryInv, DiscoveryTypeOK, PassesVetted, Rename
  <2>2. pass[p] \in [stage : {"rename"}, set : FeedSets, tag : Tags, updated : {FALSE}]
    <3>1. /\ pass[p] = [stage |-> pass[p].stage, set |-> pass[p].set, tag |-> pass[p].tag,
                        updated |-> pass[p].updated]
          /\ pass[p].set \in FeedSets /\ pass[p].tag \in Tags /\ pass[p].updated = FALSE
      BY <2>1, PassForm
    <3> QED
      BY <2>1, <3>1
  <2> QED
    BY <2>1, <2>2
<1>2. next \in [stage : {"etag"}, set : FeedSets, tag : Tags, updated : {TRUE}]
      /\ next.set \in offered
  BY <1>1
<1>3. pass' \in [Passes -> Pass] /\ pass'[p] = next
      /\ \A q \in Passes : q # p => pass'[q] = pass[q]
  <2>1. pass \in [Passes -> Pass] /\ next \in Pass
    BY <1>2 DEF DiscoveryInv, DiscoveryTypeOK, Pass
  <2>2. pass' = [pass EXCEPT ![p] = next]
    BY <2>1 DEF Rename
  <2> HIDE DEF next
  <2> QED
    BY <2>1, <2>2
<1>4. PassesVetted'
  <2> HIDE DEF next
  <2> QED
    BY <1>2, <1>3 DEF DiscoveryInv, PassesVetted, Rename, feedVars
<1>5. DiscoveryTypeOK'
  BY <1>3 DEF DiscoveryInv, DiscoveryTypeOK, Contents, Rename, feedVars, witnessVars
<1>6. FeedOffered' /\ OnlyVetted'
  BY FeedKept, WitnessKept DEF DiscoveryInv, Rename
<1>7. FilesVetted'
  BY DEF DiscoveryInv, FilesVetted, Vetted, Kept, Rename, feedVars
<1>8. OpenIsThere'
  BY DEF DiscoveryInv, DiscoveryTypeOK, OpenIsThere, Rename
<1> QED
  BY <1>4, <1>5, <1>6, <1>7, <1>8 DEF DiscoveryInv

LEMMA InvApply ==
    ASSUME DiscoveryInv, Apply
    PROVE  DiscoveryInv'
<1> DEFINE list == pass[Poller].set
<1>1. list \in FeedSets /\ list \in offered
  BY Constants, PassForm DEF DiscoveryInv, DiscoveryTypeOK, PassesVetted, Apply, Done
<1>2. list \in Lists /\ Kept(list)
  BY <1>1, Constants DEF Kept
<1>3. logs' = Effective(Manual, list) /\ UNCHANGED feedVars /\ UNCHANGED files
      /\ EndPass(Poller, {}) /\ UNCHANGED <<status, faultsLeft>>
  BY DEF Apply
<1>4. DiscoveryTypeOK'
  <2>1. /\ pass' \in [Passes -> Pass]
        /\ fd' \in [Passes -> {"none", "temp", "managed", "unlinked"}]
    BY <1>3, PassEnds DEF DiscoveryInv
  <2>2. logs' \in Lists
    BY <1>2, <1>3, EffectiveVetted
  <2> QED
    BY <1>3, <2>1, <2>2 DEF DiscoveryInv, DiscoveryTypeOK, feedVars, files
<1>5. FeedOffered' /\ FilesVetted' /\ PassesVetted' /\ OpenIsThere'
  BY <1>3, FeedKept, FilesKept, PassesEnd DEF DiscoveryInv
<1>6. OnlyVetted'
  <2>1. offered' = offered
    BY <1>3 DEF feedVars
  <2> HIDE DEF list
  <2> QED
    BY <1>2, <1>3, <2>1, EffectiveVetted DEF OnlyVetted
<1> QED
  BY <1>4, <1>5, <1>6 DEF DiscoveryInv

LEMMA InvUnchanged ==
    ASSUME DiscoveryInv, UNCHANGED vars
    PROVE  DiscoveryInv'
<1>1. DiscoveryTypeOK'
  BY DEF DiscoveryInv, DiscoveryTypeOK, vars, feedVars, fileVars, files, witnessVars
<1>2. FeedOffered' /\ FilesVetted' /\ PassesVetted' /\ OnlyVetted'
  BY FeedKept, FilesKept, PassesKept, WitnessKept DEF DiscoveryInv, vars, fileVars
<1>3. OpenIsThere'
  BY DEF DiscoveryInv, OpenIsThere, vars, fileVars, files
<1> QED
  BY <1>1, <1>2, <1>3 DEF DiscoveryInv

-----------------------------------------------------------------------------
\* Each step keeps the invariant: also the steps of a system that has discovery as
\* one of its parts.
LEMMA DiscoveryInvStep == DiscoveryInv /\ [DiscoveryNext]_vars => DiscoveryInv'
<1> SUFFICES ASSUME DiscoveryInv, [DiscoveryNext]_vars PROVE DiscoveryInv'
  OBVIOUS
<1>1. CASE FeedChanges \/ Load \/ Serve
  BY <1>1, InvFeedChanges, InvLoad, InvServe
<1>2. CASE KillWitness \/ LoseFile \/ WriteBack \/ PowerLoss
  BY <1>2, InvKills, InvLoseFile, InvWriteBack, InvPowerLoss
<1>3. ASSUME NEW p \in Passes, Begin(p) \/ KillOneShot(p) PROVE DiscoveryInv'
  BY <1>3, InvBegin, InvKills
<1>4. ASSUME NEW p \in Passes, SyncStep(p) PROVE DiscoveryInv'
  BY <1>4, InvEnds, InvReceive, InvCompare, InvCreate, InvWrite, InvWriteFails,
     InvRename, InvSaveEtag
     DEF SyncStep
<1>5. ASSUME NEW p \in Passes, (p = Poller /\ Apply) \/ Exit10(p) PROVE DiscoveryInv'
  BY <1>5, InvApply, InvEnds
<1>6. CASE UNCHANGED vars
  BY <1>6, InvUnchanged
<1> QED
  BY <1>1, <1>2, <1>3, <1>4, <1>5, <1>6 DEF DiscoveryNext, PassStep

\* The invariant of any number of passes on the same files, in every deployment and
\* under every fault of the model.
THEOREM DiscoveryInvariant == DiscoverySpec => []DiscoveryInv
  BY InvInit, DiscoveryInvStep, PTL DEF DiscoverySpec

\* Every variable keeps its type: no pass holds anything but a valid set, and the
\* files hold lists, nothing, or what is not TOML.
THEOREM DiscoveryTypeCorrect == DiscoverySpec => []DiscoveryTypeOK
<1>1. DiscoveryInv => DiscoveryTypeOK
  BY DEF DiscoveryInv
<1> QED
  BY <1>1, DiscoveryInvariant, PTL

\* The allowlist of a running witness: a manual stanza decides alone on its origin,
\* any other key was served for that very origin by the feed.
THEOREM OnlyVettedHolds == DiscoverySpec => []OnlyVetted
<1>1. DiscoveryInv => OnlyVetted
  BY DEF DiscoveryInv
<1> QED
  BY <1>1, DiscoveryInvariant, PTL

-----------------------------------------------------------------------------
(***************************************************************************)
(* A single pass at a time.  The temp file is its own then: what it        *)
(* renames is what it wrote and synced.                                    *)
(***************************************************************************)
Deployed(p) ==
    IF p = Poller THEN "poller" \in scenario.setup
    ELSE scenario.setup \intersect {"timer", "by_hand"} # {}

OnlyDeployed == \A p \in Passes : pass[p].stage # "idle" => Deployed(p)

\* What a pass has open, and what it has put there.
TempIsOwn ==
    \A p \in Passes :
        /\ fd[p] = IF pass[p].stage \in {"write", "rename"} THEN "temp" ELSE "none"
        /\ pass[p].stage = "write" => temp = NoLogs
        /\ pass[p].stage = "rename" => temp = pass[p].set /\ "temp" \notin dirty

FilesWhole ==
    /\ managed \in offered \union {NoFile}
    /\ lasting.managed \in offered \union {NoFile}
    /\ "managed" \notin dirty

\* A pass that has renamed its file finds its set in the managed file.
RenamedIsThere ==
    \A p \in Passes : pass[p].updated => managed \in {pass[p].set, NoFile}

\* What the witness runs on differs from its file only while a pass brings it over.
\* A `sync` that is killed then would leave it so.
Followed ==
    scenario.setup = {"poller"} \/ "kill" \notin scenario.faults => MemoryMatchesFile

AlonePart == TempIsOwn /\ FilesWhole /\ RenamedIsThere /\ Followed

AloneInv ==
    /\ OnlyDeployed
    /\ Alone => AlonePart

\* At most one `sync` at a time: the timer's unit does not overlap with itself.
AtMostOneSync == \A p, q \in OneShots : p = q

\* While one pass is under way, all others are idle.
LEMMA OthersIdle ==
    ASSUME AtMostOneSync, DiscoveryTypeOK, OnlyDeployed, Alone,
           NEW p \in Passes, pass[p].stage # "idle",
           NEW q \in Passes, q # p
    PROVE  pass[q] = IdlePass
<1>1. CASE pass[q].stage = "idle"
  BY <1>1, PassForm DEF DiscoveryTypeOK
<1>2. CASE pass[q].stage # "idle"
  BY <1>2 DEF OnlyDeployed, Deployed, Alone, AtMostOneSync, Passes
<1> QED
  BY <1>1, <1>2

\* A pass begins only where the operator has set one up.
LEMMA DeployedStep ==
    ASSUME DiscoveryTypeOK, OnlyDeployed, [DiscoveryNext]_vars
    PROVE  OnlyDeployed' /\ scenario' = scenario
<1>1. CASE FeedChanges \/ Load \/ Serve \/ LoseFile \/ WriteBack \/ UNCHANGED vars
  BY <1>1 DEF FeedChanges, Load, Serve, LoseFile, WriteBack, vars, feedVars, OnlyDeployed, Deployed
<1>2. CASE KillWitness \/ PowerLoss
  BY <1>2 DEF KillWitness, PowerLoss, EndPass, IdlePass, feedVars, OnlyDeployed, Deployed
<1>3. ASSUME NEW p \in Passes, Begin(p) PROVE OnlyDeployed' /\ scenario' = scenario
  <2>1. Deployed(p) /\ scenario' = scenario
    BY <1>3 DEF Begin, MayBegin, Deployed, feedVars
  <2>2. \A q \in Passes : q # p => pass'[q] = pass[q]
    BY <1>3 DEF Begin, DiscoveryTypeOK
  <2> QED
    BY <2>1, <2>2 DEF OnlyDeployed, Deployed
<1>4. ASSUME NEW p \in Passes, PassStep(p) \/ KillOneShot(p)
      PROVE  OnlyDeployed' /\ scenario' = scenario
  <2>1. scenario' = scenario
    BY <1>4 DEF PassStep, SyncStep, NotModified, Receive, RequestFails, Compare, CompareFails,
       Create, Write, WriteFails, Rename, RenameFails, SaveEtag, SaveEtagFails, Unchanged, Apply,
       Exit10, KillOneShot, feedVars
  <2>2. ASSUME NEW q \in Passes, pass'[q].stage # "idle"
        PROVE  pass[q].stage # "idle"
    <3>1. CASE NotModified(p) \/ RequestFails(p) \/ CompareFails(p) \/ RenameFails(p)
               \/ Unchanged(p) \/ Apply \/ Exit10(p) \/ KillOneShot(p)
      BY <2>2, <3>1 DEF NotModified, RequestFails, CompareFails, RenameFails, Unchanged, Apply,
         Exit10, KillOneShot, Fails, EndPass, IdlePass
    <3>2. CASE Receive(p)
      BY <2>2, <3>2 DEF Receive, DiscoveryTypeOK
    <3>3. CASE WriteFails(p) \/ Rename(p)
      BY <2>2, <3>3 DEF WriteFails, Rename, DiscoveryTypeOK
    <3>4. CASE Compare(p) \/ Create(p) \/ Write(p) \/ SaveEtag(p) \/ SaveEtagFails(p)
      BY <2>2, <3>4 DEF Compare, Create, Write, SaveEtag, SaveEtagFails, Goes, DiscoveryTypeOK
    <3> QED
      BY <1>4, <3>1, <3>2, <3>3, <3>4 DEF PassStep, SyncStep
  <2> QED
    BY <2>1, <2>2 DEF OnlyDeployed, Deployed
<1> QED
  BY <1>1, <1>2, <1>3, <1>4 DEF DiscoveryNext

\* A step beside the passes, that leaves the files as they are.
LEMMA AloneQuiet ==
    ASSUME AlonePart, UNCHANGED <<scenario, managed, temp, dirty, lasting, fd, pass>>,
           offered \subseteq offered',
           UNCHANGED logs /\ (status' = "down" \/ status # "down")
    PROVE  AlonePart'
  BY DEF AlonePart, TempIsOwn, FilesWhole, RenamedIsThere, Followed, MemoryMatchesFile, Alone

\* Passes end, and what the witness runs on is what they have left.
LEMMA AloneEnds ==
    ASSUME DiscoveryTypeOK, AlonePart, NEW p, NEW end, EndPass(p, end),
           UNCHANGED <<feedVars, files>>,
           \/ Stop
           \/ UNCHANGED witnessVars /\ \A q \in Passes \intersect ({p} \union end) : ~pass[q].updated
           \/ logs' = Effective(Manual, managed) \/ managed = NoFile
           \/ scenario.setup # {"poller"} /\ "kill" \in scenario.faults
    PROVE  AlonePart'
<1>1. \A q \in Passes : \/ pass'[q] = IdlePass /\ fd'[q] = "none" /\ q \in {p} \union end
                        \/ pass'[q] = pass[q] /\ fd'[q] = fd[q]
  BY DEF EndPass
<1>2. IdlePass.stage = "idle" /\ IdlePass.updated = FALSE
  BY DEF IdlePass
<1>3. TempIsOwn' /\ FilesWhole' /\ RenamedIsThere'
  BY <1>1, <1>2 DEF AlonePart, TempIsOwn, FilesWhole, RenamedIsThere, feedVars, files
<1>4. Followed'
  BY <1>1, <1>2 DEF AlonePart, Followed, MemoryMatchesFile, Alone, Stop, feedVars, files, witnessVars
<1> QED
  BY <1>3, <1>4 DEF AlonePart

\* The steps beside the passes, and those that end one.
LEMMA AloneBeside ==
    ASSUME AtMostOneSync, DiscoveryInv, AloneInv, Alone,
           \/ FeedChanges \/ Load \/ Serve \/ LoseFile \/ WriteBack \/ UNCHANGED vars
           \/ KillWitness \/ PowerLoss
    PROVE  AlonePart'
<1>1. AlonePart /\ DiscoveryTypeOK
  BY DEF AloneInv, DiscoveryInv
<1>2. CASE FeedChanges \/ Serve \/ UNCHANGED vars
  BY <1>1, <1>2, AloneQuiet DEF FeedChanges, Serve, vars, feedVars, fileVars, files, witnessVars
<1>3. CASE Load
  <2>1. TempIsOwn' /\ FilesWhole' /\ RenamedIsThere'
    BY <1>1, <1>3 DEF AlonePart, TempIsOwn, FilesWhole, RenamedIsThere, Load, feedVars, fileVars, files
  <2>2. Followed'
    BY <1>3 DEF Followed, MemoryMatchesFile, Load, feedVars, fileVars, files
  <2> QED
    BY <2>1, <2>2 DEF AlonePart
<1>4. CASE LoseFile
  BY <1>1, <1>4 DEF AlonePart, TempIsOwn, FilesWhole, RenamedIsThere, Followed, MemoryMatchesFile,
     LoseFile, feedVars
<1>5. CASE WriteBack
  <2>1. lasting'.managed \in offered \union {NoFile}
    <3>1. "managed" \notin dirty
      BY <1>1 DEF AlonePart, FilesWhole
    <3>2. \/ lasting' = [lasting EXCEPT !.managed = managed]
          \/ \E tag : lasting' = [lasting EXCEPT !.etag = tag]
      BY <1>5, <3>1 DEF WriteBack
    <3> QED
      BY <1>1, <3>2 DEF AlonePart, FilesWhole, DiscoveryTypeOK
  <2> QED
    BY <1>1, <1>5, <2>1 DEF AlonePart, TempIsOwn, FilesWhole, RenamedIsThere, Followed,
       MemoryMatchesFile, Alone, WriteBack, feedVars, witnessVars
<1>6. CASE KillWitness
  BY <1>1, <1>6, AloneEnds DEF KillWitness
<1>7. CASE PowerLoss
  <2>1. \A q \in Passes : pass'[q] = IdlePass /\ fd'[q] = "none"
    BY <1>7 DEF PowerLoss, EndPass, Passes
  <2> QED
    BY <1>1, <1>7, <2>1 DEF AlonePart, TempIsOwn, FilesWhole, RenamedIsThere, Followed,
       MemoryMatchesFile, PowerLoss, Stop, IdlePass, feedVars
<1> QED
  BY <1>2, <1>3, <1>4, <1>5, <1>6, <1>7

\* The steps with which a pass is over.
LEMMA AloneOver ==
    ASSUME AtMostOneSync, DiscoveryInv, AloneInv, Alone, NEW p \in Passes,
           \/ NotModified(p) \/ RequestFails(p) \/ CompareFails(p) \/ RenameFails(p)
           \/ Unchanged(p) \/ (p = Poller /\ Apply) \/ Exit10(p) \/ KillOneShot(p)
    PROVE  AlonePart'
<1>1. AlonePart /\ DiscoveryTypeOK /\ OnlyDeployed
  BY DEF AloneInv, DiscoveryInv
<1>2. pass[p] \in Pass
  BY <1>1 DEF DiscoveryTypeOK
<1>3. pass[p].stage \in {"request", "compare", "rename"} => pass[p].updated = FALSE
  BY <1>2, PassForm
<1>4. CASE NotModified(p) \/ RequestFails(p) \/ CompareFails(p) \/ RenameFails(p) \/ Unchanged(p)
  <2>1. EndPass(p, {}) /\ UNCHANGED <<feedVars, files>> /\ UNCHANGED witnessVars /\ ~pass[p].updated
    BY <1>3, <1>4 DEF NotModified, RequestFails, CompareFails, RenameFails, Unchanged, Fails
  <2> QED
    BY <1>1, <2>1, AloneEnds
<1>5. CASE p = Poller /\ Apply
  <2>1. managed \in {pass[p].set, NoFile}
    BY <1>1, <1>5 DEF AlonePart, RenamedIsThere, Apply
  <2>2. logs' = Effective(Manual, managed) \/ managed = NoFile
    BY <1>5, <2>1 DEF Apply
  <2> QED
    BY <1>1, <1>5, <2>2, AloneEnds DEF Apply
<1>6. CASE Exit10(p)
  <2>1. "timer" \in scenario.setup
    <3>1. pass[p].stage = "finish" /\ p # Poller
      BY <1>6, DiscoveryAssumption DEF Exit10, Done
    <3> QED
      BY <1>1, <3>1 DEF OnlyDeployed, Deployed, Alone
  <2> QED
    BY <1>1, <1>6, <2>1, AloneEnds DEF Exit10
<1>7. CASE KillOneShot(p)
  <2>1. p # Poller /\ pass[p].stage # "idle"
    BY <1>2, <1>7, PassForm, DiscoveryAssumption DEF KillOneShot
  <2>2. scenario.setup # {"poller"} /\ "kill" \in scenario.faults
    BY <1>1, <1>7, <2>1 DEF OnlyDeployed, Deployed, Alone, KillOneShot, Fault
  <2> QED
    BY <1>1, <1>7, <2>2, AloneEnds DEF KillOneShot
<1> QED
  BY <1>4, <1>5, <1>6, <1>7

\* The steps in which a pass goes on.
LEMMA AloneGoes ==
    ASSUME AtMostOneSync, DiscoveryInv, AloneInv, Alone, NEW p \in Passes,
           \/ Begin(p) \/ Receive(p) \/ Compare(p) \/ Create(p) \/ Write(p) \/ WriteFails(p)
           \/ Rename(p) \/ SaveEtag(p) \/ SaveEtagFails(p)
    PROVE  AlonePart'
<1>1. AlonePart /\ DiscoveryTypeOK /\ OnlyDeployed /\ OpenIsThere /\ PassesVetted
  BY DEF AloneInv, DiscoveryInv
<1>2. /\ pass \in [Passes -> Pass] /\ pass[p] \in Pass
      /\ fd \in [Passes -> {"none", "temp", "managed", "unlinked"}]
  BY <1>1 DEF DiscoveryTypeOK
<1>3. pass[p].stage # "idle" => \A q \in Passes : q # p => pass[q] = IdlePass
  BY <1>1, OthersIdle
<1>4. IdlePass.stage = "idle" /\ IdlePass.updated = FALSE
  BY DEF IdlePass
<1>5. UNCHANGED <<feedVars, witnessVars>>
  BY DEF Begin, Receive, Compare, Create, Write, WriteFails, Rename, SaveEtag, SaveEtagFails
<1>6. CASE Begin(p)
  <2>1. pass'[p].stage = "request" /\ pass'[p].updated = FALSE
        /\ (\A q \in Passes : q # p => pass'[q] = pass[q]) /\ pass[p].updated = FALSE
        /\ UNCHANGED fileVars /\ pass[p].stage = "idle"
    BY <1>2, <1>4, <1>6 DEF Begin, IdlePass
  <2> QED
    BY <1>1, <1>5, <2>1 DEF AlonePart, TempIsOwn, FilesWhole, RenamedIsThere, Followed,
       MemoryMatchesFile, Alone, feedVars, fileVars, files, witnessVars
<1>7. CASE Receive(p)
  <2>1. pass'[p].stage = "compare" /\ pass'[p].updated = FALSE /\ pass[p].stage = "request"
        /\ (\A q \in Passes : q # p => pass'[q] = pass[q]) /\ UNCHANGED fileVars
    BY <1>2, <1>7 DEF Receive
  <2>2. pass[p].updated = FALSE
    BY <1>2, <2>1, PassForm
  <2> QED
    BY <1>1, <1>5, <2>1, <2>2 DEF AlonePart, TempIsOwn, FilesWhole, RenamedIsThere, Followed,
       MemoryMatchesFile, Alone, feedVars, fileVars, files, witnessVars
\* From one stage to the next.
<1>8. ASSUME NEW stage, Goes(p, stage), pass[p].stage # "idle"
      PROVE  /\ pass'[p].stage = stage /\ pass'[p].set = pass[p].set
             /\ pass'[p].updated = pass[p].updated
             /\ \A q \in Passes : q # p => pass'[q] = IdlePass /\ pass[q] = IdlePass
  <2>1. pass'[p] = [pass[p] EXCEPT !.stage = stage] /\ \A q \in Passes : q # p => pass'[q] = pass[q]
    BY <1>2, <1>8 DEF Goes
  <2>2. pass[p] = [stage |-> pass[p].stage, set |-> pass[p].set, tag |-> pass[p].tag,
                   updated |-> pass[p].updated]
    BY <1>2, PassForm
  <2>3. pass'[p] = [stage |-> stage, set |-> pass[p].set, tag |-> pass[p].tag,
                    updated |-> pass[p].updated]
    BY <2>1, <2>2, StageOnly
  <2> QED
    BY <1>3, <1>8, <2>1, <2>3
<1>9. CASE Compare(p) \/ SaveEtag(p) \/ SaveEtagFails(p)
  <2>1. PICK stage \in {"etag", "create", "finish"} : Goes(p, stage)
    BY <1>9 DEF Compare, SaveEtag, SaveEtagFails
  <2>2. pass[p].stage \in {"compare", "etag"} /\ UNCHANGED <<managed, temp, dirty, lasting, fd>>
    BY <1>9 DEF Compare, SaveEtag, SaveEtagFails, fileVars, files
  <2>3. /\ pass'[p].stage = stage /\ pass'[p].set = pass[p].set
        /\ pass'[p].updated = pass[p].updated
        /\ \A q \in Passes : q # p => pass'[q] = IdlePass /\ pass[q] = IdlePass
    BY <1>8, <2>1, <2>2
  <2> QED
    BY <1>1, <1>4, <1>5, <2>2, <2>3 DEF AlonePart, TempIsOwn, FilesWhole, RenamedIsThere, Followed,
       MemoryMatchesFile, Alone, feedVars, witnessVars
<1>10. CASE Create(p)
  <2>1. pass[p].stage = "create" /\ Goes(p, "write") /\ temp' = NoLogs
        /\ fd' = [fd EXCEPT ![p] = "temp"] /\ dirty' = dirty \union {"temp"}
        /\ UNCHANGED <<managed, lasting>>
    BY <1>10 DEF Create
  <2>2. /\ pass'[p].stage = "write" /\ pass'[p].updated = pass[p].updated
        /\ pass'[p].set = pass[p].set
        /\ \A q \in Passes : q # p => pass'[q] = IdlePass /\ pass[q] = IdlePass
    BY <1>8, <2>1
  <2> QED
    BY <1>1, <1>2, <1>4, <1>5, <2>1, <2>2 DEF AlonePart, TempIsOwn, FilesWhole, RenamedIsThere,
       Followed, MemoryMatchesFile, Alone, feedVars, witnessVars
<1>11. CASE Write(p)
  <2>1. pass[p].stage = "write" /\ Goes(p, "rename") /\ UNCHANGED <<lasting, fd>>
        /\ dirty' = dirty \ {fd[p]}
    BY <1>11 DEF Write
  <2>2. fd[p] = "temp" /\ temp = NoLogs
    BY <1>1, <2>1 DEF AlonePart, TempIsOwn
  <2>3. temp' = pass[p].set /\ managed' = managed
    BY <1>11, <2>2 DEF Write, Overwritten
  <2>4. /\ pass'[p].stage = "rename" /\ pass'[p].updated = pass[p].updated
        /\ pass'[p].set = pass[p].set
        /\ \A q \in Passes : q # p => pass'[q] = IdlePass /\ pass[q] = IdlePass
    BY <1>8, <2>1
  <2> QED
    BY <1>1, <1>2, <1>4, <1>5, <2>1, <2>2, <2>3, <2>4 DEF AlonePart, TempIsOwn, FilesWhole,
       RenamedIsThere, Followed, MemoryMatchesFile, Alone, feedVars, witnessVars
<1>12. CASE WriteFails(p)
  <2>1. pass[p].stage \in {"create", "write"}
    BY <1>12 DEF WriteFails
  <2>2. pass[p].updated = FALSE
    BY <1>2, <2>1, PassForm
  <2>3. \A q \in Passes : pass'[q] = IdlePass /\ fd'[q] = "none"
    <3>1. \A q \in Passes : q # p => pass[q] = IdlePass /\ fd[q] = "none"
      BY <1>1, <1>3, <1>4, <2>1 DEF AlonePart, TempIsOwn
    <3> QED
      BY <1>2, <1>12, <3>1 DEF WriteFails
  <2>4. \A q \in Passes : ~pass[q].updated
    BY <1>3, <1>4, <2>1, <2>2
  <2>5. UNCHANGED <<managed, lasting>> /\ dirty' \subseteq dirty
    BY <1>12 DEF WriteFails
  <2> QED
    BY <1>1, <1>4, <1>5, <2>3, <2>4, <2>5 DEF AlonePart, TempIsOwn, FilesWhole,
       RenamedIsThere, Followed, MemoryMatchesFile, Alone, feedVars, witnessVars
<1>13. CASE Rename(p)
  <2>1. pass[p].stage = "rename" /\ temp = pass[p].set /\ "temp" \notin dirty
    BY <1>1, <1>13 DEF Rename, AlonePart, TempIsOwn
  <2>2. managed' = pass[p].set /\ dirty' = {} /\ UNCHANGED lasting
    BY <1>13, <2>1 DEF Rename
  <2>3. pass'[p].stage = "etag" /\ pass'[p].updated = TRUE /\ pass'[p].set = pass[p].set
    <3>1. pass'[p] = [[pass[p] EXCEPT !.stage = "etag"] EXCEPT !.updated = TRUE]
      BY <1>2, <1>13 DEF Rename
    <3>2. pass[p] = [stage |-> pass[p].stage, set |-> pass[p].set, tag |-> pass[p].tag,
                     updated |-> pass[p].updated]
      BY <1>2, PassForm
    <3> QED
      BY <3>1, <3>2
  <2>4. \A q \in Passes : q # p => pass'[q] = IdlePass /\ fd[q] = "none"
    BY <1>1, <1>2, <1>3, <1>4, <1>13, <2>1 DEF Rename, AlonePart, TempIsOwn
  <2>5. \A q \in Passes : fd'[q] = "none"
    BY <1>13, <2>4 DEF Rename
  <2>6. pass[p].set \in offered
    BY <1>1, <2>1 DEF PassesVetted
  <2> QED
    BY <1>1, <1>4, <1>5, <2>2, <2>3, <2>4, <2>5, <2>6 DEF AlonePart, TempIsOwn, FilesWhole,
       RenamedIsThere, Followed, MemoryMatchesFile, Alone, feedVars, witnessVars
<1> QED
  BY <1>6, <1>7, <1>9, <1>10, <1>11, <1>12, <1>13

-----------------------------------------------------------------------------
\* How a witness starts whose allowlist is brought by the poller alone or by the timer
\* alone.
LEMMA AloneInvInit == DiscoveryInit => AloneInv
<1> SUFFICES ASSUME DiscoveryInit PROVE AloneInv
  OBVIOUS
<1>1. \A p \in Passes : pass[p].stage = "idle" /\ ~pass[p].updated /\ fd[p] = "none"
  BY DEF DiscoveryInit, IdlePass
<1>2. managed \in offered \union {NoFile} /\ lasting.managed \in {managed, NoFile}
  BY DEF DiscoveryInit
<1> QED
  BY <1>1, <1>2 DEF DiscoveryInit, AloneInv, OnlyDeployed, AlonePart, TempIsOwn, FilesWhole,
     RenamedIsThere, Followed, MemoryMatchesFile

\* Each step keeps what holds with one pass at a time.
LEMMA AloneInvStep ==
    ASSUME AtMostOneSync, DiscoveryInv, AloneInv, [DiscoveryNext]_vars
    PROVE  AloneInv'
<1>1. OnlyDeployed' /\ scenario' = scenario
  BY DeployedStep DEF DiscoveryInv, AloneInv
<1>2. ASSUME Alone PROVE AlonePart'
  <2>1. CASE FeedChanges \/ Load \/ Serve \/ LoseFile \/ WriteBack \/ UNCHANGED vars
             \/ KillWitness \/ PowerLoss
    BY <1>2, <2>1, AloneBeside
  <2>2. ASSUME NEW p \in Passes, Begin(p) \/ PassStep(p) \/ KillOneShot(p) PROVE AlonePart'
    BY <1>2, <2>2, AloneOver, AloneGoes DEF PassStep, SyncStep
  <2> QED
    BY <2>1, <2>2 DEF DiscoveryNext
<1> QED
  BY <1>1, <1>2 DEF AloneInv, Alone

\* The invariant of a witness whose allowlist is brought by the poller alone or by the
\* timer alone.
THEOREM AloneInvariant ==
    ASSUME AtMostOneSync
    PROVE  DiscoverySpec => [](DiscoveryInv /\ AloneInv)
<1>1. DiscoveryInv /\ AloneInv /\ [DiscoveryNext]_vars => (DiscoveryInv /\ AloneInv)'
  BY AloneInvStep, DiscoveryInvStep
<1>2. DiscoveryInit => DiscoveryInv /\ AloneInv
  BY AloneInvInit, InvInit
<1> QED
  BY <1>1, <1>2, PTL DEF DiscoverySpec

\* With one pass at a time the managed file holds a whole set that the feed has served,
\* whatever fails and also after a power loss.
THEOREM ManagedWasOfferedHolds ==
    ASSUME AtMostOneSync
    PROVE  DiscoverySpec => []ManagedWasOffered
<1>1. DiscoveryInv /\ AloneInv => ManagedWasOffered
  BY DEF AloneInv, AlonePart, FilesWhole, ManagedWasOffered
<1> QED
  BY <1>1, AloneInvariant, PTL

\* What the witness runs on is what its file says, except while a pass brings it over;
\* with the timer, as long as no `sync` is killed, which is how the two come apart.
THEOREM MemoryMatchesFileHolds ==
    ASSUME AtMostOneSync
    PROVE  DiscoverySpec =>
              [](scenario.setup = {"poller"} \/ "kill" \notin scenario.faults => MemoryMatchesFile)
<1>1. DiscoveryInv /\ AloneInv =>
          (scenario.setup = {"poller"} \/ "kill" \notin scenario.faults => MemoryMatchesFile)
  BY DEF AloneInv, AlonePart, Followed, MemoryMatchesFile
<1> QED
  BY <1>1, AloneInvariant, PTL

-----------------------------------------------------------------------------
(***************************************************************************)
(* The ETags.  A conditional request is sent with the ETag of what is in   *)
(* the file, so that a 304 speaks of the file.                             *)
(***************************************************************************)

\* Between the rename and the ETag nothing goes wrong; or the feed never goes back to
\* a set that an old ETag could stand for.
KeepsTags == scenario.faults \intersect {"kill", "etag_lost"} = {} \/ scenario.maxChanges = 0

Settled == scenario.maxChanges = 0

\* Answered with a 304, this ETag leaves the right file; on a settled feed only the
\* feed's own ETag ever is.
Validates(tag) == tag # NoTag /\ (Settled => tag = feed) => managed \in {tag, NoFile}

\* The ETag cache lags behind the file only while a pass is between the two, and a
\* pass brings to both what it received.
TagsTrue ==
    /\ Settled \/ (\A p \in Passes : pass[p].stage # "etag") => Validates(etag)
    /\ \A p \in Passes :
           /\ pass[p].stage = "request" => Validates(pass[p].tag)
           /\ pass[p].stage \notin {"idle", "request"} =>
                  pass[p].tag \in {NoTag, pass[p].set} /\ (Settled => pass[p].set = feed)
           /\ pass[p].stage = "etag" => managed \in {pass[p].set, NoFile}

TagsInv == Alone /\ KeepsPower /\ KeepsTags => TagsTrue

\* Where the other passes idle, a pass that goes to another stage is all that changes.
LEMMA GoesFields ==
    ASSUME DiscoveryTypeOK, NEW p \in Passes, NEW stage, Goes(p, stage)
    PROVE  /\ pass'[p].stage = stage /\ pass'[p].set = pass[p].set /\ pass'[p].tag = pass[p].tag
           /\ \A q \in Passes : q # p => pass'[q] = pass[q]
<1>1. pass \in [Passes -> Pass] /\ pass[p] \in Pass
  BY DEF DiscoveryTypeOK
<1>2. pass'[p] = [pass[p] EXCEPT !.stage = stage] /\ \A q \in Passes : q # p => pass'[q] = pass[q]
  BY <1>1 DEF Goes
<1>3. pass[p] = [stage |-> pass[p].stage, set |-> pass[p].set, tag |-> pass[p].tag,
                 updated |-> pass[p].updated]
  BY <1>1, PassForm
<1>4. pass'[p] = [stage |-> stage, set |-> pass[p].set, tag |-> pass[p].tag,
                  updated |-> pass[p].updated]
  BY <1>2, <1>3, StageOnly
<1> QED
  BY <1>2, <1>4

\* Passes end, and none of them between the rename and the ETag, except on a settled feed.
LEMMA TagsEnd ==
    ASSUME TagsTrue, NEW p, NEW end, EndPass(p, end), UNCHANGED <<feedVars, files>>,
           Settled \/ \A q \in Passes \intersect ({p} \union end) : pass[q].stage # "etag"
    PROVE  TagsTrue'
<1>1. \A q \in Passes : pass'[q] = pass[q] \/ (pass'[q] = IdlePass /\ q \in {p} \union end)
  BY DEF EndPass
<1>2. IdlePass.stage = "idle"
  BY DEF IdlePass
<1>3. UNCHANGED <<scenario, feed, managed, etag>>
  BY DEF feedVars, files
<1>4. Settled' = Settled /\ \A tag : Validates(tag)' <=> Validates(tag)
  BY <1>3 DEF Settled, Validates
<1>5. Settled \/ (\A q \in Passes : pass'[q].stage # "etag") => Validates(etag)
  BY <1>1 DEF TagsTrue
<1> QED
  BY <1>1, <1>2, <1>3, <1>4, <1>5 DEF TagsTrue

\* The steps beside the passes.
LEMMA TagsBeside ==
    ASSUME DiscoveryTypeOK, TagsTrue, KeepsPower, KeepsTags,
           \/ FeedChanges \/ Load \/ Serve \/ LoseFile \/ WriteBack \/ UNCHANGED vars
           \/ KillWitness \/ PowerLoss
    PROVE  TagsTrue'
<1>1. CASE FeedChanges
  <2>1. ~Settled /\ UNCHANGED <<scenario, managed, etag, pass>>
    BY <1>1, ScenarioFields DEF FeedChanges, Settled, DiscoveryTypeOK, fileVars, files
  <2> QED
    BY <2>1 DEF TagsTrue, Settled, Validates
<1>2. CASE Load \/ Serve \/ WriteBack \/ UNCHANGED vars
  <2>1. UNCHANGED <<scenario, feed, managed, etag, pass>>
    BY <1>2 DEF Load, Serve, WriteBack, vars, feedVars, fileVars, files
  <2> QED
    BY <2>1 DEF TagsTrue, Settled, Validates
<1>3. CASE LoseFile
  <2>1. UNCHANGED <<scenario, feed, etag, pass>> /\ managed' = NoFile
    BY <1>3 DEF LoseFile, feedVars
  <2> QED
    BY <2>1 DEF TagsTrue, Settled, Validates
<1>4. CASE KillWitness
  <2>1. Settled
    BY <1>4 DEF KillWitness, Fault, KeepsTags, Settled
  <2> QED
    BY <1>4, <2>1, TagsEnd DEF KillWitness
<1>5. CASE PowerLoss
  BY <1>5 DEF PowerLoss, Fault, KeepsPower
<1> QED
  BY <1>1, <1>2, <1>3, <1>4, <1>5

\* The steps with which a pass is over.
LEMMA TagsOver ==
    ASSUME AtMostOneSync, DiscoveryTypeOK, OnlyDeployed, TagsTrue, Alone, KeepsTags,
           NEW p \in Passes,
           \/ NotModified(p) \/ RequestFails(p) \/ CompareFails(p) \/ RenameFails(p)
           \/ Unchanged(p) \/ (p = Poller /\ Apply) \/ Exit10(p) \/ KillOneShot(p)
    PROVE  TagsTrue'
<1>1. CASE NotModified(p) \/ RequestFails(p) \/ CompareFails(p) \/ RenameFails(p)
           \/ Unchanged(p) \/ (p = Poller /\ Apply)
  <2>1. EndPass(p, {}) /\ UNCHANGED <<feedVars, files>> /\ pass[p].stage # "etag"
    BY <1>1 DEF NotModified, RequestFails, CompareFails, RenameFails, Unchanged, Apply, Fails, Done
  <2> QED
    BY <2>1, TagsEnd
<1>2. CASE Exit10(p)
  <2>1. pass[p].stage = "finish" /\ p # Poller /\ UNCHANGED <<feedVars, files>>
    BY <1>2, DiscoveryAssumption DEF Exit10, Done
  <2>2. pass[Poller].stage = "idle"
    BY <2>1, OthersIdle, Constants DEF IdlePass
  <2>3. EndPass(p, {}) \/ EndPass(p, {Poller})
    BY <1>2 DEF Exit10
  <2> QED
    BY <2>1, <2>2, <2>3, TagsEnd
<1>3. CASE KillOneShot(p)
  <2>1. Settled
    BY <1>3 DEF KillOneShot, Fault, KeepsTags, Settled
  <2> QED
    BY <1>3, <2>1, TagsEnd DEF KillOneShot
<1> QED
  BY <1>1, <1>2, <1>3

\* A pass begins when all are idle: the ETag it reads is that of the file.
LEMMA TagsBegin ==
    ASSUME AtMostOneSync, DiscoveryTypeOK, OnlyDeployed, TagsTrue, Alone,
           NEW p \in Passes, Begin(p)
    PROVE  TagsTrue'
<1>1. UNCHANGED <<scenario, feed, managed, etag>>
  BY DEF Begin, feedVars, fileVars, files
<1>2. \A q \in Passes : pass[q].stage = "idle"
  <2>1. pass[p].stage = "idle" /\ Deployed(p)
    BY DEF Begin, MayBegin, Deployed, IdlePass
  <2>2. SUFFICES ASSUME NEW q \in Passes, q # p, pass[q].stage # "idle" PROVE FALSE
    BY <2>1
  <2> QED
    BY <2>1, <2>2 DEF OnlyDeployed, Deployed, Alone, AtMostOneSync, Passes
<1>3. Validates(etag)
  BY <1>2 DEF TagsTrue
<1>4. /\ pass'[p].stage = "request" /\ pass'[p].tag = IF managed = NoFile THEN NoTag ELSE etag
      /\ \A q \in Passes : q # p => pass'[q] = pass[q]
  BY DEF Begin, DiscoveryTypeOK, IdlePass
<1>5. Validates(pass'[p].tag)
  BY <1>3, <1>4 DEF Validates
<1>6. Settled' = Settled /\ \A tag : Validates(tag)' <=> Validates(tag)
  BY <1>1 DEF Settled, Validates
<1> QED
  BY <1>1, <1>2, <1>3, <1>4, <1>5, <1>6 DEF TagsTrue

\* The steps in which a pass goes on.
LEMMA TagsGoes ==
    ASSUME AtMostOneSync, DiscoveryInv, AloneInv, TagsTrue, Alone, KeepsTags,
           NEW p \in Passes,
           \/ Receive(p) \/ Compare(p) \/ Create(p) \/ Write(p) \/ WriteFails(p)
           \/ Rename(p) \/ SaveEtag(p) \/ SaveEtagFails(p)
    PROVE  TagsTrue'
<1>1. AlonePart /\ DiscoveryTypeOK /\ OnlyDeployed /\ pass \in [Passes -> Pass]
  BY DEF AloneInv, DiscoveryInv, DiscoveryTypeOK
<1>2. scenario' = scenario /\ feed' = feed
  BY DEF Receive, Compare, Create, Write, WriteFails, Rename, SaveEtag, SaveEtagFails, feedVars
<1>3. Settled' = Settled
  BY <1>2 DEF Settled
<1>4. pass[p].stage \notin {"idle"}
  BY DEF Receive, Compare, Create, Write, WriteFails, Rename, SaveEtag, SaveEtagFails
<1>5. \A q \in Passes : q # p => pass[q] = IdlePass
  BY <1>1, <1>4, OthersIdle
<1>6. IdlePass.stage = "idle"
  BY DEF IdlePass
\* It is enough to look at p.
<1>7. ASSUME \A q \in Passes : q # p => pass'[q] = pass[q],
             Settled \/ pass'[p].stage # "etag" => Validates(etag)',
             pass'[p].stage = "request" => Validates(pass[p].tag)',
             pass'[p].stage \notin {"idle", "request"} =>
                 pass'[p].tag \in {NoTag, pass'[p].set} /\ (Settled => pass'[p].set = feed),
             pass'[p].stage = "etag" => managed' \in {pass'[p].set, NoFile},
             pass'[p].stage # "request"
      PROVE  TagsTrue'
  BY <1>2, <1>3, <1>5, <1>6, <1>7 DEF TagsTrue
<1>8. managed' = managed => \A tag : Validates(tag)' <=> Validates(tag)
  BY <1>2, <1>3 DEF Validates
<1>9. CASE Receive(p)
  <2>1. /\ pass[p].stage = "request" /\ UNCHANGED <<managed, etag>>
        /\ pass'[p].stage = "compare" /\ pass'[p].set = feed /\ pass'[p].tag \in {feed, NoTag}
        /\ \A q \in Passes : q # p => pass'[q] = pass[q]
    BY <1>1, <1>9 DEF Receive, fileVars, files
  <2>2. Validates(etag)
    BY <1>5, <1>6, <2>1 DEF TagsTrue
  <2> QED
    BY <1>7, <1>8, <2>1, <2>2 DEF Validates
\* A pass past its request, and where it goes.
<1>10. pass[p].stage \notin {"idle", "request"} =>
           pass[p].tag \in {NoTag, pass[p].set} /\ (Settled => pass[p].set = feed)
  BY DEF TagsTrue
<1>11. pass[p].stage # "etag" => Validates(etag)
  BY <1>5, <1>6 DEF TagsTrue
<1>12. CASE Compare(p) \/ Create(p) \/ Write(p)
  <2>1. PICK stage \in {"etag", "create", "write", "rename"} : Goes(p, stage)
    BY <1>12 DEF Compare, Create, Write
  <2>2. /\ pass'[p].stage = stage /\ pass'[p].set = pass[p].set /\ pass'[p].tag = pass[p].tag
        /\ \A q \in Passes : q # p => pass'[q] = pass[q]
    BY <1>1, <2>1, GoesFields
  <2>3. pass[p].stage \in {"compare", "create", "write"} /\ etag' = etag
    BY <1>12 DEF Compare, Create, Write, fileVars, files
  <2>4. managed' = managed
    <3>1. CASE Compare(p) \/ Create(p)
      BY <3>1 DEF Compare, Create, fileVars, files
    <3>2. CASE Write(p)
      <4>1. fd[p] = "temp"
        BY <1>1, <3>2 DEF Write, AlonePart, TempIsOwn
      <4> QED
        BY <3>2, <4>1 DEF Write
    <3> QED
      BY <1>12, <3>1, <3>2
  <2>5. stage = "etag" => managed = pass[p].set
    <3>1. CASE Compare(p)
      <4>1. pass'[p].stage = IF managed = pass[p].set THEN "etag" ELSE "create"
        BY <1>1, <3>1, GoesFields DEF Compare
      <4> QED
        BY <2>2, <4>1
    <3>2. CASE Create(p) \/ Write(p)
      <4>1. Goes(p, "write") \/ Goes(p, "rename")
        BY <3>2 DEF Create, Write
      <4>2. pass'[p].stage \in {"write", "rename"}
        BY <1>1, <4>1, GoesFields
      <4> QED
        BY <2>2, <4>2
    <3> QED
      BY <1>12, <3>1, <3>2
  <2>6. Validates(etag)' /\ pass'[p].stage # "request"
    <3>1. Validates(etag)
      BY <1>11, <2>3
    <3> QED
      BY <1>2, <1>3, <2>1, <2>2, <2>3, <2>4, <3>1 DEF Validates
  <2>7. pass'[p].tag \in {NoTag, pass'[p].set} /\ (Settled => pass'[p].set = feed)
    BY <1>10, <2>2, <2>3
  <2>8. pass'[p].stage = "etag" => managed' \in {pass'[p].set, NoFile}
    BY <2>2, <2>4, <2>5
  <2> QED
    BY <1>7, <2>2, <2>6, <2>7, <2>8
<1>13. CASE WriteFails(p)
  <2>1. /\ pass[p].stage \in {"create", "write"} /\ UNCHANGED <<managed, etag>>
        /\ pass'[p].stage = "idle" /\ \A q \in Passes : q # p => pass'[q] = pass[q]
    BY <1>1, <1>6, <1>13 DEF WriteFails
  <2>2. Validates(etag)'
    BY <1>2, <1>3, <1>11, <2>1 DEF Validates
  <2> QED
    BY <1>7, <2>1, <2>2
<1>14. CASE Rename(p)
  <2>1. pass[p].stage = "rename" /\ temp = pass[p].set
    BY <1>1, <1>14 DEF Rename, AlonePart, TempIsOwn
  <2>2. managed' = pass[p].set /\ etag' = etag
    BY <1>14, <2>1 DEF Rename
  <2>3. /\ pass'[p].stage = "etag" /\ pass'[p].set = pass[p].set /\ pass'[p].tag = pass[p].tag
        /\ \A q \in Passes : q # p => pass'[q] = pass[q]
    <3>1. /\ pass'[p] = [[pass[p] EXCEPT !.stage = "etag"] EXCEPT !.updated = TRUE]
          /\ \A q \in Passes : q # p => pass'[q] = pass[q]
      BY <1>1, <1>14 DEF Rename
    <3>2. pass[p] = [stage |-> pass[p].stage, set |-> pass[p].set, tag |-> pass[p].tag,
                     updated |-> pass[p].updated]
      BY <1>1, PassForm
    <3> QED
      BY <3>1, <3>2
  <2>4. Settled => Validates(etag)'
    <3>1. Settled => managed' = feed
      BY <1>10, <2>1, <2>2
    <3> QED
      BY <1>2, <1>3, <2>2, <3>1 DEF Validates
  <2>5. pass'[p].tag \in {NoTag, pass'[p].set} /\ (Settled => pass'[p].set = feed)
    BY <1>10, <2>1, <2>3
  <2> QED
    BY <1>7, <2>2, <2>3, <2>4, <2>5
<1>15. CASE SaveEtag(p) \/ SaveEtagFails(p)
  <2>1. Goes(p, "finish") /\ pass[p].stage = "etag" /\ managed' = managed
    BY <1>15 DEF SaveEtag, SaveEtagFails, fileVars, files
  <2>2. /\ pass'[p].stage = "finish" /\ pass'[p].set = pass[p].set /\ pass'[p].tag = pass[p].tag
        /\ \A q \in Passes : q # p => pass'[q] = pass[q]
    BY <1>1, <2>1, GoesFields
  <2>3. managed \in {pass[p].set, NoFile} /\ pass[p].tag \in {NoTag, pass[p].set}
    BY <2>1 DEF TagsTrue
  <2>4. Validates(etag)'
    <3>1. CASE SaveEtag(p)
      <4>1. etag' = pass[p].tag
        BY <3>1 DEF SaveEtag
      <4> QED
        BY <2>1, <2>3, <4>1 DEF Validates
    <3>2. CASE SaveEtagFails(p)
      <4>1. Settled /\ etag' = etag
        BY <3>2 DEF SaveEtagFails, Fault, KeepsTags, Settled, fileVars, files
      <4>2. Validates(etag)
        BY <4>1 DEF TagsTrue
      <4> QED
        BY <1>2, <1>3, <2>1, <4>1, <4>2 DEF Validates
    <3> QED
      BY <1>15, <3>1, <3>2
  <2>5. pass'[p].tag \in {NoTag, pass'[p].set} /\ (Settled => pass'[p].set = feed)
    BY <1>10, <2>1, <2>2
  <2> QED
    BY <1>7, <2>2, <2>4, <2>5
<1> QED
  BY <1>9, <1>12, <1>13, <1>14, <1>15

\* "`None` exactly when the answer was `304` (the on-disk managed file is still the
\* current set)": so it is with one pass at a time, without power loss, and where
\* nothing comes between a rename and its ETag or the feed has settled.
THEOREM NotModifiedMeansCurrentHolds ==
    ASSUME AtMostOneSync
    PROVE  DiscoverySpec /\ KeepsTags => NotModifiedMeansCurrent
<1> DEFINE Inv == DiscoveryInv /\ AloneInv /\ KeepsTags /\ TagsInv
<1>1. DiscoveryInit => TagsInv
  <2> SUFFICES ASSUME DiscoveryInit PROVE TagsTrue
    BY DEF TagsInv
  <2>1. \A p \in Passes : pass[p].stage = "idle"
    BY DEF DiscoveryInit, IdlePass
  <2>2. etag = NoTag \/ etag = managed
    BY DEF DiscoveryInit
  <2> QED
    BY <2>1, <2>2 DEF TagsTrue, Validates
<1>2. ASSUME Inv, [DiscoveryNext]_vars PROVE KeepsTags' /\ TagsInv'
  <2>1. scenario' = scenario /\ DiscoveryTypeOK /\ OnlyDeployed
    BY <1>2, DeployedStep DEF DiscoveryInv, AloneInv
  <2>2. ASSUME Alone, KeepsPower PROVE TagsTrue'
    <3>1. TagsTrue
      BY <1>2, <2>2 DEF TagsInv
    <3>2. CASE FeedChanges \/ Load \/ Serve \/ LoseFile \/ WriteBack \/ UNCHANGED vars
               \/ KillWitness \/ PowerLoss
      BY <1>2, <2>1, <2>2, <3>1, <3>2, TagsBeside
    <3>3. ASSUME NEW p \in Passes, Begin(p) \/ PassStep(p) \/ KillOneShot(p) PROVE TagsTrue'
      BY <1>2, <2>1, <2>2, <3>1, <3>3, TagsBegin, TagsOver, TagsGoes DEF PassStep, SyncStep
    <3> QED
      BY <1>2, <3>2, <3>3 DEF DiscoveryNext
  <2> QED
    BY <1>2, <2>1, <2>2 DEF TagsInv, KeepsTags, Alone, KeepsPower
<1>3. Inv => \A p \in Passes : Alone /\ KeepsPower /\ NotModified(p) => managed \in {feed, NoFile}
  <2> SUFFICES ASSUME Inv, NEW p \in Passes, Alone, KeepsPower, NotModified(p)
               PROVE  managed \in {feed, NoFile}
    OBVIOUS
  <2>1. pass[p].tag = feed /\ Validates(pass[p].tag)
    BY DEF TagsInv, TagsTrue, NotModified
  <2>2. feed # NoTag
    BY Constants, DiscoveryAssumption DEF DiscoveryInv, DiscoveryTypeOK
  <2> QED
    BY <2>1, <2>2 DEF Validates
<1>4. Inv /\ [DiscoveryNext]_vars =>
          [Alone /\ KeepsPower => \A p \in Passes : NotModified(p) => managed \in {feed, NoFile}]_vars
  BY <1>3
<1>5. Inv /\ [DiscoveryNext]_vars => Inv'
  <2>1. ASSUME Inv, [DiscoveryNext]_vars PROVE DiscoveryInv' /\ AloneInv'
    BY <2>1, DiscoveryInvStep, AloneInvStep
  <2> QED
    BY <1>2, <2>1
<1>6. DiscoveryInit /\ KeepsTags => Inv
  BY <1>1, InvInit, AloneInvInit
<1> QED
  BY <1>4, <1>5, <1>6, PTL DEF DiscoverySpec, NotModifiedMeansCurrent
====
