---------------------------- MODULE RebaseProofs ----------------------------
(***************************************************************************)
(* Proofs about Rebase.tla: whatever becomes of answers, processes, writes *)
(* and the state file itself, a log that keeps one history is never told   *)
(* that its checkpoint is bad.                                             *)
(***************************************************************************)
EXTENDS Rebase, WitnessProofs

\* Heads of the log's origin are the log's own.
LogHeads == {p \in Origins \X Heads : p[1] = LogOrigin => p[2] \in Goals}

\* What a client waits for is the answer to the body that it would send now.
SendsBody == \A c \in Callers : req[c] \in {NoRequest, Body(c)}

NoRefusal == \A c \in Callers : answer[c].code \in {0, 200, 404, 409, 500}

\* No process runs on an allowlist that has the origin without its key.
HasKey(list) == list[LogOrigin] = {} \/ LogKey \in list[LogOrigin]

RebaseInv ==
    /\ GuardInv
    /\ RebaseTypeOK
    /\ HeadsFrom(LogHeads)
    /\ SendsBody
    /\ NoRefusal
    /\ \A i \in Instances : HasKey(logs[i])
    /\ HonestNeverRefused

-----------------------------------------------------------------------------
(***************************************************************************)
(* The two checks, on an honest request.                                   *)
(***************************************************************************)

\* An honest body is a request, with the fields that the log gave it.
LEMMA BodyFields ==
    ASSUME NEW h \in Goals, NEW old \in 0..Size[h]
    PROVE  /\ HonestBody(h, old) \in Submissions
           /\ HonestBody(h, old).parses /\ HonestBody(h, old).origin = LogOrigin
           /\ HonestBody(h, old).head = h /\ HonestBody(h, old).old = old
           /\ HonestBody(h, old).proof = IF old \in {0, Size[h]} THEN "empty" ELSE "valid"
           /\ h \in Heads /\ Size[h] \in Nat
<1>1. h \in Heads /\ Size[h] \in Nat
  BY RebaseAssumption, HeadAssumption
<1> QED
  BY <1>1, HonestAssumption DEF HonestBody

\* Before the mutex, it can only meet an allowlist without its origin.
LEMMA HonestScreened ==
    ASSUME NEW h \in Goals, NEW old \in 0..Size[h], NEW list, HasKey(list),
           NEW s \in Submissions, s = HonestBody(h, old)
    PROVE  Screened(s, list) \in {200, 404}
<1>1. s.parses = TRUE /\ s.origin = LogOrigin /\ s.head = h /\ s.old = old /\ Size[h] \in Nat
  BY BodyFields DEF HonestBody
<1>2. list[LogOrigin] # {} => Trusted(s, list)
  BY DEF HasKey, Trusted, HonestBody
<1>3. ~(s.old > Size[s.head])
  BY <1>1
<1>4. CASE list[s.origin] = {}
  BY <1>1, <1>4 DEF Screened, Trusted
<1>5. CASE list[s.origin] # {}
  BY <1>1, <1>2, <1>3, <1>5 DEF Screened, Trusted
<1> QED
  BY <1>4, <1>5

\* Inside it, the old size is the only thing that can be wrong.
LEMMA HonestVerdict ==
    ASSUME NEW h \in Goals, NEW old \in 0..Size[h], NEW current \in Goals \union {NoHead},
           NEW s \in Submissions, s = HonestBody(h, old)
    PROVE  Verdict(s, current).code \in {200, 409}
<1>1. /\ s.head = h /\ s.old = old /\ h \in Heads /\ Size[h] \in Nat
      /\ s.proof = IF old \in {0, Size[h]} THEN "empty" ELSE "valid"
  BY BodyFields
<1>2. ASSUME old # LatestSize(current) PROVE Verdict(s, current).code = 409
  BY <1>1, <1>2 DEF Verdict, Answer
<1>3. ASSUME old = LatestSize(current) PROVE Verdict(s, current).code = 200
  <2>1. ~(Size[h] = 0 /\ h # EmptyHead)
    BY HonestAssumption
  <2>2. ~(old = 0 /\ s.proof # "empty")
    BY <1>1
  <2>3. ASSUME old > 0 PROVE Verifies(current, h, s.proof)
    <3>1. current \in Goals /\ old = Size[current]
      BY <1>3, <2>3 DEF LatestSize
    <3>2. current \in Heads /\ Comparable(current, h)
      BY <3>1, RebaseAssumption
    <3>3. Extends(current, h) => Size[current] < Size[h] \/ current = h
      BY <1>1, <3>2, HeadAssumption
    <3>4. Extends(h, current) => Size[h] < Size[current] \/ current = h
      BY <1>1, <3>2, HeadAssumption
    <3>5. CASE old = Size[h]
      <4>1. current = h
        BY <1>1, <3>1, <3>2, <3>3, <3>4, <3>5 DEF Comparable
      <4> QED
        BY <1>1, <3>5, <4>1 DEF Verifies
    <3>6. CASE old # Size[h]
      <4>1. ~Extends(h, current)
        BY <1>1, <3>1, <3>4, <3>6
      <4>2. Extends(current, h)
        BY <3>2, <4>1 DEF Comparable
      <4>3. s.proof = "valid" /\ Size[current] # Size[h]
        BY <1>1, <2>3, <3>1, <3>6
      <4> QED
        BY <4>2, <4>3 DEF Verifies
    <3> QED
      BY <3>5, <3>6
  <2>4. ~(old > 0 /\ ~Verifies(current, h, s.proof))
    BY <2>3
  <2> QED
    BY <1>1, <1>3, <2>1, <2>2, <2>4 DEF Verdict, Answer
<1> QED
  BY <1>2, <1>3

-----------------------------------------------------------------------------
(***************************************************************************)
(* The invariant.                                                          *)
(***************************************************************************)

\* What every client would send now is a request.
LEMMA BodyIsRequest ==
    ASSUME RebaseTypeOK, NEW c \in Callers
    PROVE  /\ goal[c] \in Goals /\ believed[c] \in 0..Size[goal[c]]
           /\ Body(c) \in Submissions
           /\ Body(c).origin = LogOrigin /\ Body(c).head = goal[c]
<1>1. goal[c] \in Goals /\ believed[c] \in Nat /\ believed[c] <= Size[goal[c]]
  BY DEF RebaseTypeOK
<1>2. Size[goal[c]] \in Nat
  BY <1>1, RebaseAssumption, HeadAssumption
<1>3. believed[c] \in 0..Size[goal[c]]
  BY <1>1, <1>2
<1> QED
  BY <1>1, <1>3, BodyFields DEF Body

\* The clients drive the witness by steps of its own.
LEMMA RebaseIsWitness ==
    ASSUME RebaseTypeOK, [RebaseNext]_rebaseVars
    PROVE  [AnyStep]_witnessVars
<1>1. ASSUME NEW c \in Callers, Submit(c) PROVE AnyStep
  BY <1>1, BodyIsRequest DEF Submit, AnyStep, WitnessNext, RequestStep
<1>2. ASSUME NEW c \in Callers, Handle(c) \/ Hear(c) \/ Miss(c) PROVE AnyStep
  BY <1>2 DEF Handle, Hear, Miss, AnyStep, WitnessNext, RequestStep
<1>3. ASSUME NEW i \in Instances, ServerStep(i) PROVE AnyStep
  BY <1>3 DEF ServerStep, AnyStep, WitnessNext, ProcessStep
<1> QED
  BY <1>1, <1>2, <1>3 DEF RebaseNext, AnyStep, rebaseVars

\* A caller that waits in the store waits with its honest body.
LEMMA WaitsWithBody ==
    ASSUME RebaseInv, NEW c \in Callers, ~At(c, "none")
    PROVE  req[c] = Body(c) /\ op[c].origin = LogOrigin /\ op[c].inst \in Instances
<1>1. req[c] \in Submissions /\ req[c].origin = op[c].origin
  BY DEF RebaseInv, GuardInv, RequestsMatch, At
<1>2. req[c] = Body(c)
  BY <1>1, NoRequestApart DEF RebaseInv, SendsBody
<1> QED
  BY <1>1, <1>2, BodyIsRequest, OpFields DEF RebaseInv, GuardInv, MutexInv

\* So what is in the store for the log is the log's.
LEMMA LogHeadsKept ==
    ASSUME RebaseInv, [RebaseNext]_rebaseVars
    PROVE  HeadsFrom(LogHeads)'
<1>1. StoreTypeOK /\ WitnessTypeOK /\ RequestsMatch /\ RebaseTypeOK /\ HeadsFrom(LogHeads)
  BY DEF RebaseInv, GuardInv, MutexInv
<1>2. [AnyStep]_witnessVars
  BY <1>1, RebaseIsWitness
<1>3. [StoreNext]_storeVars
  BY <1>1, <1>2, WitnessStoreStep
<1>4. ASSUME NEW c \in Callers, NEW h, Approve(c, h)
      PROVE  <<op[c].origin, h>> \in LogHeads
  <2>1. h = req[c].head /\ op[c].stage = "waiting"
    BY <1>1, <1>2, <1>4, ApprovedByCheck
  <2>2. req[c] = Body(c) /\ op[c].origin = LogOrigin
    BY <2>1, WaitsWithBody DEF At
  <2>3. h \in Goals
    BY <1>1, <2>1, <2>2, BodyIsRequest
  <2> QED
    BY <2>2, <2>3, RebaseAssumption DEF LogHeads
<1> QED
  BY <1>1, <1>3, <1>4, HeadsFromStep

\* No answer says that the checkpoint is bad.
LEMMA NoRefusalKept ==
    ASSUME RebaseInv, [RebaseNext]_rebaseVars
    PROVE  NoRefusal'
<1>1. /\ RebaseTypeOK /\ StoreTypeOK /\ NoRefusal
      /\ answer \in [Callers -> [code : {0, 200, 400, 403, 404, 409, 422, 500}, size : Nat]]
  BY DEF RebaseInv, GuardInv, MutexInv, WitnessTypeOK
<1>2. ASSUME NEW c \in Callers,
             \A d \in Callers : d # c => answer'[d] = answer[d],
             answer'[c].code \in {0, 200, 404, 409, 500}
      PROVE  NoRefusal'
  BY <1>1, <1>2 DEF NoRefusal
<1>3. /\ NoAnswer.code = 0
      /\ \A code \in {0, 200, 404, 409, 500} : Answer(code).code \in {0, 200, 404, 409, 500}
  BY DEF NoAnswer, Answer
<1>4. CASE UNCHANGED answer
  BY <1>1, <1>4 DEF NoRefusal
<1>5. ASSUME NEW dead, Forget(dead) PROVE NoRefusal'
  BY <1>1, <1>3, <1>5 DEF Forget, NoRefusal
<1>6. ASSUME NEW c \in Callers, Submit(c) PROVE NoRefusal'
  <2>1. PICK i \in Instances : Admit(c, i, Body(c)) \/ TurnAway(c, i, Body(c))
    BY <1>6 DEF Submit
  <2>2. Screened(Body(c), logs[i]) \in {200, 404}
    BY <1>1, BodyIsRequest, HonestScreened DEF RebaseInv, Body
  <2>3. CASE Admit(c, i, Body(c))
    BY <1>4, <2>3 DEF Admit
  <2>4. CASE TurnAway(c, i, Body(c))
    <3>1. PICK code \in {404, 500} : answer' = [answer EXCEPT ![c] = Answer(code)]
      BY <2>2, <2>4 DEF TurnAway
    <3> QED
      BY <1>1, <1>2, <1>3, <3>1
  <2> QED
    BY <2>1, <2>3, <2>4
<1>7. ASSUME NEW c \in Callers, Check(c) PROVE NoRefusal'
  <2>1. op[c].stage = "waiting"
    BY <1>7 DEF Check, CanCheck, At
  <2>2. req[c] = Body(c) /\ op[c].origin = LogOrigin /\ op[c].inst \in Instances
    BY <2>1, WaitsWithBody DEF At
  <2>3. Current(c) \in Goals \union {NoHead}
    BY <2>2, RebaseAssumption DEF RebaseInv, HeadsFrom, LogHeads, Current
  <2>4. Verdict(req[c], Current(c)).code \in {200, 409}
    BY <1>1, <2>2, <2>3, BodyIsRequest, HonestVerdict DEF Body
  <2>5. UNCHANGED answer \/ answer' = [answer EXCEPT ![c] = Verdict(req[c], Current(c))]
    BY <1>7 DEF Check
  <2> QED
    BY <1>1, <1>2, <1>4, <2>4, <2>5
<1>8. ASSUME NEW c \in Callers, Handle(c), ~Check(c) PROVE NoRefusal'
  <2>1. \/ UNCHANGED answer
        \/ answer' = [answer EXCEPT ![c] = Answer(200)]
        \/ answer' = [answer EXCEPT ![c] = Answer(500)]
    BY <1>8 DEF Handle, AppendRecord, AppendFails, Release
  <2> QED
    BY <1>1, <1>2, <1>3, <1>4, <2>1
<1>9. ASSUME NEW c \in Callers, Reply(c) PROVE NoRefusal'
  <2>1. answer' = [answer EXCEPT ![c] = NoAnswer]
    BY <1>9 DEF Reply
  <2> QED
    BY <1>1, <1>2, <1>3, <2>1
<1>10. ASSUME NEW i \in Instances, ServerStep(i) PROVE NoRefusal'
  BY <1>4, <1>5, <1>10 DEF ServerStep, Start, StartRefused, Mend, MendFails, Die, Swap
<1>11. CASE StateLost \/ UNCHANGED rebaseVars
  BY <1>4, <1>11 DEF StateLost, rebaseVars, witnessVars
<1> QED
  BY <1>6, <1>7, <1>8, <1>9, <1>10, <1>11 DEF RebaseNext, Hear, Miss

\* Every process keeps an allowlist with the key, if it has the origin.
LEMMA ListsKept ==
    ASSUME RebaseInv, [RebaseNext]_rebaseVars
    PROVE  \A i \in Instances : HasKey(logs'[i])
<1>1. logs \in [Instances -> Lists] /\ \A i \in Instances : HasKey(logs[i])
  BY DEF RebaseInv, GuardInv, WitnessTypeOK
<1>2. HasKey(NoLogs)
  BY RebaseAssumption DEF HasKey, NoLogs
<1>3. ASSUME NEW j \in Instances, NEW managed \in ManagedSets,
             logs' = [logs EXCEPT ![j] = Effective(Manual, managed)]
      PROVE  \A i \in Instances : HasKey(logs'[i])
  <2>1. HasKey(Effective(Manual, managed))
    BY HonestAssumption DEF HasKey
  <2> QED
    BY <1>1, <1>3, <2>1
<1>4. CASE UNCHANGED logs
  BY <1>1, <1>4
<1>5. ASSUME NEW dead, Forget(dead) PROVE \A i \in Instances : HasKey(logs'[i])
  BY <1>1, <1>2, <1>5 DEF Forget
<1>6. ASSUME NEW i \in Instances, ServerStep(i) PROVE \A j \in Instances : HasKey(logs'[j])
  BY <1>3, <1>4, <1>5, <1>6 DEF ServerStep, Start, StartRefused, Mend, MendFails, Die, Swap
<1>7. ASSUME NEW c \in Callers, Submit(c) \/ Handle(c) \/ Hear(c) \/ Miss(c) PROVE UNCHANGED logs
  BY <1>7 DEF Submit, Admit, TurnAway, Handle, Check, AppendRecord, AppendFails, Release, Hear,
              Miss, Reply
<1>8. CASE StateLost \/ UNCHANGED rebaseVars
  BY <1>4, <1>8 DEF StateLost, rebaseVars, witnessVars
<1> QED
  BY <1>4, <1>6, <1>7, <1>8 DEF RebaseNext

\* A client changes its belief only when it has heard, and then has nothing out.
LEMMA ClientsKept ==
    ASSUME RebaseInv, [RebaseNext]_rebaseVars
    PROVE  /\ goal' \in [Callers -> Goals]
           /\ believed' \in [Callers -> Nat]
           /\ \A c \in Callers : believed'[c] <= Size[goal'[c]]
           /\ outcome' \in [Callers -> {"trying", "cosigned", "superseded", "refused"}]
           /\ lossesLeft' \in 0..MaxLosses
           /\ HonestNeverRefused'
           /\ SendsBody'
<1>1. /\ goal \in [Callers -> Goals]
      /\ believed \in [Callers -> Nat]
      /\ \A c \in Callers : believed[c] <= Size[goal[c]]
      /\ outcome \in [Callers -> {"trying", "cosigned", "superseded", "refused"}]
      /\ \A c \in Callers : outcome[c] # "refused"
      /\ lossesLeft \in 0..MaxLosses /\ MaxLosses \in Nat
      /\ req \in [Callers -> Submissions \union {NoRequest}]
      /\ answer \in [Callers -> [code : {0, 200, 400, 403, 404, 409, 422, 500}, size : Nat]]
      /\ SendsBody
  BY RebaseAssumption DEF RebaseInv, RebaseTypeOK, HonestNeverRefused, GuardInv, WitnessTypeOK
<1>2. ASSUME UNCHANGED clientVars, \A c \in Callers : req'[c] \in {req[c], NoRequest, Body(c)}
      PROVE  SendsBody'
  BY <1>1, <1>2 DEF SendsBody, clientVars, Body
<1>3. CASE UNCHANGED clientVars
  <2>1. \A c \in Callers : req'[c] \in {req[c], NoRequest, Body(c)}
    <3>1. ASSUME NEW c \in Callers, Submit(c)
          PROVE  req' = [req EXCEPT ![c] = Body(c)]
      BY <3>1 DEF Submit, Admit, TurnAway
    <3>2. ASSUME NEW c \in Callers, Handle(c)
          PROVE  UNCHANGED req
      BY <3>2 DEF Handle, Check, AppendRecord, AppendFails, Release
    <3>3. ASSUME NEW c \in Callers, Hear(c) \/ Miss(c)
          PROVE  req' = [req EXCEPT ![c] = NoRequest]
      BY <3>3 DEF Hear, Miss, Reply
    <3>4. ASSUME NEW i \in Instances, ServerStep(i)
          PROVE  \A c \in Callers : req'[c] \in {req[c], NoRequest}
      BY <1>1, <3>4 DEF ServerStep, Start, StartRefused, Mend, MendFails, Die, Swap, Forget
    <3>5. CASE StateLost \/ UNCHANGED rebaseVars
      BY <3>5 DEF StateLost, rebaseVars, witnessVars
    <3> QED
      BY <1>1, <3>1, <3>2, <3>3, <3>4, <3>5 DEF RebaseNext
  <2> QED
    BY <1>1, <1>2, <1>3, <2>1 DEF clientVars, HonestNeverRefused
<1>4. ASSUME NEW c \in Callers, Hear(c)
      PROVE  /\ goal' \in [Callers -> Goals]
             /\ believed' \in [Callers -> Nat]
             /\ \A d \in Callers : believed'[d] <= Size[goal'[d]]
             /\ outcome' \in [Callers -> {"trying", "cosigned", "superseded", "refused"}]
             /\ lossesLeft' \in 0..MaxLosses
             /\ HonestNeverRefused'
             /\ SendsBody'
  <2> DEFINE heard == answer[c]
  <2>1. UNCHANGED <<goal, lossesLeft>> /\ req' = [req EXCEPT ![c] = NoRequest]
    BY <1>4 DEF Hear, Reply
  <2>2. heard.code \in {0, 200, 404, 409, 500} /\ heard.size \in Nat
    BY <1>1 DEF RebaseInv, NoRefusal
  <2>3. \/ outcome' = [outcome EXCEPT ![c] = "trying"]
        \/ outcome' = [outcome EXCEPT ![c] = "cosigned"]
        \/ outcome' = [outcome EXCEPT ![c] = "superseded"]
    <3>1. heard.code \notin {400, 403, 422}
      BY <2>2
    <3> HIDE DEF heard
    <3>2. CASE heard.code = 200
      BY <1>4, <3>1, <3>2 DEF Hear, heard
    <3>3. CASE heard.code # 200 /\ heard.code = 409 /\ heard.size > Size[goal[c]]
      BY <1>4, <3>1, <3>3 DEF Hear, heard
    <3>4. CASE heard.code # 200 /\ ~(heard.code = 409 /\ heard.size > Size[goal[c]])
      BY <1>4, <3>1, <3>4 DEF Hear, heard
    <3> QED
      BY <3>2, <3>3, <3>4
  <2>4. \/ believed' = believed
        \/ heard.size <= Size[goal[c]] /\ believed' = [believed EXCEPT ![c] = heard.size]
    BY <1>4 DEF Hear
  <2>5. SendsBody'
    <3>1. \A d \in Callers : d # c => believed'[d] = believed[d] /\ req'[d] = req[d]
      BY <1>1, <2>1, <2>4
    <3>2. req'[c] = NoRequest
      BY <1>1, <2>1
    <3> QED
      BY <1>1, <2>1, <3>1, <3>2 DEF SendsBody, Body
  <2> QED
    BY <1>1, <2>1, <2>2, <2>3, <2>4, <2>5 DEF HonestNeverRefused
<1>5. ASSUME NEW c \in Callers, Miss(c)
      PROVE  /\ UNCHANGED <<goal, believed, outcome>> /\ lossesLeft' \in 0..MaxLosses
             /\ SendsBody'
  <2>1. /\ UNCHANGED <<goal, believed, outcome>> /\ req' = [req EXCEPT ![c] = NoRequest]
        /\ lossesLeft > 0 /\ lossesLeft' = lossesLeft - 1
    BY <1>5 DEF Miss, Reply
  <2>2. SendsBody'
    BY <1>1, <2>1 DEF SendsBody, Body
  <2> QED
    BY <1>1, <2>1, <2>2
<1> QED
  BY <1>1, <1>3, <1>4, <1>5 DEF RebaseNext, Submit, Handle, rebaseVars, HonestNeverRefused

\* Every step keeps the invariant.
LEMMA RebaseInvStep ==
    ASSUME RebaseInv, [RebaseNext]_rebaseVars
    PROVE  RebaseInv'
<1>1. GuardInv' /\ WitnessTypeOK'
  <2>1. [AnyStep]_witnessVars
    BY RebaseIsWitness DEF RebaseInv
  <2> QED
    BY <2>1, GuardInvStep DEF RebaseInv, GuardInv
<1>2. RebaseTypeOK'
  BY <1>1, ClientsKept DEF RebaseTypeOK
<1> QED
  BY <1>1, <1>2, LogHeadsKept, NoRefusalKept, ListsKept, ClientsKept DEF RebaseInv, HasKey

\* It holds when every client believes some size of the log, right or not.
LEMMA RebaseInvInit == RebaseInit => RebaseInv
<1> SUFFICES ASSUME RebaseInit PROVE RebaseInv
  OBVIOUS
<1>1. WitnessInit /\ GuardInv /\ WitnessTypeOK
  BY WitnessInvInit DEF RebaseInit, WitnessInv, GuardInv
<1>2. RebaseTypeOK /\ HonestNeverRefused
  <2>1. \A h \in Goals : Size[h] \in Nat
    BY RebaseAssumption, HeadAssumption
  <2>2. believed \in [Callers -> Nat]
    BY <2>1 DEF RebaseInit
  <2> QED
    BY <1>1, <2>2, RebaseAssumption DEF RebaseInit, RebaseTypeOK, HonestNeverRefused
<1>3. HeadsFrom(LogHeads)
  BY <1>1 DEF WitnessInit, StoreInit, NoMem, IdleOp, HeadsFrom, RecordsFrom
<1>4. SendsBody /\ NoRefusal
  BY <1>1 DEF WitnessInit, SendsBody, NoRefusal, NoAnswer
<1>5. \A i \in Instances : HasKey(logs[i])
  BY <1>1, RebaseAssumption DEF WitnessInit, NoLogs, HasKey
<1> QED
  BY <1>1, <1>2, <1>3, <1>4, <1>5 DEF RebaseInv

\* What honest clients, their requests and the store stand to one another.
THEOREM RebaseInvariant == RebaseSpec => []RebaseInv
<1>1. RebaseInv /\ [RebaseNext]_rebaseVars => RebaseInv'
  BY RebaseInvStep
<1> QED
  BY <1>1, RebaseInvInit, PTL DEF RebaseSpec

-----------------------------------------------------------------------------
\* Types of the clients: in particular nobody ever believes in a size that its own
\* head has not reached.
THEOREM RebaseTypeCorrect == RebaseSpec => []RebaseTypeOK
<1>1. RebaseInv => RebaseTypeOK
  BY DEF RebaseInv
<1> QED
  BY <1>1, RebaseInvariant, PTL

\* ST-05 to ST-10 never hit an honest log, whatever its clients believe, however
\* they race, and whatever the witness has lost: no answer but 200, 404, 409 and 500.
THEOREM HonestNeverRefusedHolds == RebaseSpec => []HonestNeverRefused
<1>1. RebaseInv => HonestNeverRefused
  BY DEF RebaseInv
<1> QED
  BY <1>1, RebaseInvariant, PTL

\* I5 and SM-05 with honest clients and a state file that may be lost: the size in a
\* 409 is the one to rebase on.
THEOREM RebaseConflictNames == RebaseSpec => ConflictNamesCurrentSize
<1>1. RebaseInv /\ [RebaseNext]_rebaseVars =>
        [\A c \in Callers : answer'[c].code = 409 /\ answer[c].code = 0 =>
            Verdict([req[c] EXCEPT !.old = answer'[c].size], Current(c)).code # 409]_witnessVars
  BY RebaseIsWitness, ConflictNamesStep DEF RebaseInv
<1> QED
  BY <1>1, RebaseInvariant, PTL DEF RebaseSpec, ConflictNamesCurrentSize

\* SM-02 with honest clients: even a witness that lost its file cosigns nothing but
\* what extends the state that it has now.
THEOREM RebaseReleases == RebaseSpec => ReleasesExtendCurrent
<1>1. RebaseInv /\ [RebaseNext]_rebaseVars =>
        [\A o \in Origins : \A h \in Heads :
          <<o, h>> \in cosigned' \ cosigned =>
              \E c \in Callers :
                  /\ op[c].origin = o /\ op[c].head = h
                  /\ lock[op[c].inst] = c
                  /\ Current(c) = NoHead \/ Extends(Current(c), h)]_witnessVars
  BY RebaseIsWitness, ReleaseStep DEF RebaseInv
<1> QED
  BY <1>1, RebaseInvariant, PTL DEF RebaseSpec, ReleasesExtendCurrent
=============================================================================
