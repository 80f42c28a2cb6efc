---------------------------- MODULE WitnessProofs ----------------------------
(***************************************************************************)
(* Proofs about Witness.tla: for every forest of consistent tree heads,    *)
(* every allowlist, every set of requests and every number of processes    *)
(* and callers, what the witness cosigns is one append-only history.       *)
(***************************************************************************)
EXTENDS WitnessSafety, StoreProofs

-----------------------------------------------------------------------------
(***************************************************************************)
(* Steps of the witness are steps of the store.                            *)
(***************************************************************************)

\* What is proved of the steps of the witness holds of the loss of its file too;
\* the honest clients of Rebase.tla meet it.
AnyStep == WitnessNext \/ StateLost

LEMMA StepKinds == [WitnessNext]_witnessVars => [AnyStep]_witnessVars
BY DEF AnyStep

\* A request body is not the placeholder of an idle caller.
LEMMA NoRequestApart == NoRequest \notin Submissions
<1>1. NoRequest \notin Submission
  BY DEF NoRequest, Submission
<1> QED
  BY <1>1, RequestAssumption

\* What each body consists of.
LEMMA SubmissionFields ==
    ASSUME NEW s \in Submissions
    PROVE  s.origin \in Origins /\ s.head \in Heads /\ s.old \in Nat
BY RequestAssumption DEF Submission

\* Every step of the witness is a step of the store or leaves it alone.
LEMMA WitnessStoreStep ==
    ASSUME WitnessTypeOK, RequestsMatch, [AnyStep]_witnessVars
    PROVE  [StoreNext]_storeVars
<1>1. CASE UNCHANGED witnessVars
  BY <1>1 DEF witnessVars
<1>2. ASSUME NEW i \in Instances, ProcessStep(i)
      PROVE  [StoreNext]_storeVars
  BY <1>2 DEF ProcessStep, Start, StartRefused, Mend, MendFails, Die, Swap, Serve,
              StoreNext, InstanceNext
<1>3. ASSUME NEW c \in Callers, RequestStep(c)
      PROVE  [StoreNext]_storeVars
  <2>1. ASSUME NEW i \in Instances, NEW s \in Submissions, Admit(c, i, s) \/ TurnAway(c, i, s)
        PROVE  [StoreNext]_storeVars
    BY <2>1, SubmissionFields DEF Admit, TurnAway, StoreNext, CallerNext
  <2>2. CASE Check(c)
    <3>1. Approve(c, req[c].head) \/ Refuse(c)
      BY <2>2 DEF Check
    <3>2. req[c].head \in Heads
      BY <2>2, SubmissionFields DEF Check, CanCheck, At, RequestsMatch
    <3> QED
      BY <3>1, <3>2 DEF StoreNext, CallerNext
  <2>3. CASE SignFails(c) \/ AppendRecord(c) \/ AppendFails(c) \/ Release(c) \/ Reply(c)
    BY <2>3 DEF SignFails, AppendRecord, AppendFails, Release, Reply,
                StoreNext, CallerNext, AppendNext
  <2> QED
    BY <1>3, <2>1, <2>2, <2>3 DEF RequestStep
<1>4. CASE MachineDown \/ StateLost
  BY <1>4 DEF MachineDown, StateLost, StoreNext
<1> QED
  BY <1>1, <1>2, <1>3, <1>4 DEF AnyStep, WitnessNext

\* The update of a caller stays matched to its request.
LEMMA MatchStep ==
    ASSUME MutexInv, WitnessTypeOK, RequestsMatch, [AnyStep]_witnessVars
    PROVE  RequestsMatch'
<1>1. StoreTypeOK
  BY DEF MutexInv
<1> DEFINE Matches(c) ==
        op[c].stage # "none" =>
            /\ req[c] \in Submissions /\ req[c].origin = op[c].origin
            /\ op[c].stage \in {"writing", "syncing", "stored", "failed"} =>
                  op[c].head = req[c].head
<1> SUFFICES ASSUME NEW d \in Callers PROVE Matches(d)'
  BY DEF RequestsMatch
<1>2. Matches(d)
  BY DEF RequestsMatch
<1>3. op'[d] = op[d] /\ req'[d] = req[d] => Matches(d)'
  BY <1>2
<1>4. op'[d].stage = "none" => Matches(d)'
  OBVIOUS
<1>5. UNCHANGED req /\ op[d].stage # "none" /\ op'[d].origin = op[d].origin
        /\ (op'[d].stage \in {"writing", "syncing", "stored", "failed"} =>
                op'[d].head = req[d].head)
      => Matches(d)'
  BY <1>2
<1> HIDE DEF Matches
<1>6. ASSUME NEW dead, DropProcesses(dead), Forget(dead)
      PROVE  Matches(d)'
  <2>1. CASE op[d].inst \in dead
    BY <1>4, <1>6, <2>1 DEF DropProcesses, IdleOp
  <2>2. CASE op[d].inst \notin dead
    BY <1>3, <1>6, <2>2 DEF DropProcesses, Forget
  <2> QED
    BY <2>1, <2>2
<1>7. CASE UNCHANGED witnessVars
  BY <1>3, <1>7 DEF witnessVars, storeVars
<1>8. ASSUME NEW i \in Instances, ProcessStep(i)
      PROVE  Matches(d)'
  <2>1. CASE Start(i) \/ StartRefused(i) \/ Mend(i) \/ Swap(i) \/ \E o \in Origins : Serve(i, o)
    BY <1>3, <2>1 DEF Start, StartRefused, Mend, Swap, Serve, Open, OpenRefused, Repair, storeVars
  <2>2. CASE MendFails(i)
    <3>1. op[d].stage = "none" /\ op' = op
      BY <2>2, NobodyInside DEF MendFails, RepairFails
    <3> QED
      BY <1>4, <3>1
  <2>3. CASE Die(i)
    BY <1>6, <2>3 DEF Die, Kill
  <2> QED
    BY <1>8, <2>1, <2>2, <2>3 DEF ProcessStep
<1>9. ASSUME NEW c \in Callers, RequestStep(c)
      PROVE  Matches(d)'
  <2>1. ASSUME NEW i \in Instances, NEW s \in Submissions, Admit(c, i, s)
        PROVE  Matches(d)'
    <3>1. CASE d = c
      <4>1. op'[d].origin = s.origin /\ op'[d].stage = "waiting" /\ req'[d] = s
        BY <1>1, <2>1, <3>1 DEF Admit, Call, StoreTypeOK, WitnessTypeOK
      <4> QED
        BY <2>1, <4>1 DEF Matches
    <3>2. CASE d # c
      BY <1>1, <1>3, <2>1, <3>2 DEF Admit, Call, StoreTypeOK, WitnessTypeOK
    <3> QED
      BY <3>1, <3>2
  <2>2. ASSUME NEW i \in Instances, NEW s \in Submissions, TurnAway(c, i, s)
        PROVE  Matches(d)'
    <3>1. op' = op /\ req[c] = NoRequest
      BY <2>2 DEF TurnAway, Idle, storeVars
    <3>2. CASE d = c
      <4>1. op[d].stage = "none"
        BY <3>1, <3>2, NoRequestApart DEF RequestsMatch
      <4> QED
        BY <1>4, <3>1, <4>1
    <3>3. CASE d # c
      BY <1>3, <2>2, <3>1, <3>3 DEF TurnAway, WitnessTypeOK
    <3> QED
      BY <3>2, <3>3
  <2>3. CASE Check(c) \/ SignFails(c) \/ AppendRecord(c) \/ AppendFails(c) \/ Release(c)
    <3>1. UNCHANGED req
      BY <2>3 DEF Check, SignFails, AppendRecord, AppendFails, Release
    <3>2. CASE d # c
      <4>1. Approve(c, req[c].head) \/ \E stage : GoTo(c, stage)
        BY <2>3 DEF Check, SignFails, AppendRecord, AppendFails, Release, Refuse, Write,
                    WriteFails, Sync, SyncFails
      <4>2. op'[d] = op[d]
        BY <1>1, <3>2, <4>1, ApproveFields DEF GoTo, StoreTypeOK
      <4> QED
        BY <1>3, <3>1, <4>2
    <3>3. CASE d = c /\ Approve(c, req[c].head)
      <4>1. op[c].stage # "none"
        BY <3>3 DEF Approve, CanCheck, At
      <4> QED
        BY <1>1, <1>5, <3>1, <3>3, <4>1, ApproveFields
    <3>4. CASE d = c /\ ~Approve(c, req[c].head)
      <4>1. PICK stage : GoTo(c, stage) /\ (stage = "refused" \/ op[c].stage \in {"writing", "syncing"})
                /\ op[c].stage # "none"
        BY <2>3, <3>4 DEF Check, SignFails, AppendRecord, AppendFails, Release, Refuse, Write,
             WriteFails, Sync, SyncFails, CanCheck, At
      <4>2. op'[c].stage = stage /\ op'[c].origin = op[c].origin /\ op'[c].head = op[c].head
        BY <1>1, <4>1, GoToFields DEF At
      <4>3. op[c].stage \in {"writing", "syncing"} => op[c].head = req[c].head
        BY DEF RequestsMatch
      <4> QED
        BY <1>5, <3>1, <3>4, <4>1, <4>2, <4>3
    <3> QED
      BY <3>2, <3>3, <3>4
  <2>4. CASE Reply(c)
    <3>1. CASE d = c
      <4>1. op'[d].stage = "none"
        BY <1>1, <2>4, <3>1 DEF Reply, Return, At, StoreTypeOK, storeVars, IdleOp
      <4> QED
        BY <1>4, <4>1
    <3>2. CASE d # c
      BY <1>1, <1>3, <2>4, <3>2 DEF Reply, Return, StoreTypeOK, WitnessTypeOK, storeVars
    <3> QED
      BY <3>1, <3>2
  <2> QED
    BY <1>9, <2>1, <2>2, <2>3, <2>4 DEF RequestStep
<1>10. CASE MachineDown
  BY <1>6, <1>10 DEF MachineDown, PowerLoss
<1>11. CASE StateLost
  BY <1>3, <1>11 DEF StateLost, LoseState
<1> QED
  BY <1>7, <1>8, <1>9, <1>10, <1>11 DEF AnyStep, WitnessNext

-----------------------------------------------------------------------------
(***************************************************************************)
(* Types.                                                                  *)
(***************************************************************************)

\* What the closure answers is a response.
LEMMA VerdictType ==
    ASSUME NEW s \in Submissions, NEW current \in HeadOrNone
    PROVE  Verdict(s, current) \in [code : {0, 200, 400, 403, 404, 409, 422, 500}, size : Nat]
<1>1. LatestSize(current) \in Nat
  BY HeadAssumption DEF LatestSize, HeadOrNone
<1> QED
  BY <1>1 DEF Verdict, Answer

\* Every step keeps the types.
LEMMA WitnessTypeStep ==
    ASSUME WitnessTypeOK, RequestsMatch, [AnyStep]_witnessVars
    PROVE  WitnessTypeOK'
<1>1. StoreTypeOK /\ StoreTypeOK'
  BY WitnessStoreStep, StoreTypeStep DEF WitnessTypeOK
<1> DEFINE Answers == [code : {0, 200, 400, 403, 404, 409, 422, 500}, size : Nat]
<1>2. \A code \in {0, 200, 400, 403, 404, 409, 422, 500} : Answer(code) \in Answers
  BY DEF Answer
<1>3. NoAnswer \in Answers
  BY DEF NoAnswer
<1>4. /\ logs \in [Instances -> Lists]
      /\ req \in [Callers -> Submissions \union {NoRequest}]
      /\ answer \in [Callers -> Answers]
      /\ cosigned \subseteq Origins \X Heads
      /\ served \subseteq Origins \X Heads
  BY DEF WitnessTypeOK
<1> HIDE DEF Answers
<1> SUFFICES /\ logs' \in [Instances -> Lists]
             /\ req' \in [Callers -> Submissions \union {NoRequest}]
             /\ answer' \in [Callers -> Answers]
             /\ cosigned' \subseteq Origins \X Heads
             /\ served' \subseteq Origins \X Heads
  BY <1>1 DEF WitnessTypeOK, Answers
<1>5. CASE UNCHANGED witnessVars
  BY <1>4, <1>5 DEF witnessVars
<1>6. NoLogs \in Lists
  BY DEF NoLogs, Lists
<1>7. ASSUME NEW dead, Forget(dead)
      PROVE  /\ logs' \in [Instances -> Lists]
             /\ req' \in [Callers -> Submissions \union {NoRequest}]
             /\ answer' \in [Callers -> Answers]
             /\ cosigned' \subseteq Origins \X Heads
             /\ served' \subseteq Origins \X Heads
  BY <1>3, <1>4, <1>6, <1>7 DEF Forget
<1>8. ASSUME NEW i \in Instances, ProcessStep(i)
      PROVE  /\ logs' \in [Instances -> Lists]
             /\ req' \in [Callers -> Submissions \union {NoRequest}]
             /\ answer' \in [Callers -> Answers]
             /\ cosigned' \subseteq Origins \X Heads
             /\ served' \subseteq Origins \X Heads
  <2>1. \A managed \in ManagedSets : Effective(Manual, managed) \in Lists
    BY RequestAssumption DEF Effective, Lists
  <2>2. CASE Start(i) \/ Swap(i)
    BY <1>4, <2>1, <2>2 DEF Start, Swap
  <2>3. CASE StartRefused(i) \/ Mend(i)
    BY <1>4, <2>3 DEF StartRefused, Mend
  <2>4. CASE MendFails(i) \/ Die(i)
    BY <1>7, <2>4 DEF MendFails, Die
  <2>5. ASSUME NEW o \in Origins, Serve(i, o)
        PROVE  /\ UNCHANGED <<logs, req, answer, cosigned>>
               /\ served' \subseteq Origins \X Heads
    <3>1. mem[i][o] \in Heads
      BY <1>1, <2>5 DEF Serve, Shown, StoreTypeOK, HeadOrNone
    <3> QED
      BY <1>4, <2>5, <3>1 DEF Serve, Shown
  <2> QED
    BY <1>4, <1>8, <2>2, <2>3, <2>4, <2>5 DEF ProcessStep
<1>9. ASSUME NEW c \in Callers, RequestStep(c)
      PROVE  /\ logs' \in [Instances -> Lists]
             /\ req' \in [Callers -> Submissions \union {NoRequest}]
             /\ answer' \in [Callers -> Answers]
             /\ cosigned' \subseteq Origins \X Heads
             /\ served' \subseteq Origins \X Heads
  <2>1. ASSUME NEW i \in Instances, NEW s \in Submissions, Admit(c, i, s)
        PROVE  UNCHANGED <<logs, answer, cosigned, served>>
               /\ req' \in [Callers -> Submissions \union {NoRequest}]
    BY <1>4, <2>1 DEF Admit
  <2>2. ASSUME NEW i \in Instances, NEW s \in Submissions, TurnAway(c, i, s)
        PROVE  /\ UNCHANGED <<logs, cosigned, served>>
               /\ req' \in [Callers -> Submissions \union {NoRequest}]
               /\ answer' \in [Callers -> Answers]
    <3>1. Screened(s, logs[i]) \in {200, 400, 403, 404}
      BY DEF Screened
    <3> QED
      BY <1>2, <1>4, <2>2, <3>1 DEF TurnAway
  <2>3. ASSUME Check(c)
        PROVE  UNCHANGED <<logs, req, cosigned, served>> /\ answer' \in [Callers -> Answers]
    <3>1. op[c].stage = "waiting"
      BY <2>3 DEF Check, CanCheck, At
    <3>2. req[c] \in Submissions /\ op[c].inst \in Instances /\ op[c].origin \in Origins
      BY <1>1, <3>1, OpFields DEF RequestsMatch, At
    <3>3. Current(c) \in HeadOrNone
      BY <1>1, <3>2 DEF Current, StoreTypeOK
    <3>4. Verdict(req[c], Current(c)) \in Answers
      BY <3>2, <3>3, VerdictType DEF Answers
    <3> QED
      BY <1>4, <2>3, <3>4 DEF Check
  <2>4. CASE SignFails(c) \/ AppendRecord(c) \/ AppendFails(c)
    BY <1>2, <1>4, <2>4 DEF SignFails, AppendRecord, AppendFails
  <2>5. CASE Release(c)
    <3>1. <<op[c].origin, op[c].head>> \in Origins \X Heads
      BY <1>1, <2>5, OpFields DEF Release, Sync, At
    <3> QED
      BY <1>2, <1>4, <2>5, <3>1 DEF Release
  <2>6. CASE Reply(c)
    BY <1>3, <1>4, <2>6 DEF Reply
  <2> QED
    BY <1>4, <1>9, <2>1, <2>2, <2>3, <2>4, <2>5, <2>6 DEF RequestStep
<1>10. CASE MachineDown
  BY <1>7, <1>10 DEF MachineDown
<1>11. CASE StateLost
  BY <1>4, <1>11 DEF StateLost
<1> QED
  BY <1>5, <1>8, <1>9, <1>10, <1>11 DEF AnyStep, WitnessNext

-----------------------------------------------------------------------------
(***************************************************************************)
(* What is cosigned.                                                       *)
(***************************************************************************)

\* The history variables change in an approval and in a successful append only.
LEMMA HistoryStep ==
    ASSUME WitnessTypeOK, RequestsMatch, [AnyStep]_witnessVars
    PROVE  \/ UNCHANGED <<stored, unsettled, cosigned>>
           \/ \E c \in Callers : Check(c) /\ Approve(c, req[c].head)
           \/ \E c \in Callers : Release(c)
<1>1. CASE UNCHANGED witnessVars
  BY <1>1 DEF witnessVars, storeVars, history
<1>2. CASE \E i \in Instances : ProcessStep(i)
  BY <1>2 DEF ProcessStep, Start, StartRefused, Mend, MendFails, Die, Swap, Serve, Open,
              OpenRefused, Repair, RepairFails, Kill, Forget, storeVars, history
<1>3. ASSUME NEW c \in Callers, RequestStep(c), ~Check(c), ~Release(c)
      PROVE  UNCHANGED <<stored, unsettled, cosigned>>
  BY <1>3 DEF RequestStep, Admit, TurnAway, SignFails, AppendRecord, AppendFails, Reply, Call,
              Refuse, Write, WriteFails, SyncFails, Return, storeVars, history
<1>4. ASSUME NEW c \in Callers, Check(c)
      PROVE  Approve(c, req[c].head) \/ UNCHANGED <<stored, unsettled, cosigned>>
  BY <1>4 DEF Check, Refuse, history
<1>5. CASE MachineDown \/ StateLost
  BY <1>5 DEF MachineDown, StateLost, PowerLoss, LoseState, Forget, history
<1> QED
  BY <1>1, <1>2, <1>3, <1>4, <1>5 DEF AnyStep, WitnessNext

\* The heart of the protocol (ST-05 to ST-09): what the closure approves on a
\* state extends that state, provided a state of size 0 is the empty tree.
LEMMA VerdictExtends ==
    ASSUME NEW s \in Submissions, NEW current \in Heads,
           Size[current] = 0 => current = EmptyHead,
           Verdict(s, current).code = 200
    PROVE  Extends(current, s.head)
<1>1. s.head \in Heads /\ s.old \in Nat
  BY SubmissionFields
<1>2. Size[current] \in Nat /\ Size[s.head] \in Nat
  BY <1>1, HeadAssumption
<1>3. current # NoHead
  BY NoHeadAssumption
<1>4. s.old = Size[current]
  BY <1>3 DEF Verdict, LatestSize, Answer
<1>5. ~(Size[s.head] = 0 /\ s.head # EmptyHead)
  BY <1>4, <1>3 DEF Verdict, Answer, LatestSize
<1>6. CASE s.old = 0
  <2>1. current = EmptyHead
    BY <1>4, <1>6
  <2>2. CASE Size[s.head] = 0
    BY <1>1, <1>5, <2>1, <2>2, HeadAssumption
  <2>3. CASE Size[s.head] > 0
    BY <1>1, <2>1, <2>3, HeadAssumption
  <2> QED
    BY <1>2, <2>2, <2>3
<1>7. CASE s.old > 0
  <2>1. Verifies(current, s.head, s.proof)
    BY <1>3, <1>4, <1>5, <1>7 DEF Verdict, Answer, LatestSize
  <2> QED
    BY <1>1, <2>1, HeadAssumption DEF Verifies
<1> QED
  BY <1>1, <1>6, <1>7

\* A head the closure approves on no state at all is the empty tree if its size
\* is 0, and so on any state.
LEMMA VerdictEmpty ==
    ASSUME NEW s \in Submissions, NEW current \in HeadOrNone,
           Verdict(s, current).code = 200, Size[s.head] = 0
    PROVE  s.head = EmptyHead
BY DEF Verdict, Answer

\* Of the witness's steps, a caller's check is the one that approves.
LEMMA CheckOnlyApproves ==
    ASSUME StoreTypeOK, NEW d \in Callers, [AnyStep]_witnessVars,
           op[d].stage = "waiting", op'[d].stage = "writing"
    PROVE  Check(d)
<1>1. op'[d] # op[d] /\ op'[d] # IdleOp
  BY DEF IdleOp
<1>2. ~UNCHANGED op
  BY <1>1
<1>3. ~(UNCHANGED witnessVars)
  BY <1>2 DEF witnessVars, storeVars
<1>4. ASSUME NEW dead PROVE ~DropProcesses(dead)
  BY <1>1 DEF DropProcesses
<1>5. ~ \E i \in Instances : ProcessStep(i)
  BY <1>2, <1>4 DEF ProcessStep, Start, StartRefused, Mend, MendFails, Die, Swap, Serve, Open,
                    OpenRefused, Repair, RepairFails, Kill, storeVars
<1>6. ~MachineDown /\ ~StateLost
  BY <1>2, <1>4 DEF MachineDown, StateLost, PowerLoss, LoseState
<1>7. PICK c \in Callers : RequestStep(c)
  BY <1>3, <1>5, <1>6 DEF AnyStep, WitnessNext
<1>8. c = d
  <2> SUFFICES ASSUME c # d PROVE op'[d] = op[d]
    BY <1>1
  <2>1. CASE Check(c)
    <3>1. (\E h : Approve(c, h)) \/ GoTo(c, "refused")
      BY <2>1 DEF Check, Refuse
    <3> QED
      BY <3>1, ApproveFields DEF GoTo, StoreTypeOK
  <2>2. CASE \E i \in Instances, s \in Submissions : Admit(c, i, s) \/ TurnAway(c, i, s)
    BY <2>2 DEF Admit, TurnAway, Call, StoreTypeOK, storeVars
  <2>3. CASE SignFails(c) \/ AppendRecord(c) \/ AppendFails(c) \/ Release(c)
    <3>1. \E stage : GoTo(c, stage)
      BY <2>3 DEF SignFails, AppendRecord, AppendFails, Release, Refuse, Write, WriteFails,
                  Sync, SyncFails
    <3> QED
      BY <3>1 DEF GoTo, StoreTypeOK
  <2>4. CASE Reply(c)
    BY <2>4 DEF Reply, Return, StoreTypeOK, storeVars
  <2> QED
    BY <1>7, <2>1, <2>2, <2>3, <2>4 DEF RequestStep
<1>9. ~SignFails(c)
  <2> SUFFICES ASSUME SignFails(c) PROVE FALSE
    OBVIOUS
  <2>1. GoTo(d, "refused")
    BY <1>8 DEF SignFails, Refuse
  <2> QED
    BY <2>1, GoToFields DEF At
<1> QED
  BY <1>2, <1>7, <1>8, <1>9
     DEF RequestStep, Admit, TurnAway, AppendRecord, AppendFails, Release, Reply, Call, Write,
         WriteFails, Sync, SyncFails, Return, At, storeVars

\* So a head that is approved is that of the request, and the verdict was 200.
LEMMA ApprovedByCheck ==
    ASSUME StoreTypeOK, [AnyStep]_witnessVars, NEW c \in Callers, NEW h, Approve(c, h)
    PROVE  /\ Check(c) /\ h = req[c].head /\ op[c].stage = "waiting"
           /\ Verdict(req[c], Current(c)).code = 200
<1>1. op'[c].stage = "writing" /\ op'[c].head = h
  BY ApproveFields
<1>2. op[c].stage = "waiting"
  BY DEF Approve, CanCheck, At
<1>3. Check(c)
  BY <1>1, <1>2, CheckOnlyApproves
<1>4. ~Refuse(c)
  BY <1>1, <1>2, GoToFields DEF Refuse, At
<1>5. Approve(c, req[c].head) /\ Verdict(req[c], Current(c)).code = 200
  BY <1>3, <1>4 DEF Check
<1>6. op'[c].head = req[c].head
  BY <1>5, ApproveFields
<1> QED
  BY <1>1, <1>2, <1>3, <1>5, <1>6

\* What is approved is rooted and extends the state that it was approved on.
LEMMA ApproveSound ==
    ASSUME GuardInv, [AnyStep]_witnessVars, NEW c \in Callers, NEW h, Approve(c, h)
    PROVE  /\ Check(c) /\ h = req[c].head
           /\ op[c].inst \in Instances /\ status[op[c].inst] = "up"
           /\ Current(c) \in HeadOrNone
           /\ <<op[c].origin, h>> \in RootedHeads
           /\ Current(c) = NoHead \/ Extends(Current(c), h)
<1> DEFINE current == Current(c)
           o == op[c].origin
<1>1. StoreTypeOK /\ RequestsMatch /\ HeadsFrom(RootedHeads) /\ HoldersOnly
  BY DEF GuardInv, MutexInv
<1>2. /\ Check(c) /\ h = req[c].head /\ op[c].stage = "waiting"
      /\ Verdict(req[c], current).code = 200
  BY <1>1, ApprovedByCheck
<1>3. /\ req[c] \in Submissions /\ h \in Heads
      /\ op[c].inst \in Instances /\ o \in Origins /\ status[op[c].inst] = "up"
  BY <1>1, <1>2, OpFields, SubmissionFields DEF RequestsMatch, HoldersOnly, At
<1>4. current \in HeadOrNone
  BY <1>1, <1>3 DEF Current, StoreTypeOK
<1>5. Size[h] = 0 => h = EmptyHead
  BY <1>2, <1>3, <1>4, VerdictEmpty
<1>6. CASE current # NoHead
  <2>1. current \in Heads /\ <<o, current>> \in RootedHeads
    BY <1>1, <1>3, <1>4, <1>6 DEF HeadOrNone, HeadsFrom, Current
  <2>2. Size[current] = 0 => current = EmptyHead
    BY <2>1 DEF RootedHeads
  <2>3. Extends(current, h)
    BY <1>2, <1>3, <2>1, <2>2, VerdictExtends
  <2> QED
    BY <1>2, <1>3, <1>4, <1>5, <2>3 DEF RootedHeads
<1>7. CASE current = NoHead
  BY <1>2, <1>3, <1>4, <1>5, <1>7 DEF RootedHeads
<1> QED
  BY <1>6, <1>7

\* An approval: the approved head extends everything cosigned so far.
LEMMA ApproveInv ==
    ASSUME StoreInv, WitnessInv, [AnyStep]_witnessVars,
           NEW c \in Callers, Check(c), Approve(c, req[c].head)
    PROVE  CosignedBehind' /\ CosignedChain'
<1> DEFINE h == req[c].head
           o == op[c].origin
           current == Current(c)
<1>1. StoreTypeOK /\ WitnessTypeOK /\ CosignedBehind /\ CosignedChain /\ GuardInv
  BY DEF StoreInv, WitnessInv, GuardInv
<1>2. /\ op[c].inst \in Instances /\ status[op[c].inst] = "up" /\ current \in HeadOrNone
      /\ <<o, h>> \in RootedHeads
      /\ current = NoHead \/ Extends(current, h)
  BY <1>1, ApproveSound
<1>3. h \in Heads /\ o \in Origins
  BY <1>2 DEF RootedHeads
<1>4. MayShow(o, current)
  BY <1>2, <1>3 DEF Current, StoreInv, OpenedCurrent
<1>5. /\ UNCHANGED <<stored, cosigned>>
      /\ unsettled' = [unsettled EXCEPT ![o] = unsettled[o] \union {h}]
  BY DEF Approve, Check
<1>6. \A p \in Origins : unsettled'[p] = IF p = o THEN unsettled[p] \union {h} ELSE unsettled[p]
  BY <1>1, <1>3, <1>5 DEF StoreTypeOK
<1> HIDE DEF h, o, current
<1>7. ASSUME NEW g \in Heads, <<o, g>> \in cosigned
      PROVE  Extends(g, h)
  <2>1. /\ stored[o] # NoHead /\ Extends(g, stored[o])
        /\ \A d \in unsettled[o] : Extends(g, d)
    BY <1>1, <1>3, <1>7 DEF CosignedBehind
  <2>2. Extends(g, current) /\ current # NoHead
    <3>1. CASE current = stored[o]
      BY <2>1, <3>1
    <3>2. CASE current \in unsettled[o]
      BY <1>1, <1>3, <2>1, <3>2, NoHeadAssumption DEF StoreTypeOK
    <3> QED
      BY <1>4, <3>1, <3>2 DEF MayShow
  <2>3. current \in Heads
    BY <1>2, <2>2 DEF HeadOrNone
  <2> QED
    BY <1>2, <1>3, <2>2, <2>3, HeadAssumption
<1>8. CosignedBehind'
  BY <1>1, <1>5, <1>6, <1>7 DEF CosignedBehind
<1>9. CosignedChain'
  BY <1>1, <1>5 DEF CosignedChain
<1> QED
  BY <1>8, <1>9

\* A release: the released head extends everything cosigned before it.
LEMMA ReleaseExtends ==
    ASSUME StoreInv, WitnessInv, NEW c \in Callers, Release(c)
    PROVE  /\ op[c].origin \in Origins /\ op[c].head \in Heads
           /\ cosigned' = cosigned \union {<<op[c].origin, op[c].head>>}
           /\ \A g \in Heads : <<op[c].origin, g>> \in cosigned => Extends(g, op[c].head)
<1>1. op[c].stage = "syncing"
  BY DEF Release, Sync, At
<1>2. op[c].origin \in Origins /\ op[c].head \in Heads
  BY <1>1, OpFields DEF StoreInv, At
<1>3. op[c].head \in unsettled[op[c].origin]
  BY <1>1 DEF StoreInv, HoldersOnly
<1>4. \A g \in Heads : <<op[c].origin, g>> \in cosigned => Extends(g, op[c].head)
  BY <1>2, <1>3 DEF WitnessInv, CosignedBehind
<1> QED
  BY <1>2, <1>4 DEF Release

\* So the release keeps the chain, and what is settled is the released head.
LEMMA ReleaseInv ==
    ASSUME StoreInv, WitnessInv, NEW c \in Callers, Release(c)
    PROVE  CosignedBehind' /\ CosignedChain'
<1> DEFINE h == op[c].head
           o == op[c].origin
<1>1. StoreTypeOK /\ CosignedBehind /\ CosignedChain
  BY DEF StoreInv, WitnessInv, GuardInv
<1>2. /\ o \in Origins /\ h \in Heads
      /\ cosigned' = cosigned \union {<<o, h>>}
      /\ \A g \in Heads : <<o, g>> \in cosigned => Extends(g, h)
  BY ReleaseExtends
<1>3. h \in unsettled[o] /\ h # NoHead
  BY <1>2, NoHeadAssumption DEF Release, Sync, At, StoreInv, HoldersOnly
<1>4. \A p \in Origins : /\ stored'[p] = IF p = o THEN h ELSE stored[p]
                         /\ unsettled'[p] = IF p = o THEN {} ELSE unsettled[p]
  BY <1>1, <1>2 DEF Release, Sync, StoreTypeOK
<1>5. Extends(h, h)
  BY <1>2, HeadAssumption
<1> HIDE DEF h, o
<1>6. CosignedBehind'
  BY <1>1, <1>2, <1>3, <1>4, <1>5 DEF CosignedBehind
<1>7. CosignedChain'
  BY <1>1, <1>2, <1>5 DEF CosignedChain, Comparable
<1> QED
  BY <1>6, <1>7

\* Nobody changes the state under an approved caller, so its head goes on
\* extending it until it is released.
LEMMA ApprovedExtendsStep ==
    ASSUME GuardInv, [AnyStep]_witnessVars
    PROVE  ApprovedExtends'
<1>1. MutexInv /\ StoreTypeOK /\ WitnessTypeOK /\ RequestsMatch /\ ApprovedExtends
  BY DEF GuardInv, MutexInv
<1>2. [StoreNext]_storeVars
  BY <1>1, WitnessStoreStep
<1> SUFFICES ASSUME NEW d \in Callers, op'[d].stage \in {"writing", "syncing"}
             PROVE  Current(d)' = NoHead \/ Extends(Current(d)', op'[d].head)
  BY DEF ApprovedExtends
<1>3. CASE /\ op[d].stage \in {"writing", "syncing"}
           /\ op'[d].inst = op[d].inst /\ op'[d].origin = op[d].origin
           /\ op'[d].head = op[d].head
  <2>1. Current(d)' = Current(d)
    BY <1>1, <1>2, <1>3, CheckedStateStep DEF Current
  <2> QED
    BY <1>1, <1>3, <2>1 DEF ApprovedExtends
<1>4. ASSUME NEW h, Approve(d, h)
      PROVE  Current(d)' = NoHead \/ Extends(Current(d)', op'[d].head)
  <2>1. /\ op'[d].inst = op[d].inst /\ op'[d].origin = op[d].origin /\ op'[d].head = h
    BY <1>1, <1>4, ApproveFields
  <2>2. mem' = mem
    BY <1>4 DEF Approve, process
  <2>3. Current(d) = NoHead \/ Extends(Current(d), h)
    BY <1>4, ApproveSound
  <2> QED
    BY <2>1, <2>2, <2>3 DEF Current
<1> QED
  BY <1>1, <1>2, <1>3, <1>4, InsideStep

\* Every step of the witness keeps the guard, under every fault.
LEMMA GuardInvStep ==
    ASSUME GuardInv, [AnyStep]_witnessVars
    PROVE  GuardInv'
<1>1. MutexInv /\ StoreTypeOK /\ WitnessTypeOK /\ RequestsMatch /\ HeadsFrom(RootedHeads)
  BY DEF GuardInv, MutexInv
<1>2. [StoreNext]_storeVars
  BY <1>1, WitnessStoreStep
<1>3. MutexInv'
  BY <1>1, <1>2, MutexInvStep
<1>4. WitnessTypeOK' /\ RequestsMatch' /\ ApprovedExtends'
  BY <1>1, WitnessTypeStep, MatchStep, ApprovedExtendsStep
<1>5. HeadsFrom(RootedHeads)'
  <2>1. \A c \in Callers : \A h : Approve(c, h) => <<op[c].origin, h>> \in RootedHeads
    BY ApproveSound
  <2> QED
    BY <1>1, <1>2, <2>1, HeadsFromStep
<1> QED
  BY <1>3, <1>4, <1>5 DEF GuardInv

\* The invariant holds initially.
LEMMA WitnessInvInit == WitnessInit => StoreInv /\ WitnessInv
<1> SUFFICES ASSUME WitnessInit PROVE StoreInv /\ WitnessInv
  OBVIOUS
<1>1. StoreInit /\ cosigned = {} /\ served = {}
  BY DEF WitnessInit
<1>2. StoreInv
  BY <1>1, StoreInvInit
<1>3. WitnessTypeOK
  <2>1. StoreTypeOK
    BY <1>1, StoreTypeInit
  <2> QED
    BY <2>1 DEF WitnessInit, WitnessTypeOK, NoLogs, NoAnswer, Lists
<1>4. \A c \in Callers : op[c].stage = "none"
  BY <1>1 DEF StoreInit, IdleOp
<1>5. RequestsMatch /\ ApprovedExtends
  BY <1>4 DEF RequestsMatch, ApprovedExtends
<1>6. HeadsFrom(RootedHeads)
  <2>1. file = <<>> /\ \A i \in Instances, o \in Origins : mem[i][o] = NoHead
    BY <1>1 DEF StoreInit, NoMem
  <2> QED
    BY <1>4, <2>1 DEF HeadsFrom, RecordsFrom
<1>7. CosignedBehind /\ CosignedChain
  BY <1>1 DEF CosignedBehind, CosignedChain
<1> QED
  BY <1>2, <1>3, <1>5, <1>6, <1>7 DEF WitnessInv, GuardInv, StoreInv, MutexInv

\* Every step keeps the invariant, where every step keeps that of the store.
LEMMA WitnessInvStep ==
    ASSUME StoreInv, WitnessInv, DiskHolds, [AnyStep]_witnessVars
    PROVE  StoreInv' /\ WitnessInv'
<1>1. WitnessTypeOK /\ RequestsMatch /\ GuardInv
  BY DEF WitnessInv, GuardInv
<1>2. StoreInv'
  BY <1>1, WitnessStoreStep, StoreInvStep
<1>3. GuardInv'
  BY <1>1, GuardInvStep
<1>4. CosignedBehind' /\ CosignedChain'
  <2>1. CASE UNCHANGED <<stored, unsettled, cosigned>>
    BY <2>1 DEF WitnessInv, CosignedBehind, CosignedChain
  <2> QED
    BY <1>1, <2>1, HistoryStep, ApproveInv, ReleaseInv
<1> QED
  BY <1>2, <1>3, <1>4 DEF WitnessInv, GuardInv

-----------------------------------------------------------------------------
(***************************************************************************)
(* What the mutex and the checks made inside it guarantee, whatever fails. *)
(***************************************************************************)

\* The guard is invariant: the closure's decision stays right until its record is
\* in the map, even over a file with fused lines in it.
THEOREM GuardHolds == WitnessSpec => []GuardInv
<1>1. WitnessInit => GuardInv
  BY WitnessInvInit DEF WitnessInv, GuardInv
<1>2. GuardInv /\ [AnyStep]_witnessVars => GuardInv'
  BY GuardInvStep
<1> QED
  BY <1>1, <1>2, StepKinds, PTL DEF WitnessSpec

\* Types of the witness, under every fault.
THEOREM WitnessTypeCorrect == WitnessSpec => []WitnessTypeOK
<1>1. GuardInv => WitnessTypeOK
  BY DEF GuardInv
<1> QED
  BY <1>1, GuardHolds, PTL

\* SM-02: what is released was approved on the state that it replaces.
LEMMA ReleaseStep ==
    ASSUME GuardInv, [AnyStep]_witnessVars, NEW o \in Origins, NEW h \in Heads,
           <<o, h>> \in cosigned' \ cosigned
    PROVE  \E c \in Callers :
              /\ op[c].origin = o /\ op[c].head = h
              /\ lock[op[c].inst] = c
              /\ Current(c) = NoHead \/ Extends(Current(c), h)
<1>1. PICK c \in Callers : Release(c)
  BY HistoryStep DEF GuardInv, Check
<1>2. cosigned' = cosigned \union {<<op[c].origin, op[c].head>>}
  BY <1>1 DEF Release
<1>3. op[c].stage = "syncing"
  BY <1>1 DEF Release, Sync, At
<1>4. lock[op[c].inst] = c /\ (Current(c) = NoHead \/ Extends(Current(c), op[c].head))
  BY <1>3 DEF GuardInv, MutexInv, HoldersOnly, ApprovedExtends
<1> QED
  BY <1>2, <1>4

\* SM-02 for every release, short writes and lost files included: the head that is
\* cosigned extends what the map held until then.
THEOREM ReleasesExtendCurrentHolds == WitnessSpec => ReleasesExtendCurrent
<1>1. GuardInv /\ [AnyStep]_witnessVars =>
        [\A o \in Origins : \A h \in Heads :
          <<o, h>> \in cosigned' \ cosigned =>
              \E c \in Callers :
                  /\ op[c].origin = o /\ op[c].head = h
                  /\ lock[op[c].inst] = c
                  /\ Current(c) = NoHead \/ Extends(Current(c), h)]_witnessVars
  BY ReleaseStep
<1> QED
  BY <1>1, GuardHolds, StepKinds, PTL DEF WitnessSpec, ReleasesExtendCurrent

\* A 409 is the answer of a check, and names the size that was current in it.
LEMMA ConflictStep ==
    ASSUME WitnessTypeOK, [AnyStep]_witnessVars,
           NEW c \in Callers, answer'[c].code = 409, answer[c].code = 0
    PROVE  Check(c) /\ answer'[c] = Verdict(req[c], Current(c))
<1>1. /\ NoAnswer.code = 0
      /\ \A code \in {200, 400, 403, 404, 500} : Answer(code).code # 409
  BY DEF NoAnswer, Answer
<1>2. answer \in [Callers -> [code : {0, 200, 400, 403, 404, 409, 422, 500}, size : Nat]]
  BY DEF WitnessTypeOK
<1>3. ~UNCHANGED answer
  OBVIOUS
\* Those who die lose their answers.
<1>4. ASSUME NEW dead PROVE ~Forget(dead)
  BY <1>1 DEF Forget
<1>5. ASSUME NEW i \in Instances PROVE ~ProcessStep(i)
  BY <1>3, <1>4 DEF ProcessStep, Start, StartRefused, Mend, MendFails, Die, Swap, Serve
<1>6. ~MachineDown /\ ~StateLost
  BY <1>3, <1>4 DEF MachineDown, StateLost
<1>7. ASSUME NEW d \in Callers, RequestStep(d)
      PROVE  Check(c) /\ answer'[c] = Verdict(req[c], Current(c))
  <2>1. ASSUME NEW code \in {200, 400, 403, 404, 500} PROVE answer' # [answer EXCEPT ![d] = Answer(code)]
    BY <1>1, <1>2
  <2>2. ASSUME NEW i \in Instances, NEW s \in Submissions PROVE ~Admit(d, i, s) /\ ~TurnAway(d, i, s)
    <3>1. Screened(s, logs[i]) \in {200, 400, 403, 404}
      BY DEF Screened
    <3> QED
      BY <1>3, <2>1, <3>1 DEF Admit, TurnAway
  <2>3. ~SignFails(d) /\ ~AppendRecord(d) /\ ~AppendFails(d) /\ ~Release(d)
    BY <1>3, <2>1 DEF SignFails, AppendRecord, AppendFails, Release
  <2>4. ~Reply(d)
    BY <1>1, <1>2 DEF Reply
  <2>5. Check(d)
    BY <1>7, <2>2, <2>3, <2>4 DEF RequestStep
  <2>6. answer' = [answer EXCEPT ![d] = Verdict(req[d], Current(d))]
    BY <1>3, <2>5 DEF Check
  <2>7. d = c
    BY <1>2, <2>6
  <2> QED
    BY <1>2, <2>5, <2>6, <2>7
<1> QED
  BY <1>3, <1>5, <1>6, <1>7 DEF AnyStep, WitnessNext, witnessVars

\* The request that got it would not get another with the size that it names.
LEMMA ConflictNamesStep ==
    ASSUME GuardInv, [AnyStep]_witnessVars,
           NEW c \in Callers, answer'[c].code = 409, answer[c].code = 0
    PROVE  Verdict([req[c] EXCEPT !.old = answer'[c].size], Current(c)).code # 409
<1>1. Check(c) /\ answer'[c] = Verdict(req[c], Current(c))
  BY ConflictStep DEF GuardInv
<1>2. answer'[c].size = LatestSize(Current(c))
  BY <1>1 DEF Verdict, Answer
<1>3. req[c] \in Submissions
  BY <1>1 DEF Check, CanCheck, At, GuardInv, RequestsMatch
<1> DEFINE retry == [req[c] EXCEPT !.old = answer'[c].size]
<1>4. retry.old = LatestSize(Current(c))
  BY <1>2, <1>3, RequestAssumption DEF Submission
<1> HIDE DEF retry
<1>5. Verdict(retry, Current(c)).code # 409
  BY <1>4 DEF Verdict, Answer
<1> QED
  BY <1>5 DEF retry

\* I5 and SM-05 for every 409, under every fault.
THEOREM ConflictNamesCurrentSizeHolds == WitnessSpec => ConflictNamesCurrentSize
<1>1. GuardInv /\ [AnyStep]_witnessVars =>
        [\A c \in Callers : answer'[c].code = 409 /\ answer[c].code = 0 =>
            Verdict([req[c] EXCEPT !.old = answer'[c].size], Current(c)).code # 409]_witnessVars
  BY ConflictNamesStep
<1> QED
  BY <1>1, GuardHolds, StepKinds, PTL DEF WitnessSpec, ConflictNamesCurrentSize

-----------------------------------------------------------------------------
(***************************************************************************)
(* The theorems.  They exclude the faults that break the state file: a     *)
(* write_all that fails half-way while its process lives on, and a lost    *)
(* file.  Process death at any point, power loss and failing fsyncs, any   *)
(* number of them, are included.                                           *)
(***************************************************************************)

\* Where cosignatures, the file and everything it may be replayed to stand.
THEOREM WitnessInvariant ==
    ASSUME DiskHolds
    PROVE  WitnessSpec => [](StoreInv /\ WitnessInv)
<1>1. StoreInv /\ WitnessInv /\ [AnyStep]_witnessVars => (StoreInv /\ WitnessInv)'
  BY WitnessInvStep
<1> QED
  BY <1>1, WitnessInvInit, StepKinds, PTL DEF WitnessSpec


\* What the invariant says of two cosigned heads.
LEMMA NoConflictFrom == WitnessInv => NoConflict
<1> SUFFICES ASSUME WitnessInv, NEW o \in Origins, NEW g \in Heads, NEW h \in Heads,
                    {<<o, g>>, <<o, h>>} \subseteq cosigned
             PROVE  Comparable(g, h) /\ (Size[g] = Size[h] => g = h)
  BY DEF NoConflict
<1>1. Comparable(g, h)
  BY DEF WitnessInv, CosignedChain
<1>2. Size[g] \in Nat /\ Size[h] \in Nat
  BY HeadAssumption
<1>3. Size[g] < Size[h] \/ Size[h] < Size[g] \/ g = h
  BY <1>1, HeadAssumption DEF Comparable
<1> QED
  BY <1>1, <1>2, <1>3

\* I1: no two cosigned heads of one log are in conflict.
THEOREM NoConflictHolds ==
    ASSUME DiskHolds
    PROVE  WitnessSpec => []NoConflict
  BY NoConflictFrom, WitnessInvariant, PTL

\* What the invariants say of a file that a crash leaves.
LEMMA ResumesFrom == StoreInv /\ WitnessInv => NeverResumesBehind
<1> SUFFICES ASSUME StoreInv, WitnessInv,
                    NEW image \in CrashImages(file, synced), Readable(image),
                    NEW m \in [Origins -> HeadOrNone], Replays(image, m),
                    NEW o \in Origins, NEW g \in Heads, <<o, g>> \in cosigned
             PROVE  m[o] # NoHead /\ Extends(g, m[o])
  BY DEF NeverResumesBehind
<1>1. MayShow(o, m[o])
  BY SurvivesInv DEF StoredSurvives
<1>2. /\ stored[o] # NoHead /\ Extends(g, stored[o])
      /\ \A h \in unsettled[o] : Extends(g, h)
  BY DEF WitnessInv, CosignedBehind
<1>3. \A h \in unsettled[o] : h # NoHead
  BY NoHeadAssumption DEF StoreInv, StoreTypeOK
<1> QED
  BY <1>1, <1>2, <1>3 DEF MayShow

\* SM-04: a witness that opens whatever a crash leaves of the file goes on from a
\* head that extends everything cosigned.
THEOREM NeverResumesBehindHolds ==
    ASSUME DiskHolds
    PROVE  WitnessSpec => []NeverResumesBehind
  BY ResumesFrom, WitnessInvariant, PTL

\* The witness implements the abstract specification: its responses publish one
\* append-only history per log.
THEOREM ResponsesRefine ==
    ASSUME DiskHolds
    PROVE  WitnessSpec => ResponsesAppendOnly
<1>1. WitnessInit => Responses!Init
  BY DEF WitnessInit, Responses!Init
<1>2. ASSUME StoreInv, WitnessInv, [AnyStep]_witnessVars
      PROVE  [Responses!Next]_cosigned
  <2>1. ASSUME NEW c \in Callers, Release(c)
        PROVE  Responses!Next
    <3>1. /\ op[c].origin \in Origins /\ op[c].head \in Heads
          /\ cosigned' = cosigned \union {<<op[c].origin, op[c].head>>}
          /\ \A g \in Heads : <<op[c].origin, g>> \in cosigned => Extends(g, op[c].head)
      BY <1>2, <2>1, ReleaseExtends
    <3> QED
      BY <3>1 DEF Responses!Next, Responses!Publish
  <2>2. UNCHANGED cosigned \/ \E c \in Callers : Release(c)
    BY <1>2, HistoryStep DEF WitnessInv, GuardInv, Check
  <2> QED
    BY <2>1, <2>2
<1> QED
  BY <1>1, <1>2, WitnessInvariant, StepKinds, PTL DEF WitnessSpec, ResponsesAppendOnly, Responses!Spec

-----------------------------------------------------------------------------
\* No step takes a durable record away, and a release has just synced its own.
LEMMA DurableStep ==
    ASSUME DiskHolds, StoreInv, WitnessInv, CosignedIsDurable, [AnyStep]_witnessVars
    PROVE  CosignedIsDurable'
<1>1. [StoreNext]_storeVars
  BY WitnessStoreStep DEF WitnessInv, GuardInv
<1>2. ASSUME NEW o \in Origins, NEW h \in Heads, <<o, h>> \in cosigned
      PROVE  \E k \in 1..synced' : IsRecordOf(file'[k], o) /\ file'[k].head = h
  <2>1. PICK k \in 1..synced : IsRecordOf(file[k], o) /\ file[k].head = h
    BY <1>2 DEF CosignedIsDurable
  <2> QED
    BY <1>1, <2>1, DurableKept
<1>3. ASSUME NEW c \in Callers, Release(c)
      PROVE  \E k \in 1..synced' : /\ IsRecordOf(file'[k], op[c].origin)
                                   /\ file'[k].head = op[c].head
  <2>1. file' = file /\ synced' = Len(file) /\ op[c].stage = "syncing"
    BY <1>3 DEF Release, Sync, At
  <2>2. file # <<>> /\ file[Len(file)] = Record(op[c].origin, op[c].head, TRUE)
    BY <2>1 DEF StoreInv, WrittenLast
  <2>3. Len(file) \in 1..Len(file)
    BY <2>2 DEF StoreInv, StoreTypeOK
  <2>4. IsRecordOf(file[Len(file)], op[c].origin) /\ file[Len(file)].head = op[c].head
    BY <2>2 DEF IsRecordOf, Record
  <2> QED
    BY <2>1, <2>3, <2>4
<1>4. UNCHANGED cosigned
        \/ \E c \in Callers :
              Release(c) /\ cosigned' = cosigned \union {<<op[c].origin, op[c].head>>}
  BY HistoryStep DEF WitnessInv, GuardInv, Check, Release
<1> SUFFICES ASSUME NEW o \in Origins, NEW h \in Heads, <<o, h>> \in cosigned'
             PROVE  \E k \in 1..synced' : IsRecordOf(file'[k], o) /\ file'[k].head = h
  BY DEF CosignedIsDurable
<1>5. CASE <<o, h>> \in cosigned
  BY <1>2, <1>5
<1>6. CASE <<o, h>> \notin cosigned
  <2>1. PICK c \in Callers : Release(c) /\ o = op[c].origin /\ h = op[c].head
    BY <1>4, <1>6
  <2> QED
    BY <1>3, <2>1
<1> QED
  BY <1>5, <1>6

\* I2: the record of every cosigned head is durable, and stays so.
THEOREM CosignedIsDurableHolds ==
    ASSUME DiskHolds
    PROVE  WitnessSpec => []CosignedIsDurable
<1>1. WitnessInit => CosignedIsDurable
  BY DEF WitnessInit, CosignedIsDurable
<1>2. StoreInv /\ WitnessInv /\ CosignedIsDurable /\ [AnyStep]_witnessVars => CosignedIsDurable'
  BY DurableStep
<1> QED
  BY <1>1, <1>2, WitnessInvariant, StepKinds, PTL DEF WitnessSpec

-----------------------------------------------------------------------------
(***************************************************************************)
(* Monitors.  Replay takes what it finds in the page cache for state, and  *)
(* the monitoring endpoint serves it.  A process that dies leaves its      *)
(* unsynced records to the next one's replay, and a power loss takes them  *)
(* away: either of the two is in order, both together are not.             *)
(***************************************************************************)

\* Among the first n lines of f is the record of s, behind it come for o only
\* records that extend s, and all that is in `given`, for o, leads up to s.
Leads(f, n, given, o, s) ==
    /\ SettledBy(f, n, o, s, {h \in Heads : s = NoHead \/ Extends(s, h)})
    /\ \A g \in Heads : <<o, g>> \in given => s # NoHead /\ Extends(g, s)

\* The lines that stay: the durable ones where an outage may come, else all.
Firm(outage) == IF outage THEN synced ELSE Len(file)

\* What anybody was given leads up to a state that the file holds firmly, and to the
\* one that a process goes by.  Where an outage may come, nobody starts on a file
\* that is not durable.
PublishedInv(outage) ==
    /\ \A o \in Origins : \E s \in HeadOrNone :
          Leads(file, Firm(outage), cosigned \union served, o, s)
    /\ \A i \in Instances : status[i] \in {"repairing", "up"} =>
          \A o \in Origins : Leads(file, Firm(outage), cosigned \union served, o, mem[i][o])
    /\ outage /\ (\A i \in Instances : status[i] # "up") => synced = Len(file)

LEMMA FirmLines ==
    ASSUME StoreTypeOK, NEW outage \in BOOLEAN
    PROVE  Firm(outage) \in 0..Len(file)
  BY DEF Firm, StoreTypeOK

\* Whatever state replay takes from the file, all that was given leads up to it.
LEMMA LeadsReplay ==
    ASSUME NEW f \in Seq(Line), NEW n \in 0..Len(f), NEW given, NEW o \in Origins,
           NEW s \in HeadOrNone, Leads(f, n, given, o, s),
           NEW m \in [Origins -> HeadOrNone], Replays(f, m)
    PROVE  Leads(f, Len(f), given, o, m[o])
<1> DEFINE U == {h \in Heads : s = NoHead \/ Extends(s, h)}
           V == {h \in Heads : m[o] = NoHead \/ Extends(m[o], h)}
<1>1. Len(f) \in Nat /\ SettledBy(f, n, o, s, U)
  BY DEF Leads
<1>2. m[o] \in U \union {s}
  <2> HIDE DEF U
  <2> QED
    BY <1>1, SettledReplay
<1>3. \A g \in Heads : <<o, g>> \in given => m[o] # NoHead /\ Extends(g, m[o])
  <2> SUFFICES ASSUME NEW g \in Heads, <<o, g>> \in given
               PROVE  m[o] # NoHead /\ Extends(g, m[o])
    OBVIOUS
  <2>1. s # NoHead /\ s \in Heads /\ Extends(g, s)
    BY DEF Leads, HeadOrNone
  <2>2. CASE m[o] = s
    BY <2>1, <2>2
  <2>3. CASE m[o] \in Heads /\ Extends(s, m[o])
    BY <2>1, <2>3, HeadAssumption, NoHeadAssumption
  <2> QED
    BY <1>2, <2>1, <2>2, <2>3
<1>4. SettledBy(f, Len(f), o, m[o], V)
  <2> HIDE DEF V
  <2>1. CASE m[o] = NoHead /\ \A k \in 1..Len(f) : ~IsRecordOf(f[k], o)
    <3>1. 0 \in 0..Len(f) /\ \A j \in 0 + 1..Len(f) : IsRecordOf(f[j], o) => f[j].head \in V \union {m[o]}
      BY <1>1, <2>1
    <3> QED
      BY <2>1, <3>1 DEF SettledBy
  <2>2. ASSUME NEW k \in 1..Len(f), IsRecordOf(f[k], o), m[o] = f[k].head,
               \A j \in k+1..Len(f) : ~IsRecordOf(f[j], o)
        PROVE  SettledBy(f, Len(f), o, m[o], V)
    <3>1. k \in 0..Len(f) /\ k # 0
      BY <1>1
    <3> QED
      BY <2>2, <3>1 DEF SettledBy
  <2> QED
    BY <2>1, <2>2 DEF Replays
<1> QED
  BY <1>3, <1>4 DEF Leads

\* One more line: if it is a record of o, then of a head that extends s.
LEMMA LeadsAppend ==
    ASSUME NEW f \in Seq(Line), NEW n \in 0..Len(f), NEW given, NEW o \in Origins, NEW s,
           Leads(f, n, given, o, s),
           NEW line \in Line,
           IsRecordOf(line, o) =>
               line.head \in Heads /\ (s = NoHead \/ Extends(s, line.head))
    PROVE  /\ Leads(Append(f, line), n, given, o, s)
           /\ Leads(Append(f, line), Len(Append(f, line)), given, o, s)
<1> DEFINE U == {h \in Heads : s = NoHead \/ Extends(s, h)}
<1>1. Len(Append(f, line)) = Len(f) + 1 /\ SettledBy(f, n, o, s, U)
  BY DEF Leads
<1>2. IsRecordOf(line, o) => line.head \in U \union {s}
  OBVIOUS
<1>3. SettledBy(Append(f, line), n, o, s, U)
  <2> HIDE DEF U
  <2> QED
    BY <1>1, <1>2, SettledAppend
<1>4. SettledBy(Append(f, line), Len(f) + 1, o, s, U)
  <2> HIDE DEF U
  <2>1. Append(f, line) \in Seq(Line) /\ n \in Nat /\ Len(f) + 1 \in Nat /\ n <= Len(f) + 1
    OBVIOUS
  <2> QED
    BY <1>3, <2>1, SettledWeaker
<1> QED
  BY <1>1, <1>3, <1>4 DEF Leads

\* A record that is among fewer lines is among more.
LEMMA LeadsFurther ==
    ASSUME NEW f \in Seq(Line), NEW n \in Nat, NEW m \in Nat, n <= m, NEW given,
           NEW o \in Origins, NEW s, Leads(f, n, given, o, s)
    PROVE  Leads(f, m, given, o, s)
  BY SettledWeaker DEF Leads

\* A step after which the file, what is published and the maps are as before.
LEMMA PublishedQuiet ==
    ASSUME NEW outage \in BOOLEAN, PublishedInv(outage),
           UNCHANGED <<file, synced, cosigned, served>>,
           \A i \in Instances : status'[i] \in {"repairing", "up"} =>
               status[i] \in {"repairing", "up"} /\ mem'[i] = mem[i],
           outage => \A i \in Instances : status[i] = "up" => status'[i] = "up"
    PROVE  PublishedInv(outage)'
<1>1. Firm(outage)' = Firm(outage)
  BY DEF Firm
<1> QED
  BY <1>1 DEF PublishedInv

\* One more line, a record of the caller inside the mutex or none.
LEMMA PublishedAppend ==
    ASSUME NEW outage \in BOOLEAN, StoreInv, WitnessInv, PublishedInv(outage),
           NEW c \in Callers, op[c].stage = "writing",
           NEW line \in Line, file' = AppendLine(file, line),
           UNCHANGED <<synced, cosigned, served>>,
           line.kind = "record" => line.origin = op[c].origin /\ line.head = op[c].head,
           \A i \in Instances : status'[i] \in {"repairing", "up"} =>
               status[i] \in {"repairing", "up"} /\ mem'[i] = mem[i],
           outage => status' = status
    PROVE  PublishedInv(outage)'
<1> DEFINE i == op[c].inst
           given == cosigned \union served
<1>1. StoreTypeOK /\ i \in Instances /\ status[i] = "up" /\ op[c].head \in Heads
  BY OpFields DEF StoreInv, HoldersOnly, At
<1>2. \A j \in Instances : status[j] \in {"repairing", "up"} => j = i
  BY <1>1 DEF StoreInv, OwnersOnly
<1>3. file \in Seq(Line) /\ file' = Append(file, line)
  BY <1>1 DEF StoreInv, Framed, AppendLine, StoreTypeOK
<1>4. Current(c) = NoHead \/ Extends(Current(c), op[c].head)
  BY DEF WitnessInv, GuardInv, ApprovedExtends
<1>5. ASSUME NEW o \in Origins
      PROVE  Leads(file', Firm(outage)', given, o, mem[i][o]) /\ mem[i][o] \in HeadOrNone
  <2>1. Leads(file, Firm(outage), given, o, mem[i][o]) /\ mem[i][o] \in HeadOrNone
    BY <1>1 DEF PublishedInv, StoreTypeOK
  <2>2. IsRecordOf(line, o) =>
            line.head \in Heads /\ (mem[i][o] = NoHead \/ Extends(mem[i][o], line.head))
    BY <1>1, <1>4 DEF IsRecordOf, Current
  <2>3. Firm(outage)' = Firm(outage) \/ Firm(outage)' = Len(file')
    BY DEF Firm
  <2>4. Firm(outage) \in 0..Len(file)
    BY <1>1, FirmLines
  <2> HIDE DEF i, given
  <2> QED
    BY <1>3, <2>1, <2>2, <2>3, <2>4, LeadsAppend
<1>6. cosigned' \union served' = given
  OBVIOUS
<1>7. outage => \E j \in Instances : status'[j] = "up"
  BY <1>1
<1> HIDE DEF i, given
<1> QED
  BY <1>2, <1>5, <1>6, <1>7 DEF PublishedInv

\* A start goes on from a state that everything given leads up to.
LEMMA PublishedOpen ==
    ASSUME NEW outage \in BOOLEAN, StoreInv, PublishedInv(outage),
           NEW i \in Instances, Open(i), UNCHANGED <<cosigned, served>>
    PROVE  PublishedInv(outage)'
<1> DEFINE given == cosigned \union served
<1>1. StoreTypeOK /\ file \in Seq(Line) /\ owner = NoInstance /\ UNCHANGED <<file, synced>>
  BY DEF StoreInv, StoreTypeOK, Open, disk
<1>2. \A j \in Instances : status[j] \notin {"repairing", "up"}
  BY <1>1, StoreAssumption DEF StoreInv, OwnersOnly
<1>3. PICK m \in [Origins -> HeadOrNone] : Replays(file, m) /\ mem' = [mem EXCEPT ![i] = m]
  BY DEF Open
<1>4. mem'[i] = m /\ \A j \in Instances : j # i => status'[j] = status[j]
  BY <1>1, <1>3 DEF StoreTypeOK, Open
<1>5. ASSUME NEW o \in Origins
      PROVE  Leads(file, Len(file), given, o, m[o])
  <2>1. PICK s \in HeadOrNone : Leads(file, Firm(outage), given, o, s)
    BY DEF PublishedInv
  <2>2. Firm(outage) \in 0..Len(file)
    BY <1>1, FirmLines
  <2> HIDE DEF given
  <2> QED
    BY <1>1, <1>3, <2>1, <2>2, LeadsReplay
<1>6. cosigned' \union served' = given
  OBVIOUS
<1>7. \A o \in Origins : \E s \in HeadOrNone : Leads(file, Firm(outage), given, o, s)
  BY DEF PublishedInv
<1>8. Firm(outage) = Len(file) /\ Firm(outage)' = Len(file) /\ (outage => synced = Len(file))
  BY <1>1, <1>2 DEF PublishedInv, Firm
<1> HIDE DEF given
<1> QED
  BY <1>1, <1>2, <1>4, <1>5, <1>6, <1>7, <1>8 DEF PublishedInv

\* A repair takes no record away.
LEMMA PublishedMend ==
    ASSUME NEW outage \in BOOLEAN, StoreInv, PublishedInv(outage),
           NEW i \in Instances, Repair(i) \/ RepairFails(i), UNCHANGED <<cosigned, served>>
    PROVE  PublishedInv(outage)'
<1> DEFINE given == cosigned \union served
<1>1. StoreTypeOK /\ file \in Seq(Line) /\ \A k \in 1..Len(file) - 1 : file[k].ended
  BY DEF StoreInv, StoreTypeOK, Framed
<1>2. /\ file' = Repaired(file) /\ status[i] = "repairing"
      /\ \A j \in Instances : status'[j] \in {"repairing", "up"} =>
            status[j] \in {"repairing", "up"} /\ mem'[j] = mem[j]
  BY <1>1 DEF Repair, RepairFails, StoreTypeOK
<1>3. /\ KeptFrom(file, file') /\ file' \in Seq(Line)
      /\ \A o \in Origins : \A k \in 1..Len(file) : IsRecordOf(file[k], o) =>
             /\ k <= Len(file')
             /\ IsRecordOf(file'[k], o) /\ file'[k].head = file[k].head
  BY <1>1, <1>2, RepairedKeeps
<1>4. ASSUME NEW o \in Origins, NEW s, Leads(file, Len(file), given, o, s)
      PROVE  Leads(file', Len(file'), given, o, s)
  <2> DEFINE U == {h \in Heads : s = NoHead \/ Extends(s, h)}
  <2>1. SettledBy(file, Len(file), o, s, U) /\ Len(file) \in 0..Len(file) /\ Len(file') \in Nat
    BY <1>1, <1>3, <1>4 DEF Leads
  <2>2. SettledBy(file', Len(file'), o, s, U)
    <3> HIDE DEF U
    <3> QED
      BY <1>1, <1>3, <2>1, SettledShrink
  <2> QED
    BY <1>4, <2>2 DEF Leads
<1>5. cosigned' \union served' = given
  OBVIOUS
<1>6. \A j \in Instances : status[j] # "up"
  BY <1>2 DEF StoreInv, OwnersOnly
<1>7. Firm(outage) = Len(file) /\ (outage => synced = Len(file))
  BY <1>6 DEF PublishedInv, Firm
<1>8. outage => synced' = Len(file')
  <2>1. Len(file') <= Len(file) /\ Len(file) \in Nat /\ Len(file') \in Nat
    BY <1>1, <1>2, <1>3, RepairedType
  <2> QED
    BY <1>7, <2>1 DEF Repair, RepairFails
<1>9. Firm(outage)' = Len(file')
  BY <1>8 DEF Firm
<1>10. /\ \A o \in Origins : \E s \in HeadOrNone : Leads(file, Len(file), given, o, s)
       /\ \A j \in Instances : status[j] \in {"repairing", "up"} =>
             \A o \in Origins : Leads(file, Len(file), given, o, mem[j][o])
  BY <1>7 DEF PublishedInv
<1> HIDE DEF given
<1> QED
  BY <1>2, <1>4, <1>5, <1>8, <1>9, <1>10 DEF PublishedInv

\* A released head extends all that was given for its log, by the map that its
\* caller was approved on.
LEMMA PublishedRelease ==
    ASSUME NEW outage \in BOOLEAN, StoreInv, WitnessInv, PublishedInv(outage),
           NEW c \in Callers, Release(c)
    PROVE  /\ PublishedInv(outage)'
           /\ op[c].origin \in Origins /\ op[c].head \in Heads
           /\ \A g \in Heads : <<op[c].origin, g>> \in cosigned \union served =>
                  Extends(g, op[c].head)
           /\ cosigned' = cosigned \union {<<op[c].origin, op[c].head>>} /\ served' = served
<1> DEFINE i == op[c].inst
           p == op[c].origin
           h == op[c].head
           given == cosigned \union served
<1>1. /\ StoreTypeOK /\ file \in Seq(Line) /\ op[c].stage = "syncing"
      /\ cosigned' = cosigned \union {<<p, h>>} /\ served' = served
      /\ UNCHANGED <<file, status>> /\ synced' = Len(file)
  BY DEF StoreInv, StoreTypeOK, Release, Sync, At
<1>2. i \in Instances /\ p \in Origins /\ h \in Heads /\ status[i] = "up"
  BY <1>1, OpFields DEF StoreInv, HoldersOnly, At
<1>3. \A j \in Instances : status[j] \in {"repairing", "up"} => j = i
  BY <1>2 DEF StoreInv, OwnersOnly
<1>4. mem[i] \in [Origins -> HeadOrNone] /\ mem'[i] = [mem[i] EXCEPT ![p] = h]
  BY <1>1, <1>2 DEF StoreTypeOK, Release, Sync
<1>5. mem[i][p] = NoHead \/ Extends(mem[i][p], h)
  BY <1>1 DEF WitnessInv, GuardInv, ApprovedExtends, Current
<1>6. \A o \in Origins : Leads(file, Len(file), given, o, mem[i][o])
  <2>1. Firm(outage) \in 0..Len(file) /\ Len(file) \in Nat
    BY <1>1, FirmLines
  <2>2. \A o \in Origins : Leads(file, Firm(outage), given, o, mem[i][o])
    BY <1>2 DEF PublishedInv
  <2> HIDE DEF i, given
  <2> QED
    BY <1>1, <2>1, <2>2, LeadsFurther
<1>7. \A g \in Heads : <<p, g>> \in given => Extends(g, h)
  <2>1. \A g \in Heads : <<p, g>> \in given => mem[i][p] \in Heads /\ Extends(g, mem[i][p])
    BY <1>2, <1>4, <1>6 DEF Leads, HeadOrNone
  <2> HIDE DEF i, p, h, given
  <2> QED
    BY <1>2, <1>5, <2>1, HeadAssumption, NoHeadAssumption
<1>8. file # <<>> /\ file[Len(file)] = Record(p, h, TRUE)
  BY <1>1 DEF StoreInv, WrittenLast
<1>9. h # NoHead /\ Extends(h, h)
  BY <1>2, HeadAssumption, NoHeadAssumption
<1> DEFINE after == cosigned' \union served'
<1>10. after = given \union {<<p, h>>}
  BY <1>1
<1> HIDE DEF i, p, h, given, after
<1>11. Leads(file, Len(file), after, p, h)
  <2>1. SettledBy(file, Len(file), p, h, {})
    BY <1>1, <1>8, SettledLast DEF IsRecordOf, Record
  <2>2. SettledBy(file, Len(file), p, h, {g \in Heads : h = NoHead \/ Extends(h, g)})
    <3>1. Len(file) \in Nat
      BY <1>1
    <3> QED
      BY <1>1, <2>1, <3>1, SettledWeaker
  <2> QED
    BY <1>7, <1>9, <1>10, <2>2 DEF Leads
<1>12. \A o \in Origins : Leads(file, Len(file), after, o, mem'[i][o])
  <2> SUFFICES ASSUME NEW o \in Origins PROVE Leads(file, Len(file), after, o, mem'[i][o])
    OBVIOUS
  <2>1. CASE o = p
    BY <1>2, <1>4, <1>11, <2>1
  <2>2. CASE o # p
    <3>1. mem'[i][o] = mem[i][o] /\ Leads(file, Len(file), given, o, mem[i][o])
      BY <1>4, <1>6, <2>2
    <3> QED
      BY <1>10, <2>2, <3>1 DEF Leads
  <2> QED
    BY <2>1, <2>2
<1>13. PublishedInv(outage)'
  <2>1. \A o \in Origins : mem'[i][o] \in HeadOrNone
    BY <1>2, <1>4 DEF HeadOrNone
  <2>2. \A o \in Origins : \E s \in HeadOrNone : Leads(file, Len(file), after, o, s)
    BY <1>12, <2>1
  <2>3. \A j \in Instances : status'[j] \in {"repairing", "up"} => j = i
    BY <1>1, <1>3
  <2>4. Firm(outage)' = Len(file) /\ file' = file /\ synced' = Len(file)
    BY <1>1 DEF Firm
  <2> QED
    BY <1>12, <2>2, <2>3, <2>4 DEF PublishedInv, after
<1> QED
  BY <1>1, <1>2, <1>7, <1>13 DEF i, p, h, given

\* The monitoring endpoint gives out the state of a process, which extends all that
\* was given before.
LEMMA PublishedServe ==
    ASSUME NEW outage \in BOOLEAN, StoreInv, PublishedInv(outage),
           NEW i \in Instances, NEW p \in Origins, Serve(i, p)
    PROVE  /\ PublishedInv(outage)'
           /\ mem[i][p] \in Heads
           /\ \A g \in Heads : <<p, g>> \in cosigned \union served => Extends(g, mem[i][p])
           /\ cosigned' = cosigned /\ served' = served \union {<<p, mem[i][p]>>}
<1> DEFINE given == cosigned \union served
           h == mem[i][p]
<1>1. /\ StoreTypeOK /\ status[i] = "up"
      /\ cosigned' = cosigned /\ served' = served \union {<<p, h>>}
      /\ UNCHANGED <<file, synced, status, mem>>
  BY DEF StoreInv, Serve, Shown, storeVars, disk, process
<1>2. h \in Heads /\ h # NoHead
  BY <1>1 DEF Serve, Shown, StoreTypeOK, HeadOrNone
<1>3. \A j \in Instances : status[j] \in {"repairing", "up"} => j = i
  BY <1>1 DEF StoreInv, OwnersOnly
<1>4. \A o \in Origins :
          Leads(file, Firm(outage), given, o, mem[i][o]) /\ mem[i][o] \in HeadOrNone
  BY <1>1 DEF PublishedInv, StoreTypeOK
<1>5. \A g \in Heads : <<p, g>> \in given => Extends(g, h)
  BY <1>4 DEF Leads
<1>6. Extends(h, h)
  BY <1>2, HeadAssumption
<1> DEFINE after == cosigned' \union served'
<1>7. after = given \union {<<p, h>>}
  BY <1>1
<1>8. ASSUME NEW o \in Origins PROVE Leads(file, Firm(outage), after, o, mem[i][o])
  <2>1. Leads(file, Firm(outage), given, o, mem[i][o])
    BY <1>4
  <2>2. \A g \in Heads : <<o, g>> \in after => <<o, g>> \in given \/ (o = p /\ g = h)
    BY <1>7
  <2>3. \A g \in Heads : <<o, g>> \in after => mem[i][o] # NoHead /\ Extends(g, mem[i][o])
    BY <1>2, <1>6, <2>1, <2>2 DEF Leads
  <2> HIDE DEF after, given, h
  <2> QED
    BY <2>1, <2>3 DEF Leads
<1>9. PublishedInv(outage)'
  <2> HIDE DEF given, h
  <2>1. \A o \in Origins : \E s \in HeadOrNone : Leads(file, Firm(outage), after, o, s)
    BY <1>4, <1>8
  <2>2. Firm(outage)' = Firm(outage)
    BY <1>1 DEF Firm
  <2> QED
    BY <1>1, <1>3, <1>8, <2>1, <2>2 DEF PublishedInv
<1> QED
  BY <1>1, <1>2, <1>5, <1>9

\* What a machine does that stays up and keeps its disk.
ServiceStep ==
    \/ \E i \in Instances : ProcessStep(i)
    \/ \E c \in Callers : RequestStep(c)

\* What is published changes in a release and in an answer to a monitor only.
LEMMA PublishedInvStep ==
    ASSUME NEW outage \in BOOLEAN, outage => "kill" \notin Faults,
           StoreInv, WitnessInv, PublishedInv(outage), DiskHolds, [ServiceStep]_witnessVars
    PROVE  /\ PublishedInv(outage)'
           /\ \/ UNCHANGED <<cosigned, served>>
              \/ \E c \in Callers : Release(c)
              \/ \E i \in Instances, o \in Origins : Serve(i, o)
<1> USE DEF disk, process, history
<1>1. StoreTypeOK
  BY DEF StoreInv
<1>2. CASE UNCHANGED witnessVars
  BY <1>2, PublishedQuiet DEF witnessVars, storeVars
<1>3. ASSUME NEW i \in Instances, ProcessStep(i)
      PROVE  PublishedInv(outage)' /\ (UNCHANGED <<cosigned, served>> \/ \E o \in Origins : Serve(i, o))
  <2>1. CASE Start(i)
    BY <2>1, PublishedOpen DEF Start
  <2>2. CASE StartRefused(i)
    <3>1. \A j \in Instances :
              /\ status'[j] \in {"repairing", "up"} =>
                    status[j] \in {"repairing", "up"} /\ mem'[j] = mem[j]
              /\ status[j] = "up" => status'[j] = "up"
      BY <1>1, <2>2 DEF StartRefused, OpenRefused, StoreTypeOK
    <3> QED
      BY <2>2, <3>1, PublishedQuiet DEF StartRefused, OpenRefused
  <2>3. CASE Mend(i) \/ MendFails(i)
    BY <2>3, PublishedMend DEF Mend, MendFails, Forget
  <2>4. CASE Die(i)
    <3>1. /\ UNCHANGED <<synced, cosigned, served>> /\ ~outage
          /\ \A j \in Instances : status'[j] \in {"repairing", "up"} =>
                status[j] \in {"repairing", "up"} /\ mem'[j] = mem[j]
      BY <2>4 DEF Die, Kill, Forget, DropProcesses, Fault
    <3>2. CASE file' = file
      BY <3>1, <3>2, PublishedQuiet
    <3>3. CASE file' # file
      <4>1. PICK c \in Callers : At(c, "writing") /\ file' \in Started(c)
        BY <2>4, <3>3 DEF Die, Kill
      <4>2. PICK q \in Pieces : file' = AppendLine(file, Torn(op[c].origin, op[c].head, q))
        BY <3>3, <4>1 DEF Started
      <4> DEFINE line == Torn(op[c].origin, op[c].head, q)
      <4>3. /\ line \in Line
            /\ line.kind = "record" => line.origin = op[c].origin /\ line.head = op[c].head
        <5>1. op[c].origin \in Origins /\ op[c].head \in Heads
          BY <1>1, <4>1, OpFields DEF At
        <5>2. line \in Line
          BY <5>1, TornIsLine
        <5> QED
          BY <5>2 DEF Torn, Pieces, Junk, Record
      <4> HIDE DEF line
      <4> QED
        BY <3>1, <4>1, <4>2, <4>3, PublishedAppend DEF At, line
    <3> QED
      BY <3>1, <3>2, <3>3
  <2>5. CASE Swap(i)
    BY <2>5, PublishedQuiet DEF Swap, storeVars
  <2>6. ASSUME NEW o \in Origins, Serve(i, o)
        PROVE  PublishedInv(outage)'
    BY <2>6, PublishedServe
  <2> QED
    BY <1>3, <2>1, <2>2, <2>3, <2>4, <2>5, <2>6 DEF ProcessStep, Start, StartRefused, Mend,
       MendFails, Die, Swap, Forget
<1>4. ASSUME NEW c \in Callers, RequestStep(c), ~Release(c)
      PROVE  PublishedInv(outage)' /\ UNCHANGED <<cosigned, served>>
  <2>1. ~WriteFails(c)
    BY DEF WriteFails, Fault, DiskHolds
  <2>2. CASE AppendRecord(c)
    <3> DEFINE line == Record(op[c].origin, op[c].head, TRUE)
    <3>1. op[c].stage = "writing" /\ file' = AppendLine(file, line)
          /\ UNCHANGED <<synced, status, mem, cosigned, served>>
      BY <2>2 DEF AppendRecord, Write, At
    <3>2. line \in Line /\ line.origin = op[c].origin /\ line.head = op[c].head
      <4>1. op[c].origin \in Origins /\ op[c].head \in Heads
        BY <1>1, <3>1, OpFields DEF At
      <4> QED
        BY <4>1, RecordIsLine DEF Record
    <3> HIDE DEF line
    <3> QED
      BY <3>1, <3>2, PublishedAppend
  <2>3. CASE ~AppendRecord(c)
    <3>1. UNCHANGED <<file, synced, status, mem, cosigned, served>>
      BY <1>4, <2>1, <2>3 DEF RequestStep, Admit, TurnAway, Check, SignFails, AppendFails, Reply,
         Call, Refuse, Approve, SyncFails, Return, storeVars
    <3> QED
      BY <3>1, PublishedQuiet
  <2> QED
    BY <2>2, <2>3
<1>5. ASSUME NEW c \in Callers, Release(c)
      PROVE  PublishedInv(outage)'
  BY <1>5, PublishedRelease
<1> QED
  BY <1>2, <1>3, <1>4, <1>5 DEF ServiceStep, witnessVars

\* An outage leaves what is durable, and where no process was killed before it, all
\* that was given is.
LEMMA PublishedOutage ==
    ASSUME StoreInv, PublishedInv(TRUE), MachineDown
    PROVE  PublishedInv(TRUE)' /\ UNCHANGED <<cosigned, served>>
<1> DEFINE given == cosigned \union served
<1>1. /\ file' \in CrashImages(file, synced) /\ synced' = Len(file')
      /\ \A i \in Instances : status'[i] = "down"
      /\ UNCHANGED <<cosigned, served>>
  BY DEF MachineDown, PowerLoss, DropProcesses, Forget
<1>2. file \in Seq(Line) /\ synced \in 0..Len(file) /\ \A k \in 1..Len(file) - 1 : file[k].ended
  BY DEF StoreInv, StoreTypeOK, Framed
<1>3. /\ file' \in Seq(Line) /\ Len(file') \in synced..Len(file)
      /\ \A k \in 1..synced : file'[k] = file[k]
  BY <1>1, <1>2, CrashImageType
<1>4. KeptFrom(file, file')
  BY <1>1, <1>2, CrashImageKeeps
<1>5. ASSUME NEW o \in Origins
      PROVE  \E s \in HeadOrNone : Leads(file', Len(file'), given, o, s)
  <2>1. PICK s \in HeadOrNone : Leads(file, synced, given, o, s)
    BY DEF PublishedInv, Firm
  <2> DEFINE U == {h \in Heads : s = NoHead \/ Extends(s, h)}
  <2>2. SettledBy(file, synced, o, s, U)
    BY <2>1 DEF Leads
  <2>3. /\ Len(file') \in Nat
        /\ \A k \in 1..synced : IsRecordOf(file[k], o) =>
              k <= Len(file') /\ IsRecordOf(file'[k], o) /\ file'[k].head = file[k].head
    BY <1>2, <1>3
  <2>4. SettledBy(file', Len(file'), o, s, U)
    <3> HIDE DEF U
    <3> QED
      BY <1>2, <1>3, <1>4, <2>2, <2>3, SettledShrink
  <2> QED
    BY <2>1, <2>4 DEF Leads
<1>6. cosigned' \union served' = given
  BY <1>1
<1> HIDE DEF given
<1> QED
  BY <1>1, <1>5, <1>6 DEF PublishedInv, Firm

\* It holds before anything is given.
LEMMA PublishedInit ==
    ASSUME NEW outage \in BOOLEAN
    PROVE  WitnessInit => PublishedInv(outage) /\ cosigned \union served = {}
<1> SUFFICES ASSUME WitnessInit PROVE PublishedInv(outage) /\ cosigned \union served = {}
  OBVIOUS
<1>1. /\ file = <<>> /\ synced = 0 /\ cosigned \union served = {}
      /\ \A i \in Instances : status[i] = "down"
  BY DEF WitnessInit, StoreInit
<1>2. Firm(outage) = 0 /\ Len(file) = 0
  BY <1>1 DEF Firm
<1>3. ASSUME NEW o \in Origins PROVE Leads(file, 0, cosigned \union served, o, NoHead)
  <2>1. 0 \in 0..0 /\ 0 + 1..Len(file) = {}
    BY <1>2
  <2> QED
    BY <1>1, <2>1 DEF Leads, SettledBy
<1> QED
  BY <1>1, <1>2, <1>3 DEF PublishedInv, HeadOrNone

\* Each step publishes at most one head, which extends what was given for its log.
LEMMA EverythingStep ==
    ASSUME NEW outage \in BOOLEAN, outage => "kill" \notin Faults,
           StoreInv, WitnessInv, PublishedInv(outage), DiskHolds, [ServiceStep]_witnessVars
    PROVE  PublishedInv(outage)' /\ [Everything!Next]_(cosigned \union served)
<1>1. ASSUME NEW o \in Origins, NEW h \in Heads,
             \A g \in Heads : <<o, g>> \in cosigned \union served => Extends(g, h),
             (cosigned \union served)' = cosigned \union served \union {<<o, h>>}
      PROVE  Everything!Next
  BY <1>1 DEF Everything!Next, Everything!Publish
<1>2. ASSUME NEW c \in Callers, Release(c)
      PROVE  Everything!Next
  <2>1. /\ op[c].origin \in Origins /\ op[c].head \in Heads
        /\ \A g \in Heads : <<op[c].origin, g>> \in cosigned \union served =>
              Extends(g, op[c].head)
        /\ (cosigned \union served)' = cosigned \union served \union {<<op[c].origin, op[c].head>>}
    BY <1>2, PublishedRelease
  <2> QED
    BY <1>1, <2>1
<1>3. ASSUME NEW i \in Instances, NEW o \in Origins, Serve(i, o)
      PROVE  Everything!Next
  <2>1. /\ mem[i][o] \in Heads
        /\ \A g \in Heads : <<o, g>> \in cosigned \union served => Extends(g, mem[i][o])
        /\ (cosigned \union served)' = cosigned \union served \union {<<o, mem[i][o]>>}
    BY <1>3, PublishedServe
  <2> QED
    BY <1>1, <2>1
<1> QED
  BY <1>2, <1>3, PublishedInvStep

\* What the monitors' invariant says of the answer that the endpoint gives now.
LEMMA NeverOlderFrom ==
    ASSUME NEW outage \in BOOLEAN, PublishedInv(outage)
    PROVE  NeverServesOlder
  BY DEF PublishedInv, Leads, NeverServesOlder, Shown

\* The invariant of the monitors, with kills or with power loss.  With both kinds of
\* crash there is none: the next process serves an unsynced record of the one that
\* died, and then the power fails.
THEOREM PublishedInvariant ==
    ASSUME DiskHolds, ~({"kill", "power_loss"} \subseteq Faults)
    PROVE  WitnessSpec =>
              /\ []PublishedInv("kill" \notin Faults)
              /\ EverythingAppendOnly
<1> DEFINE outage == "kill" \notin Faults
<1>1. WitnessInit => PublishedInv(outage) /\ Everything!Init
  BY PublishedInit DEF Everything!Init
<1>2. [WitnessNext]_witnessVars => [ServiceStep]_witnessVars \/ (outage /\ MachineDown)
  BY DEF WitnessNext, ServiceStep, MachineDown, PowerLoss, Fault
<1>3. StoreInv /\ WitnessInv /\ PublishedInv(outage) /\ [WitnessNext]_witnessVars =>
        PublishedInv(outage)' /\ [Everything!Next]_(cosigned \union served)
  <2> SUFFICES ASSUME StoreInv, WitnessInv, PublishedInv(outage), [WitnessNext]_witnessVars
               PROVE  PublishedInv(outage)' /\ [Everything!Next]_(cosigned \union served)
    OBVIOUS
  <2>1. CASE [ServiceStep]_witnessVars
    BY <2>1, EverythingStep
  <2>2. CASE outage /\ MachineDown
    <3>1. outage = TRUE
      BY <2>2
    <3> HIDE DEF outage
    <3> QED
      BY <2>2, <3>1, PublishedOutage
  <2> HIDE DEF outage
  <2> QED
    BY <1>2, <2>1, <2>2
<1>4. WitnessSpec => []PublishedInv(outage) /\ EverythingAppendOnly
  <2> HIDE DEF outage
  <2> QED
    BY <1>1, <1>3, WitnessInvariant, PTL
       DEF WitnessSpec, EverythingAppendOnly, Everything!Spec
<1> QED
  BY <1>4

\* With kills or with power loss: what the responses and the monitoring endpoint give
\* out, taken together, is one append-only history per log, whatever fsync fails.
THEOREM EverythingRefines ==
    ASSUME DiskHolds, ~({"kill", "power_loss"} \subseteq Faults)
    PROVE  WitnessSpec => EverythingAppendOnly
  BY PublishedInvariant, PTL

\* MP-04 and MP-05, under the same conditions: no monitor is ever sent behind what
\* anybody was given before.
THEOREM NeverServesOlderHolds ==
    ASSUME DiskHolds, ~({"kill", "power_loss"} \subseteq Faults)
    PROVE  WitnessSpec => []NeverServesOlder
<1> DEFINE outage == "kill" \notin Faults
<1>1. PublishedInv(outage) => NeverServesOlder
  <2>1. outage \in BOOLEAN
    OBVIOUS
  <2> HIDE DEF outage
  <2> QED
    BY <2>1, NeverOlderFrom
<1>2. WitnessSpec => []PublishedInv(outage)
  BY PublishedInvariant, PTL
<1> HIDE DEF outage
<1> QED
  BY <1>1, <1>2, PTL
=============================================================================
