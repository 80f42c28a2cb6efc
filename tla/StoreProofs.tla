----------------------------- MODULE StoreProofs -----------------------------
(***************************************************************************)
(* Proofs about Store.tla for every set of origins, heads, processes and   *)
(* callers, every bound and every choice of faults the statement allows.   *)
(***************************************************************************)
EXTENDS StoreSafety, TLAPS

-----------------------------------------------------------------------------
(***************************************************************************)
(* Sequences: a prefix, and one element replaced.                          *)
(***************************************************************************)

\* The first n elements are as many, and the same.
LEMMA PrefixFacts ==
    ASSUME NEW S, NEW f \in Seq(S), NEW n \in 0..Len(f)
    PROVE  /\ SubSeq(f, 1, n) \in Seq(S)
           /\ Len(SubSeq(f, 1, n)) = n
           /\ \A k \in 1..n : SubSeq(f, 1, n)[k] = f[k]
OBVIOUS

\* Replacing an element changes that element only.
LEMMA ReplaceFacts ==
    ASSUME NEW S, NEW f \in Seq(S), NEW n \in 1..Len(f), NEW e \in S
    PROVE  /\ [f EXCEPT ![n] = e] \in Seq(S)
           /\ Len([f EXCEPT ![n] = e]) = Len(f)
           /\ [f EXCEPT ![n] = e][n] = e
           /\ \A k \in 1..Len(f) : k # n => [f EXCEPT ![n] = e][k] = f[k]
OBVIOUS

-----------------------------------------------------------------------------
(***************************************************************************)
(* The state file: what its operators return.                              *)
(***************************************************************************)

\* A record is a line of the file.
LEMMA RecordIsLine ==
    ASSUME NEW o \in Origins, NEW h \in Heads, NEW ended \in BOOLEAN
    PROVE  Record(o, h, ended) \in Line
BY DEF Record, Line

\* So is a line that is none.
LEMMA JunkIsLine ==
    ASSUME NEW kind \in {"garbage", "badutf8"}, NEW ended \in BOOLEAN
    PROVE  Junk(kind, ended) \in Line
BY DEF Junk, Line

\* So is whatever a write that was cut short leaves.
LEMMA TornIsLine ==
    ASSUME NEW o \in Origins, NEW h \in Heads, NEW piece \in Pieces
    PROVE  Torn(o, h, piece) \in Line
BY DEF Torn, Pieces, Record, Junk, Line

\* And a line that gets or loses its newline.
LEMMA EndedIsLine ==
    ASSUME NEW line \in Line, NEW ended \in BOOLEAN
    PROVE  [line EXCEPT !.ended = ended] \in Line
<1>1. CASE line \in [kind : {"record"}, origin : Origins, head : Heads, ended : BOOLEAN]
  <2>1. [line EXCEPT !.ended = ended]
            \in [kind : {"record"}, origin : Origins, head : Heads, ended : BOOLEAN]
    BY <1>1
  <2> QED
    BY <1>1, <2>1 DEF Line
<1>2. CASE line \in [kind : {"garbage", "badutf8"}, ended : BOOLEAN]
  <2>1. [line EXCEPT !.ended = ended] \in [kind : {"garbage", "badutf8"}, ended : BOOLEAN]
    BY <1>2
  <2> QED
    BY <1>2, <2>1 DEF Line
<1> QED
  BY <1>1, <1>2 DEF Line

\* It stays the line it is in everything else.
LEMMA EndedKeeps ==
    ASSUME NEW line \in Line, NEW ended \in BOOLEAN
    PROVE  /\ [line EXCEPT !.ended = ended].kind = line.kind
           /\ [line EXCEPT !.ended = ended].ended = ended
           /\ line.kind = "record" =>
                 /\ [line EXCEPT !.ended = ended].origin = line.origin
                 /\ [line EXCEPT !.ended = ended].head = line.head
<1>1. CASE line \in [kind : {"record"}, origin : Origins, head : Heads, ended : BOOLEAN]
  BY <1>1
<1>2. CASE line \in [kind : {"garbage", "badutf8"}, ended : BOOLEAN]
  BY <1>2
<1> QED
  BY <1>1, <1>2 DEF Line

\* An append keeps a file a file and at most lengthens it by its line.
LEMMA AppendLineType ==
    ASSUME NEW f \in Seq(Line), NEW line \in Line
    PROVE  /\ AppendLine(f, line) \in Seq(Line)
           /\ Len(AppendLine(f, line)) \in {Len(f), Len(f) + 1}
<1>1. CASE Unterminated(f)
  <2>1. Len(f) \in 1..Len(f)
    BY <1>1 DEF Unterminated
  <2>2. Fused(f[Len(f)], line) \in Line
    BY <2>1 DEF Fused, Junk, Line
  <2> QED
    BY <1>1, <2>1, <2>2 DEF AppendLine
<1>2. CASE ~Unterminated(f)
  BY <1>2 DEF AppendLine
<1> QED
  BY <1>1, <1>2

\* The repair of an open keeps a file a file and drops one line at most.
LEMMA RepairedType ==
    ASSUME NEW f \in Seq(Line)
    PROVE  /\ Repaired(f) \in Seq(Line)
           /\ Len(Repaired(f)) \in Nat
           /\ Len(Repaired(f)) <= Len(f)
<1>1. CASE TornTail(f)
  <2>1. f # <<>> /\ Repaired(f) = SubSeq(f, 1, Len(f) - 1)
    BY <1>1 DEF Repaired, TornTail
  <2>2. Len(f) \in Nat \ {0}
    BY <2>1
  <2> QED
    BY <2>1, <2>2
<1>2. CASE ~TornTail(f) /\ Unterminated(f)
  <2>1. Len(f) \in 1..Len(f)
    BY <1>2 DEF Unterminated
  <2>2. f[Len(f)] \in Line
    BY <2>1
  <2>3. [f[Len(f)] EXCEPT !.ended = TRUE] \in Line
    BY <2>2, EndedIsLine
  <2>4. Repaired(f) = [f EXCEPT ![Len(f)] = [f[Len(f)] EXCEPT !.ended = TRUE]]
    BY <1>2 DEF Repaired
  <2> QED
    BY <2>1, <2>3, <2>4
<1>3. CASE ~TornTail(f) /\ ~Unterminated(f)
  BY <1>3 DEF Repaired
<1> QED
  BY <1>1, <1>2, <1>3

\* What a power loss leaves is a file that keeps the durable lines as they are.
LEMMA CrashImageType ==
    ASSUME NEW f \in Seq(Line), NEW n \in 0..Len(f), NEW image \in CrashImages(f, n)
    PROVE  /\ image \in Seq(Line)
           /\ Len(image) \in n..Len(f)
           /\ \A k \in 1..n : image[k] = f[k]
<1>1. CASE \E m \in n..Len(f) : image = SubSeq(f, 1, m)
  <2>1. PICK m \in n..Len(f) : image = SubSeq(f, 1, m)
    BY <1>1
  <2> QED
    BY <2>1
<1>2. CASE \E m \in n..(Len(f) - 1) : \E r \in Remnants(f[m + 1]) :
                image = Append(SubSeq(f, 1, m), r)
  <2>1. PICK m \in n..(Len(f) - 1) : \E r \in Remnants(f[m + 1]) :
                image = Append(SubSeq(f, 1, m), r)
    BY <1>2
  <2>2. PICK r \in Remnants(f[m + 1]) : image = Append(SubSeq(f, 1, m), r)
    BY <2>1
  <2>3. f[m + 1] \in Line /\ m \in 0..Len(f)
    BY <2>1
  <2>4. r \in Line
    <3>1. CASE r \in {Junk("garbage", FALSE), Junk("badutf8", FALSE)}
      BY <3>1, JunkIsLine
    <3>2. CASE r = [f[m + 1] EXCEPT !.ended = FALSE]
      BY <3>2, <2>3, EndedIsLine
    <3> QED
      BY <2>2, <3>1, <3>2 DEF Remnants
  <2> QED
    BY <2>1, <2>2, <2>3, <2>4
<1> QED
  BY <1>1, <1>2 DEF CrashImages

-----------------------------------------------------------------------------
(***************************************************************************)
(* Type correctness.                                                       *)
(***************************************************************************)

\* The stage of a caller tells which kind of update it is in.
LEMMA OpKinds ==
    ASSUME StoreTypeOK, NEW c \in Callers
    PROVE  /\ op[c].stage = "none" => op[c] = IdleOp
           /\ op[c].stage \in {"waiting", "refused"} => op[c] \in UndecidedOp
           /\ op[c].stage \in {"writing", "syncing", "stored", "failed"} => op[c] \in ApprovedOp
           /\ op[c].stage \in {"none", "waiting", "refused",
                               "writing", "syncing", "stored", "failed"}
<1>1. op[c] = IdleOp \/ op[c] \in UndecidedOp \/ op[c] \in ApprovedOp
  BY DEF StoreTypeOK, Op
<1>2. CASE op[c] = IdleOp
  BY <1>2 DEF IdleOp
<1>3. CASE op[c] \in UndecidedOp
  BY <1>3 DEF UndecidedOp
<1>4. CASE op[c] \in ApprovedOp
  BY <1>4 DEF ApprovedOp
<1> QED
  BY <1>1, <1>2, <1>3, <1>4

\* A caller in an update has an origin, and a head once one was approved.
LEMMA OpFields ==
    ASSUME StoreTypeOK, NEW c \in Callers
    PROVE  /\ ~At(c, "none") => op[c].inst \in Instances /\ op[c].origin \in Origins
           /\ op[c].stage \in {"writing", "syncing", "stored", "failed"} => op[c].head \in Heads
BY OpKinds DEF UndecidedOp, ApprovedOp, At

\* What a cut-short write may leave of an approved record is a file no shorter.
LEMMA StartedType ==
    ASSUME StoreTypeOK, NEW c \in Callers, At(c, "writing"), NEW f \in Started(c)
    PROVE  f \in Seq(Line) /\ Len(f) \in Nat /\ Len(file) <= Len(f)
<1>1. op[c].origin \in Origins /\ op[c].head \in Heads
  BY OpFields DEF At
<1>2. file \in Seq(Line) /\ Len(file) \in Nat
  BY DEF StoreTypeOK
<1>3. CASE f = file
  BY <1>2, <1>3
<1>4. CASE \E p \in Pieces : f = AppendLine(file, Torn(op[c].origin, op[c].head, p))
  <2>1. PICK p \in Pieces : f = AppendLine(file, Torn(op[c].origin, op[c].head, p))
    BY <1>4
  <2>2. Torn(op[c].origin, op[c].head, p) \in Line
    BY <1>1, TornIsLine
  <2> QED
    BY <1>2, <2>1, <2>2, AppendLineType
<1> QED
  BY <1>3, <1>4 DEF Started

\* One more fault leaves no fewer than none.
LEMMA FaultType ==
    ASSUME StoreTypeOK, NEW kind, Fault(kind)
    PROVE  faultsLeft' \in 0..MaxFaults
BY StoreAssumption DEF StoreTypeOK, Fault

\* Moving one caller on keeps the callers' types.
LEMMA OpUpdate ==
    ASSUME StoreTypeOK, NEW c \in Callers, NEW next \in Op, op' = [op EXCEPT ![c] = next]
    PROVE  op' \in [Callers -> Op]
BY DEF StoreTypeOK

\* A stage past the approval follows any other such stage.
LEMMA PastApproval ==
    ASSUME StoreTypeOK, NEW c \in Callers,
           op[c].stage \in {"writing", "syncing"},
           NEW stage \in {"writing", "syncing", "stored", "failed"},
           GoTo(c, stage)
    PROVE  op' \in [Callers -> Op]
<1>1. op[c] \in ApprovedOp
  BY OpKinds
<1>2. [op[c] EXCEPT !.stage = stage] \in ApprovedOp
  BY <1>1 DEF ApprovedOp
<1>3. op' = [op EXCEPT ![c] = [op[c] EXCEPT !.stage = stage]]
  BY DEF GoTo
<1> QED
  BY <1>2, <1>3, OpUpdate DEF Op

\* The initial state has the types of StoreTypeOK.
LEMMA StoreTypeInit == StoreInit => StoreTypeOK
BY StoreAssumption DEF StoreInit, StoreTypeOK, NoMem, Op, HeadOrNone

\* Every step of a process keeps the types.
LEMMA InstanceTypeStep ==
    ASSUME StoreTypeOK, NEW i \in Instances, InstanceNext(i)
    PROVE  StoreTypeOK'
<1> USE DEF StoreTypeOK, disk, history
<1>1. CASE Open(i)
  BY <1>1 DEF Open
<1>2. CASE OpenRefused(i)
  BY <1>2 DEF OpenRefused
<1>3. CASE Repair(i)
  BY <1>3, RepairedType DEF Repair
<1>4. CASE RepairFails(i)
  <2>1. file' \in Seq(Line) /\ Len(file') \in Nat
    BY <1>4, RepairedType DEF RepairFails
  <2>2. synced' \in 0..Len(file')
    BY <1>4, <2>1 DEF RepairFails
  <2>3. mem' \in [Instances -> [Origins -> HeadOrNone]]
    BY <1>4 DEF RepairFails, NoMem, HeadOrNone
  <2> QED
    BY <1>4, <2>1, <2>2, <2>3, FaultType DEF RepairFails
<1>5. CASE Kill(i)
  <2>1. file' \in Seq(Line) /\ Len(file') \in Nat /\ Len(file) <= Len(file')
    BY <1>5, StartedType DEF Kill
  <2>2. /\ owner' \in Instances \union {NoInstance}
        /\ status' \in [Instances -> {"down", "repairing", "up", "refused"}]
        /\ mem' \in [Instances -> [Origins -> HeadOrNone]]
        /\ lock' \in [Instances -> Callers \union {NoCaller}]
        /\ op' \in [Callers -> Op]
    BY <1>5 DEF Kill, DropProcesses, NoMem, HeadOrNone, Op
  <2> QED
    BY <1>5, <2>1, <2>2, FaultType DEF Kill
<1> QED
  BY <1>1, <1>2, <1>3, <1>4, <1>5 DEF InstanceNext

\* So does every step of a caller.
LEMMA CallerTypeStep ==
    ASSUME StoreTypeOK, NEW c \in Callers, CallerNext(c)
    PROVE  StoreTypeOK'
<1> USE DEF StoreTypeOK, disk, process, history
<1>1. ASSUME NEW i \in Instances, NEW o \in Origins, Call(c, i, o)
      PROVE  StoreTypeOK'
  <2>1. op' \in [Callers -> Op]
    BY <1>1 DEF Call, Op, UndecidedOp
  <2> QED
    BY <1>1, <2>1 DEF Call
<1>2. CASE Refuse(c)
  <2>1. op' \in [Callers -> Op]
    <3>1. op[c] \in UndecidedOp
      BY <1>2, OpKinds DEF Refuse, CanCheck, At
    <3>2. [op[c] EXCEPT !.stage = "refused"] \in Op
      BY <3>1 DEF Op, UndecidedOp
    <3>3. op' = [op EXCEPT ![c] = [op[c] EXCEPT !.stage = "refused"]]
      BY <1>2 DEF Refuse, GoTo
    <3> QED
      BY <3>2, <3>3, OpUpdate
  <2> QED
    BY <1>2, <2>1 DEF Refuse
<1>3. ASSUME NEW h \in Heads, Approve(c, h)
      PROVE  StoreTypeOK'
  <2>1. op' \in [Callers -> Op]
    <3>1. op[c] \in UndecidedOp
      BY <1>3, OpKinds DEF Approve, CanCheck, At
    <3> DEFINE next == [op[c] EXCEPT !.stage = "writing", !.head = h]
    <3>2. next \in Op
      BY <3>1 DEF Op, UndecidedOp, ApprovedOp
    <3>3. op' = [op EXCEPT ![c] = next]
      BY <1>3 DEF Approve
    <3> QED
      BY <3>2, <3>3, OpUpdate
  <2> QED
    BY <1>3, <2>1 DEF Approve
<1>4. CASE Write(c)
  <2>1. Record(op[c].origin, op[c].head, TRUE) \in Line
    BY <1>4, OpFields, RecordIsLine DEF Write, At
  <2> DEFINE line == Record(op[c].origin, op[c].head, TRUE)
  <2>2. /\ file' \in Seq(Line)
        /\ Len(file') \in Nat /\ Len(file) <= Len(file')
    <3>1. file' = AppendLine(file, line)
      BY <1>4 DEF Write
    <3>2. file \in Seq(Line) /\ line \in Line
      BY <2>1
    <3> HIDE DEF line
    <3> QED
      BY <3>1, <3>2, AppendLineType
  <2>3. op' \in [Callers -> Op]
    BY <1>4, PastApproval DEF Write, At
  <2>4. synced' \in 0..Len(file')
    <3>1. synced' = synced /\ synced \in 0..Len(file) /\ Len(file) \in Nat
      BY <1>4 DEF Write
    <3> QED
      BY <3>1, <2>2
  <2> QED
    BY <1>4, <2>2, <2>3, <2>4 DEF Write
<1>5. CASE WriteFails(c)
  <2>1. file' \in Seq(Line) /\ Len(file') \in Nat /\ Len(file) <= Len(file')
    BY <1>5, StartedType DEF WriteFails
  <2>2. op' \in [Callers -> Op]
    BY <1>5, PastApproval DEF WriteFails, At
  <2>3. synced' \in 0..Len(file')
    <3>1. synced' = synced /\ synced \in 0..Len(file) /\ Len(file) \in Nat
      BY <1>5 DEF WriteFails
    <3> QED
      BY <3>1, <2>1
  <2>4. faultsLeft' \in 0..MaxFaults
    BY <1>5, FaultType DEF WriteFails
  <2>5. lock' \in [Instances -> Callers \union {NoCaller}]
    BY <1>5 DEF WriteFails, Unlock
  <2> QED
    BY <1>5, <2>1, <2>2, <2>3, <2>4, <2>5 DEF WriteFails
<1>6. CASE Sync(c)
  <2>1. op' \in [Callers -> Op]
    BY <1>6, PastApproval DEF Sync, At
  <2>2. op[c].head \in Heads /\ op[c].origin \in Origins /\ op[c].inst \in Instances
    BY <1>6, OpFields DEF Sync, At
  <2>3. mem' \in [Instances -> [Origins -> HeadOrNone]]
    BY <1>6, <2>2 DEF Sync, HeadOrNone
  <2>4. stored' \in [Origins -> HeadOrNone] /\ unsettled' \in [Origins -> SUBSET Heads]
    BY <1>6, <2>2 DEF Sync, HeadOrNone
  <2> QED
    BY <1>6, <2>1, <2>3, <2>4 DEF Sync, Unlock
<1>7. CASE SyncFails(c)
  <2>1. op' \in [Callers -> Op]
    BY <1>7, PastApproval DEF SyncFails, At
  <2> QED
    BY <1>7, <2>1, FaultType DEF SyncFails, Unlock
<1>8. CASE Return(c)
  BY <1>8 DEF Return, Op
<1> QED
  BY <1>1, <1>2, <1>3, <1>4, <1>5, <1>6, <1>7, <1>8 DEF CallerNext, AppendNext

\* So do the crash of the machine and the loss of the file.
LEMMA CrashTypeStep ==
    ASSUME StoreTypeOK, PowerLoss \/ LoseState
    PROVE  StoreTypeOK'
<1>1. CASE PowerLoss
  <2>1. file' \in Seq(Line) /\ Len(file') \in Nat
    BY <1>1, CrashImageType DEF PowerLoss, StoreTypeOK
  <2>2. /\ owner' \in Instances \union {NoInstance}
        /\ status' \in [Instances -> {"down", "repairing", "up", "refused"}]
        /\ mem' \in [Instances -> [Origins -> HeadOrNone]]
        /\ lock' \in [Instances -> Callers \union {NoCaller}]
        /\ op' \in [Callers -> Op]
    BY <1>1 DEF PowerLoss, DropProcesses, StoreTypeOK, NoMem, HeadOrNone, Op
  <2> QED
    BY <1>1, <2>1, <2>2, FaultType DEF PowerLoss, StoreTypeOK, history
<1>2. CASE LoseState
  BY <1>2, FaultType DEF LoseState, StoreTypeOK, history
<1> QED
  BY <1>1, <1>2

\* The types survive every step, and a step that changes nothing.
LEMMA StoreTypeStep ==
    ASSUME StoreTypeOK, [StoreNext]_storeVars
    PROVE  StoreTypeOK'
<1>1. CASE UNCHANGED storeVars
  BY <1>1 DEF storeVars, disk, process, history, StoreTypeOK
<1> QED
  BY <1>1, InstanceTypeStep, CallerTypeStep, CrashTypeStep DEF StoreNext

\* Type correctness of the store: in particular a caller past the closure
\* always has a process, an origin and a head, and no more lines are durable
\* than there are.
THEOREM StoreTypeCorrect == StoreSpec => []StoreTypeOK
BY StoreTypeInit, StoreTypeStep, PTL DEF StoreSpec

-----------------------------------------------------------------------------
(***************************************************************************)
(* Lemmas about SettledBy: which files keep an origin settled.             *)
(***************************************************************************)

\* Appending a line that may be there anyway.
LEMMA SettledAppend ==
    ASSUME NEW f \in Seq(Line), NEW n \in 0..Len(f), NEW o, NEW s, NEW U, NEW line,
           SettledBy(f, n, o, s, U),
           IsRecordOf(line, o) => line.head \in U \union {s}
    PROVE  SettledBy(Append(f, line), n, o, s, U)
<1> DEFINE g == Append(f, line)
<1>1. PICK k \in 0..n :
        /\ IF k = 0 THEN s = NoHead ELSE IsRecordOf(f[k], o) /\ f[k].head = s
        /\ \A j \in k+1..Len(f) : IsRecordOf(f[j], o) => f[j].head \in U \union {s}
  BY DEF SettledBy
<1>2. Len(g) = Len(f) + 1 /\ g[Len(f) + 1] = line /\ \A j \in 1..Len(f) : g[j] = f[j]
  OBVIOUS
<1> HIDE DEF g
<1>3. IF k = 0 THEN s = NoHead ELSE IsRecordOf(g[k], o) /\ g[k].head = s
  BY <1>1, <1>2
<1>4. ASSUME NEW j \in k+1..Len(g), IsRecordOf(g[j], o)
      PROVE  g[j].head \in U \union {s}
  <2>1. CASE j = Len(f) + 1
    BY <2>1, <1>2, <1>4
  <2>2. CASE j # Len(f) + 1
    <3>1. j \in k+1..Len(f) /\ g[j] = f[j]
      BY <2>2, <1>2
    <3> QED
      BY <3>1, <1>1, <1>4
  <2> QED
    BY <2>1, <2>2
<1>5. SettledBy(g, n, o, s, U)
  BY <1>3, <1>4 DEF SettledBy
<1> QED
  BY <1>5 DEF g

\* Having more lines durable and more heads unsettled.
LEMMA SettledWeaker ==
    ASSUME NEW f \in Seq(Line), NEW n \in Nat, NEW m \in Nat, n <= m,
           NEW o, NEW s, NEW U, NEW V, U \subseteq V,
           SettledBy(f, n, o, s, U)
    PROVE  SettledBy(f, m, o, s, V)
<1>1. PICK k \in 0..n :
        /\ IF k = 0 THEN s = NoHead ELSE IsRecordOf(f[k], o) /\ f[k].head = s
        /\ \A j \in k+1..Len(f) : IsRecordOf(f[j], o) => f[j].head \in U \union {s}
  BY DEF SettledBy
<1>2. k \in 0..m
  OBVIOUS
<1> QED
  BY <1>1, <1>2 DEF SettledBy

\* The last line of the file being the record.
LEMMA SettledLast ==
    ASSUME NEW f \in Seq(Line), f # <<>>, NEW o, NEW s,
           IsRecordOf(f[Len(f)], o), f[Len(f)].head = s
    PROVE  SettledBy(f, Len(f), o, s, {})
<1>1. Len(f) \in 0..Len(f) /\ Len(f) # 0
  OBVIOUS
<1>2. Len(f) + 1..Len(f) = {}
  OBVIOUS
<1> QED
  BY <1>1, <1>2 DEF SettledBy

\* The records of g are records of f, in the same places.
KeptFrom(f, g) ==
    \A o \in Origins : \A j \in 1..Len(g) :
        IsRecordOf(g[j], o) => j <= Len(f) /\ IsRecordOf(f[j], o) /\ f[j].head = g[j].head

\* A file that only lost lines or parts of lines, none of the first n a record.
LEMMA SettledShrink ==
    ASSUME NEW f \in Seq(Line), NEW g \in Seq(Line), NEW n \in 0..Len(f), NEW m \in Nat,
           NEW o \in Origins, NEW s, NEW U,
           SettledBy(f, n, o, s, U),
           KeptFrom(f, g),
           \A k \in 1..n : IsRecordOf(f[k], o) =>
               k <= m /\ IsRecordOf(g[k], o) /\ g[k].head = f[k].head
    PROVE  SettledBy(g, m, o, s, U)
<1>1. PICK k \in 0..n :
        /\ IF k = 0 THEN s = NoHead ELSE IsRecordOf(f[k], o) /\ f[k].head = s
        /\ \A j \in k+1..Len(f) : IsRecordOf(f[j], o) => f[j].head \in U \union {s}
  BY DEF SettledBy
<1>2. k \in 0..m
  BY <1>1
<1>3. IF k = 0 THEN s = NoHead ELSE IsRecordOf(g[k], o) /\ g[k].head = s
  BY <1>1
<1>4. ASSUME NEW j \in k+1..Len(g), IsRecordOf(g[j], o)
      PROVE  g[j].head \in U \union {s}
  <2>1. j \in 1..Len(g)
    BY <1>1
  <2>2. j <= Len(f) /\ IsRecordOf(f[j], o) /\ f[j].head = g[j].head
    BY <2>1, <1>4 DEF KeptFrom
  <2>3. j \in k+1..Len(f)
    BY <2>2
  <2> QED
    BY <1>1, <2>2, <2>3
<1> QED
  BY <1>2, <1>3, <1>4 DEF SettledBy

\* What replay shows for an origin that is settled.
LEMMA SettledReplay ==
    ASSUME NEW f \in Seq(Line), NEW n \in 0..Len(f), NEW o \in Origins, NEW s, NEW U,
           SettledBy(f, n, o, s, U),
           NEW m, Replays(f, m)
    PROVE  m[o] \in U \union {s}
<1>1. PICK k \in 0..n :
        /\ IF k = 0 THEN s = NoHead ELSE IsRecordOf(f[k], o) /\ f[k].head = s
        /\ \A j \in k+1..Len(f) : IsRecordOf(f[j], o) => f[j].head \in U \union {s}
  BY DEF SettledBy
<1>2. CASE m[o] = NoHead /\ \A j \in 1..Len(f) : ~IsRecordOf(f[j], o)
  <2>1. k = 0
    BY <1>1, <1>2
  <2> QED
    BY <1>1, <1>2, <2>1
<1>3. CASE \E l \in 1..Len(f) :
              /\ IsRecordOf(f[l], o) /\ m[o] = f[l].head
              /\ \A j \in l+1..Len(f) : ~IsRecordOf(f[j], o)
  <2>1. PICK l \in 1..Len(f) :
              /\ IsRecordOf(f[l], o) /\ m[o] = f[l].head
              /\ \A j \in l+1..Len(f) : ~IsRecordOf(f[j], o)
    BY <1>3
  <2>2. CASE l > k
    <3>1. l \in k+1..Len(f)
      BY <2>2
    <3> QED
      BY <1>1, <2>1, <3>1
  <2>3. CASE l <= k
    <3>1. k # 0 /\ k \in 1..Len(f)
      BY <2>3
    <3>2. ~(k \in l+1..Len(f))
      BY <1>1, <2>1, <3>1
    <3>3. k = l
      BY <2>3, <3>1, <3>2
    <3> QED
      BY <1>1, <2>1, <3>1, <3>3
  <2> QED
    BY <2>2, <2>3
<1> QED
  BY <1>2, <1>3 DEF Replays

-----------------------------------------------------------------------------
(***************************************************************************)
(* What a repair and a power loss do to the records and to the framing.    *)
(***************************************************************************)

\* A repair keeps every record, and leaves every line with its newline.
LEMMA RepairedKeeps ==
    ASSUME NEW f \in Seq(Line), \A k \in 1..Len(f) - 1 : f[k].ended
    PROVE  /\ KeptFrom(f, Repaired(f))
           /\ \A o \in Origins : \A k \in 1..Len(f) : IsRecordOf(f[k], o) =>
                  /\ k <= Len(Repaired(f))
                  /\ IsRecordOf(Repaired(f)[k], o) /\ Repaired(f)[k].head = f[k].head
           /\ Repaired(f) \in Seq(Line)
           /\ \A k \in 1..Len(Repaired(f)) : Repaired(f)[k].ended
<1> DEFINE g == Repaired(f)
<1>1. g \in Seq(Line) /\ Len(g) \in Nat /\ Len(f) \in Nat
  BY RepairedType
<1>2. CASE TornTail(f)
  <2>1. f # <<>> /\ g = SubSeq(f, 1, Len(f) - 1) /\ f[Len(f)].kind = "garbage"
    BY <1>2 DEF Repaired, TornTail
  <2> HIDE DEF g
  <2>2. Len(g) = Len(f) - 1 /\ \A k \in 1..Len(g) : g[k] = f[k]
    <3>1. Len(f) - 1 \in 0..Len(f)
      BY <2>1
    <3> QED
      BY <2>1, <3>1, PrefixFacts
  <2>3. \A o \in Origins : \A k \in 1..Len(f) : IsRecordOf(f[k], o) => k <= Len(g)
    BY <1>1, <2>1, <2>2 DEF IsRecordOf
  <2> QED
    BY <1>1, <2>2, <2>3 DEF KeptFrom, g
<1>3. CASE ~TornTail(f) /\ Unterminated(f)
  <2>1. f # <<>> /\ g = [f EXCEPT ![Len(f)] = [f[Len(f)] EXCEPT !.ended = TRUE]]
    BY <1>3 DEF Repaired, Unterminated
  <2>2. Len(f) \in 1..Len(f) /\ f[Len(f)] \in Line
    BY <2>1
  <2>3. /\ [f[Len(f)] EXCEPT !.ended = TRUE].kind = f[Len(f)].kind
        /\ [f[Len(f)] EXCEPT !.ended = TRUE].ended
        /\ f[Len(f)].kind = "record" =>
              /\ [f[Len(f)] EXCEPT !.ended = TRUE].origin = f[Len(f)].origin
              /\ [f[Len(f)] EXCEPT !.ended = TRUE].head = f[Len(f)].head
    BY <2>2, EndedKeeps
  <2> HIDE DEF g
  <2>4. /\ Len(g) = Len(f)
        /\ \A k \in 1..Len(f) - 1 : g[k] = f[k]
        /\ g[Len(f)] = [f[Len(f)] EXCEPT !.ended = TRUE]
    <3>1. [f[Len(f)] EXCEPT !.ended = TRUE] \in Line
      BY <2>2, EndedIsLine
    <3>2. \A k \in 1..Len(f) - 1 : k \in 1..Len(f) /\ k # Len(f)
      BY <1>1
    <3> DEFINE e == [f[Len(f)] EXCEPT !.ended = TRUE]
               n == Len(f)
    <3>3. e \in Line /\ n \in 1..Len(f) /\ g = [f EXCEPT ![n] = e]
      BY <2>1, <2>2, <3>1
    <3> HIDE DEF e
    <3>4. Len(g) = Len(f) /\ g[n] = e /\ \A k \in 1..Len(f) : k # n => g[k] = f[k]
      <4> HIDE DEF n
      <4> QED
        BY <3>3, ReplaceFacts
    <3> QED
      BY <3>2, <3>4 DEF e
  <2>5. ASSUME NEW k \in 1..Len(f)
        PROVE  /\ g[k].kind = f[k].kind /\ g[k].ended
               /\ f[k].kind = "record" => g[k].origin = f[k].origin /\ g[k].head = f[k].head
    <3>1. CASE k = Len(f)
      BY <3>1, <2>3, <2>4
    <3>2. CASE k # Len(f)
      <4>1. k \in 1..Len(f) - 1
        BY <3>2, <1>1
      <4> QED
        BY <4>1, <2>4
    <3> QED
      BY <3>1, <3>2
  <2> QED
    BY <1>1, <2>4, <2>5 DEF KeptFrom, IsRecordOf, g
<1>4. CASE ~TornTail(f) /\ ~Unterminated(f)
  <2>1. g = f
    BY <1>4 DEF Repaired
  <2>2. \A k \in 1..Len(f) : f[k].ended
    BY <1>1, <1>4 DEF Unterminated
  <2> QED
    BY <2>1, <2>2, <1>1 DEF KeptFrom
<1> QED
  BY <1>2, <1>3, <1>4

\* Losing power invents no record, and keeps the framing of what is left.
LEMMA CrashImageKeeps ==
    ASSUME NEW f \in Seq(Line), NEW n \in 0..Len(f), NEW image \in CrashImages(f, n),
           \A k \in 1..Len(f) - 1 : f[k].ended
    PROVE  /\ KeptFrom(f, image)
           /\ \A k \in 1..Len(image) - 1 : image[k].ended
<1>1. CASE \E m \in n..Len(f) : image = SubSeq(f, 1, m)
  <2>1. PICK m \in n..Len(f) : image = SubSeq(f, 1, m)
    BY <1>1
  <2>2. m \in 0..Len(f)
    OBVIOUS
  <2>3. Len(image) = m /\ \A k \in 1..m : image[k] = f[k]
    BY <2>1, <2>2, PrefixFacts
  <2>4. \A k \in 1..m - 1 : k \in 1..m /\ k \in 1..Len(f) - 1
    BY <2>2
  <2> QED
    BY <2>2, <2>3, <2>4 DEF KeptFrom
<1>2. CASE \E m \in n..(Len(f) - 1) : \E r \in Remnants(f[m + 1]) :
                image = Append(SubSeq(f, 1, m), r)
  <2>1. PICK m \in n..(Len(f) - 1) : \E r \in Remnants(f[m + 1]) :
                image = Append(SubSeq(f, 1, m), r)
    BY <1>2
  <2>2. PICK r \in Remnants(f[m + 1]) : image = Append(SubSeq(f, 1, m), r)
    BY <2>1
  <2>3. m \in 0..Len(f) /\ m + 1 \in 1..Len(f)
    OBVIOUS
  <2>4. f[m + 1] \in Line
    BY <2>3
  <2>5. r.kind = "record" =>
            f[m + 1].kind = "record" /\ r.origin = f[m + 1].origin /\ r.head = f[m + 1].head
    <3>1. CASE r \in {Junk("garbage", FALSE), Junk("badutf8", FALSE)}
      BY <3>1 DEF Junk
    <3>2. CASE f[m + 1].kind = "record" /\ r = [f[m + 1] EXCEPT !.ended = FALSE]
      BY <3>2, <2>4, EndedKeeps
    <3> QED
      BY <2>2, <3>1, <3>2 DEF Remnants
  <2>6. r \in Line
    <3>1. CASE r \in {Junk("garbage", FALSE), Junk("badutf8", FALSE)}
      BY <3>1, JunkIsLine
    <3>2. CASE r = [f[m + 1] EXCEPT !.ended = FALSE]
      BY <3>2, <2>4, EndedIsLine
    <3> QED
      BY <2>2, <3>1, <3>2 DEF Remnants
  <2>7. Len(image) = m + 1 /\ image[m + 1] = r /\ \A k \in 1..m : image[k] = f[k]
    <3> DEFINE p == SubSeq(f, 1, m)
    <3>1. p \in Seq(Line) /\ Len(p) = m /\ \A k \in 1..m : p[k] = f[k]
      BY <2>3, PrefixFacts
    <3>2. image = Append(p, r)
      BY <2>2
    <3> HIDE DEF p
    <3> QED
      BY <2>6, <3>1, <3>2
  <2>8. \A k \in 1..m : k \in 1..Len(f) - 1
    BY <2>3
  <2>9. \A j \in 1..Len(image) : j \in 1..m \/ j = m + 1
    BY <2>3, <2>7
  <2> QED
    BY <2>3, <2>5, <2>7, <2>8, <2>9 DEF KeptFrom, IsRecordOf
<1> QED
  BY <1>1, <1>2 DEF CrashImages

-----------------------------------------------------------------------------
(***************************************************************************)
(* The two locks.  Nothing here depends on what is in the file, so it holds *)
(* under every fault.                                                      *)
(***************************************************************************)

\* Who the holder of the mutex is, and who the holder of the file.
LEMMA OneInside ==
    ASSUME MutexInv, NEW c \in Callers, NEW d \in Callers,
           op[c].stage \in {"writing", "syncing"}, op[d].stage \in {"writing", "syncing"}
    PROVE  c = d
<1>1. op[c].inst \in Instances /\ op[d].inst \in Instances
  BY OpFields DEF MutexInv, At
<1>2. owner = op[c].inst /\ owner = op[d].inst
  BY <1>1 DEF MutexInv, HoldersOnly, OwnersOnly
<1>3. HoldersOnly
  BY DEF MutexInv
<1>4. lock[op[c].inst] = c /\ lock[op[d].inst] = d
  BY <1>3 DEF HoldersOnly
<1> QED
  BY <1>2, <1>4

\* While an instance mends the file, no caller is anywhere in an update.
LEMMA NobodyInside ==
    ASSUME MutexInv, NEW i \in Instances, status[i] = "repairing"
    PROVE  \A c \in Callers : op[c].stage = "none"
<1> SUFFICES ASSUME NEW c \in Callers, op[c].stage # "none" PROVE FALSE
  OBVIOUS
<1>1. op[c].inst \in Instances /\ status[op[c].inst] = "up"
  BY OpFields DEF MutexInv, HoldersOnly, At
<1>2. owner = i /\ owner = op[c].inst
  BY <1>1 DEF MutexInv, OwnersOnly
<1> QED
  BY <1>1, <1>2

\* A process that starts finds the file free, and one that mends it has it for
\* itself.
LEMMA OpenMutex ==
    ASSUME MutexInv, StoreTypeOK', NEW i \in Instances,
           Open(i) \/ OpenRefused(i) \/ Repair(i) \/ RepairFails(i)
    PROVE  MutexInv'
<1> USE DEF disk, history
<1>1. StoreTypeOK /\ OwnersOnly /\ HoldersOnly
  BY DEF MutexInv
<1>2. /\ status[i] \in {"down", "repairing"} /\ UNCHANGED <<lock, op, unsettled>>
      /\ \A j \in Instances : j # i => status'[j] = status[j]
  BY <1>1 DEF Open, OpenRefused, Repair, RepairFails, StoreTypeOK
<1>3. HoldersOnly'
  <2> SUFFICES ASSUME NEW c \in Callers, op[c].stage # "none"
               PROVE  status'[op[c].inst] = "up"
    BY <1>1, <1>2 DEF HoldersOnly
  <2>1. op[c].inst \in Instances /\ status[op[c].inst] = "up"
    BY <1>1, OpFields DEF HoldersOnly, At
  <2> QED
    BY <2>1, <1>2
<1>4. CASE Open(i)
  <2>1. owner = NoInstance /\ owner' = i
    BY <1>4 DEF Open
  <2>2. \A j \in Instances : j # i => status[j] \notin {"repairing", "up"}
    BY <1>1, <2>1, StoreAssumption DEF OwnersOnly
  <2> QED
    BY <1>2, <1>3, <2>1, <2>2 DEF OwnersOnly, MutexInv
<1>5. CASE OpenRefused(i)
  <2>1. UNCHANGED owner /\ status'[i] = "refused"
    BY <1>1, <1>5 DEF OpenRefused, StoreTypeOK
  <2> QED
    BY <1>1, <1>2, <1>3, <2>1 DEF OwnersOnly, MutexInv
<1>6. CASE Repair(i) \/ RepairFails(i)
  <2>1. status[i] = "repairing" /\ (status'[i] = "up" => owner' = owner)
        /\ status'[i] \in {"up", "down"}
    BY <1>1, <1>6 DEF Repair, RepairFails, StoreTypeOK
  <2>2. owner = i /\ \A j \in Instances : j # i => status[j] \notin {"repairing", "up"}
    BY <1>1, <2>1 DEF OwnersOnly
  <2> QED
    BY <1>2, <1>3, <2>1, <2>2 DEF OwnersOnly, MutexInv
<1> QED
  BY <1>4, <1>5, <1>6

\* Processes that die take their threads, their memory and their locks along.
LEMMA DropMutex ==
    ASSUME MutexInv, NEW dead \in SUBSET Instances, DropProcesses(dead), UNCHANGED unsettled
    PROVE  /\ \A i \in Instances : status'[i] \in {"repairing", "up"} =>
                  i \notin dead /\ status[i] = status'[i] /\ mem'[i] = mem[i]
           /\ \A c \in Callers : op'[c].stage # "none" =>
                  op[c].inst \in Instances \ dead /\ op'[c] = op[c]
           /\ OwnersOnly' /\ HoldersOnly'
<1>1. StoreTypeOK /\ OwnersOnly /\ HoldersOnly
  BY DEF MutexInv
<1>2. \A i \in Instances : status'[i] \in {"repairing", "up"} =>
          i \notin dead /\ status[i] = status'[i] /\ mem'[i] = mem[i]
  BY DEF DropProcesses
<1>3. \A i \in Instances \ dead : status'[i] = status[i] /\ lock'[i] = lock[i]
  BY DEF DropProcesses
<1>4. ASSUME NEW c \in Callers, op'[c].stage # "none"
      PROVE  op[c].inst \in Instances \ dead /\ op'[c] = op[c]
  <2>1. op'[c] = op[c] /\ op[c].inst \notin dead
    BY <1>4 DEF DropProcesses, IdleOp
  <2>2. op[c].inst \in Instances
    BY <1>1, <1>4, <2>1, OpFields DEF At
  <2> QED
    BY <2>1, <2>2
<1>5. OwnersOnly'
  <2> SUFFICES ASSUME NEW i \in Instances, status'[i] \in {"repairing", "up"}
               PROVE  owner' = i
    BY DEF OwnersOnly
  <2>1. owner = i /\ i \notin dead
    BY <1>1, <1>2 DEF OwnersOnly
  <2> QED
    BY <2>1 DEF DropProcesses
<1>6. HoldersOnly'
  <2> SUFFICES ASSUME NEW c \in Callers, op'[c].stage # "none"
               PROVE  /\ status'[op'[c].inst] = "up"
                      /\ op'[c].stage \in {"writing", "syncing"} =>
                            /\ lock'[op'[c].inst] = c
                            /\ op'[c].head \in unsettled[op'[c].origin]
    BY DEF HoldersOnly
  <2>1. op[c].inst \in Instances \ dead /\ op'[c] = op[c]
    BY <1>4
  <2> QED
    BY <1>1, <1>3, <2>1 DEF HoldersOnly
<1> QED
  BY <1>2, <1>4, <1>5, <1>6

\* A machine that goes down, and the loss of the file while nobody has it.
LEMMA CrashMutex ==
    ASSUME MutexInv, StoreTypeOK', PowerLoss \/ LoseState
    PROVE  MutexInv'
<1>1. StoreTypeOK /\ OwnersOnly /\ HoldersOnly
  BY DEF MutexInv
<1>2. CASE PowerLoss
  <2>1. DropProcesses(Instances) /\ UNCHANGED unsettled
    BY <1>2 DEF PowerLoss, history
  <2>2. OwnersOnly' /\ HoldersOnly'
    BY <2>1, DropMutex
  <2> QED
    BY <2>2 DEF MutexInv
<1>3. CASE LoseState
  <2>1. /\ \A i \in Instances : status[i] \in {"down", "refused"} /\ status'[i] = "down"
        /\ op' = op
    BY <1>3 DEF LoseState
  <2>2. \A c \in Callers : op[c].stage = "none"
    BY <1>1, <2>1, OpFields DEF HoldersOnly, At
  <2> QED
    BY <2>1, <2>2 DEF OwnersOnly, HoldersOnly, MutexInv
<1> QED
  BY <1>2, <1>3

\* A caller that comes in, is turned away, is approved, or leaves takes the mutex
\* only when nobody has it.
LEMMA QuietCallerMutex ==
    ASSUME MutexInv, StoreTypeOK', NEW c \in Callers,
           \/ \E i \in Instances, o \in Origins : Call(c, i, o)
           \/ Refuse(c)
           \/ \E h \in Heads : Approve(c, h)
           \/ Return(c)
    PROVE  MutexInv'
<1> USE DEF disk, process, history
<1>1. StoreTypeOK /\ OwnersOnly /\ HoldersOnly
  BY DEF MutexInv
<1>2. /\ UNCHANGED <<owner, status>>
      /\ \A o \in Origins : unsettled[o] \subseteq unsettled'[o]
      /\ \A d \in Callers : d # c => op'[d] = op[d]
  BY <1>1 DEF Call, Refuse, Approve, Return, GoTo, StoreTypeOK
<1>3. OwnersOnly'
  BY <1>1, <1>2 DEF OwnersOnly
<1>4. \A i \in Instances : lock'[i] # lock[i] => lock[i] = NoCaller
  BY <1>1 DEF Call, Refuse, Approve, Return, CanCheck, StoreTypeOK
<1>5. \A d \in Callers : d # c =>
          /\ op'[d].stage # "none" => status'[op'[d].inst] = "up"
          /\ op'[d].stage \in {"writing", "syncing"} =>
                lock'[op'[d].inst] = d /\ op'[d].head \in unsettled'[op'[d].origin]
  <2> SUFFICES ASSUME NEW d \in Callers, d # c, op[d].stage # "none"
               PROVE  /\ status[op[d].inst] = "up"
                      /\ op[d].stage \in {"writing", "syncing"} =>
                            lock'[op[d].inst] = d /\ op[d].head \in unsettled'[op[d].origin]
    BY <1>2
  <2>1. op[d].inst \in Instances /\ op[d].origin \in Origins
    BY <1>1, OpFields DEF At
  <2>2. status[op[d].inst] = "up"
    BY <1>1 DEF HoldersOnly
  <2>3. op[d].stage \in {"writing", "syncing"} =>
            lock[op[d].inst] = d /\ op[d].head \in unsettled[op[d].origin]
    BY <1>1 DEF HoldersOnly
  <2> QED
    BY <1>2, <1>4, <2>1, <2>2, <2>3, StoreAssumption
<1>6. /\ op'[c].stage # "none" => status'[op'[c].inst] = "up"
      /\ op'[c].stage \in {"writing", "syncing"} =>
            lock'[op'[c].inst] = c /\ op'[c].head \in unsettled'[op'[c].origin]
  <2>1. CASE \E i \in Instances, o \in Origins : Call(c, i, o)
    BY <1>1, <2>1 DEF Call, StoreTypeOK
  <2>2. CASE Refuse(c)
    <3>1. op'[c].stage = "refused" /\ op'[c].inst = op[c].inst /\ op[c].stage = "waiting"
      BY <1>1, <2>2 DEF Refuse, GoTo, CanCheck, At, StoreTypeOK
    <3> QED
      BY <1>1, <1>2, <3>1 DEF HoldersOnly
  <2>3. CASE \E h \in Heads : Approve(c, h)
    <3>1. PICK h \in Heads : Approve(c, h)
      BY <2>3
    <3>2. op[c] \in UndecidedOp /\ op[c].stage = "waiting"
      BY <1>1, <3>1, OpKinds DEF Approve, CanCheck, At
    <3>3. op[c].inst \in Instances /\ op[c].origin \in Origins
      BY <3>2 DEF UndecidedOp
    <3>4. op'[c].inst = op[c].inst /\ op'[c].origin = op[c].origin /\ op'[c].head = h
      BY <1>1, <3>1, <3>2 DEF Approve, StoreTypeOK, UndecidedOp
    <3>5. lock'[op[c].inst] = c /\ h \in unsettled'[op[c].origin]
      BY <1>1, <3>1, <3>3 DEF Approve, StoreTypeOK
    <3>6. status[op[c].inst] = "up"
      BY <1>1, <3>2 DEF HoldersOnly
    <3> QED
      BY <1>2, <3>4, <3>5, <3>6
  <2>4. CASE Return(c)
    BY <1>1, <2>4 DEF Return, StoreTypeOK, IdleOp
  <2> QED
    BY <2>1, <2>2, <2>3, <2>4
<1>7. HoldersOnly'
  <2> SUFFICES ASSUME NEW d \in Callers
               PROVE  /\ op'[d].stage # "none" => status'[op'[d].inst] = "up"
                      /\ op'[d].stage \in {"writing", "syncing"} =>
                            lock'[op'[d].inst] = d /\ op'[d].head \in unsettled'[op'[d].origin]
    BY DEF HoldersOnly
  <2>1. CASE d = c
    BY <1>6, <2>1
  <2>2. CASE d # c
    BY <1>5, <2>2
  <2> QED
    BY <2>1, <2>2
<1> QED
  BY <1>3, <1>7 DEF MutexInv

\* In an append only the holder of the mutex moves.
LEMMA AppendMoves ==
    ASSUME MutexInv, NEW c \in Callers, AppendNext(c)
    PROVE  /\ op[c].stage \in {"writing", "syncing"} /\ op[c] \in ApprovedOp
           /\ UNCHANGED <<owner, status>>
           /\ \A d \in Callers : d # c =>
                  op'[d] = op[d] /\ op[d].stage \notin {"writing", "syncing"}
           /\ op'[c].inst = op[c].inst /\ op'[c].origin = op[c].origin
           /\ op'[c].head = op[c].head
           /\ op'[c].stage \in {"syncing", "stored", "failed"}
           /\ op'[c].stage = "syncing" => Write(c)
           /\ op'[c].stage = "stored" => Sync(c)
<1> USE DEF process, disk
<1>1. StoreTypeOK
  BY DEF MutexInv
<1>2. op[c].stage \in {"writing", "syncing"} /\ op[c] \in ApprovedOp
  BY <1>1, OpKinds DEF AppendNext, Write, WriteFails, Sync, SyncFails, At
<1>3. UNCHANGED <<owner, status>>
  BY DEF AppendNext, Write, WriteFails, Sync, SyncFails
<1>4. PICK stage \in {"syncing", "stored", "failed"} :
          GoTo(c, stage) /\ (stage = "syncing" => Write(c)) /\ (stage = "stored" => Sync(c))
  BY DEF AppendNext, Write, WriteFails, Sync, SyncFails
<1>5. op'[c] = [op[c] EXCEPT !.stage = stage] /\ \A d \in Callers : d # c => op'[d] = op[d]
  BY <1>1, <1>4 DEF GoTo, StoreTypeOK
<1>6. op'[c].stage = stage /\ op'[c].inst = op[c].inst /\ op'[c].origin = op[c].origin
      /\ op'[c].head = op[c].head
  BY <1>2, <1>5 DEF ApprovedOp
<1>7. \A d \in Callers : d # c => op[d].stage \notin {"writing", "syncing"}
  BY <1>2, OneInside
<1> QED
  BY <1>2, <1>3, <1>4, <1>5, <1>6, <1>7

\* An append that ends, well or not, gives back what only its caller held.
LEMMA AppendMutex ==
    ASSUME MutexInv, StoreTypeOK', NEW c \in Callers, AppendNext(c)
    PROVE  MutexInv'
<1>1. StoreTypeOK /\ OwnersOnly /\ HoldersOnly
  BY DEF MutexInv
<1>2. /\ op[c].stage \in {"writing", "syncing"}
      /\ UNCHANGED <<owner, status>>
      /\ \A d \in Callers : d # c =>
             op'[d] = op[d] /\ op[d].stage \notin {"writing", "syncing"}
      /\ op'[c].inst = op[c].inst /\ op'[c].origin = op[c].origin
      /\ op'[c].head = op[c].head
      /\ op'[c].stage \in {"syncing", "stored", "failed"}
      /\ op'[c].stage = "syncing" => Write(c)
  BY AppendMoves
<1>3. OwnersOnly'
  BY <1>1, <1>2 DEF OwnersOnly
<1>4. status[op[c].inst] = "up" /\ lock[op[c].inst] = c
      /\ op[c].head \in unsettled[op[c].origin]
  BY <1>1, <1>2 DEF HoldersOnly
<1>5. \A d \in Callers : op[d].stage # "none" => status[op[d].inst] = "up"
  BY <1>1 DEF HoldersOnly
<1>6. op'[c].stage = "syncing" => lock' = lock /\ unsettled' = unsettled
  BY <1>2 DEF Write, history
<1>7. HoldersOnly'
  BY <1>2, <1>4, <1>5, <1>6 DEF HoldersOnly
<1> QED
  BY <1>3, <1>7 DEF MutexInv

\* Every step of the store keeps the two locks as they should be.
LEMMA MutexInvStep ==
    ASSUME MutexInv, [StoreNext]_storeVars
    PROVE  MutexInv'
<1>1. StoreTypeOK'
  BY StoreTypeStep DEF MutexInv
<1>2. CASE UNCHANGED storeVars
  BY <1>1, <1>2 DEF storeVars, process, history, MutexInv, OwnersOnly, HoldersOnly
<1>3. ASSUME NEW i \in Instances, Kill(i)
      PROVE  MutexInv'
  <2>1. DropProcesses({i}) /\ UNCHANGED unsettled
    BY <1>3 DEF Kill, history
  <2>2. OwnersOnly' /\ HoldersOnly'
    BY <2>1, DropMutex
  <2> QED
    BY <1>1, <2>2 DEF MutexInv
<1>4. CASE \E i \in Instances : InstanceNext(i)
  BY <1>1, <1>3, <1>4, OpenMutex DEF InstanceNext
<1>5. CASE \E c \in Callers : CallerNext(c)
  BY <1>1, <1>5, QuietCallerMutex, AppendMutex DEF CallerNext
<1> QED
  BY <1>1, <1>2, <1>4, <1>5, CrashMutex DEF StoreNext

\* The locks of the store, under every fault.
THEOREM MutexHolds == StoreSpec => []MutexInv
<1>1. StoreInit => MutexInv
  BY StoreTypeInit DEF StoreInit, MutexInv, OwnersOnly, HoldersOnly, IdleOp
<1>2. MutexInv /\ [StoreNext]_storeVars => MutexInv'
  BY MutexInvStep
<1> QED
  BY <1>1, <1>2, PTL DEF StoreSpec

-----------------------------------------------------------------------------
(***************************************************************************)
(* The store makes no head up.  Under every fault, what it holds for an    *)
(* origin was once approved for that origin.                               *)
(***************************************************************************)

\* What a replay shows is in the file.
LEMMA ReplayFrom ==
    ASSUME NEW f, NEW R, RecordsFrom(f, R), NEW m, Replays(f, m), NEW o \in Origins
    PROVE  m[o] # NoHead => <<o, m[o]>> \in R
BY DEF RecordsFrom, Replays, IsRecordOf

\* A repair and a power loss leave no record that was not there.
LEMMA RepairedFrom ==
    ASSUME NEW f \in Seq(Line), NEW R, RecordsFrom(f, R)
    PROVE  RecordsFrom(Repaired(f), R)
<1>1. CASE TornTail(f)
  <2>1. f # <<>> /\ Repaired(f) = SubSeq(f, 1, Len(f) - 1)
    BY <1>1 DEF Repaired, TornTail
  <2>2. Len(f) - 1 \in 0..Len(f)
    BY <2>1
  <2>3. Len(Repaired(f)) = Len(f) - 1 /\ \A k \in 1..Len(f) - 1 : Repaired(f)[k] = f[k]
    BY <2>1, <2>2, PrefixFacts
  <2> QED
    BY <2>3 DEF RecordsFrom
<1>2. CASE ~TornTail(f) /\ Unterminated(f)
  <2>1. Len(f) \in 1..Len(f)
    BY <1>2 DEF Unterminated
  <2> DEFINE line == [f[Len(f)] EXCEPT !.ended = TRUE]
  <2>2. Repaired(f) = [f EXCEPT ![Len(f)] = line]
    BY <1>2 DEF Repaired
  <2>3. f[Len(f)] \in Line
    BY <2>1
  <2>4. line.kind = f[Len(f)].kind
        /\ (line.kind = "record" => line.origin = f[Len(f)].origin /\ line.head = f[Len(f)].head)
    BY <2>3, EndedKeeps
  <2> HIDE DEF line
  <2>5. /\ Len(Repaired(f)) = Len(f) /\ Repaired(f)[Len(f)] = line
        /\ \A k \in 1..Len(f) : k # Len(f) => Repaired(f)[k] = f[k]
    BY <2>1, <2>2
  <2> SUFFICES ASSUME NEW k \in 1..Len(f), Repaired(f)[k].kind = "record"
               PROVE  <<Repaired(f)[k].origin, Repaired(f)[k].head>> \in R
    BY <2>5 DEF RecordsFrom
  <2>6. CASE k = Len(f)
    BY <2>4, <2>5, <2>6 DEF RecordsFrom
  <2>7. CASE k # Len(f)
    BY <2>5, <2>7 DEF RecordsFrom
  <2> QED
    BY <2>6, <2>7
<1>3. CASE ~TornTail(f) /\ ~Unterminated(f)
  BY <1>3 DEF Repaired
<1> QED
  BY <1>1, <1>2, <1>3

LEMMA CrashFrom ==
    ASSUME NEW f \in Seq(Line), NEW n \in 0..Len(f), NEW image \in CrashImages(f, n),
           NEW R, RecordsFrom(f, R)
    PROVE  RecordsFrom(image, R)
<1>1. CASE \E m \in n..Len(f) : image = SubSeq(f, 1, m)
  <2>1. PICK m \in n..Len(f) : image = SubSeq(f, 1, m)
    BY <1>1
  <2>2. m \in 0..Len(f)
    OBVIOUS
  <2>3. Len(image) = m /\ \A k \in 1..m : image[k] = f[k] /\ k \in 1..Len(f)
    BY <2>1, <2>2, PrefixFacts
  <2> QED
    BY <2>3 DEF RecordsFrom
<1>2. CASE \E m \in n..(Len(f) - 1) : \E r \in Remnants(f[m + 1]) :
                image = Append(SubSeq(f, 1, m), r)
  <2>1. PICK m \in n..(Len(f) - 1) : \E r \in Remnants(f[m + 1]) :
                image = Append(SubSeq(f, 1, m), r)
    BY <1>2
  <2>2. PICK r \in Remnants(f[m + 1]) : image = Append(SubSeq(f, 1, m), r)
    BY <2>1
  <2>3. m \in 0..Len(f) /\ m + 1 \in 1..Len(f) /\ f[m + 1] \in Line
    OBVIOUS
  <2>4. r.kind = "record" => /\ f[m + 1].kind = "record"
                             /\ r.origin = f[m + 1].origin /\ r.head = f[m + 1].head
    <3>1. CASE r \in {Junk("garbage", FALSE), Junk("badutf8", FALSE)}
      BY <3>1 DEF Junk
    <3>2. CASE f[m + 1].kind = "record" /\ r = [f[m + 1] EXCEPT !.ended = FALSE]
      BY <2>3, <3>2 DEF Line
    <3> QED
      BY <2>2, <3>1, <3>2 DEF Remnants
  <2>5. SubSeq(f, 1, m) \in Seq(Line) /\ Len(SubSeq(f, 1, m)) = m
        /\ \A k \in 1..m : SubSeq(f, 1, m)[k] = f[k]
    BY <2>3, PrefixFacts
  <2>6. Len(image) = m + 1 /\ image[m + 1] = r /\ \A k \in 1..m : image[k] = f[k]
    BY <2>2, <2>5
  <2>7. \A k \in 1..m + 1 : k = m + 1 \/ (k \in 1..m /\ k \in 1..Len(f))
    BY <2>3
  <2> QED
    BY <2>3, <2>4, <2>6, <2>7 DEF RecordsFrom
<1> QED
  BY <1>1, <1>2 DEF CrashImages

\* An appended line is a record of its own or none.
LEMMA AppendFrom ==
    ASSUME NEW f \in Seq(Line), NEW line \in Line, NEW R, RecordsFrom(f, R),
           line.kind = "record" => <<line.origin, line.head>> \in R
    PROVE  RecordsFrom(AppendLine(f, line), R)
<1>1. CASE Unterminated(f)
  <2> DEFINE fused == Fused(f[Len(f)], line)
  <2>1. Len(f) \in 1..Len(f) /\ fused.kind # "record"
    BY <1>1 DEF Unterminated, Fused, Junk
  <2>2. AppendLine(f, line) = [f EXCEPT ![Len(f)] = fused]
    BY <1>1 DEF AppendLine
  <2> HIDE DEF fused
  <2> QED
    BY <2>1, <2>2 DEF RecordsFrom
<1>2. CASE ~Unterminated(f)
  <2>1. AppendLine(f, line) = Append(f, line)
    BY <1>2 DEF AppendLine
  <2>2. Len(Append(f, line)) = Len(f) + 1 /\ Append(f, line)[Len(f) + 1] = line
        /\ \A k \in 1..Len(f) : Append(f, line)[k] = f[k]
    OBVIOUS
  <2>3. \A k \in 1..Len(f) + 1 : k = Len(f) + 1 \/ k \in 1..Len(f)
    OBVIOUS
  <2> QED
    BY <2>1, <2>2, <2>3 DEF RecordsFrom
<1> QED
  BY <1>1, <1>2

\* Nor does what a cut-short write leaves behind.
LEMMA StartedFrom ==
    ASSUME StoreTypeOK, NEW R, HeadsFrom(R), NEW c \in Callers, At(c, "writing"),
           NEW f \in Started(c)
    PROVE  RecordsFrom(f, R)
<1>1. /\ op[c].origin \in Origins /\ op[c].head \in Heads
      /\ <<op[c].origin, op[c].head>> \in R /\ RecordsFrom(file, R) /\ file \in Seq(Line)
  BY OpFields DEF At, HeadsFrom, StoreTypeOK
<1>2. ASSUME NEW p \in Pieces PROVE RecordsFrom(AppendLine(file, Torn(op[c].origin, op[c].head, p)), R)
  <2> DEFINE line == Torn(op[c].origin, op[c].head, p)
  <2>1. line \in Line
    BY <1>1, TornIsLine
  <2>2. line.kind = "record" => line.origin = op[c].origin /\ line.head = op[c].head
    BY DEF Torn, Pieces, Junk, Record
  <2> HIDE DEF line
  <2>3. RecordsFrom(AppendLine(file, line), R)
    BY <1>1, <2>1, <2>2, AppendFrom
  <2> QED
    BY <2>3 DEF line
<1> QED
  BY <1>1, <1>2 DEF Started

\* Moving a caller to another stage changes its stage and nothing else.
LEMMA GoToFields ==
    ASSUME StoreTypeOK, NEW c \in Callers, ~At(c, "none"), NEW stage, GoTo(c, stage)
    PROVE  /\ op'[c].stage = stage /\ op'[c].inst = op[c].inst
           /\ op'[c].origin = op[c].origin /\ op'[c].head = op[c].head
           /\ \A d \in Callers : d # c => op'[d] = op[d]
<1>1. op[c] \in UndecidedOp \/ op[c] \in ApprovedOp
  BY OpKinds DEF At
<1>2. op'[c] = [op[c] EXCEPT !.stage = stage] /\ \A d \in Callers : d # c => op'[d] = op[d]
  BY DEF GoTo, StoreTypeOK
<1>3. CASE op[c] \in UndecidedOp
  BY <1>2, <1>3 DEF UndecidedOp
<1>4. CASE op[c] \in ApprovedOp
  BY <1>2, <1>4 DEF ApprovedOp
<1> QED
  BY <1>1, <1>2, <1>3, <1>4

\* An approval sets the stage and the head.
LEMMA ApproveFields ==
    ASSUME StoreTypeOK, NEW c \in Callers, NEW h, Approve(c, h)
    PROVE  /\ op'[c].stage = "writing" /\ op'[c].inst = op[c].inst
           /\ op'[c].origin = op[c].origin /\ op'[c].head = h
           /\ \A d \in Callers : d # c => op'[d] = op[d]
<1>1. op[c] \in UndecidedOp
  BY OpKinds DEF Approve, CanCheck, At
<1> QED
  BY <1>1 DEF Approve, StoreTypeOK, UndecidedOp

\* A caller gets inside the mutex by an approval only, and stays what it is there.
LEMMA InsideStep ==
    ASSUME StoreTypeOK, [StoreNext]_storeVars, NEW d \in Callers,
           op'[d].stage \in {"writing", "syncing"}
    PROVE  \/ /\ op[d].stage \in {"writing", "syncing"}
              /\ op'[d].inst = op[d].inst /\ op'[d].origin = op[d].origin
              /\ op'[d].head = op[d].head
           \/ \E h : Approve(d, h)
<1>1. CASE op'[d] = op[d]
  BY <1>1
<1>2. op'[d] # IdleOp
  BY DEF IdleOp
<1>3. CASE UNCHANGED storeVars
  BY <1>1, <1>3 DEF storeVars
<1>4. ASSUME NEW dead, DropProcesses(dead)
      PROVE  op'[d] = op[d]
  BY <1>2, <1>4 DEF DropProcesses
<1>5. ASSUME NEW i \in Instances, InstanceNext(i)
      PROVE  op'[d] = op[d]
  BY <1>4, <1>5 DEF InstanceNext, Open, OpenRefused, Repair, RepairFails, Kill
<1>6. ASSUME NEW c \in Callers, CallerNext(c)
      PROVE  \/ op'[d] = op[d]
             \/ /\ op[d].stage \in {"writing", "syncing"}
                /\ op'[d].inst = op[d].inst /\ op'[d].origin = op[d].origin
                /\ op'[d].head = op[d].head
             \/ \E h : Approve(d, h)
  <2>1. CASE \E i \in Instances, o \in Origins : Call(c, i, o)
    BY <2>1 DEF Call, StoreTypeOK
  <2>2. CASE \E h \in Heads : Approve(c, h)
    BY <2>2, ApproveFields
  <2>3. CASE Return(c)
    BY <1>2, <2>3 DEF Return, StoreTypeOK
  <2>4. CASE Refuse(c)
    <3>1. ~At(c, "none") /\ GoTo(c, "refused")
      BY <2>4 DEF Refuse, CanCheck, At
    <3>2. op'[c].stage = "refused" /\ \A e \in Callers : e # c => op'[e] = op[e]
      BY <3>1, GoToFields
    <3> QED
      BY <3>2
  <2>5. CASE AppendNext(c)
    <3>1. PICK stage : GoTo(c, stage) /\ op[c].stage \in {"writing", "syncing"}
      BY <2>5 DEF AppendNext, Write, WriteFails, Sync, SyncFails, At
    <3>2. /\ op'[c].inst = op[c].inst /\ op'[c].origin = op[c].origin
          /\ op'[c].head = op[c].head
          /\ \A e \in Callers : e # c => op'[e] = op[e]
      BY <3>1, GoToFields DEF At
    <3> QED
      BY <3>1, <3>2
  <2> QED
    BY <1>6, <2>1, <2>2, <2>3, <2>4, <2>5 DEF CallerNext
<1>7. CASE PowerLoss \/ LoseState
  BY <1>1, <1>4, <1>7 DEF PowerLoss, LoseState
<1> QED
  BY <1>1, <1>3, <1>5, <1>6, <1>7 DEF StoreNext

\* Every step keeps the heads where they come from, as far as approvals do.
LEMMA HeadsFromStep ==
    ASSUME StoreTypeOK, NEW R, HeadsFrom(R), [StoreNext]_storeVars,
           \A c \in Callers : \A h : Approve(c, h) => <<op[c].origin, h>> \in R
    PROVE  HeadsFrom(R)'
<1> USE DEF disk, process, history
<1>1. /\ file \in Seq(Line) /\ synced \in 0..Len(file) /\ RecordsFrom(file, R)
      /\ \A i \in Instances, o \in Origins : mem[i][o] # NoHead => <<o, mem[i][o]>> \in R
  BY DEF StoreTypeOK, HeadsFrom
<1>2. \A c \in Callers :
          op'[c].stage \in {"writing", "syncing"} => <<op'[c].origin, op'[c].head>> \in R
  <2> SUFFICES ASSUME NEW c \in Callers, op'[c].stage \in {"writing", "syncing"}
               PROVE  <<op'[c].origin, op'[c].head>> \in R
    OBVIOUS
  <2>1. ASSUME NEW h, Approve(c, h) PROVE <<op'[c].origin, op'[c].head>> \in R
    BY <2>1, ApproveFields
  <2>2. CASE op[c].stage \in {"writing", "syncing"} /\ op'[c].origin = op[c].origin
             /\ op'[c].head = op[c].head
    BY <2>2 DEF HeadsFrom
  <2> QED
    BY <2>1, <2>2, InsideStep
<1> SUFFICES /\ RecordsFrom(file', R)
             /\ \A i \in Instances, o \in Origins : mem'[i][o] # NoHead => <<o, mem'[i][o]>> \in R
  BY <1>2 DEF HeadsFrom, RecordsFrom
<1>3. CASE UNCHANGED storeVars
  BY <1>1, <1>3 DEF storeVars
<1>4. ASSUME NEW dead, DropProcesses(dead), NEW i \in Instances, NEW o \in Origins,
             mem'[i][o] # NoHead
      PROVE  <<o, mem'[i][o]>> \in R
  BY <1>1, <1>4 DEF DropProcesses, NoMem
<1>5. ASSUME NEW j \in Instances, InstanceNext(j)
      PROVE  /\ RecordsFrom(file', R)
             /\ \A i \in Instances, o \in Origins : mem'[i][o] # NoHead => <<o, mem'[i][o]>> \in R
  <2>1. CASE Open(j)
    <3>1. PICK m \in [Origins -> HeadOrNone] :
              Replays(file, m) /\ mem' = [mem EXCEPT ![j] = m]
      BY <2>1 DEF Open
    <3>2. file' = file /\ mem'[j] = m /\ \A i \in Instances : i # j => mem'[i] = mem[i]
      BY <2>1, <3>1 DEF Open, StoreTypeOK
    <3>3. \A o \in Origins : m[o] # NoHead => <<o, m[o]>> \in R
      BY <1>1, <3>1, ReplayFrom
    <3> QED
      BY <1>1, <3>2, <3>3
  <2>2. CASE OpenRefused(j)
    BY <1>1, <2>2 DEF OpenRefused
  <2>3. CASE Repair(j) \/ RepairFails(j)
    <3>1. file' = Repaired(file)
      BY <2>3 DEF Repair, RepairFails
    <3>2. \A i \in Instances : mem'[i] = mem[i] \/ mem'[i] = NoMem
      BY <2>3 DEF Repair, RepairFails, StoreTypeOK
    <3>3. \A o \in Origins : NoMem[o] = NoHead
      BY DEF NoMem
    <3> QED
      BY <1>1, <3>1, <3>2, <3>3, RepairedFrom
  <2>4. CASE Kill(j)
    <3>1. RecordsFrom(file', R)
      BY <1>1, <2>4, StartedFrom DEF Kill
    <3> QED
      BY <1>4, <2>4, <3>1 DEF Kill
  <2> QED
    BY <1>5, <2>1, <2>2, <2>3, <2>4 DEF InstanceNext
<1>6. ASSUME NEW c \in Callers, CallerNext(c)
      PROVE  /\ RecordsFrom(file', R)
             /\ \A i \in Instances, o \in Origins : mem'[i][o] # NoHead => <<o, mem'[i][o]>> \in R
  <2>1. CASE Write(c)
    <3> DEFINE line == Record(op[c].origin, op[c].head, TRUE)
    <3>1. /\ line \in Line /\ line.origin = op[c].origin /\ line.head = op[c].head
          /\ <<op[c].origin, op[c].head>> \in R
      BY <2>1, OpFields, RecordIsLine DEF Write, At, HeadsFrom, Record
    <3>2. file' = AppendLine(file, line) /\ mem' = mem
      BY <2>1 DEF Write
    <3> HIDE DEF line
    <3> QED
      BY <1>1, <3>1, <3>2, AppendFrom
  <2>2. CASE WriteFails(c)
    BY <1>1, <2>2, StartedFrom DEF WriteFails
  <2>3. CASE Sync(c)
    <3>1. op[c].inst \in Instances /\ op[c].origin \in Origins
          /\ <<op[c].origin, op[c].head>> \in R
      BY <2>3, OpFields DEF Sync, At, HeadsFrom
    <3>2. \A i \in Instances, o \in Origins :
              mem'[i][o] = IF i = op[c].inst /\ o = op[c].origin THEN op[c].head ELSE mem[i][o]
      BY <2>3, <3>1 DEF Sync, StoreTypeOK
    <3>3. file' = file
      BY <2>3 DEF Sync
    <3> QED
      BY <1>1, <3>1, <3>2, <3>3
  <2>4. CASE SyncFails(c) \/ Refuse(c) \/ Return(c) \/ (\E h \in Heads : Approve(c, h))
             \/ \E i \in Instances, o \in Origins : Call(c, i, o)
    BY <1>1, <2>4 DEF SyncFails, Refuse, Return, Approve, Call
  <2> QED
    BY <1>6, <2>1, <2>2, <2>3, <2>4 DEF CallerNext, AppendNext
<1>7. CASE PowerLoss
  BY <1>1, <1>4, <1>7, CrashFrom DEF PowerLoss
<1>8. CASE LoseState
  BY <1>1, <1>8 DEF LoseState, RecordsFrom
<1> QED
  BY <1>3, <1>5, <1>6, <1>7, <1>8 DEF StoreNext

-----------------------------------------------------------------------------
(***************************************************************************)
(* The invariant.                                                          *)
(***************************************************************************)

\* An appended line leaves the lines before it framed.
LEMMA FramedAppend ==
    ASSUME NEW f \in Seq(Line), NEW line \in Line,
           \A k \in 1..Len(f) - 1 : f[k].ended,
           ~Unterminated(f)
    PROVE  /\ \A k \in 1..Len(Append(f, line)) - 1 : Append(f, line)[k].ended
           /\ line.ended => ~Unterminated(Append(f, line))
           /\ Append(f, line)[Len(Append(f, line))] = line
<1>1. Len(f) \in Nat /\ (f # <<>> => Len(f) \in 1..Len(f))
  OBVIOUS
<1>2. \A k \in 1..Len(f) : f[k].ended
  BY <1>1 DEF Unterminated
<1>3. /\ Len(Append(f, line)) = Len(f) + 1
      /\ Append(f, line)[Len(f) + 1] = line
      /\ \A k \in 1..Len(f) : Append(f, line)[k] = f[k]
  OBVIOUS
<1> QED
  BY <1>1, <1>2, <1>3 DEF Unterminated

\* The invariant holds initially.
LEMMA StoreInvInit == StoreInit => StoreInv
<1> SUFFICES ASSUME StoreInit PROVE StoreInv
  OBVIOUS
<1>1. StoreTypeOK
  BY StoreTypeInit
<1>2. Framed /\ OwnersOnly /\ HoldersOnly /\ WrittenLast /\ OpenedCurrent
  BY DEF StoreInit, IdleOp, Framed, OwnersOnly, HoldersOnly, WrittenLast, OpenedCurrent
<1>3. Settled
  <2> SUFFICES ASSUME NEW o \in Origins
               PROVE  SettledBy(file, synced, o, stored[o], unsettled[o])
    BY DEF Settled
  <2>1. 0 \in 0..synced /\ stored[o] = NoHead /\ 0 + 1..Len(file) = {}
    BY DEF StoreInit, NoMem
  <2> QED
    BY <2>1 DEF SettledBy
<1> QED
  BY <1>1, <1>2, <1>3 DEF StoreInv

\* Opening keeps the invariant: what replay shows is settled.
LEMMA OpenInv ==
    ASSUME StoreInv, MutexInv', NEW i \in Instances, Open(i) \/ OpenRefused(i)
    PROVE  StoreInv'
<1> USE DEF disk, history
<1>1. StoreTypeOK /\ Framed /\ OwnersOnly /\ HoldersOnly /\ WrittenLast /\ Settled /\ OpenedCurrent
  BY DEF StoreInv
<1>2. /\ status[i] = "down" /\ UNCHANGED <<file, synced, lock, op, stored, unsettled>>
      /\ \A j \in Instances : j # i => status'[j] = status[j] /\ mem'[j] = mem[j]
  BY <1>1 DEF Open, OpenRefused, StoreTypeOK
<1>3. Settled'
  BY <1>1, <1>2 DEF Settled
<1>4. WrittenLast'
  BY <1>1, <1>2 DEF WrittenLast
<1>5. CASE Open(i)
  <2>1. owner = NoInstance /\ owner' = i /\ status'[i] \in {"up", "repairing"}
        /\ (status'[i] = "up" => Repaired(file) = file)
    BY <1>1, <1>5 DEF Open, StoreTypeOK
  <2>2. \A j \in Instances : j # i => status[j] \notin {"repairing", "up"}
    BY <1>1, <2>1, StoreAssumption DEF OwnersOnly
  <2>3. Framed'
    <3>1. \A k \in 1..Len(file) - 1 : file[k].ended
      BY <1>1 DEF Framed
    <3>2. Repaired(file) = file => \A k \in 1..Len(file) : file[k].ended
      BY <1>1, <3>1, RepairedKeeps DEF StoreTypeOK
    <3>3. file # <<>> => Len(file) \in 1..Len(file)
      BY <1>1 DEF StoreTypeOK
    <3>4. status'[i] = "up" => ~Unterminated(file)
      BY <2>1, <3>2, <3>3 DEF Unterminated
    <3> QED
      BY <1>2, <2>2, <3>1, <3>4 DEF Framed
  <2>4. OpenedCurrent'
    <3> SUFFICES ASSUME NEW o \in Origins
                 PROVE  mem'[i][o] \in unsettled[o] \union {stored[o]}
      BY <1>2, <2>2 DEF OpenedCurrent, MayShow
    <3>1. PICK m \in [Origins -> HeadOrNone] :
              Replays(file, m) /\ mem' = [mem EXCEPT ![i] = m]
      BY <1>5 DEF Open
    <3>2. mem'[i] = m
      BY <1>1, <3>1 DEF StoreTypeOK
    <3>3. m[o] \in unsettled[o] \union {stored[o]}
      BY <1>1, <3>1, SettledReplay DEF StoreTypeOK, Settled
    <3> QED
      BY <3>2, <3>3
  <2> QED
    BY <1>3, <1>4, <2>3, <2>4 DEF MutexInv, StoreInv
<1>6. CASE OpenRefused(i)
  <2>1. UNCHANGED owner /\ UNCHANGED mem /\ status'[i] = "refused"
    BY <1>1, <1>6 DEF OpenRefused, StoreTypeOK
  <2>2. Framed'
    BY <1>1, <1>2, <2>1 DEF Framed
  <2>3. OpenedCurrent'
    BY <1>1, <1>2, <2>1 DEF OpenedCurrent, MayShow
  <2> QED
    BY <1>3, <1>4, <2>2, <2>3 DEF MutexInv, StoreInv
<1> QED
  BY <1>5, <1>6

\* A repair, whole or failed at its fsync, keeps what is settled.
LEMMA RepairInv ==
    ASSUME StoreInv, MutexInv', NEW i \in Instances, Repair(i) \/ RepairFails(i)
    PROVE  StoreInv'
<1> USE DEF disk, history
<1>1. StoreTypeOK /\ Framed /\ OwnersOnly /\ HoldersOnly /\ WrittenLast /\ Settled /\ OpenedCurrent
  BY DEF StoreInv
<1>2. /\ status[i] = "repairing" /\ UNCHANGED <<lock, op, stored, unsettled>>
      /\ file' = Repaired(file)
      /\ status'[i] \in {"up", "down"}
      /\ \A j \in Instances : j # i => status'[j] = status[j] /\ mem'[j] = mem[j]
  BY <1>1 DEF Repair, RepairFails, StoreTypeOK
<1>3. file \in Seq(Line) /\ \A k \in 1..Len(file) - 1 : file[k].ended
  BY <1>1 DEF StoreTypeOK, Framed
<1>4. /\ KeptFrom(file, file')
      /\ \A o \in Origins : \A k \in 1..Len(file) : IsRecordOf(file[k], o) =>
             k <= Len(file') /\ IsRecordOf(file'[k], o) /\ file'[k].head = file[k].head
      /\ file' \in Seq(Line)
      /\ \A k \in 1..Len(file') : file'[k].ended
  BY <1>2, <1>3, RepairedKeeps
<1>5. Len(file) \in Nat /\ Len(file') \in Nat /\ synced \in 0..Len(file) /\ synced' \in Nat
  BY <1>1, <1>3, <1>4 DEF StoreTypeOK, MutexInv
<1>6. Settled'
  <2> SUFFICES ASSUME NEW o \in Origins
               PROVE  SettledBy(file', synced', o, stored[o], unsettled[o])
    BY <1>2 DEF Settled
  <2>1. SettledBy(file, synced, o, stored[o], unsettled[o])
    BY <1>1 DEF Settled
  <2>2. synced' = Len(file') \/ synced' = synced
    BY DEF Repair, RepairFails
  <2>3. \A k \in 1..synced : IsRecordOf(file[k], o) =>
             k <= synced' /\ IsRecordOf(file'[k], o) /\ file'[k].head = file[k].head
    BY <1>4, <1>5, <2>2
  <2> QED
    BY <1>3, <1>4, <1>5, <2>1, <2>3, SettledShrink
<1>7. \A c \in Callers : op[c].stage = "none"
  BY <1>1, <1>2, NobodyInside DEF MutexInv
<1>8. WrittenLast'
  BY <1>2, <1>7 DEF WrittenLast
<1>9. \A j \in Instances : j # i => status[j] \notin {"repairing", "up"}
  BY <1>1, <1>2 DEF OwnersOnly
<1>10. Framed'
  <2>1. \A k \in 1..Len(file') - 1 : file'[k].ended
    BY <1>4, <1>5
  <2>2. file' # <<>> => Len(file') \in 1..Len(file')
    BY <1>4
  <2>3. ~Unterminated(file')
    BY <1>4, <2>2 DEF Unterminated
  <2> QED
    BY <2>1, <2>3 DEF Framed
<1>11. OpenedCurrent'
  <2>1. status'[i] = "up" => mem' = mem
    BY <1>1, <1>2 DEF Repair, RepairFails, StoreTypeOK
  <2> QED
    BY <1>1, <1>2, <1>9, <2>1 DEF OpenedCurrent, MayShow
<1> QED
  BY <1>6, <1>8, <1>10, <1>11 DEF MutexInv, StoreInv

\* The death of processes sets no surviving map back.
LEMMA DropInv ==
    ASSUME StoreInv, NEW dead \in SUBSET Instances, DropProcesses(dead),
           UNCHANGED <<stored, unsettled>>
    PROVE  /\ \A i \in Instances : status'[i] \in {"repairing", "up"} =>
                  i \notin dead /\ status[i] = status'[i] /\ mem'[i] = mem[i]
           /\ \A c \in Callers : op'[c].stage # "none" =>
                  op[c].inst \in Instances \ dead /\ op'[c] = op[c]
           /\ OwnersOnly' /\ HoldersOnly' /\ OpenedCurrent'
<1>1. MutexInv /\ OpenedCurrent
  BY DEF StoreInv, MutexInv
<1>2. /\ \A i \in Instances : status'[i] \in {"repairing", "up"} =>
            i \notin dead /\ status[i] = status'[i] /\ mem'[i] = mem[i]
      /\ \A c \in Callers : op'[c].stage # "none" =>
            op[c].inst \in Instances \ dead /\ op'[c] = op[c]
      /\ OwnersOnly' /\ HoldersOnly'
  BY <1>1, DropMutex
<1>3. OpenedCurrent'
  BY <1>1, <1>2 DEF OpenedCurrent, MayShow
<1> QED
  BY <1>2, <1>3

\* A process that dies leaves a piece of the record it was writing, if any: an
\* unsettled one.
LEMMA KillInv ==
    ASSUME StoreInv, MutexInv', NEW i \in Instances, Kill(i)
    PROVE  StoreInv'
<1>1. StoreTypeOK /\ Framed /\ OwnersOnly /\ HoldersOnly /\ WrittenLast /\ Settled /\ OpenedCurrent
  BY DEF MutexInv, StoreInv
<1>2. /\ status[i] \in {"up", "repairing"} /\ DropProcesses({i})
      /\ UNCHANGED <<synced, stored, unsettled>>
  BY DEF Kill, history
<1>3. /\ \A j \in Instances : status'[j] \in {"repairing", "up"} =>
            j \notin {i} /\ status[j] = status'[j] /\ mem'[j] = mem[j]
      /\ \A c \in Callers : op'[c].stage # "none" =>
            op[c].inst \in Instances \ {i} /\ op'[c] = op[c]
      /\ OwnersOnly' /\ HoldersOnly' /\ OpenedCurrent'
  BY <1>2, DropInv
\* Nobody else was past the lock.
<1>4. \A j \in Instances : status'[j] \notin {"repairing", "up"}
  BY <1>1, <1>2, <1>3 DEF OwnersOnly
<1>5. \A c \in Callers : op'[c].stage = "none"
  BY <1>1, <1>3, <1>4 DEF HoldersOnly
<1>6. WrittenLast'
  BY <1>5 DEF WrittenLast
<1>7. CASE file' = file
  <2>1. Framed'
    BY <1>1, <1>4, <1>7 DEF Framed
  <2>2. Settled'
    BY <1>1, <1>2, <1>7 DEF Settled
  <2> QED
    BY <1>3, <1>6, <2>1, <2>2 DEF MutexInv, StoreInv
<1>8. ASSUME NEW c \in Callers, At(c, "writing"), op[c].inst = i,
             NEW p \in Pieces, file' = AppendLine(file, Torn(op[c].origin, op[c].head, p))
      PROVE  Framed' /\ Settled'
  <2> DEFINE line == Torn(op[c].origin, op[c].head, p)
  <2>1. /\ op[c].origin \in Origins /\ op[c].head \in Heads
        /\ op[c].head \in unsettled[op[c].origin] /\ status[i] = "up"
    BY <1>1, <1>8, OpFields DEF At, HoldersOnly
  <2>2. line \in Line
    BY <2>1, TornIsLine
  <2>3. \A o \in Origins : IsRecordOf(line, o) => line.head \in unsettled[o]
    BY <2>1 DEF Torn, Pieces, Junk, Record, IsRecordOf
  <2>4. file' = Append(file, line)
    BY <1>1, <1>8, <2>1 DEF Framed, AppendLine
  <2> HIDE DEF line
  <2>5. Framed'
    <3>1. \A k \in 1..Len(file) - 1 : file[k].ended
      BY <1>1 DEF Framed
    <3>2. file \in Seq(Line) /\ ~Unterminated(file)
      BY <1>1, <2>1 DEF Framed, StoreTypeOK
    <3>3. \A k \in 1..Len(file') - 1 : file'[k].ended
      BY <2>2, <2>4, <3>1, <3>2, FramedAppend
    <3> QED
      BY <1>4, <3>3 DEF Framed
  <2>6. Settled'
    BY <1>1, <1>2, <2>2, <2>3, <2>4, SettledAppend DEF Settled, StoreTypeOK
  <2> QED
    BY <2>5, <2>6
<1>9. CASE file' # file
  <2>1. PICK c \in Callers : At(c, "writing") /\ op[c].inst = i /\ file' \in Started(c)
    BY <1>9 DEF Kill
  <2>2. PICK p \in Pieces : file' = AppendLine(file, Torn(op[c].origin, op[c].head, p))
    BY <1>9, <2>1 DEF Started
  <2> QED
    BY <1>3, <1>6, <1>8, <2>1, <2>2 DEF MutexInv, StoreInv
<1> QED
  BY <1>7, <1>9

\* So does a machine that goes down.
LEMMA PowerLossInv ==
    ASSUME StoreInv, MutexInv', PowerLoss
    PROVE  StoreInv'
<1>1. StoreTypeOK /\ Framed /\ OwnersOnly /\ HoldersOnly /\ WrittenLast /\ Settled /\ OpenedCurrent
  BY DEF MutexInv, StoreInv
<1>2. /\ file' \in CrashImages(file, synced) /\ synced' = Len(file')
      /\ DropProcesses(Instances) /\ UNCHANGED <<stored, unsettled>>
  BY DEF PowerLoss, history
<1>3. /\ \A j \in Instances : status'[j] \notin {"repairing", "up"}
      /\ \A c \in Callers : op'[c].stage = "none"
      /\ OwnersOnly' /\ HoldersOnly' /\ OpenedCurrent'
  BY <1>2, DropInv
<1>4. file \in Seq(Line) /\ synced \in 0..Len(file) /\ \A k \in 1..Len(file) - 1 : file[k].ended
  BY <1>1 DEF StoreTypeOK, Framed
<1>5. /\ file' \in Seq(Line)
      /\ Len(file') \in synced..Len(file)
      /\ \A k \in 1..synced : file'[k] = file[k]
  BY <1>2, <1>4, CrashImageType
<1>6. KeptFrom(file, file') /\ \A k \in 1..Len(file') - 1 : file'[k].ended
  BY <1>2, <1>4, CrashImageKeeps
<1>7. Framed' /\ WrittenLast'
  BY <1>3, <1>6 DEF Framed, WrittenLast
<1>8. Settled'
  <2> SUFFICES ASSUME NEW o \in Origins
               PROVE  SettledBy(file', synced', o, stored[o], unsettled[o])
    BY <1>2 DEF Settled
  <2>1. SettledBy(file, synced, o, stored[o], unsettled[o])
    BY <1>1 DEF Settled
  <2>2. \A k \in 1..synced : IsRecordOf(file[k], o) =>
             k <= synced' /\ IsRecordOf(file'[k], o) /\ file'[k].head = file[k].head
    BY <1>2, <1>4, <1>5
  <2>3. synced' \in Nat
    BY <1>2, <1>5
  <2> QED
    BY <1>4, <1>5, <1>6, <2>1, <2>2, <2>3, SettledShrink
<1> QED
  BY <1>3, <1>7, <1>8 DEF MutexInv, StoreInv

\* Steps of one caller's update that leave the file alone: it comes in, is turned
\* away, is approved, or leaves.
LEMMA QuietCallerInv ==
    ASSUME StoreInv, MutexInv', NEW c \in Callers,
           \/ \E i \in Instances, o \in Origins : Call(c, i, o)
           \/ Refuse(c)
           \/ \E h \in Heads : Approve(c, h)
           \/ Return(c)
    PROVE  StoreInv'
<1> USE DEF disk, process, history
<1>1. StoreTypeOK /\ Framed /\ OwnersOnly /\ HoldersOnly /\ WrittenLast /\ Settled /\ OpenedCurrent
  BY DEF StoreInv
<1>2. /\ UNCHANGED <<file, synced, owner, status, mem, stored>>
      /\ \A o \in Origins : unsettled[o] \subseteq unsettled'[o]
      /\ \A d \in Callers : d # c => op'[d] = op[d]
  BY <1>1 DEF Call, Refuse, Approve, Return, GoTo, StoreTypeOK
<1>3. Framed'
  BY <1>1, <1>2 DEF Framed
<1>4. OpenedCurrent'
  BY <1>1, <1>2 DEF OpenedCurrent, MayShow
<1>5. Settled'
  <2>1. file \in Seq(Line) /\ synced \in Nat
    BY <1>1 DEF StoreTypeOK
  <2> QED
    BY <1>1, <1>2, <2>1, SettledWeaker DEF Settled
<1>6. op'[c].stage # "syncing" /\ (op'[c].stage = "writing" => \E h \in Heads : Approve(c, h))
  <2>1. CASE \E i \in Instances, o \in Origins : Call(c, i, o)
    BY <1>1, <2>1 DEF Call, StoreTypeOK
  <2>2. CASE Refuse(c)
    <3>1. op[c] \in UndecidedOp
      BY <1>1, <2>2, OpKinds DEF Refuse, CanCheck, At
    <3> QED
      BY <1>1, <2>2, <3>1 DEF Refuse, GoTo, StoreTypeOK, UndecidedOp
  <2>3. CASE \E h \in Heads : Approve(c, h)
    <3>1. PICK h \in Heads : Approve(c, h)
      BY <2>3
    <3>2. op[c] \in UndecidedOp
      BY <1>1, <3>1, OpKinds DEF Approve, CanCheck, At
    <3>3. op'[c].stage = "writing"
      BY <1>1, <3>1, <3>2 DEF Approve, StoreTypeOK, UndecidedOp
    <3> QED
      BY <2>3, <3>3
  <2>4. CASE Return(c)
    BY <1>1, <2>4 DEF Return, StoreTypeOK, IdleOp
  <2> QED
    BY <2>1, <2>2, <2>3, <2>4
<1>7. WrittenLast'
  BY <1>1, <1>2, <1>6 DEF WrittenLast
<1> QED
  BY <1>3, <1>4, <1>5, <1>7 DEF MutexInv, StoreInv

\* An append: only the holder of the mutex takes its steps.
LEMMA AppendInv ==
    ASSUME StoreInv, MutexInv', NEW c \in Callers, Write(c) \/ Sync(c) \/ SyncFails(c)
    PROVE  StoreInv'
<1> USE DEF disk, process, history
<1>1. StoreTypeOK /\ Framed /\ OwnersOnly /\ HoldersOnly /\ WrittenLast /\ Settled /\ OpenedCurrent
  BY DEF StoreInv
<1> DEFINE i == op[c].inst
           o == op[c].origin
           h == op[c].head
<1>2. AppendNext(c) /\ MutexInv
  BY <1>1 DEF AppendNext, MutexInv
<1>3. op[c].stage \in {"writing", "syncing"} /\ i \in Instances /\ o \in Origins /\ h \in Heads
  BY <1>2, AppendMoves DEF ApprovedOp
<1>4. /\ UNCHANGED <<owner, status>>
      /\ \A d \in Callers : d # c => op'[d] = op[d]
      /\ op'[c].inst = i /\ op'[c].origin = o /\ op'[c].head = h
      /\ op'[c].stage \in {"syncing", "stored", "failed"}
      /\ op'[c].stage = "syncing" => Write(c)
  BY <1>2, AppendMoves
<1>5. status[i] = "up" /\ lock[i] = c /\ h \in unsettled[o]
  BY <1>1, <1>3 DEF HoldersOnly
\* Nobody else is inside the mutex of this process or of any other.
<1>6. \A d \in Callers : d # c => op[d].stage \notin {"writing", "syncing"}
  BY <1>2, AppendMoves
<1> HIDE DEF i, o, h
<1>7. CASE Write(c)
  <2> DEFINE line == Record(o, h, TRUE)
  <2>1. file \in Seq(Line) /\ synced \in 0..Len(file) /\ ~Unterminated(file)
        /\ \A k \in 1..Len(file) - 1 : file[k].ended
    BY <1>1, <1>3, <1>5 DEF StoreTypeOK, Framed
  <2>2. file' = Append(file, line)
    BY <1>7, <2>1 DEF Write, AppendLine, o, h
  <2>3. UNCHANGED <<synced, mem, stored, unsettled>>
    BY <1>7 DEF Write
  <2>4. line \in Line /\ line.ended
    BY <1>3, RecordIsLine DEF Record
  <2>5. \A p \in Origins : IsRecordOf(line, p) => line.head \in unsettled[p]
    BY <1>5 DEF Record, IsRecordOf
  <2>6. line = Record(op'[c].origin, op'[c].head, TRUE)
    BY <1>4
  <2> HIDE DEF line
  <2>7. /\ \A k \in 1..Len(file') - 1 : file'[k].ended
        /\ ~Unterminated(file') /\ file'[Len(file')] = line /\ file' # <<>>
    BY <2>1, <2>2, <2>4, FramedAppend
  <2>8. Framed'
    BY <2>7 DEF Framed
  <2>9. WrittenLast'
    BY <1>4, <1>6, <2>6, <2>7 DEF WrittenLast
  <2>10. Settled'
    BY <1>1, <2>1, <2>2, <2>3, <2>4, <2>5, SettledAppend DEF Settled
  <2>11. OpenedCurrent'
    BY <1>1, <1>4, <2>3 DEF OpenedCurrent, MayShow
  <2> QED
    BY <2>8, <2>9, <2>10, <2>11 DEF MutexInv, StoreInv
<1>8. CASE Sync(c)
  <2>1. /\ file' = file /\ synced' = Len(file)
        /\ \A p \in Origins : p # o => stored'[p] = stored[p] /\ unsettled'[p] = unsettled[p]
        /\ stored'[o] = h /\ unsettled'[o] = {}
    BY <1>1, <1>3, <1>8 DEF Sync, StoreTypeOK, o, h
  <2>2. file # <<>> /\ file[Len(file)] = Record(o, h, TRUE)
    BY <1>1, <1>8 DEF Sync, At, WrittenLast, o, h
  <2>3. file \in Seq(Line) /\ synced \in 0..Len(file) /\ Len(file) \in Nat
    BY <1>1 DEF StoreTypeOK
  <2>4. \A d \in Callers : op'[d].stage # "syncing"
    BY <1>1, <1>4, <1>6, <1>8 DEF Sync, GoTo, StoreTypeOK
  <2>5. WrittenLast' /\ Framed'
    BY <1>1, <1>4, <2>1, <2>4 DEF WrittenLast, Framed
  <2>6. Settled'
    <3> SUFFICES ASSUME NEW p \in Origins
                 PROVE  SettledBy(file, Len(file), p, stored'[p], unsettled'[p])
      BY <2>1 DEF Settled
    <3>1. CASE p = o
      <4>1. IsRecordOf(file[Len(file)], p) /\ file[Len(file)].head = h
        BY <2>2, <3>1 DEF IsRecordOf, Record
      <4> QED
        BY <2>1, <2>2, <2>3, <3>1, <4>1, SettledLast
    <3>2. CASE p # o
      <4>1. SettledBy(file, synced, p, stored[p], unsettled[p])
        BY <1>1 DEF Settled
      <4>2. synced \in Nat /\ synced <= Len(file)
        BY <2>3
      <4> QED
        BY <2>1, <2>3, <3>2, <4>1, <4>2, SettledWeaker
    <3> QED
      BY <3>1, <3>2
  <2>7. OpenedCurrent'
    <3> SUFFICES ASSUME NEW j \in Instances, status[j] \in {"repairing", "up"}, NEW p \in Origins
                 PROVE  mem'[j][p] = stored'[p] \/ mem'[j][p] \in unsettled'[p]
      BY <1>4 DEF OpenedCurrent, MayShow
    <3>1. j = i
      BY <1>1, <1>3, <1>5 DEF OwnersOnly
    <3>2. mem'[j] = [mem[i] EXCEPT ![o] = h]
      BY <1>1, <1>3, <1>8, <3>1 DEF Sync, StoreTypeOK, i, o, h
    <3>3. mem[i] \in [Origins -> HeadOrNone] /\ MayShow(p, mem[i][p])
      BY <1>1, <1>3, <1>5 DEF StoreTypeOK, OpenedCurrent
    <3>4. CASE p = o
      BY <1>3, <2>1, <3>2, <3>3, <3>4
    <3>5. CASE p # o
      BY <2>1, <3>2, <3>3, <3>5 DEF MayShow
    <3> QED
      BY <3>4, <3>5
  <2> QED
    BY <2>5, <2>6, <2>7 DEF MutexInv, StoreInv
<1>9. CASE SyncFails(c)
  <2>1. UNCHANGED <<file, synced, mem, stored, unsettled>>
    BY <1>9 DEF SyncFails
  <2>2. \A d \in Callers : op'[d].stage # "syncing"
    BY <1>1, <1>4, <1>6, <1>9 DEF SyncFails, GoTo, StoreTypeOK
  <2>3. WrittenLast' /\ Framed'
    BY <1>1, <1>4, <2>1, <2>2 DEF WrittenLast, Framed
  <2>4. Settled'
    BY <1>1, <2>1 DEF Settled
  <2>5. OpenedCurrent'
    BY <1>1, <1>4, <2>1 DEF OpenedCurrent, MayShow
  <2> QED
    BY <2>3, <2>4, <2>5 DEF MutexInv, StoreInv
<1> QED
  BY <1>7, <1>8, <1>9

\* Without short writes and without losing the file, every step of the store
\* keeps the invariant.
LEMMA StoreInvStep ==
    ASSUME StoreInv, [StoreNext]_storeVars, DiskHolds
    PROVE  StoreInv'
<1>1. MutexInv'
  BY MutexInvStep DEF StoreInv, MutexInv
<1>2. CASE UNCHANGED storeVars
  <2> USE <1>2 DEF storeVars, disk, process, history
  <2>1. Framed' /\ OwnersOnly' /\ HoldersOnly' /\ WrittenLast'
    BY DEF StoreInv, Framed, OwnersOnly, HoldersOnly, WrittenLast
  <2>2. Settled' /\ OpenedCurrent'
    BY DEF StoreInv, Settled, OpenedCurrent, MayShow
  <2> QED
    BY <1>1, <2>1, <2>2 DEF MutexInv, StoreInv
<1>3. CASE \E i \in Instances : InstanceNext(i)
  BY <1>1, <1>3, OpenInv, RepairInv, KillInv DEF InstanceNext
<1>4. CASE \E c \in Callers : CallerNext(c)
  <2>1. PICK c \in Callers : CallerNext(c)
    BY <1>4
  <2>2. ~WriteFails(c)
    BY DEF WriteFails, Fault, DiskHolds
  <2> QED
    BY <1>1, <2>1, <2>2, QuietCallerInv, AppendInv DEF CallerNext, AppendNext
<1>5. ~LoseState
  BY DEF LoseState, Fault, DiskHolds
<1> QED
  BY <1>1, <1>2, <1>3, <1>4, <1>5, PowerLossInv DEF StoreNext

\* The inductive invariant: where the file, its durable part, the maps of the
\* processes and what callers were told stand to one another.
THEOREM StoreInvariant ==
    ASSUME DiskHolds
    PROVE  StoreSpec => []StoreInv
<1>1. StoreInv /\ [StoreNext]_storeVars => StoreInv'
  BY StoreInvStep
<1> QED
  BY <1>1, StoreInvInit, PTL DEF StoreSpec

-----------------------------------------------------------------------------
(***************************************************************************)
(* What follows from it.                                                   *)
(***************************************************************************)

\* What can be replayed after a power loss, from the invariant.
LEMMA SurvivesInv == StoreInv => StoredSurvives
<1> SUFFICES ASSUME StoreInv,
                    NEW image \in CrashImages(file, synced),
                    NEW m \in [Origins -> HeadOrNone], Replays(image, m),
                    NEW o \in Origins
             PROVE  MayShow(o, m[o])
  BY DEF StoredSurvives
<1>1. file \in Seq(Line) /\ synced \in 0..Len(file) /\ \A k \in 1..Len(file) - 1 : file[k].ended
  BY DEF StoreInv, StoreTypeOK, Framed
<1>2. /\ image \in Seq(Line)
      /\ Len(image) \in synced..Len(file)
      /\ \A k \in 1..synced : image[k] = file[k]
      /\ KeptFrom(file, image)
  BY <1>1, CrashImageType, CrashImageKeeps
<1>3. SettledBy(file, synced, o, stored[o], unsettled[o])
  BY DEF StoreInv, Settled
<1>4. \A k \in 1..synced : IsRecordOf(file[k], o) =>
          k <= synced /\ IsRecordOf(image[k], o) /\ image[k].head = file[k].head
  BY <1>1, <1>2
<1>5. synced \in Nat /\ synced \in 0..Len(image)
  BY <1>1, <1>2
<1>6. SettledBy(image, synced, o, stored[o], unsettled[o])
  BY <1>1, <1>2, <1>3, <1>4, <1>5, SettledShrink
<1>7. m[o] \in unsettled[o] \union {stored[o]}
  BY <1>2, <1>5, <1>6, SettledReplay
<1> QED
  BY <1>7 DEF MayShow

\* SM-01 for every instance of the parameters: whatever a power loss leaves of
\* the file, a witness that can open it resumes from the last acknowledged head
\* of each origin or from a later attempt, not from an earlier one.
THEOREM StoredSurvivesHolds ==
    ASSUME DiskHolds
    PROVE  StoreSpec => []StoredSurvives
BY SurvivesInv, StoreInvariant, PTL

\* No running witness decides on a state older than the last one acknowledged.
THEOREM RunningIsCurrentHolds ==
    ASSUME DiskHolds
    PROVE  StoreSpec => []RunningIsCurrent
<1>1. StoreInv => RunningIsCurrent
  BY DEF StoreInv, OpenedCurrent, RunningIsCurrent
<1> QED
  BY <1>1, StoreInvariant, PTL

\* T8: the lock admits one process at a time to the state file.
THEOREM SingleWriterHolds == StoreSpec => []SingleWriter
<1>1. MutexInv => SingleWriter
  BY DEF MutexInv, OwnersOnly, SingleWriter
<1> QED
  BY <1>1, MutexHolds, PTL

\* SM-02: between a caller's check and the end of its append, no step of anyone
\* changes the state that was checked.
LEMMA CheckedStateStep ==
    ASSUME MutexInv, [StoreNext]_storeVars, NEW c \in Callers,
           op[c].stage \in {"writing", "syncing"}, op'[c].stage \in {"writing", "syncing"}
    PROVE  mem'[op[c].inst][op[c].origin] = mem[op[c].inst][op[c].origin]
<1> USE DEF disk, process, history
<1> DEFINE i == op[c].inst
<1>1. StoreTypeOK /\ OwnersOnly /\ HoldersOnly
  BY DEF MutexInv
<1>2. i \in Instances /\ status[i] = "up"
  BY <1>1, OpFields DEF HoldersOnly, At
<1> SUFFICES mem'[i] = mem[i]
  OBVIOUS
<1>3. CASE UNCHANGED storeVars
  BY <1>3 DEF storeVars
<1>4. ASSUME NEW j \in Instances, InstanceNext(j)
      PROVE  mem'[i] = mem[i]
  <2>1. CASE Open(j) \/ OpenRefused(j)
    BY <1>1, <1>2, <2>1 DEF Open, OpenRefused, StoreTypeOK
  <2>2. CASE Repair(j) \/ RepairFails(j)
    BY <1>1, <1>2, <2>2 DEF Repair, RepairFails, StoreTypeOK
  <2>3. CASE Kill(j)
    <3>1. DropProcesses({j}) /\ UNCHANGED <<stored, unsettled>>
      BY <2>3 DEF Kill
    <3>2. i # j
      BY <3>1 DEF DropProcesses, IdleOp
    <3> QED
      BY <1>2, <3>1, <3>2 DEF DropProcesses
  <2> QED
    BY <1>4, <2>1, <2>2, <2>3 DEF InstanceNext
<1>5. ASSUME NEW d \in Callers, CallerNext(d)
      PROVE  mem'[i] = mem[i]
  <2>1. ~Sync(d)
    <3> SUFFICES ASSUME Sync(d) PROVE FALSE
      OBVIOUS
    <3>1. d = c
      BY OneInside DEF Sync, At
    <3>2. op[c] \in ApprovedOp
      BY <1>1, OpKinds
    <3>3. op'[c].stage = "stored"
      BY <1>1, <3>1, <3>2 DEF Sync, GoTo, StoreTypeOK, ApprovedOp
    <3> QED
      BY <3>3
  <2>2. mem' = mem
    BY <1>5, <2>1 DEF CallerNext, AppendNext, Call, Refuse, Approve, Write, WriteFails,
                      SyncFails, Return
  <2> QED
    BY <2>2
<1>6. ~PowerLoss
  <2> SUFFICES ASSUME PowerLoss PROVE FALSE
    OBVIOUS
  <2>1. op'[c] = IdleOp
    BY <1>2 DEF PowerLoss, DropProcesses
  <2> QED
    BY <2>1 DEF IdleOp
<1>7. ~LoseState
  BY <1>2 DEF LoseState
<1> QED
  BY <1>3, <1>4, <1>5, <1>6, <1>7 DEF StoreNext

\* SM-02 as an action property of the specification.
THEOREM CheckedStateHoldsAlways == StoreSpec => CheckedStateHolds
<1>1. MutexInv /\ [StoreNext]_storeVars =>
        [\A c \in Callers :
          (op[c].stage \in {"writing", "syncing"} /\ op'[c].stage \in {"writing", "syncing"})
              => mem'[op[c].inst][op[c].origin] = mem[op[c].inst][op[c].origin]]_storeVars
  BY CheckedStateStep
<1> QED
  BY <1>1, MutexHolds, PTL DEF StoreSpec, CheckedStateHolds

-----------------------------------------------------------------------------
(***************************************************************************)
(* No restart is ever refused.                                             *)
(***************************************************************************)

\* A file that replay accepts has nothing but records once it is mended.
LEMMA RepairedWhole ==
    ASSUME NEW f \in Seq(Line), Readable(f)
    PROVE  \A k \in 1..Len(Repaired(f)) : Repaired(f)[k].kind = "record"
<1>1. CASE TornTail(f)
  <2>1. f # <<>> /\ Repaired(f) = SubSeq(f, 1, Len(f) - 1)
    BY <1>1 DEF Repaired, TornTail
  <2>2. Len(f) \in Nat \ {0} /\ Len(f) - 1 \in 0..Len(f)
    BY <2>1
  <2>3. /\ Len(SubSeq(f, 1, Len(f) - 1)) = Len(f) - 1
        /\ \A k \in 1..Len(f) - 1 : SubSeq(f, 1, Len(f) - 1)[k] = f[k]
    BY <2>2, PrefixFacts
  <2>4. \A k \in 1..Len(f) - 1 : k \in 1..Len(f) /\ k # Len(f)
    BY <2>2
  <2>5. \A k \in 1..Len(f) - 1 : f[k].kind = "record"
    BY <2>4 DEF Readable
  <2> QED
    BY <2>1, <2>3, <2>5
<1>2. CASE ~TornTail(f) /\ Unterminated(f)
  <2>1. Len(f) \in 1..Len(f)
    BY <1>2 DEF Unterminated
  <2>2. Repaired(f) = [f EXCEPT ![Len(f)] = [f[Len(f)] EXCEPT !.ended = TRUE]]
    BY <1>2 DEF Repaired
  <2>3. f[Len(f)] \in Line
    BY <2>1
  <2>4. /\ [f[Len(f)] EXCEPT !.ended = TRUE] \in Line
        /\ [f[Len(f)] EXCEPT !.ended = TRUE].kind = f[Len(f)].kind
    BY <2>3, EndedIsLine, EndedKeeps
  <2>5. /\ Len(Repaired(f)) = Len(f)
        /\ \A k \in 1..Len(f) : Repaired(f)[k].kind = f[k].kind
    BY <2>1, <2>2, <2>4, ReplaceFacts
  <2> QED
    BY <1>2, <2>5 DEF Readable
<1>3. CASE ~TornTail(f) /\ ~Unterminated(f)
  BY <1>3 DEF Repaired, Readable
<1> QED
  BY <1>1, <1>2, <1>3

\* Every step keeps the file of a running witness whole.
LEMMA ReplayedStep ==
    ASSUME StoreInv, Replayed, [StoreNext]_storeVars, DiskHolds
    PROVE  Replayed'
<1> USE DEF disk, process, history
<1>1. StoreTypeOK /\ Framed /\ OwnersOnly /\ HoldersOnly
  BY DEF StoreInv
<1>2. file \in Seq(Line) /\ Len(file) \in Nat
  BY <1>1 DEF StoreTypeOK
<1>3. CASE UNCHANGED storeVars
  BY <1>3 DEF Replayed, storeVars
<1>4. ASSUME NEW i \in Instances, InstanceNext(i)
      PROVE  Replayed'
  <2>1. CASE Open(i)
    <3>1. /\ file' = file /\ Readable(file)
          /\ \A j \in Instances : j # i => status'[j] = status[j]
          /\ (status'[i] = "up" => Repaired(file) = file)
      BY <1>1, <2>1 DEF Open, StoreTypeOK
    <3>2. Repaired(file) = file => \A k \in 1..Len(file) : file[k].kind = "record"
      BY <1>2, <3>1, RepairedWhole
    <3> SUFFICES ASSUME NEW j \in Instances
                 PROVE  /\ status'[j] = "repairing" => Readable(file)
                        /\ status'[j] = "up" => \A k \in 1..Len(file) : file[k].kind = "record"
      BY <3>1 DEF Replayed
    <3>3. CASE j = i
      BY <3>1, <3>2, <3>3
    <3>4. CASE j # i
      BY <3>1, <3>4 DEF Replayed
    <3> QED
      BY <3>3, <3>4
  <2>2. CASE OpenRefused(i)
    BY <1>1, <2>2 DEF OpenRefused, StoreTypeOK, Replayed
  <2>3. CASE Repair(i) \/ RepairFails(i)
    <3>1. /\ status[i] = "repairing" /\ file' = Repaired(file)
          /\ status'[i] \in {"up", "down"}
          /\ \A j \in Instances : j # i => status'[j] = status[j]
      BY <1>1, <2>3 DEF Repair, RepairFails, StoreTypeOK
    <3>2. \A j \in Instances : j # i => status[j] \notin {"repairing", "up"}
      BY <1>1, <3>1 DEF OwnersOnly
    <3>3. \A k \in 1..Len(file') : file'[k].kind = "record"
      BY <1>2, <3>1, RepairedWhole DEF Replayed
    <3> QED
      BY <3>1, <3>2, <3>3 DEF Replayed
  <2>4. CASE Kill(i)
    <3>1. /\ status[i] \in {"up", "repairing"} /\ status'[i] = "down"
          /\ \A j \in Instances : j # i => status'[j] = status[j]
      BY <2>4 DEF Kill, DropProcesses
    <3>2. \A j \in Instances : j # i => status[j] \notin {"repairing", "up"}
      BY <1>1, <3>1 DEF OwnersOnly
    <3> QED
      BY <3>1, <3>2 DEF Replayed
  <2> QED
    BY <1>4, <2>1, <2>2, <2>3, <2>4 DEF InstanceNext
<1>5. ASSUME NEW c \in Callers, CallerNext(c)
      PROVE  Replayed'
  <2>1. ~WriteFails(c)
    BY DEF WriteFails, Fault, DiskHolds
  <2>2. CASE Write(c)
    <3> DEFINE line == Record(op[c].origin, op[c].head, TRUE)
    <3>1. op[c].inst \in Instances /\ status[op[c].inst] = "up"
      BY <1>1, <2>2, OpFields DEF Write, At, HoldersOnly
    <3>2. file' = Append(file, line)
      BY <1>1, <2>2, <3>1 DEF Write, AppendLine, Framed
    <3>3. line.kind = "record"
      BY DEF Record
    <3> HIDE DEF line
    <3>4. \A k \in 1..Len(file) : file[k].kind = "record"
      BY <3>1 DEF Replayed
    <3>5. \A k \in 1..Len(file') : file'[k].kind = "record"
      BY <1>2, <3>2, <3>3, <3>4
    <3>6. status' = status
      BY <2>2 DEF Write
    <3>7. \A j \in Instances : status[j] # "repairing"
      BY <1>1, <3>1 DEF OwnersOnly
    <3> QED
      BY <3>5, <3>6, <3>7 DEF Replayed
  <2>3. CASE ~Write(c)
    <3>1. UNCHANGED <<file, status>>
      BY <1>5, <2>1, <2>3 DEF CallerNext, AppendNext, Call, Refuse, Approve, Sync, SyncFails, Return
    <3> QED
      BY <3>1 DEF Replayed
  <2> QED
    BY <2>2, <2>3
<1>6. CASE PowerLoss
  <2>1. \A j \in Instances : status'[j] = "down"
    BY <1>6 DEF PowerLoss, DropProcesses
  <2> QED
    BY <2>1 DEF Replayed
<1>7. ~LoseState
  BY DEF LoseState, Fault, DiskHolds
<1> QED
  BY <1>3, <1>4, <1>5, <1>6, <1>7 DEF StoreNext

\* The file of a running witness can be opened again, at every moment.
THEOREM AlwaysReopensHolds ==
    ASSUME DiskHolds
    PROVE  StoreSpec => []AlwaysReopens
<1>1. StoreInit => Replayed
  BY DEF StoreInit, Replayed
<1>2. StoreInv /\ Replayed /\ [StoreNext]_storeVars => Replayed'
  BY ReplayedStep
<1>3. StoreInv /\ Replayed => AlwaysReopens
  BY DEF StoreInv, Framed, Replayed, AlwaysReopens, Readable
<1> QED
  BY <1>1, <1>2, <1>3, StoreInvariant, PTL DEF StoreSpec

-----------------------------------------------------------------------------
(***************************************************************************)
(* What is durable stays.                                                  *)
(***************************************************************************)

\* No step takes a durable record away, moves it, or has it less than durable.
LEMMA DurableKept ==
    ASSUME StoreInv, [StoreNext]_storeVars, DiskHolds,
           NEW o \in Origins, NEW k \in 1..synced, IsRecordOf(file[k], o)
    PROVE  k \in 1..synced' /\ IsRecordOf(file'[k], o) /\ file'[k].head = file[k].head
<1> USE DEF disk, process, history
<1>1. StoreTypeOK /\ Framed /\ HoldersOnly
  BY DEF StoreInv
<1>2. file \in Seq(Line) /\ synced \in 0..Len(file) /\ Len(file) \in Nat
  BY <1>1 DEF StoreTypeOK
<1>3. k \in 1..Len(file)
  BY <1>2
<1>4. CASE UNCHANGED <<file, synced>>
  BY <1>4
\* An append, whole or torn, to a file that a running witness keeps terminated.
<1>5. ASSUME NEW c \in Callers, At(c, "writing"), NEW line, file' = AppendLine(file, line),
             synced' = synced
      PROVE  k \in 1..synced' /\ IsRecordOf(file'[k], o) /\ file'[k].head = file[k].head
  <2>1. op[c].inst \in Instances /\ status[op[c].inst] = "up"
    BY <1>1, <1>5, OpFields DEF At, HoldersOnly
  <2>2. file' = Append(file, line)
    BY <1>1, <1>5, <2>1 DEF Framed, AppendLine
  <2>3. file'[k] = file[k]
    BY <1>2, <1>3, <2>2
  <2> QED
    BY <1>5, <2>3
<1>6. ASSUME NEW i \in Instances, InstanceNext(i)
      PROVE  k \in 1..synced' /\ IsRecordOf(file'[k], o) /\ file'[k].head = file[k].head
  <2>1. CASE Open(i) \/ OpenRefused(i)
    BY <1>4, <2>1 DEF Open, OpenRefused
  <2>2. CASE Repair(i) \/ RepairFails(i)
    <3>1. file' = Repaired(file) /\ (synced' = Len(file') \/ synced' = synced)
      BY <2>2 DEF Repair, RepairFails
    <3>2. /\ k <= Len(file') /\ Len(file') \in Nat
          /\ IsRecordOf(file'[k], o) /\ file'[k].head = file[k].head
      BY <1>1, <1>2, <1>3, <3>1, RepairedKeeps DEF Framed
    <3> QED
      BY <1>2, <3>1, <3>2
  <2>3. CASE Kill(i)
    <3>1. CASE file' = file
      BY <2>3, <3>1, <1>4 DEF Kill
    <3>2. CASE file' # file
      <4>1. PICK c \in Callers : At(c, "writing") /\ file' \in Started(c)
        BY <2>3, <3>2 DEF Kill
      <4>2. PICK p \in Pieces : file' = AppendLine(file, Torn(op[c].origin, op[c].head, p))
        BY <3>2, <4>1 DEF Started
      <4> QED
        BY <1>5, <2>3, <4>1, <4>2 DEF Kill
    <3> QED
      BY <3>1, <3>2
  <2> QED
    BY <1>6, <2>1, <2>2, <2>3 DEF InstanceNext
<1>7. ASSUME NEW c \in Callers, CallerNext(c)
      PROVE  k \in 1..synced' /\ IsRecordOf(file'[k], o) /\ file'[k].head = file[k].head
  <2>1. ~WriteFails(c)
    BY DEF WriteFails, Fault, DiskHolds
  <2>2. CASE Write(c)
    BY <1>5, <2>2 DEF Write
  <2>3. CASE Sync(c)
    BY <1>3, <2>3 DEF Sync
  <2>4. CASE ~Write(c) /\ ~Sync(c)
    <3>1. UNCHANGED <<file, synced>>
      BY <1>7, <2>1, <2>4 DEF CallerNext, AppendNext, Call, Refuse, Approve, SyncFails, Return
    <3> QED
      BY <1>4, <3>1
  <2> QED
    BY <2>2, <2>3, <2>4
<1>8. CASE PowerLoss
  <2>1. file' \in CrashImages(file, synced) /\ synced' = Len(file')
    BY <1>8 DEF PowerLoss
  <2>2. Len(file') \in synced..Len(file) /\ file'[k] = file[k]
    BY <1>2, <2>1, CrashImageType
  <2> QED
    BY <1>2, <2>1, <2>2
<1>9. ~LoseState
  BY DEF LoseState, Fault, DiskHolds
<1>10. CASE UNCHANGED storeVars
  BY <1>4, <1>10 DEF storeVars
<1> QED
  BY <1>6, <1>7, <1>8, <1>9, <1>10 DEF StoreNext

-----------------------------------------------------------------------------
(***************************************************************************)
(* Writes that fail part-way: what they can cost, with every fault and     *)
(* also when the file is lost.                                             *)
(***************************************************************************)

\* An append never opens a file that replay had refused; behind a torn tail it only
\* can when it continues that line.
LEMMA AppendReadable ==
    ASSUME NEW f \in Seq(Line), NEW line \in Line, Readable(AppendLine(f, line))
    PROVE  Readable(f) /\ (TornTail(f) => Unterminated(f))
<1> DEFINE g == AppendLine(f, line)
<1>1. Len(f) \in Nat /\ (f # <<>> => Len(f) \in 1..Len(f) /\ f[Len(f)] \in Line)
  OBVIOUS
<1>2. CASE ~Unterminated(f)
  <2>1. /\ g = Append(f, line) /\ Len(g) = Len(f) + 1
        /\ \A k \in 1..Len(f) : g[k] = f[k]
    BY <1>2 DEF AppendLine
  <2>2. \A k \in 1..Len(f) : f[k].kind = "record"
    BY <1>1, <2>1 DEF Readable
  <2> QED
    BY <1>1, <2>2 DEF Readable, TornTail
<1>3. CASE Unterminated(f)
  <2> DEFINE last == f[Len(f)]
  <2>1. f # <<>> /\ Len(f) \in 1..Len(f) /\ last \in Line
    BY <1>1, <1>3 DEF Unterminated
  <2>2. Fused(last, line) \in Line
    BY <2>1, JunkIsLine DEF Fused, Line
  <2>3. g = [f EXCEPT ![Len(f)] = Fused(last, line)]
    BY <1>3 DEF AppendLine
  <2>4. /\ Len(g) = Len(f) /\ g[Len(f)] = Fused(last, line)
        /\ \A k \in 1..Len(f) : k # Len(f) => g[k] = f[k]
    BY <2>1, <2>2, <2>3, ReplaceFacts
  <2>5. \A k \in 1..Len(f) : k # Len(f) => f[k].kind = "record"
    BY <2>4 DEF Readable
  <2>6. Fused(last, line).kind = "garbage"
    BY <2>1, <2>4 DEF Readable, TornTail, Fused, Junk
  <2>7. last.kind \in {"record", "garbage"}
    BY <2>1, <2>6 DEF Fused, Junk, Line
  <2> QED
    BY <1>3, <2>1, <2>5, <2>7 DEF Readable, TornTail
<1> QED
  BY <1>2, <1>3

\* An append continues the last line or comes behind it: it hides nothing that
\* was there with its newline.
LEMMA AppendSettles ==
    ASSUME NEW f \in Seq(Line), NEW line \in Line, NEW o, NEW s, NEW U,
           SettledBy(f, Whole(f), o, s, U),
           IsRecordOf(line, o) => line.head \in U \union {s}
    PROVE  SettledBy(AppendLine(f, line), Whole(AppendLine(f, line)), o, s, U)
<1> DEFINE g == AppendLine(f, line)
<1>1. Len(f) \in Nat /\ g \in Seq(Line) /\ Len(g) \in Nat
  BY AppendLineType
<1>2. CASE ~Unterminated(f)
  <2>1. g = Append(f, line) /\ Len(g) = Len(f) + 1 /\ Whole(f) = Len(f)
    BY <1>2 DEF AppendLine, Whole
  <2>2. SettledBy(g, Len(f), o, s, U)
    BY <1>1, <2>1, SettledAppend
  <2>3. Whole(g) \in Nat /\ Len(f) <= Whole(g)
    BY <1>1, <2>1 DEF Whole
  <2>4. SettledBy(g, Whole(g), o, s, U)
    <3> HIDE DEF g
    <3> QED
      BY <1>1, <2>2, <2>3, SettledWeaker
  <2> QED
    BY <2>4
<1>3. CASE Unterminated(f)
  <2> DEFINE last == f[Len(f)]
  <2>1. f # <<>> /\ Len(f) \in 1..Len(f) /\ last \in Line
    BY <1>3 DEF Unterminated
  <2>2. Fused(last, line) \in Line /\ ~IsRecordOf(Fused(last, line), o)
    BY <2>1, JunkIsLine DEF Fused, Line, Junk, IsRecordOf
  <2>3. g = [f EXCEPT ![Len(f)] = Fused(last, line)]
    BY <1>3 DEF AppendLine
  <2>4. /\ Len(g) = Len(f) /\ g[Len(f)] = Fused(last, line)
        /\ \A k \in 1..Len(f) : k # Len(f) => g[k] = f[k]
    BY <2>1, <2>2, <2>3, ReplaceFacts
  <2>5. Whole(f) = Len(f) - 1 /\ Whole(f) <= Whole(g) /\ Whole(g) \in Nat
    BY <1>1, <1>3, <2>1, <2>4 DEF Whole
  <2>6. PICK k \in 0..Len(f) - 1 :
          /\ IF k = 0 THEN s = NoHead ELSE IsRecordOf(f[k], o) /\ f[k].head = s
          /\ \A j \in k+1..Len(f) : IsRecordOf(f[j], o) => f[j].head \in U \union {s}
    BY <2>5 DEF SettledBy
  <2>7. IF k = 0 THEN s = NoHead ELSE IsRecordOf(g[k], o) /\ g[k].head = s
    BY <1>1, <2>4, <2>6
  <2>8. ASSUME NEW j \in k+1..Len(g), IsRecordOf(g[j], o)
        PROVE  g[j].head \in U \union {s}
    <3>1. j # Len(f)
      BY <2>2, <2>4, <2>8
    <3>2. j \in 1..Len(f) /\ j \in k+1..Len(f)
      BY <1>1, <2>4, <2>6, <2>8
    <3>3. g[j] = f[j]
      BY <2>4, <3>1, <3>2
    <3> QED
      BY <2>6, <2>8, <3>2, <3>3
  <2>9. k \in 0..Whole(g)
    BY <1>1, <2>5, <2>6
  <2>10. SettledBy(g, Whole(g), o, s, U)
    <3> HIDE DEF g
    <3> QED
      BY <2>7, <2>8, <2>9 DEF SettledBy
  <2> QED
    BY <2>10
<1> QED
  BY <1>2, <1>3

\* Where an append leaves the ends of lines.
LEMMA AppendEnds ==
    ASSUME NEW f \in Seq(Line), NEW line \in Line, \A k \in 1..Len(f) - 1 : f[k].ended
    PROVE  LET g == AppendLine(f, line)
           IN  /\ \A k \in 1..Len(g) - 1 : g[k].ended
               /\ g # <<>> /\ g[Len(g)].ended = line.ended
               /\ g[Len(g)].kind = "record" => g[Len(g)] = line
<1> DEFINE g == AppendLine(f, line)
<1>1. Len(f) \in Nat
  OBVIOUS
<1>2. CASE ~Unterminated(f)
  <2>1. /\ g = Append(f, line) /\ Len(g) = Len(f) + 1 /\ g[Len(g)] = line
        /\ \A k \in 1..Len(f) : g[k] = f[k]
    BY <1>2 DEF AppendLine
  <2>2. \A k \in 1..Len(f) : f[k].ended
    BY <1>1, <1>2 DEF Unterminated
  <2> QED
    BY <1>1, <2>1, <2>2
<1>3. CASE Unterminated(f)
  <2> DEFINE last == f[Len(f)]
  <2>1. f # <<>> /\ Len(f) \in 1..Len(f) /\ last \in Line
    BY <1>3 DEF Unterminated
  <2>2. /\ Fused(last, line) \in Line /\ Fused(last, line).ended = line.ended
        /\ Fused(last, line).kind # "record"
    BY <2>1, JunkIsLine DEF Fused, Line, Junk
  <2>3. g = [f EXCEPT ![Len(f)] = Fused(last, line)]
    BY <1>3 DEF AppendLine
  <2>4. /\ Len(g) = Len(f) /\ g[Len(f)] = Fused(last, line)
        /\ \A k \in 1..Len(f) : k # Len(f) => g[k] = f[k]
    BY <2>1, <2>2, <2>3, ReplaceFacts
  <2>5. \A k \in 1..Len(g) - 1 : g[k].ended
    BY <1>1, <2>4
  <2>6. g # <<>>
    BY <2>1, <2>4
  <2> QED
    BY <2>2, <2>4, <2>5, <2>6
<1> QED
  BY <1>2, <1>3

\* While no process is past the lock of the file, only the ends of its lines count.
LEMMA NobodyTrail ==
    ASSUME MutexInv', LinesEnd', \A i \in Instances : status'[i] \notin {"repairing", "up"}
    PROVE  TrailInv'
<1>1. ASSUME NEW c \in Callers
      PROVE  op'[c].stage # "syncing"
  <2>1. op'[c] \in Op
    BY DEF MutexInv, StoreTypeOK
  <2>2. op'[c].stage # "none" => op'[c].inst \in Instances
    BY <2>1 DEF Op, IdleOp, UndecidedOp, ApprovedOp
  <2> QED
    BY <2>2 DEF MutexInv, HoldersOnly
<1> QED
  BY <1>1 DEF TrailInv, WrittenOrFused, MendBacked, Trail

\* Opening the file: what replay shows is the last record of each origin.
LEMMA OpenTrail ==
    ASSUME TrailInv, MutexInv', NEW i \in Instances, Open(i)
    PROVE  TrailInv'
<1> USE DEF disk, history
<1>1. StoreTypeOK /\ OwnersOnly /\ LinesEnd /\ WrittenOrFused
  BY DEF TrailInv, MutexInv
<1>2. /\ UNCHANGED <<file, op, unsettled>> /\ Readable(file)
      /\ \A j \in Instances : j # i => status'[j] = status[j]
      /\ status'[i] = "up" => Repaired(file) = file
  BY <1>1 DEF Open, StoreTypeOK
<1>3. \A j \in Instances : j # i => status'[j] \notin {"repairing", "up"}
  BY <1>1, <1>2, StoreAssumption DEF OwnersOnly, Open
<1>4. LinesEnd' /\ WrittenOrFused'
  BY <1>1, <1>2 DEF LinesEnd, WrittenOrFused
<1>5. file \in Seq(Line) /\ Len(file) \in Nat
  BY <1>1 DEF StoreTypeOK
<1>6. PICK m \in [Origins -> HeadOrNone] : Replays(file, m) /\ mem' = [mem EXCEPT ![i] = m]
  BY DEF Open
<1>7. mem'[i] = m
  BY <1>1, <1>6 DEF StoreTypeOK
<1>8. ASSUME NEW o \in Origins
      PROVE  Backed(Len(file), i, o)'
  <2>1. CASE m[o] = NoHead /\ \A k \in 1..Len(file) : ~IsRecordOf(file[k], o)
    <3>1. SettledBy(file, Len(file), o, m[o], unsettled[o])
      BY <1>5, <2>1 DEF SettledBy
    <3> QED
      BY <1>2, <1>7, <3>1 DEF Backed
  <2>2. CASE \E k \in 1..Len(file) :
                /\ IsRecordOf(file[k], o) /\ m[o] = file[k].head
                /\ \A j \in k+1..Len(file) : ~IsRecordOf(file[j], o)
    <3>1. PICK k \in 1..Len(file) :
                /\ IsRecordOf(file[k], o) /\ m[o] = file[k].head
                /\ \A j \in k+1..Len(file) : ~IsRecordOf(file[j], o)
      BY <2>2
    <3>2. k \in 0..Len(file) /\ k # 0
      BY <1>5
    <3>3. SettledBy(file, Len(file), o, m[o], unsettled[o])
      BY <3>1, <3>2 DEF SettledBy
    <3> QED
      BY <1>2, <1>7, <3>3 DEF Backed
  <2> QED
    BY <1>6, <2>1, <2>2 DEF Replays
<1>9. MendBacked'
  BY <1>2, <1>3, <1>8 DEF MendBacked
<1>10. Trail'
  <2>1. Repaired(file) = file => \A k \in 1..Len(file) : file[k].ended
    BY <1>1, <1>5, RepairedKeeps DEF LinesEnd
  <2>2. file # <<>> => Len(file) \in 1..Len(file)
    BY <1>5
  <2>3. status'[i] = "up" => Whole(file) = Len(file)
    BY <1>2, <2>1, <2>2 DEF Unterminated, Whole
  <2> QED
    BY <1>2, <1>3, <1>8, <2>3 DEF Trail, Backed
<1> QED
  BY <1>4, <1>9, <1>10 DEF TrailInv

\* The mend that went well: the torn tail is gone, what was replayed is all there.
LEMMA RepairTrail ==
    ASSUME TrailInv, MutexInv', NEW i \in Instances, Repair(i)
    PROVE  TrailInv'
<1> USE DEF disk, history
<1>1. StoreTypeOK /\ OwnersOnly /\ LinesEnd /\ MendBacked /\ MutexInv
  BY DEF TrailInv, MutexInv
<1>2. /\ status[i] = "repairing" /\ status'[i] = "up" /\ file' = Repaired(file)
      /\ UNCHANGED <<mem, op, unsettled>>
      /\ \A j \in Instances : j # i => status'[j] = status[j]
  BY <1>1 DEF Repair, StoreTypeOK
<1>3. \A j \in Instances : j # i => status'[j] \notin {"repairing", "up"}
  BY <1>1, <1>2 DEF OwnersOnly
<1>4. file \in Seq(Line) /\ Len(file) \in 0..Len(file) /\ \A k \in 1..Len(file) - 1 : file[k].ended
  BY <1>1 DEF StoreTypeOK, LinesEnd
<1>5. /\ KeptFrom(file, file')
      /\ \A o \in Origins : \A k \in 1..Len(file) : IsRecordOf(file[k], o) =>
             k <= Len(file') /\ IsRecordOf(file'[k], o) /\ file'[k].head = file[k].head
      /\ file' \in Seq(Line)
      /\ \A k \in 1..Len(file') : file'[k].ended
  BY <1>2, <1>4, RepairedKeeps
<1>6. Len(file') \in Nat /\ (file' # <<>> => Len(file') \in 1..Len(file'))
  BY <1>5
<1>7. ~Unterminated(file') /\ Whole(file') = Len(file')
  BY <1>5, <1>6 DEF Unterminated, Whole
<1>8. LinesEnd'
  BY <1>5, <1>6 DEF LinesEnd
<1>9. WrittenOrFused'
  <2>1. \A c \in Callers : op'[c].stage = "none"
    BY <1>1, <1>2, NobodyInside
  <2> QED
    BY <2>1 DEF WrittenOrFused
<1>10. MendBacked'
  BY <1>2, <1>3 DEF MendBacked
<1>11. Trail'
  <2>1. ASSUME NEW o \in Origins
        PROVE  SettledBy(file', Len(file'), o, mem[i][o], unsettled[o])
    <3>1. SettledBy(file, Len(file), o, mem[i][o], unsettled[o])
      BY <1>1, <1>2 DEF MendBacked, Backed
    <3> QED
      BY <1>4, <1>5, <1>6, <3>1, SettledShrink
  <2>2. \A o \in Origins : Backed(Whole(file), i, o)'
    BY <1>2, <1>7, <2>1 DEF Backed
  <2> QED
    BY <1>3, <2>2 DEF Trail
<1> QED
  BY <1>8, <1>9, <1>10, <1>11 DEF TrailInv

\* A process that ends, or the machine, leaves lines that end where they should.
LEMMA StoppedTrail ==
    ASSUME TrailInv, MutexInv',
           \/ PowerLoss
           \/ LoseState
           \/ \E i \in Instances : RepairFails(i) \/ Kill(i)
    PROVE  TrailInv'
<1> USE DEF disk, history
<1>1. StoreTypeOK /\ OwnersOnly /\ LinesEnd /\ MutexInv
  BY DEF TrailInv, MutexInv
<1>2. file \in Seq(Line) /\ synced \in 0..Len(file) /\ \A k \in 1..Len(file) - 1 : file[k].ended
  BY <1>1 DEF StoreTypeOK, LinesEnd
<1>3. CASE PowerLoss
  <2>1. \A i \in Instances : status'[i] = "down"
    BY <1>3 DEF PowerLoss, DropProcesses
  <2>2. file' \in CrashImages(file, synced)
    BY <1>3 DEF PowerLoss
  <2>3. LinesEnd'
    BY <1>2, <2>2, CrashImageKeeps DEF LinesEnd
  <2> QED
    BY <2>1, <2>3, NobodyTrail
<1>4. CASE LoseState
  <2>1. file' = <<>> /\ \A i \in Instances : status'[i] = "down"
    BY <1>4 DEF LoseState
  <2>2. LinesEnd'
    BY <2>1 DEF LinesEnd
  <2> QED
    BY <2>1, <2>2, NobodyTrail
<1>5. ASSUME NEW i \in Instances, RepairFails(i)
      PROVE  TrailInv'
  <2>1. /\ status[i] = "repairing" /\ status'[i] = "down" /\ file' = Repaired(file)
        /\ \A j \in Instances : j # i => status'[j] = status[j]
    BY <1>1, <1>5 DEF RepairFails, StoreTypeOK
  <2>2. \A j \in Instances : status'[j] \notin {"repairing", "up"}
    BY <1>1, <2>1 DEF OwnersOnly
  <2>3. /\ \A k \in 1..Len(file') : file'[k].ended
        /\ Len(file') \in Nat
    BY <1>2, <2>1, RepairedKeeps
  <2>4. LinesEnd'
    BY <2>3 DEF LinesEnd
  <2> QED
    BY <2>2, <2>4, NobodyTrail
<1>6. ASSUME NEW i \in Instances, Kill(i)
      PROVE  TrailInv'
  <2>1. status[i] \in {"repairing", "up"} /\ status'[i] = "down"
        /\ \A j \in Instances : j # i => status'[j] = status[j]
    BY <1>6 DEF Kill, DropProcesses
  <2>2. \A j \in Instances : status'[j] \notin {"repairing", "up"}
    BY <1>1, <2>1 DEF OwnersOnly
  <2>3. CASE file' = file
    BY <1>1, <2>2, <2>3, NobodyTrail DEF LinesEnd
  <2>4. CASE file' # file
    <3>1. PICK c \in Callers : At(c, "writing") /\ file' \in Started(c)
      BY <1>6, <2>4 DEF Kill
    <3>2. PICK p \in Pieces : file' = AppendLine(file, Torn(op[c].origin, op[c].head, p))
      BY <2>4, <3>1 DEF Started
    <3>3. Torn(op[c].origin, op[c].head, p) \in Line
      BY <1>1, <3>1, OpFields, TornIsLine DEF At
    <3>4. LinesEnd'
      BY <1>2, <3>2, <3>3, AppendEnds DEF LinesEnd
    <3> QED
      BY <2>2, <3>4, NobodyTrail
  <2> QED
    BY <2>3, <2>4
<1> QED
  BY <1>3, <1>4, <1>5, <1>6

\* What a caller does outside the append at most adds an unsettled head.
LEMMA QuietCallerTrail ==
    ASSUME TrailInv, MutexInv', NEW c \in Callers,
           \/ \E i \in Instances, o \in Origins : Call(c, i, o)
           \/ Refuse(c)
           \/ \E h \in Heads : Approve(c, h)
           \/ Return(c)
    PROVE  TrailInv'
<1> USE DEF disk, process, history
<1>1. StoreTypeOK /\ LinesEnd /\ WrittenOrFused /\ MendBacked /\ Trail
  BY DEF TrailInv, MutexInv
<1>2. UNCHANGED <<file, status, mem>>
  BY DEF Call, Refuse, Approve, Return
<1>3. op'[c].stage # "syncing" /\ \A d \in Callers : d # c => op'[d] = op[d]
  <2>1. CASE \E h \in Heads : Approve(c, h)
    BY <1>1, <2>1, ApproveFields
  <2>2. CASE Refuse(c)
    <3>1. ~At(c, "none") /\ GoTo(c, "refused")
      BY <2>2 DEF Refuse, CanCheck, At
    <3> QED
      BY <1>1, <3>1, GoToFields
  <2>3. CASE \E i \in Instances, o \in Origins : Call(c, i, o)
    BY <1>1, <2>3 DEF Call, StoreTypeOK
  <2>4. CASE Return(c)
    BY <1>1, <2>4 DEF Return, IdleOp, StoreTypeOK
  <2> QED
    BY <2>1, <2>2, <2>3, <2>4
<1>4. \A o \in Origins : unsettled[o] \subseteq unsettled'[o]
  BY <1>1 DEF Call, Refuse, Approve, Return, StoreTypeOK
<1>5. file \in Seq(Line) /\ Len(file) \in Nat /\ Whole(file) \in Nat
  <2>1. file # <<>> => Len(file) \in 1..Len(file)
    BY <1>1 DEF StoreTypeOK
  <2> QED
    BY <1>1, <2>1 DEF StoreTypeOK, Whole, Unterminated
<1>6. ASSUME NEW n \in Nat, NEW i \in Instances, NEW o \in Origins, Backed(n, i, o)
      PROVE  SettledBy(file', n, o, mem'[i][o], unsettled'[o])
  <2>1. SettledBy(file, n, o, mem[i][o], unsettled[o])
    BY <1>6 DEF Backed
  <2>2. unsettled[o] \subseteq unsettled'[o] /\ n <= n
    BY <1>4, <1>6
  <2>3. SettledBy(file, n, o, mem[i][o], unsettled'[o])
    BY <1>5, <2>1, <2>2, SettledWeaker
  <2> QED
    BY <1>2, <2>3
<1>7. LinesEnd' /\ WrittenOrFused'
  BY <1>1, <1>2, <1>3 DEF LinesEnd, WrittenOrFused
<1>8. MendBacked'
  <2> SUFFICES ASSUME NEW i \in Instances, status[i] = "repairing", NEW o \in Origins
               PROVE  SettledBy(file', Len(file), o, mem'[i][o], unsettled'[o])
    BY <1>2 DEF MendBacked, Backed
  <2>1. Backed(Len(file), i, o)
    BY <1>1 DEF MendBacked
  <2> QED
    BY <1>5, <1>6, <2>1
<1>9. Trail'
  <2> SUFFICES ASSUME NEW i \in Instances, status[i] = "up", Readable(file)
               PROVE  \/ \A o \in Origins :
                            SettledBy(file', Whole(file), o, mem'[i][o], unsettled'[o])
                      \/ /\ TornTail(file) /\ ~Unterminated(file)
                         /\ \A d \in Callers : op'[d].stage # "syncing"
                         /\ \E lost \in Origins : \A o \in Origins \ {lost} :
                               SettledBy(file', Whole(file), o, mem'[i][o], unsettled'[o])
    BY <1>2 DEF Trail, Backed
  <2>1. CASE \A o \in Origins : Backed(Whole(file), i, o)
    BY <1>5, <1>6, <2>1
  <2>2. CASE /\ TornTail(file) /\ ~Unterminated(file)
             /\ \A d \in Callers : op[d].stage # "syncing"
             /\ \E lost \in Origins : \A o \in Origins \ {lost} : Backed(Whole(file), i, o)
    <3>1. PICK lost \in Origins : \A o \in Origins \ {lost} : Backed(Whole(file), i, o)
      BY <2>2
    <3>2. \A o \in Origins \ {lost} :
              SettledBy(file', Whole(file), o, mem'[i][o], unsettled'[o])
      BY <1>5, <1>6, <3>1
    <3>3. \A d \in Callers : op'[d].stage # "syncing"
      BY <1>3, <2>2
    <3> QED
      BY <2>2, <3>2, <3>3
  <2> QED
    BY <1>1, <2>1, <2>2 DEF Trail
<1> QED
  BY <1>7, <1>8, <1>9 DEF TrailInv

\* A line that goes into the file, whole or in part, before sync_all: every map stays
\* backed, or the file is no longer one that replay accepts.
LEMMA GrownTrail ==
    ASSUME TrailInv, MutexInv', NEW c \in Callers, AppendNext(c), UNCHANGED <<mem, unsettled>>,
           At(c, "writing"), NEW line \in Line, file' = AppendLine(file, line),
           line.kind = "record" => line.origin = op[c].origin /\ line.head = op[c].head,
           op'[c].stage = "syncing" => line = Record(op[c].origin, op[c].head, TRUE)
    PROVE  TrailInv'
<1>1. StoreTypeOK /\ HoldersOnly /\ OwnersOnly /\ LinesEnd /\ WrittenOrFused /\ Trail /\ MutexInv
  BY DEF TrailInv, MutexInv
<1>2. /\ op[c] \in ApprovedOp /\ UNCHANGED status
      /\ op'[c].origin = op[c].origin /\ op'[c].head = op[c].head
      /\ \A d \in Callers : d # c => op'[d] = op[d] /\ op[d].stage \notin {"writing", "syncing"}
  BY <1>1, AppendMoves
<1>3. /\ op[c].inst \in Instances /\ status[op[c].inst] = "up"
      /\ op[c].head \in unsettled[op[c].origin]
  BY <1>1, <1>2 DEF HoldersOnly, At, ApprovedOp
<1>4. file \in Seq(Line) /\ \A k \in 1..Len(file) - 1 : file[k].ended
  BY <1>1 DEF StoreTypeOK, LinesEnd
<1>5. /\ \A k \in 1..Len(file') - 1 : file'[k].ended
      /\ file' # <<>> /\ file'[Len(file')].ended = line.ended
      /\ file'[Len(file')].kind = "record" => file'[Len(file')] = line
  BY <1>4, AppendEnds
<1>6. LinesEnd'
  BY <1>5 DEF LinesEnd
<1>7. WrittenOrFused'
  <2>1. op'[c].stage = "syncing" => line.ended
    BY DEF Record
  <2> QED
    BY <1>2, <1>5, <2>1 DEF WrittenOrFused
<1>8. MendBacked'
  BY <1>1, <1>2, <1>3 DEF MendBacked, OwnersOnly
<1>9. Trail'
  <2> SUFFICES ASSUME NEW i \in Instances, status[i] = "up", Readable(file')
               PROVE  \A o \in Origins :
                          SettledBy(file', Whole(file'), o, mem[i][o], unsettled[o])
    BY <1>2 DEF Trail, Backed
  <2>1. Readable(file) /\ (TornTail(file) => Unterminated(file))
    BY <1>4, AppendReadable
  <2>2. \A o \in Origins : SettledBy(file, Whole(file), o, mem[i][o], unsettled[o])
    BY <1>1, <2>1 DEF Trail, Backed
  <2>3. \A o \in Origins : IsRecordOf(line, o) => line.head \in unsettled[o] \union {mem[i][o]}
    BY <1>3 DEF IsRecordOf
  <2> QED
    BY <1>4, <2>2, <2>3, AppendSettles
<1> QED
  BY <1>6, <1>7, <1>8, <1>9 DEF TrailInv

\* An append.  When sync_all has gone well over a record that fused, that one is lost.
LEMMA AppendTrail ==
    ASSUME TrailInv, MutexInv', NEW c \in Callers, AppendNext(c)
    PROVE  TrailInv'
<1> USE DEF disk, process, history
<1>1. StoreTypeOK /\ HoldersOnly /\ OwnersOnly /\ LinesEnd /\ WrittenOrFused /\ MendBacked
      /\ Trail /\ MutexInv
  BY DEF TrailInv, MutexInv
<1> DEFINE i == op[c].inst
           o == op[c].origin
           h == op[c].head
<1>2. /\ op[c].stage \in {"writing", "syncing"} /\ op[c] \in ApprovedOp
      /\ UNCHANGED status
      /\ \A d \in Callers : d # c => op'[d] = op[d] /\ op[d].stage \notin {"writing", "syncing"}
      /\ op'[c].stage \in {"syncing", "stored", "failed"}
      /\ op'[c].stage = "syncing" => Write(c)
  BY <1>1, AppendMoves
<1>3. i \in Instances /\ o \in Origins /\ h \in Heads /\ status[i] = "up"
  BY <1>1, <1>2 DEF HoldersOnly, ApprovedOp
<1>4. file \in Seq(Line) /\ Len(file) \in Nat
  BY <1>1 DEF StoreTypeOK
<1>5. CASE Write(c)
  <2>1. Record(o, h, TRUE) \in Line
    BY <1>3, RecordIsLine
  <2>2. /\ Record(o, h, TRUE).origin = o /\ Record(o, h, TRUE).head = h
        /\ UNCHANGED <<mem, unsettled>> /\ At(c, "writing")
        /\ file' = AppendLine(file, Record(o, h, TRUE))
    BY <1>5 DEF Write, Record
  <2> QED
    BY <2>1, <2>2, GrownTrail
<1>6. ASSUME UNCHANGED <<file, mem, unsettled>>, op'[c].stage # "syncing"
      PROVE  TrailInv'
  <2>1. LinesEnd' /\ WrittenOrFused' /\ MendBacked'
    BY <1>1, <1>2, <1>6 DEF LinesEnd, WrittenOrFused, MendBacked, Backed
  <2>2. \A d \in Callers : op'[d].stage # "syncing"
    BY <1>2, <1>6
  <2>3. Trail'
    BY <1>1, <1>2, <1>6, <2>2 DEF Trail, Backed
  <2> QED
    BY <2>1, <2>3 DEF TrailInv
<1>7. CASE WriteFails(c)
  <2>1. op'[c].stage = "failed" /\ UNCHANGED <<mem, unsettled>> /\ At(c, "writing")
    BY <1>1, <1>7, GoToFields DEF WriteFails, At
  <2>2. CASE file' = file
    BY <1>6, <2>1, <2>2
  <2>3. CASE file' # file
    <3>1. PICK p \in Pieces : file' = AppendLine(file, Torn(o, h, p))
      BY <1>7, <2>3 DEF WriteFails, Started
    <3>2. Torn(o, h, p) \in Line
      BY <1>3, TornIsLine
    <3>3. Torn(o, h, p).kind = "record" => Torn(o, h, p).origin = o /\ Torn(o, h, p).head = h
      BY DEF Torn, Pieces, Junk, Record
    <3> QED
      BY <2>1, <3>1, <3>2, <3>3, GrownTrail
  <2> QED
    BY <2>2, <2>3
<1>8. CASE SyncFails(c)
  <2>1. op'[c].stage = "failed" /\ UNCHANGED <<file, mem, unsettled>>
    BY <1>1, <1>8, GoToFields DEF SyncFails, At
  <2> QED
    BY <1>6, <2>1
<1>9. CASE Sync(c)
  <2>1. op'[c].stage = "stored" /\ file' = file /\ op[c].stage = "syncing"
    BY <1>1, <1>9, GoToFields DEF Sync, At
  <2>2. \A d \in Callers : op'[d].stage # "syncing"
    BY <1>2, <2>1
  <2>3. /\ \A p \in Origins : p # o => mem'[i][p] = mem[i][p] /\ unsettled'[p] = unsettled[p]
        /\ mem'[i][o] = h /\ unsettled'[o] = {}
    BY <1>1, <1>3, <1>9 DEF Sync, StoreTypeOK
  <2>4. /\ file # <<>> /\ file[Len(file)].ended
        /\ file[Len(file)].kind = "record" => file[Len(file)] = Record(o, h, TRUE)
    BY <1>1, <2>1 DEF WrittenOrFused
  <2>5. ~Unterminated(file) /\ Whole(file) = Len(file)
    BY <2>4 DEF Unterminated, Whole
  <2>6. \A j \in Instances : status[j] \in {"repairing", "up"} => j = i
    BY <1>1, <1>3 DEF OwnersOnly
  <2>7. LinesEnd' /\ WrittenOrFused' /\ MendBacked'
    BY <1>1, <1>2, <1>3, <2>1, <2>2, <2>6 DEF LinesEnd, WrittenOrFused, MendBacked
  <2>8. ASSUME Readable(file), NEW p \in Origins \ {o}
        PROVE  SettledBy(file, Len(file), p, mem'[i][p], unsettled'[p])
    BY <1>1, <1>3, <2>1, <2>3, <2>5, <2>8 DEF Trail, Backed
  <2>9. CASE file[Len(file)].kind = "record"
    <3>1. IsRecordOf(file[Len(file)], o) /\ file[Len(file)].head = h
      BY <2>4, <2>9 DEF IsRecordOf, Record
    <3>2. SettledBy(file, Len(file), o, mem'[i][o], unsettled'[o])
      BY <1>4, <2>3, <2>4, <3>1, SettledLast
    <3>3. Readable(file) => \A p \in Origins : SettledBy(file, Len(file), p, mem'[i][p], unsettled'[p])
      BY <2>8, <3>2
    <3>4. Trail'
      BY <1>2, <2>1, <2>5, <2>6, <3>3 DEF Trail, Backed
    <3> QED
      BY <2>7, <3>4 DEF TrailInv
  <2>10. CASE file[Len(file)].kind # "record"
    <3>1. Readable(file) => TornTail(file)
      <4>1. Len(file) \in 1..Len(file)
        BY <1>4, <2>4
      <4> QED
        BY <2>10, <4>1 DEF Readable
    <3>2. Trail'
      BY <1>2, <1>3, <2>1, <2>2, <2>5, <2>6, <2>8, <3>1 DEF Trail, Backed
    <3> QED
      BY <2>7, <3>2 DEF TrailInv
  <2> QED
    BY <2>9, <2>10
<1> QED
  BY <1>5, <1>7, <1>8, <1>9 DEF AppendNext

\* Whatever fails, every step keeps the trail.
LEMMA TrailStep ==
    ASSUME TrailInv, [StoreNext]_storeVars
    PROVE  TrailInv'
<1> USE DEF disk, process, history
<1>1. MutexInv'
  BY MutexInvStep DEF TrailInv
<1>2. CASE UNCHANGED storeVars
  BY <1>1, <1>2 DEF storeVars, TrailInv, LinesEnd, WrittenOrFused, MendBacked, Trail, Backed
<1>3. ASSUME NEW i \in Instances, InstanceNext(i)
      PROVE  TrailInv'
  <2>1. CASE OpenRefused(i)
    <3>1. UNCHANGED <<file, mem, op, unsettled>> /\ status' = [status EXCEPT ![i] = "refused"]
      BY <2>1 DEF OpenRefused
    <3>2. \A j \in Instances : status'[j] \in {"repairing", "up"} => status'[j] = status[j]
      BY <3>1 DEF TrailInv, MutexInv, StoreTypeOK
    <3> QED
      BY <1>1, <3>1, <3>2 DEF TrailInv, LinesEnd, WrittenOrFused, MendBacked, Trail, Backed
  <2> QED
    BY <1>1, <1>3, <2>1, OpenTrail, RepairTrail, StoppedTrail DEF InstanceNext
<1>4. ASSUME NEW c \in Callers, CallerNext(c)
      PROVE  TrailInv'
  BY <1>1, <1>4, QuietCallerTrail, AppendTrail DEF CallerNext
<1>5. CASE PowerLoss \/ LoseState
  BY <1>1, <1>5, StoppedTrail
<1> QED
  BY <1>2, <1>3, <1>4, <1>5 DEF StoreNext

\* In every reachable state, under any of the faults, what a running witness holds is in
\* its file, save the one record that has fused into the last line.
THEOREM TrailInvariant == StoreSpec => []TrailInv
<1>1. StoreInit => TrailInv
  <2> SUFFICES ASSUME StoreInit
               PROVE  TrailInv
    OBVIOUS
  <2>1. MutexInv
    BY StoreTypeInit DEF StoreInit, MutexInv, OwnersOnly, HoldersOnly, IdleOp
  <2> QED
    BY <2>1 DEF StoreInit, TrailInv, LinesEnd, WrittenOrFused, MendBacked, Trail, IdleOp
<1>2. TrailInv /\ [StoreNext]_storeVars => TrailInv'
  BY TrailStep
<1> QED
  BY <1>1, <1>2, PTL DEF StoreSpec

\* A write_all that fails part-way costs a readable file the record of one origin, not of two.
THEOREM LosesOneAtMostHolds == StoreSpec => []LosesOneAtMost
<1>1. ASSUME TrailInv
      PROVE  LosesOneAtMost
  <2> SUFFICES ASSUME NEW i \in Instances, status[i] = "up", Readable(file),
                      NEW m \in [Origins -> HeadOrNone], Replays(file, m),
                      NEW o \in Origins, NEW p \in Origins, o # p
               PROVE  \E q \in {o, p} : m[q] = mem[i][q] \/ m[q] \in unsettled[q]
    BY DEF LosesOneAtMost
  <2>1. PICK lost \in Origins : \A q \in Origins \ {lost} : Backed(Whole(file), i, q)
    BY <1>1 DEF TrailInv, Trail
  <2>2. PICK q \in {o, p} : q # lost
    OBVIOUS
  <2>3. q \in Origins /\ SettledBy(file, Whole(file), q, mem[i][q], unsettled[q])
    BY <2>1, <2>2 DEF Backed
  <2>4. file \in Seq(Line) /\ Len(file) \in Nat
    BY <1>1 DEF TrailInv, MutexInv, StoreTypeOK
  <2>5. Whole(file) \in 0..Len(file)
    BY <2>4 DEF Whole, Unterminated
  <2>6. m[q] \in unsettled[q] \union {mem[i][q]}
    BY <2>3, <2>4, <2>5, SettledReplay
  <2> QED
    BY <2>6
<1> QED
  BY <1>1, TrailInvariant, PTL
=============================================================================
