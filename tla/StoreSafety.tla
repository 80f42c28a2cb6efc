----------------------------- MODULE StoreSafety -----------------------------
(***************************************************************************)
(* What the store promises to the rest of the witness (module docs of      *)
(* src/src/store.rs, rows SM-01 and SM-02 of the conformance table).       *)
(***************************************************************************)
EXTENDS Store

\* A head that the replay of a file may show for an origin: the last one whose
\* update returned Ok, or one approved after it whose fate nobody was told.
MayShow(o, h) == h = stored[o] \/ h \in unsettled[o]

\* SM-01: whatever is lost when the machine goes down now, a witness that can
\* open what is left of the file resumes, for every origin, from the last
\* update that was acknowledged or from a later attempt: never from before it.
StoredSurvives ==
    \A image \in CrashImages(file, synced) : Readable(image) =>
        \A m \in [Origins -> HeadOrNone] :
            Replays(image, m) => \A o \in Origins : MayShow(o, m[o])

\* The map a running witness decides on is no older than that either: replay,
\* retries after an error and updates of other origins never set it back.
RunningIsCurrent ==
    \A i \in Instances : status[i] = "up" => \A o \in Origins : MayShow(o, mem[i][o])

\* T8: at most one process at a time is past the lock of the state file.
SingleWriter ==
    \A i, j \in Instances :
        {status[i], status[j]} \subseteq {"repairing", "up"} => i = j

\* The file of a running witness can always be opened again: no record is ever
\* glued to the remains of another, so that a restart is never refused.
AlwaysReopens ==
    \A i \in Instances : status[i] = "up" => Readable(file) /\ ~Unterminated(file)

\* The module docs of store.rs: a bad trailing record is cut off and replay goes
\* on; only corruption anywhere else keeps the witness from starting.
RefusedOnlyForCorruption ==
    \A i \in Instances : status[i] = "refused" =>
        \E k \in 1..Len(file) - 1 : file[k].kind # "record"

\* What a write_all that fails part-way can cost: a file that can be opened after a
\* running witness shows, but for one origin, what that witness holds or a later
\* attempt.  The record that fused with the piece is lost; behind a second record, the
\* open is refused rather than take two.
LosesOneAtMost ==
    \A i \in Instances : status[i] = "up" /\ Readable(file) =>
        \A m \in [Origins -> HeadOrNone] : Replays(file, m) =>
            \A o, p \in Origins :
                \/ o = p
                \/ \E q \in {o, p} : m[q] = mem[i][q] \/ m[q] \in unsettled[q]

\* SM-02: from the moment the closure has approved to the moment the map takes
\* the record, nobody changes the state that the closure looked at.
CheckedStateHolds ==
    [][\A c \in Callers :
          (op[c].stage \in {"writing", "syncing"} /\ op'[c].stage \in {"writing", "syncing"})
              => mem'[op[c].inst][op[c].origin] = mem[op[c].inst][op[c].origin]]_storeVars

-----------------------------------------------------------------------------
(***************************************************************************)
(* The inductive invariant behind the first three.                         *)
(***************************************************************************)

\* Only the last line of the file can lack its newline, and it does not while a
\* witness runs.
Framed ==
    /\ \A k \in 1..Len(file) - 1 : file[k].ended
    /\ \A i \in Instances : status[i] = "up" => ~Unterminated(file)

\* Who is past the file lock is its holder.
OwnersOnly ==
    \A i \in Instances : status[i] \in {"repairing", "up"} => owner = i

\* An update runs in a running process; from its approval until its append is
\* over, it holds the mutex and its head is among the unsettled ones.
HoldersOnly ==
    \A c \in Callers :
        /\ op[c].stage # "none" => status[op[c].inst] = "up"
        /\ op[c].stage \in {"writing", "syncing"} =>
              lock[op[c].inst] = c /\ op[c].head \in unsettled[op[c].origin]

\* What the two locks guarantee, whatever happens to the file.
MutexInv == StoreTypeOK /\ OwnersOnly /\ HoldersOnly

\* Between write_all and sync_all the record is the last line of the file.
WrittenLast ==
    \A c \in Callers : op[c].stage = "syncing" =>
        file # <<>> /\ file[Len(file)] = Record(op[c].origin, op[c].head, TRUE)

\* Among the first n lines of f is the record of s (none need be for NoHead),
\* and behind it come, for that origin, only records of s or of heads in U.
SettledBy(f, n, o, s, U) ==
    \E k \in 0..n :
        /\ IF k = 0 THEN s = NoHead ELSE IsRecordOf(f[k], o) /\ f[k].head = s
        /\ \A j \in k+1..Len(f) : IsRecordOf(f[j], o) => f[j].head \in U \union {s}

Settled == \A o \in Origins : SettledBy(file, synced, o, stored[o], unsettled[o])

OpenedCurrent ==
    \A i \in Instances : status[i] \in {"repairing", "up"} =>
        \A o \in Origins : MayShow(o, mem[i][o])

\* Every line of the file but the last has its newline.
LinesEnd == \A k \in 1..Len(file) - 1 : file[k].ended

\* How many lines of f are there with their newline, when at most the last lacks it.
Whole(f) == IF Unterminated(f) THEN Len(f) - 1 ELSE Len(f)

\* What i holds for o is among the first n lines, behind it only later attempts.
Backed(n, i, o) == SettledBy(file, n, o, mem[i][o], unsettled[o])

\* Between write_all and sync_all the last line is the record or what it fused into.
WrittenOrFused ==
    \A c \in Callers : op[c].stage = "syncing" =>
        /\ file # <<>> /\ file[Len(file)].ended
        /\ file[Len(file)].kind = "record" =>
              file[Len(file)] = Record(op[c].origin, op[c].head, TRUE)

\* While a process mends the file, all that it has replayed is backed.
MendBacked ==
    \A i \in Instances : status[i] = "repairing" => \A o \in Origins : Backed(Len(file), i, o)

\* As long as the file of a running witness is readable, all that it holds is backed.
\* The one exception is the record that fused into the last line; nobody has written
\* behind it.
Trail ==
    \A i \in Instances : status[i] = "up" /\ Readable(file) =>
        \/ \A o \in Origins : Backed(Whole(file), i, o)
        \/ /\ TornTail(file) /\ ~Unterminated(file)
           /\ \A c \in Callers : op[c].stage # "syncing"
           /\ \E lost \in Origins : \A o \in Origins \ {lost} : Backed(Whole(file), i, o)

TrailInv == MutexInv /\ LinesEnd /\ WrittenOrFused /\ MendBacked /\ Trail

\* The two faults under which it does not hold: a write_all that fails part-way
\* (the record after it fuses with the piece), and a lost file.
DiskHolds == "short_write" \notin Faults /\ "lose_state" \notin Faults

\* Every head in the store, by origin, is among the pairs of R: on disk, in a map
\* or on its way there.
RecordsFrom(f, R) ==
    \A k \in 1..Len(f) : f[k].kind = "record" => <<f[k].origin, f[k].head>> \in R

HeadsFrom(R) ==
    /\ RecordsFrom(file, R)
    /\ \A i \in Instances, o \in Origins : mem[i][o] # NoHead => <<o, mem[i][o]>> \in R
    /\ \A c \in Callers :
          op[c].stage \in {"writing", "syncing"} => <<op[c].origin, op[c].head>> \in R

\* What a replay has accepted is all there is in the file, once it is mended.
Replayed ==
    \A i \in Instances :
        /\ status[i] = "repairing" => Readable(file)
        /\ status[i] = "up" => \A k \in 1..Len(file) : file[k].kind = "record"

StoreInv ==
    /\ StoreTypeOK
    /\ Framed
    /\ OwnersOnly
    /\ HoldersOnly
    /\ WrittenLast
    /\ Settled
    /\ OpenedCurrent
=============================================================================
