---------------------------- MODULE WitnessSafety ----------------------------
(***************************************************************************)
(* What the witness promises (docs/threat-model.md section 4, conformance  *)
(* rows SM-01 to SM-05, MP-05 and ST-01 to ST-10).                         *)
(***************************************************************************)
EXTENDS Witness, StoreSafety

\* I1, in its strong form: any two heads whose cosignatures a 200 released for
\* one origin lie on one append-only history; two of one size are the same.
NoConflict ==
    \A o \in Origins : \A g, h \in Heads :
        {<<o, g>>, <<o, h>>} \subseteq cosigned =>
            Comparable(g, h) /\ (Size[g] = Size[h] => g = h)

\* I2: every cosigned head has its record among the lines that no crash can
\* take, through every later replay, repair and failed append.
CosignedIsDurable ==
    \A o \in Origins : \A h \in Heads :
        <<o, h>> \in cosigned =>
            \E k \in 1..synced : IsRecordOf(file[k], o) /\ file[k].head = h

\* SM-04 across every crash: whatever is left of the file now, a witness that
\* can open it goes on from a head that extends all it has cosigned.
NeverResumesBehind ==
    \A image \in CrashImages(file, synced) : Readable(image) =>
        \A m \in [Origins -> HeadOrNone] : Replays(image, m) =>
            \A o \in Origins : \A g \in Heads :
                <<o, g>> \in cosigned => m[o] # NoHead /\ Extends(g, m[o])

\* The responses alone refine one append-only history per log: each new
\* cosignature extends all earlier ones, whatever was swapped, lost or retried
\* in between.
Responses == INSTANCE AppendOnly WITH published <- cosigned
ResponsesAppendOnly == Responses!Spec

\* So do the responses and the notes of the monitoring endpoint taken together: a
\* head that anybody is given for the first time extends all that anybody was given
\* before.  (A head that is given again is a stutter here: see NeverServesOlder.)
Everything == INSTANCE AppendOnly WITH published <- cosigned \union served
EverythingAppendOnly == Everything!Spec

\* MP-04 and MP-05: the answer of the monitoring endpoint is never behind.  Nobody
\* was given a head of a log that it does not know, or one that the head it shows
\* does not extend, through restarts, swaps of the allowlist and failed appends.
NeverServesOlder ==
    \A i \in Instances : status[i] = "up" =>
        \A o \in Origins : \A g \in Heads : <<o, g>> \in cosigned \union served =>
            Shown(i, o) # NoHead /\ Extends(g, Shown(i, o))

\* I1 as written, for every cosignature that leaves the witness: those of the
\* responses and those of the notes that the monitoring endpoint serves.
NoConflictPublished ==
    \A o \in Origins : \A g, h \in Heads :
        {<<o, g>>, <<o, h>>} \subseteq cosigned \union served /\ Size[g] = Size[h] => g = h

\* I5 and SM-05: the size in a 409 is the one the witness holds at that moment:
\* the same request with that old size would not conflict.
ConflictNamesCurrentSize ==
    [][\A c \in Callers : answer'[c].code = 409 /\ answer[c].code = 0 =>
          Verdict([req[c] EXCEPT !.old = answer'[c].size], Current(c)).code # 409]_witnessVars

\* SM-02: the answer 200 is prepared only by the caller inside the mutex, and
\* the head it releases extends what the map held for the origin until then.
ReleasesExtendCurrent ==
    [][\A o \in Origins : \A h \in Heads :
          <<o, h>> \in cosigned' \ cosigned =>
              \E c \in Callers :
                  /\ op[c].origin = o /\ op[c].head = h
                  /\ lock[op[c].inst] = c
                  /\ Current(c) = NoHead \/ Extends(Current(c), h)]_witnessVars

-----------------------------------------------------------------------------
(***************************************************************************)
(* The inductive invariants: GuardInv holds under every fault, WitnessInv  *)
(* on top of StoreInv where a write is whole and no file is lost.          *)
(***************************************************************************)

\* The store works on the origin, and once approved on the head, of the request.
RequestsMatch ==
    \A c \in Callers : op[c].stage # "none" =>
        /\ req[c] \in Submissions /\ req[c].origin = op[c].origin
        /\ op[c].stage \in {"writing", "syncing", "stored", "failed"} =>
              op[c].head = req[c].head

\* A head of size 0 that is anywhere in the store has the root of the empty tree.
RootedHeads == {p \in Origins \X Heads : Size[p[2]] = 0 => p[2] = EmptyHead}

\* An approved head extends the state that its caller was approved on.
ApprovedExtends ==
    \A c \in Callers : op[c].stage \in {"writing", "syncing"} =>
        Current(c) = NoHead \/ Extends(Current(c), op[c].head)

GuardInv ==
    /\ MutexInv
    /\ WitnessTypeOK
    /\ RequestsMatch
    /\ HeadsFrom(RootedHeads)
    /\ ApprovedExtends

\* Every head that may ever be replayed extends all that is cosigned.
CosignedBehind ==
    \A o \in Origins : \A g \in Heads : <<o, g>> \in cosigned =>
        /\ stored[o] # NoHead /\ Extends(g, stored[o])
        /\ \A h \in unsettled[o] : Extends(g, h)

\* The cosigned heads of an origin are pairwise comparable.
CosignedChain ==
    \A o \in Origins : \A g, h \in Heads :
        {<<o, g>>, <<o, h>>} \subseteq cosigned => Comparable(g, h)

WitnessInv ==
    /\ GuardInv
    /\ CosignedBehind
    /\ CosignedChain
=============================================================================
