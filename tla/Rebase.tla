-------------------------------- MODULE Rebase --------------------------------
(***************************************************************************)
(* Honest logs over the witness: each client wants one head of a growing   *)
(* log cosigned, submits it from the size that it believes the witness to  *)
(* be at, and rebases on the size of a 409 (conformance row SM-05,         *)
(* src/src/server.rs:132).  The clients are external to src/; what they    *)
(* send and how they take an answer is what tests/sm.rs does.              *)
(*                                                                         *)
(* Answers get lost, clients of one log race, the process dies and is      *)
(* started again (restart: unless-stopped), the poller drops the origin    *)
(* and takes it back.                                                      *)
(***************************************************************************)
EXTENDS WitnessSafety

CONSTANTS
    LogOrigin,      \* the origin of the log
    LogKey,         \* the key it signs with
    Goals,          \* its heads, one append-only history
    MaxLosses       \* bound: how many answers get lost

ASSUME RebaseAssumption ==
    /\ LogOrigin \in Origins /\ LogKey \in Keys
    /\ Goals \subseteq Heads
    /\ \A g, h \in Goals : Comparable(g, h)
    /\ MaxLosses \in Nat

\* What a log sends for head h to a witness that it takes to be at size `old`: a
\* proof between two sizes, none from or to the same.
HonestBody(h, old) ==
    [parses |-> TRUE, origin |-> LogOrigin, head |-> h, old |-> old,
     proof |-> IF old \in {0, Size[h]} THEN "empty" ELSE "valid",
     signers |-> {LogKey}, forged |-> {}]

\* The log computes its tree heads right, its requests are among those considered,
\* and an allowlist that has its origin has its key.
ASSUME HonestAssumption ==
    /\ \A h \in Goals : Size[h] = 0 => h = EmptyHead
    /\ \A h \in Goals : \A old \in 0..Size[h] : HonestBody(h, old) \in Submissions
    /\ \A managed \in ManagedSets :
          LET keys == Effective(Manual, managed)[LogOrigin] IN keys = {} \/ LogKey \in keys

VARIABLES
    goal,       \* per client: the head it wants cosigned
    believed,   \* per client: the size it takes the witness to be at
    outcome,    \* per client: "trying", "cosigned", "superseded", "refused"
    lossesLeft

clientVars == <<goal, believed, outcome, lossesLeft>>
rebaseVars == <<witnessVars, clientVars>>

RebaseTypeOK ==
    /\ WitnessTypeOK
    /\ goal \in [Callers -> Goals]
    /\ believed \in [Callers -> Nat]
    /\ \A c \in Callers : believed[c] <= Size[goal[c]]
    /\ outcome \in [Callers -> {"trying", "cosigned", "superseded", "refused"}]
    /\ lossesLeft \in 0..MaxLosses

\* What a client believes at first may come from an earlier life of the witness.
RebaseInit ==
    /\ WitnessInit
    /\ goal \in [Callers -> Goals]
    /\ believed \in [Callers -> {Size[h] : h \in Goals} \union {0}]
    /\ \A c \in Callers : believed[c] <= Size[goal[c]]
    /\ outcome = [c \in Callers |-> "trying"]
    /\ lossesLeft = MaxLosses

Body(c) == HonestBody(goal[c], believed[c])

Submit(c) ==
    /\ outcome[c] = "trying"
    /\ \E i \in Instances : Admit(c, i, Body(c)) \/ TurnAway(c, i, Body(c))
    /\ UNCHANGED clientVars

Handle(c) ==
    /\ Check(c) \/ AppendRecord(c) \/ AppendFails(c) \/ Release(c)
    /\ UNCHANGED clientVars

\* Mutant of Hear: a larger size is rebased on as well.
HearAlwaysRebases(c) ==
    /\ Reply(c)
    /\ LET heard == answer[c] IN
          /\ outcome' = [outcome EXCEPT ![c] =
                CASE heard.code = 200               -> "cosigned"
                  [] heard.code \in {400, 403, 422} -> "refused"
                  [] OTHER                          -> "trying"]
          /\ believed' = IF heard.code = 409 THEN [believed EXCEPT ![c] = heard.size] ELSE believed
    /\ UNCHANGED <<goal, lossesLeft>>

\* A 409 with a size that the head has outgrown: rebase.  One with a larger size:
\* the log has moved on, and so does the client.  404 and 500 are tried again.
Hear(c) ==
    /\ Reply(c)
    /\ LET heard == answer[c] IN
          /\ outcome' = [outcome EXCEPT ![c] =
                CASE heard.code = 200                                   -> "cosigned"
                  [] heard.code = 409 /\ heard.size > Size[goal[c]]     -> "superseded"
                  [] heard.code \in {400, 403, 422}                     -> "refused"
                  [] OTHER                                              -> "trying"]
          /\ believed' = IF heard.code = 409 /\ heard.size <= Size[goal[c]]
                            THEN [believed EXCEPT ![c] = heard.size] ELSE believed
    /\ UNCHANGED <<goal, lossesLeft>>

\* The connection broke before the answer was read.
Miss(c) ==
    /\ Reply(c)
    /\ lossesLeft > 0 /\ lossesLeft' = lossesLeft - 1
    /\ UNCHANGED <<goal, believed, outcome>>

\* The monitoring endpoint reads only and is left out here.
ServerStep(i) ==
    \/ Start(i) \/ StartRefused(i) \/ Mend(i) \/ MendFails(i) \/ Die(i) \/ Swap(i)

RebaseNext ==
    \/ \E c \in Callers : Submit(c) \/ Handle(c) \/ Hear(c) \/ Miss(c)
    \/ \E i \in Instances : ServerStep(i) /\ UNCHANGED clientVars
    \/ StateLost /\ UNCHANGED clientVars

\* The process is started again whenever it is down, a thread that can go on does
\* so, and a client that has not succeeded tries again.  Nobody owes the faults,
\* the losses and the swaps anything.
RebaseSpec ==
    /\ RebaseInit /\ [][RebaseNext]_rebaseVars
    /\ \A i \in Instances : WF_rebaseVars((Start(i) \/ StartRefused(i) \/ Mend(i)) /\ UNCHANGED clientVars)
    /\ \A c \in Callers :
          /\ WF_rebaseVars(Submit(c))
          /\ WF_rebaseVars((Check(c) \/ AppendRecord(c) \/ Release(c)) /\ UNCHANGED clientVars)
          /\ WF_rebaseVars(Hear(c))

-----------------------------------------------------------------------------
\* A witness that cannot read its file any more, as after a piece in the middle.
OutOfService == \E i \in Instances : status[i] = "refused"

AllowedForGood == <>[](\A i \in Instances : status[i] = "up" => LogKey \in logs[i][LogOrigin])

\* SM-05, "the client retries, gets 409 with the now-current size, and can rebase":
\* whatever was lost on the way, every head of an honest log comes to be cosigned
\* or is overtaken by a larger one of the log, unless the origin stays off the
\* allowlist or the witness is out of service.
Resyncs ==
    AllowedForGood =>
        \A c \in Callers : <>(outcome[c] \in {"cosigned", "superseded"} \/ OutOfService)

\* ST-05 to ST-10 never hit an honest log: a stale belief, a racing client, a
\* repeated request or a witness that lost its file bring it 409s, never a 4xx
\* that says its checkpoint is bad.
HonestNeverRefused == \A c \in Callers : outcome[c] # "refused"
=============================================================================
