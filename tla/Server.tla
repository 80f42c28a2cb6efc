-------------------------------- MODULE Server --------------------------------
(***************************************************************************)
(* The HTTP server (src/src/server.rs) around the protocol: requests pass  *)
(* a gate of bounded width, a timer and a body cap, are polled by a few    *)
(* worker threads, and end in handlers that block their thread on the      *)
(* store's mutex.  Clients dribble and leave, handlers panic, a signal     *)
(* stops the process.                                                      *)
(*                                                                         *)
(* A request begins when its headers are in.  Everything that runs on a    *)
(* worker needs one that no handler blocks, timeouts and disconnects too.  *)
(***************************************************************************)
EXTENDS Naturals, FiniteSets

CONSTANTS
    Requests,
    Mounts,         \* the root and, if the witness's name has a path, that path
    Workers,        \* threads of the runtime
    Width,          \* MAX_CONCURRENT_REQUESTS
    Nobody

ASSUME ServerAssumption ==
    /\ Workers \in Nat \ {0} /\ Width \in Nat \ {0}
    /\ IsFiniteSet(Requests) /\ Nobody \notin Requests

VARIABLES
    kind,           \* per request: what it is; never changes
    mount,          \* per request: where it was sent to; never changes
    stage,          \* per request: how far it is
    body,           \* per request: "partial" or "whole"
    late,           \* the requests in flight whose timer has run out
    gone,           \* the requests whose client has left
    ahead,          \* per request: those before it in line at its endpoint
    free,           \* per endpoint: permits that nobody holds
    holder,         \* of the store's mutex
    poisoned,       \* a holder has panicked
    recorded,       \* history: the requests whose update the store took
    process         \* "up", "stopping" or "stopped"

clientVars == <<kind, mount>>
vars == <<clientVars, stage, body, late, gone, ahead, free, holder, poisoned, recorded, process>>

\* Of the submissions, a bad one is answered before the store is asked, and one
\* trips over a bug while its handler holds the mutex.
Kinds == {"submission", "bad", "buggy", "monitoring"}
Routes == {"add-checkpoint", "checkpoint"}
Endpoints == Mounts \X Routes
Endpoint(r) == <<mount[r], IF kind[r] = "monitoring" THEN "checkpoint" ELSE "add-checkpoint">>

Admitted == {"reading", "waiting", "holding"}
Ended == {"answered", "timed_out", "dropped", "panicked", "cut"}
Holding(e) == {r \in Requests : Endpoint(r) = e /\ stage[r] \in Admitted}

ServerTypeOK ==
    /\ kind \in [Requests -> Kinds] /\ mount \in [Requests -> Mounts]
    /\ stage \in [Requests -> {"idle", "queued"} \union Admitted \union Ended]
    /\ body \in [Requests -> {"partial", "whole"}]
    /\ late \subseteq Requests /\ gone \subseteq Requests /\ recorded \subseteq Requests
    /\ ahead \in [Requests -> SUBSET Requests]
    /\ free \in [Endpoints -> 0..Width]
    /\ holder \in Requests \union {Nobody}
    /\ poisoned \in BOOLEAN
    /\ process \in {"up", "stopping", "stopped"}

ServerInit ==
    /\ kind \in [Requests -> Kinds] /\ mount \in [Requests -> Mounts]
    /\ stage = [r \in Requests |-> "idle"]
    /\ body \in [Requests -> {"partial", "whole"}]
    /\ \A r \in Requests : kind[r] = "monitoring" => body[r] = "whole"
    /\ late = {} /\ gone = {} /\ recorded = {}
    /\ ahead = [r \in Requests |-> {}] /\ free = [e \in Endpoints |-> Width]
    /\ holder = Nobody /\ poisoned = FALSE
    /\ process = "up"

-----------------------------------------------------------------------------
(***************************************************************************)
(* Clients, timers and the signal.                                         *)
(***************************************************************************)
Arrive(r) ==
    /\ process = "up" /\ stage[r] = "idle"
    /\ stage' = [stage EXCEPT ![r] = "queued"]
    /\ ahead' = [ahead EXCEPT ![r] =
                    {q \in Requests : stage[q] = "queued" /\ Endpoint(q) = Endpoint(r)}]
    /\ UNCHANGED <<clientVars, body, late, gone, free, holder, poisoned, recorded, process>>

SendRest(r) ==
    /\ stage[r] \in {"queued", "reading"} /\ body[r] = "partial"
    /\ body' = [body EXCEPT ![r] = "whole"]
    /\ UNCHANGED <<clientVars, stage, late, gone, ahead, free, holder, poisoned, recorded, process>>

Leave(r) ==
    /\ stage[r] \in Admitted \union {"queued"} /\ r \notin gone
    /\ gone' = gone \union {r}
    /\ UNCHANGED <<clientVars, stage, body, late, ahead, free, holder, poisoned, recorded, process>>

\* The timer of TimeoutLayer starts behind the gate.
Elapse(r) ==
    /\ stage[r] \in Admitted /\ r \notin late
    /\ late' = late \union {r}
    /\ UNCHANGED <<clientVars, stage, body, gone, ahead, free, holder, poisoned, recorded, process>>

Signal ==
    /\ process = "up" /\ process' = "stopping"
    /\ UNCHANGED <<clientVars, stage, body, late, gone, ahead, free, holder, poisoned, recorded>>

-----------------------------------------------------------------------------
(***************************************************************************)
(* A worker polls a request.  When the runtime is dropped no poll begins   *)
(* any more; until then, a stopping server still polls.                    *)
(***************************************************************************)
Blocked == {r \in Requests : stage[r] \in {"waiting", "holding"}}
CanPoll == process # "stopped" /\ Cardinality(Blocked) < Workers

\* r ends as `how`, its timer with it, and gives its permit to whoever is next.
GiveBack(r, how) ==
    /\ stage' = [stage EXCEPT ![r] = how]
    /\ late' = late \ {r}
    /\ free' = [free EXCEPT ![Endpoint(r)] = @ + 1]

LeaveLine(r) == ahead' = [q \in Requests |-> IF q = r THEN {} ELSE ahead[q] \ {r}]

Admit(r) ==
    /\ CanPoll /\ stage[r] = "queued" /\ r \notin gone
    /\ ahead[r] = {} /\ free[Endpoint(r)] > 0
    /\ free' = [free EXCEPT ![Endpoint(r)] = @ - 1]
    /\ LeaveLine(r)
    /\ stage' = [stage EXCEPT ![r] = "reading"]
    /\ UNCHANGED <<clientVars, body, late, gone, holder, poisoned, recorded, process>>

\* Mutant of DropQueued: it gives back a permit it never had.
DropQueuedGives(r) ==
    /\ CanPoll /\ stage[r] = "queued" /\ r \in gone
    /\ GiveBack(r, "dropped")
    /\ LeaveLine(r)
    /\ UNCHANGED <<clientVars, body, gone, holder, poisoned, recorded, process>>

DropQueued(r) ==
    /\ CanPoll /\ stage[r] = "queued" /\ r \in gone
    /\ stage' = [stage EXCEPT ![r] = "dropped"]
    /\ LeaveLine(r)
    /\ UNCHANGED <<clientVars, body, late, gone, free, holder, poisoned, recorded, process>>

\* Mutant of DropReading: the permit goes with the client.
DropReadingKeeps(r) ==
    /\ CanPoll /\ stage[r] = "reading" /\ r \in gone
    /\ stage' = [stage EXCEPT ![r] = "dropped"]
    /\ UNCHANGED <<clientVars, body, late, gone, ahead, free, holder, poisoned, recorded, process>>

DropReading(r) ==
    /\ CanPoll /\ stage[r] = "reading" /\ r \in gone
    /\ GiveBack(r, "dropped")
    /\ UNCHANGED <<clientVars, body, gone, ahead, holder, poisoned, recorded, process>>

\* The body is over its cap or not UTF-8, or add_checkpoint turns it away.
Refuse(r) ==
    /\ CanPoll /\ stage[r] = "reading" /\ kind[r] = "bad"
    /\ GiveBack(r, "answered")
    /\ UNCHANGED <<clientVars, body, gone, ahead, holder, poisoned, recorded, process>>

\* The handler runs up to the mutex, in the poll that has found the body whole.
Handle(r) ==
    /\ CanPoll /\ stage[r] = "reading" /\ kind[r] # "bad" /\ body[r] = "whole"
    /\ stage' = [stage EXCEPT ![r] = "waiting"]
    /\ UNCHANGED <<clientVars, body, late, gone, ahead, free, holder, poisoned, recorded, process>>

\* 408.  A poll looks at the request first and at the timer only if that is pending.
TimeOut(r) ==
    /\ CanPoll /\ stage[r] = "reading" /\ body[r] = "partial" /\ r \in late
    /\ GiveBack(r, "timed_out")
    /\ UNCHANGED <<clientVars, body, gone, ahead, holder, poisoned, recorded, process>>

Poll(r) ==
    \/ Admit(r) \/ DropQueued(r) \/ DropReading(r)
    \/ Refuse(r) \/ Handle(r) \/ TimeOut(r)

-----------------------------------------------------------------------------
(***************************************************************************)
(* The handler, on a thread that it blocks until it returns.               *)
(***************************************************************************)

\* Mutant of Lock: unwrap() of a poisoned mutex panics.
LockUnwraps(r) ==
    /\ stage[r] = "waiting" /\ holder = Nobody
    /\ IF poisoned
          THEN GiveBack(r, "panicked") /\ UNCHANGED holder
          ELSE holder' = r /\ stage' = [stage EXCEPT ![r] = "holding"] /\ UNCHANGED <<free, late>>
    /\ UNCHANGED <<clientVars, body, gone, ahead, poisoned, recorded, process>>

\* Store::lock takes a poisoned mutex too.
Lock(r) ==
    /\ stage[r] = "waiting" /\ holder = Nobody
    /\ holder' = r
    /\ stage' = [stage EXCEPT ![r] = "holding"]
    /\ UNCHANGED <<clientVars, body, late, gone, ahead, free, poisoned, recorded, process>>

\* Mutant of Finish: after the update the handler still awaits something.
FinishAwaits(r) ==
    /\ stage[r] = "holding" /\ kind[r] # "buggy"
    /\ holder' = Nobody
    /\ stage' = [stage EXCEPT ![r] = "reading"] /\ body' = [body EXCEPT ![r] = "partial"]
    /\ recorded' = IF kind[r] = "submission" THEN recorded \union {r} ELSE recorded
    /\ UNCHANGED <<clientVars, late, gone, ahead, free, poisoned, process>>

\* The store takes the update, refuses it, or is only read; the answer is there.
Finish(r) ==
    /\ stage[r] = "holding" /\ kind[r] # "buggy"
    /\ holder' = Nobody
    /\ \/ UNCHANGED recorded
       \/ kind[r] = "submission" /\ recorded' = recorded \union {r}
    /\ GiveBack(r, "answered")
    /\ UNCHANGED <<clientVars, body, gone, ahead, poisoned, process>>

\* The closure panics: guard, permit and connection are dropped as it unwinds.
Panic(r) ==
    /\ stage[r] = "holding" /\ kind[r] = "buggy"
    /\ holder' = Nobody /\ poisoned' = TRUE
    /\ GiveBack(r, "panicked")
    /\ UNCHANGED <<clientVars, body, gone, ahead, recorded, process>>

Thread(r) == Lock(r) \/ Finish(r) \/ Panic(r)

\* run has returned and the runtime joins its workers; everything else is dropped.
Exit ==
    /\ process = "stopping" /\ Blocked = {}
    /\ process' = "stopped"
    /\ stage' = [r \in Requests |->
                    IF stage[r] \in Admitted \union {"queued"} THEN "cut" ELSE stage[r]]
    /\ ahead' = [r \in Requests |-> {}] /\ free' = [e \in Endpoints |-> Width]
    /\ late' = {}
    /\ UNCHANGED <<clientVars, body, gone, holder, poisoned, recorded>>

ServerNext ==
    \/ \E r \in Requests :
          \/ Arrive(r) \/ SendRest(r) \/ Leave(r) \/ Elapse(r)
          \/ Poll(r) \/ Thread(r)
    \/ Signal \/ Exit

\* Timers fire, ready tasks are polled, threads run, a runtime that is dropped ends.
\* Clients need do nothing.
ServerFairness ==
    /\ \A r \in Requests : WF_vars(Elapse(r)) /\ WF_vars(Poll(r)) /\ WF_vars(Thread(r))
    /\ WF_vars(Exit)

ServerSpec == ServerInit /\ [][ServerNext]_vars /\ ServerFairness

-----------------------------------------------------------------------------
(***************************************************************************)
(* Properties.                                                             *)
(***************************************************************************)

\* T4: no more than Width requests of an endpoint are in flight, and no way for a
\* request to end (408, disconnect, refusal, panic, answer) keeps its permit or
\* gives back another's.
PermitsAccounted ==
    \A e \in Endpoints : free[e] + Cardinality(Holding(e)) = Width

\* I2 from the other side, "persist before respond": only a request whose handler
\* came to its answer has changed the store.  A 408, a disconnect before the
\* handler, a panic and a stop leave no record behind that the client was not told.
UnansweredIsUnrecorded ==
    \A r \in recorded : stage[r] = "answered"

\* T4 and T5: a submission or query that is all there gets its answer, whatever
\* other clients do not send, however many leave, and after any handler's panic,
\* unless its own client leaves or the process stops.
Served ==
    \A r \in Requests :
        stage[r] = "queued" /\ body[r] = "whole" /\ kind[r] # "buggy" ~>
            stage[r] = "answered" \/ r \in gone \/ process = "stopped"
=============================================================================
