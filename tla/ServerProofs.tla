----------------------------- MODULE ServerProofs -----------------------------
(***************************************************************************)
(* The invariants of Server.tla for any number of requests, mounts, worker *)
(* threads and permits.  Types and permits go together: that a permit      *)
(* which is given back fits under the width is what the account says.      *)
(***************************************************************************)
EXTENDS Server, FiniteSetTheorems, TLAPS

ServerInv ==
    /\ ServerTypeOK
    /\ PermitsAccounted
    /\ UnansweredIsUnrecorded

\* What a step is to the gate: nothing, one request in, or one out.
Stays ==
    /\ UNCHANGED free
    /\ \A q \in Requests : stage'[q] \in Admitted <=> stage[q] \in Admitted

Enters(r) ==
    /\ stage[r] = "queued" /\ stage' = [stage EXCEPT ![r] = "reading"]
    /\ free[Endpoint(r)] > 0 /\ free' = [free EXCEPT ![Endpoint(r)] = @ - 1]

Leaves(r, how) ==
    /\ stage[r] \in Admitted /\ how \in Ended
    /\ GiveBack(r, how)

LEMMA EndpointType ==
    ASSUME ServerTypeOK, NEW r \in Requests
    PROVE  Endpoint(r) \in Endpoints
  BY DEF ServerTypeOK, Endpoint, Endpoints, Routes

LEMMA HoldingFinite ==
    ASSUME NEW e
    PROVE  IsFiniteSet(Holding(e)) /\ Cardinality(Holding(e)) \in Nat
<1>1. Holding(e) \subseteq Requests
  BY DEF Holding
<1> QED
  BY <1>1, ServerAssumption, FS_Subset, FS_CardinalityType

\* The account balances whichever of the three it is, and no count leaves its range.
LEMMA Balance ==
    ASSUME ServerTypeOK, PermitsAccounted, UNCHANGED clientVars,
           \/ Stays
           \/ \E r \in Requests : Enters(r)
           \/ \E r \in Requests, how \in Ended : Leaves(r, how)
    PROVE  PermitsAccounted' /\ free' \in [Endpoints -> 0..Width]
<1>1. \A r : Endpoint(r)' = Endpoint(r)
  BY DEF clientVars, Endpoint
<1>2. CASE Stays
  <2>1. \A e \in Endpoints : Holding(e)' = Holding(e)
    BY <1>1, <1>2 DEF Stays, Holding
  <2> QED
    BY <1>2, <2>1 DEF Stays, PermitsAccounted, ServerTypeOK
<1>3. ASSUME NEW r \in Requests, Enters(r)
      PROVE  PermitsAccounted' /\ free' \in [Endpoints -> 0..Width]
  <2>1. /\ Endpoint(r) \in Endpoints /\ Endpoint(r)' = Endpoint(r)
        /\ r \notin Holding(Endpoint(r))
    BY <1>1, <1>3, EndpointType DEF Enters, Holding, Admitted
  <2>2. Holding(Endpoint(r))' = Holding(Endpoint(r)) \union {r}
    BY <1>1, <1>3 DEF Enters, Holding, Admitted, ServerTypeOK
  <2>3. Cardinality(Holding(Endpoint(r)))' = Cardinality(Holding(Endpoint(r))) + 1
    BY <2>1, <2>2, HoldingFinite, FS_AddElement
  <2>4. \A e \in Endpoints \ {Endpoint(r)} : Holding(e)' = Holding(e)
    BY <1>1, <1>3 DEF Enters, Holding, Admitted, ServerTypeOK
  <2>5. /\ free'[Endpoint(r)] = free[Endpoint(r)] - 1
        /\ \A e \in Endpoints \ {Endpoint(r)} : free'[e] = free[e]
        /\ free' \in [Endpoints -> 0..Width]
    BY <1>3, <2>1, ServerAssumption DEF Enters, ServerTypeOK
  <2>6. free'[Endpoint(r)] + Cardinality(Holding(Endpoint(r)))' = Width
    BY <2>1, <2>3, <2>5, HoldingFinite, ServerAssumption DEF PermitsAccounted, ServerTypeOK
  <2>7. ASSUME NEW e \in Endpoints PROVE free'[e] + Cardinality(Holding(e)') = Width
    <3>1. CASE e = Endpoint(r)
      BY <2>1, <2>6, <3>1
    <3>2. CASE e # Endpoint(r)
      BY <2>4, <2>5, <3>2 DEF PermitsAccounted
    <3> QED
      BY <3>1, <3>2
  <2>8. Endpoints' = Endpoints
    BY DEF Endpoints, Routes
  <2> QED
    BY <2>5, <2>7, <2>8 DEF PermitsAccounted
<1>4. ASSUME NEW r \in Requests, NEW how \in Ended, Leaves(r, how)
      PROVE  PermitsAccounted' /\ free' \in [Endpoints -> 0..Width]
  <2>1. /\ Endpoint(r) \in Endpoints /\ Endpoint(r)' = Endpoint(r)
        /\ r \in Holding(Endpoint(r))
    BY <1>1, <1>4, EndpointType DEF Leaves, Holding
  <2>2. stage' = [stage EXCEPT ![r] = how] /\ how \notin Admitted
    BY <1>4 DEF Leaves, GiveBack, Ended, Admitted
  <2>3. Holding(Endpoint(r))' = Holding(Endpoint(r)) \ {r}
    BY <1>1, <2>2 DEF Holding, ServerTypeOK
  <2>4. Cardinality(Holding(Endpoint(r)))' = Cardinality(Holding(Endpoint(r))) - 1
    BY <2>1, <2>3, HoldingFinite, FS_RemoveElement
  <2>5. Cardinality(Holding(Endpoint(r)))' \in Nat
    <3>1. IsFiniteSet(Holding(Endpoint(r)) \ {r})
      BY HoldingFinite, FS_RemoveElement
    <3> QED
      BY <2>3, <3>1, FS_CardinalityType
  <2>6. \A e \in Endpoints \ {Endpoint(r)} : Holding(e)' = Holding(e)
    BY <1>1, <2>1, <2>2 DEF Holding, ServerTypeOK
  <2>7. /\ free'[Endpoint(r)] = free[Endpoint(r)] + 1
        /\ \A e \in Endpoints \ {Endpoint(r)} : free'[e] = free[e]
        /\ free' = [free EXCEPT ![Endpoint(r)] = free[Endpoint(r)] + 1]
    BY <1>4, <2>1 DEF Leaves, GiveBack, ServerTypeOK
  <2>8. free'[Endpoint(r)] + Cardinality(Holding(Endpoint(r)))' = Width
    BY <2>1, <2>4, <2>7, HoldingFinite, ServerAssumption DEF PermitsAccounted, ServerTypeOK
  <2>9. free'[Endpoint(r)] \in 0..Width
    BY <2>1, <2>5, <2>7, <2>8, ServerAssumption DEF ServerTypeOK
  <2>10. free' \in [Endpoints -> 0..Width]
    BY <2>1, <2>7, <2>9 DEF ServerTypeOK
  <2>11. ASSUME NEW e \in Endpoints PROVE free'[e] + Cardinality(Holding(e)') = Width
    <3>1. CASE e = Endpoint(r)
      BY <2>1, <2>8, <3>1
    <3>2. CASE e # Endpoint(r)
      BY <2>6, <2>7, <3>2 DEF PermitsAccounted
    <3> QED
      BY <3>1, <3>2
  <2>12. Endpoints' = Endpoints
    BY DEF Endpoints, Routes
  <2> QED
    BY <2>10, <2>11, <2>12 DEF PermitsAccounted
<1> QED
  BY <1>2, <1>3, <1>4

-----------------------------------------------------------------------------
\* Every step of a request is one of the three ...
LEMMA GateStep ==
    ASSUME ServerTypeOK, NEW r \in Requests,
           Arrive(r) \/ SendRest(r) \/ Leave(r) \/ Elapse(r) \/ Poll(r) \/ Thread(r)
    PROVE  /\ UNCHANGED clientVars
           /\ \/ Stays
              \/ \E q \in Requests : Enters(q)
              \/ \E q \in Requests, how \in Ended : Leaves(q, how)
<1>1. CASE Arrive(r) \/ SendRest(r) \/ Leave(r) \/ Elapse(r)
  BY <1>1 DEF Arrive, SendRest, Leave, Elapse, Stays, Admitted, ServerTypeOK
<1>2. CASE Admit(r)
  BY <1>2 DEF Admit, Enters
<1>3. CASE DropQueued(r)
  BY <1>3 DEF DropQueued, Stays, Admitted, ServerTypeOK
<1>4. CASE DropReading(r) \/ Refuse(r) \/ TimeOut(r)
  BY <1>4 DEF DropReading, Refuse, TimeOut, Leaves, Admitted, Ended
<1>5. CASE Handle(r) \/ Lock(r)
  BY <1>5 DEF Handle, Lock, Stays, Admitted, ServerTypeOK
<1>6. CASE Finish(r) \/ Panic(r)
  BY <1>6 DEF Finish, Panic, Leaves, Admitted, Ended
<1> QED
  BY <1>1, <1>2, <1>3, <1>4, <1>5, <1>6 DEF Poll, Thread

\* ... keeps the types of everything else ...
LEMMA TypeStep ==
    ASSUME ServerTypeOK, free' \in [Endpoints -> 0..Width], NEW r \in Requests,
           Arrive(r) \/ SendRest(r) \/ Leave(r) \/ Elapse(r) \/ Poll(r) \/ Thread(r)
    PROVE  ServerTypeOK'
<1>1. Endpoints' = Endpoints
  BY DEF Endpoints, Routes
<1>2. CASE Arrive(r)
  <2>1. ahead' \in [Requests -> SUBSET Requests]
    BY <1>2 DEF Arrive, ServerTypeOK
  <2> QED
    BY <1>1, <1>2, <2>1 DEF Arrive, clientVars, ServerTypeOK
<1>3. CASE SendRest(r) \/ Leave(r) \/ Elapse(r)
  BY <1>1, <1>3 DEF SendRest, Leave, Elapse, clientVars, ServerTypeOK
<1>4. CASE Admit(r) \/ DropQueued(r)
  <2>1. ahead' \in [Requests -> SUBSET Requests]
    BY <1>4 DEF Admit, DropQueued, LeaveLine, ServerTypeOK
  <2> QED
    BY <1>1, <1>4, <2>1 DEF Admit, DropQueued, clientVars, Admitted, Ended, ServerTypeOK
<1>5. CASE DropReading(r) \/ Refuse(r) \/ TimeOut(r)
  BY <1>1, <1>5 DEF DropReading, Refuse, TimeOut, GiveBack, clientVars, Ended, ServerTypeOK
<1>6. CASE Handle(r) \/ Lock(r)
  BY <1>1, <1>6 DEF Handle, Lock, clientVars, Admitted, ServerTypeOK
<1>7. CASE Finish(r) \/ Panic(r)
  BY <1>1, <1>7 DEF Finish, Panic, GiveBack, clientVars, Ended, ServerTypeOK
<1> QED
  BY <1>2, <1>3, <1>4, <1>5, <1>6, <1>7 DEF Poll, Thread

\* ... and records nothing but with its answer; no answered request moves again.
LEMMA RecordStep ==
    ASSUME ServerTypeOK, UnansweredIsUnrecorded, NEW r \in Requests,
           Arrive(r) \/ SendRest(r) \/ Leave(r) \/ Elapse(r) \/ Poll(r) \/ Thread(r)
    PROVE  UnansweredIsUnrecorded'
<1>1. CASE Finish(r)
  BY <1>1 DEF Finish, GiveBack, UnansweredIsUnrecorded, ServerTypeOK
<1>2. ASSUME UNCHANGED recorded, stage[r] # "answered" \/ UNCHANGED stage,
             \A q \in Requests : q # r => stage'[q] = stage[q]
      PROVE  UnansweredIsUnrecorded'
  BY <1>2 DEF UnansweredIsUnrecorded, ServerTypeOK
<1>3. CASE Arrive(r) \/ SendRest(r) \/ Leave(r) \/ Elapse(r)
  BY <1>2, <1>3 DEF Arrive, SendRest, Leave, Elapse, ServerTypeOK
<1>4. CASE Poll(r)
  BY <1>2, <1>4
     DEF Poll, Admit, DropQueued, DropReading, Refuse, Handle, TimeOut, GiveBack, ServerTypeOK
<1>5. CASE Lock(r) \/ Panic(r)
  BY <1>2, <1>5 DEF Lock, Panic, GiveBack, ServerTypeOK
<1> QED
  BY <1>1, <1>3, <1>4, <1>5 DEF Thread

\* The end of the process takes all that is in flight, and all permits are back.
LEMMA ExitStep ==
    ASSUME ServerInv, Exit
    PROVE  ServerInv'
<1> USE DEF ServerInv
<1>1. Endpoints' = Endpoints
  BY DEF Endpoints, Routes
<1>2. ServerTypeOK'
  BY <1>1, ServerAssumption DEF Exit, ServerTypeOK, clientVars, Ended
<1>3. PermitsAccounted'
  <2>1. \A q \in Requests : stage'[q] \notin Admitted
    BY DEF Exit, Admitted
  <2>2. \A e : Holding(e)' = {}
    BY <2>1 DEF Holding
  <2>3. \A e \in Endpoints : free'[e] = Width
    BY DEF Exit
  <2> QED
    BY <1>1, <2>2, <2>3, FS_EmptySet, ServerAssumption DEF PermitsAccounted
<1>4. UnansweredIsUnrecorded'
  BY DEF Exit, UnansweredIsUnrecorded, ServerTypeOK, Admitted
<1> QED
  BY <1>2, <1>3, <1>4

LEMMA ServerInitInv == ServerInit => ServerInv
<1> SUFFICES ASSUME ServerInit PROVE ServerInv
  OBVIOUS
<1>1. ServerTypeOK /\ UnansweredIsUnrecorded
  <2>1. free \in [Endpoints -> 0..Width]
    BY ServerAssumption DEF ServerInit
  <2>2. stage \in [Requests -> {"idle"}] /\ ahead \in [Requests -> SUBSET Requests]
    BY DEF ServerInit
  <2> QED
    BY <2>1, <2>2 DEF ServerInit, ServerTypeOK, UnansweredIsUnrecorded
<1>2. \A e : Holding(e) = {}
  BY DEF ServerInit, Holding, Admitted
<1>3. PermitsAccounted
  BY <1>2, FS_EmptySet, ServerAssumption DEF ServerInit, PermitsAccounted
<1> QED
  BY <1>1, <1>3 DEF ServerInv

-----------------------------------------------------------------------------
\* The inductive invariant holds, for every number of requests, workers and permits.
THEOREM ServerInvariant == ServerSpec => []ServerInv
<1>1. ServerInv /\ [ServerNext]_vars => ServerInv'
  <2> SUFFICES ASSUME ServerInv, [ServerNext]_vars
               PROVE  ServerInv'
    OBVIOUS
  <2>1. ASSUME NEW r \in Requests,
               Arrive(r) \/ SendRest(r) \/ Leave(r) \/ Elapse(r) \/ Poll(r) \/ Thread(r)
        PROVE  ServerInv'
    <3>1. PermitsAccounted' /\ free' \in [Endpoints -> 0..Width]
      BY <2>1, GateStep, Balance DEF ServerInv
    <3>2. ServerTypeOK'
      BY <2>1, <3>1, TypeStep DEF ServerInv
    <3>3. UnansweredIsUnrecorded'
      BY <2>1, RecordStep DEF ServerInv
    <3> QED
      BY <3>1, <3>2, <3>3 DEF ServerInv
  <2>2. CASE Signal
    BY <2>2 DEF Signal, clientVars, ServerInv, ServerTypeOK, PermitsAccounted, Holding, Endpoint,
               Endpoints, UnansweredIsUnrecorded
  <2>3. CASE UNCHANGED vars
    BY <2>3 DEF vars, clientVars, ServerInv, ServerTypeOK, PermitsAccounted, Holding, Endpoint,
               Endpoints, UnansweredIsUnrecorded
  <2> QED
    BY <2>1, <2>2, <2>3, ExitStep DEF ServerNext
<1> QED
  BY <1>1, ServerInitInv, PTL DEF ServerSpec

\* Type correctness of the server.
THEOREM ServerTypeCorrect == ServerSpec => []ServerTypeOK
<1>1. ServerInv => ServerTypeOK
  BY DEF ServerInv
<1> QED
  BY <1>1, ServerInvariant, PTL

\* T4: the gate neither leaks nor gains permits, whatever way its requests end.
THEOREM PermitsAccountedHolds == ServerSpec => []PermitsAccounted
<1>1. ServerInv => PermitsAccounted
  BY DEF ServerInv
<1> QED
  BY <1>1, ServerInvariant, PTL

\* Timeouts, disconnects, panics and stops never leave a record behind.
THEOREM UnansweredIsUnrecordedHolds == ServerSpec => []UnansweredIsUnrecorded
<1>1. ServerInv => UnansweredIsUnrecorded
  BY DEF ServerInv
<1> QED
  BY <1>1, ServerInvariant, PTL
=============================================================================
