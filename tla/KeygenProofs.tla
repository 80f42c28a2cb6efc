----------------------------- MODULE KeygenProofs -----------------------------
(***************************************************************************)
(* The properties of Keygen.tla for any number of runs, touches and        *)
(* faults.  The argument: the first seed file is the lock on the second.   *)
(* create_new lets one run make it; from then until the operator touches   *)
(* something, nobody else can be past it, and so nobody else makes or      *)
(* changes the second file.                                                *)
(***************************************************************************)
EXTENDS Keygen, TLAPS

\* The seed file of s is finished by r.
Wrote(r, s) ==
    \/ run[r].stage \in {"print", "printed"}
    \/ s = "ed25519" /\ run[r] \in {Place("create", "mldsa44"), Place("write", "mldsa44")}

\* Before its first creation, and when it was refused, r has made nothing.
MintedNothing(r) ==
    run[r].stage \in {"idle", "look", "exists"} \/ At(r, "create", "ed25519")

TouchedHaveEnded == \A r \in touched : run[r].stage \in Ended

WritersOwn ==
    \A r \in Runs \ touched : \A s \in Suites :
        /\ At(r, "write", s) => file[s] = Minted(r, s, FALSE)
        /\ Wrote(r, s) => file[s] = Minted(r, s, TRUE)

\* What the pre-flight saw of the second file still holds, or the first is taken.
SecondIsFree ==
    \A r \in Runs :
        /\ At(r, "create", "ed25519") => file["mldsa44"] = NoFile \/ file["ed25519"] # NoFile
        /\ At(r, "write", "ed25519") \/ At(r, "create", "mldsa44") => file["mldsa44"] = NoFile

NothingLeft ==
    \A r \in Runs : MintedNothing(r) =>
        \A s \in Suites : file[s] # NoFile => file[s].seed \notin {r} \X Suites

\* Comments come from keygen alone.
CommentsAreMinted ==
    \A s \in Suites : file[s] # NoFile /\ file[s].vkey # NoComment =>
        \E r \in Runs, t \in Suites : file[s].vkey = Vkey(<<r, t>>, t, name[r])

KeygenInv ==
    /\ KeygenTypeOK
    /\ TouchedHaveEnded
    /\ WritersOwn
    /\ SecondIsFree
    /\ NothingLeft
    /\ CommentsAreMinted
    /\ OwnIdentity

-----------------------------------------------------------------------------
LEMMA MintedIsSeedFile ==
    ASSUME NEW r \in Runs, NEW s \in Suites, NEW whole \in BOOLEAN, name \in [Runs -> Names]
    PROVE  /\ Minted(r, s, whole) \in SeedFile
           /\ Minted(r, s, whole) # NoFile
           /\ Minted(r, s, whole).seed = <<r, s>>
           /\ Minted(r, s, whole).vkey = Vkey(<<r, s>>, s, name[r])
<1>1. <<r, s>> \in Seeds
  BY DEF Seeds
<1>2. Vkey(<<r, s>>, s, name[r]) \in Vkeys
  BY <1>1 DEF Vkey, Vkeys
<1>3. Minted(r, s, whole) \in SeedFile
  BY <1>1, <1>2 DEF Minted, SeedFile
<1>4. Minted(r, s, whole).seed = <<r, s>> /\ Minted(r, s, whole).vkey = Vkey(<<r, s>>, s, name[r])
  BY DEF Minted
<1> QED
  BY <1>3, <1>4, KeygenValues

\* Where a run is, in terms of the fields of its record.
LEMMA Places ==
    /\ \A stage, s : Place(stage, s).stage = stage /\ Place(stage, s).suite = s
    /\ \A r, stage, s : At(r, stage, s) => run[r].stage = stage /\ run[r].suite = s
  BY DEF At, Place

LEMMA PlaceFields ==
    ASSUME NEW x, NEW stage, NEW s, x = Place(stage, s)
    PROVE  x.stage = stage /\ x.suite = s
  BY DEF Place

LEMMA KeygenInitInv == KeygenInit => KeygenInv
<1> SUFFICES ASSUME KeygenInit PROVE KeygenInv
  OBVIOUS
<1>1. /\ \A s \in Suites : file[s] = NoFile /\ identity[s] = NoFile
      /\ \A r \in Runs : run[r].stage = "idle" /\ run[r].suite = "ed25519"
  BY DEF KeygenInit, NoKeys, Place
<1>2. KeygenTypeOK
  <2>1. /\ file \in [Suites -> Contents] /\ identity \in [Suites -> Contents]
        /\ witness = "down" /\ touched = {}
    BY DEF KeygenInit, NoKeys, Contents
  <2>2. "ed25519" \in Suites
    BY DEF Suites
  <2>3. run \in [Runs -> [stage : {"idle"}, suite : Suites]]
    BY <2>2 DEF KeygenInit, Place
  <2> QED
    BY <2>1, <2>3, KeygenAssumption DEF KeygenInit, KeygenTypeOK
<1>3. TouchedHaveEnded
  BY DEF KeygenInit, TouchedHaveEnded
<1>4. WritersOwn /\ SecondIsFree
  <2>1. \A r \in Runs, s \in Suites :
            /\ ~At(r, "write", s) /\ ~At(r, "create", s)
            /\ run[r] # Place("create", s) /\ run[r] # Place("write", s)
    BY <1>1, Places
  <2>2. \A r \in Runs, s \in Suites : ~Wrote(r, s)
    BY <1>1, <2>1 DEF Wrote, Suites
  <2> QED
    BY <2>1, <2>2 DEF WritersOwn, SecondIsFree, Suites
<1>5. NothingLeft /\ CommentsAreMinted /\ OwnIdentity
  BY <1>1 DEF NothingLeft, CommentsAreMinted, OwnIdentity
<1> QED
  BY <1>2, <1>3, <1>4, <1>5 DEF KeygenInv

-----------------------------------------------------------------------------
(***************************************************************************)
(* What the steps do, seen from outside.                                   *)
(***************************************************************************)

\* A step of a run moves that run alone, on or to its end ...
MovesOn(r, s) ==
    \/ At(r, "look", s) /\ file[s] # NoFile /\ run'[r] = Place("exists", s)
    \/ At(r, "look", "ed25519") /\ run'[r] = Place("look", "mldsa44")
    \/ At(r, "look", "mldsa44") /\ file["mldsa44"] = NoFile /\ run'[r] = Place("create", "ed25519")
    \/ At(r, "create", s) /\ file[s] # NoFile /\ run'[r] = Place("exists", s)
    \/ At(r, "print", s) /\ run'[r] = Place("printed", s)
    \/ run'[r].stage \in {"failed", "killed"}

Makes(r, s) ==
    /\ At(r, "create", s) /\ file[s] = NoFile /\ run'[r] = Place("write", s)
    /\ file' = [file EXCEPT ![s] = Minted(r, s, FALSE)]

Finishes(r, s) ==
    /\ At(r, "write", s)
    /\ run'[r] = IF s = "ed25519" THEN Place("create", "mldsa44") ELSE Place("print", s)
    /\ file' = [file EXCEPT ![s] = Minted(r, s, TRUE)]

BreaksOff(r, s) ==
    /\ At(r, "write", s) /\ run'[r].stage \in {"failed", "killed"}
    /\ \/ \E whole \in BOOLEAN : file' = [file EXCEPT ![s] = Minted(r, s, whole)]
       \/ file' = [file EXCEPT ![s] = NoFile]

\* ... and changes at most the file that it is at, which it may make or has made.
RunForm(r, s) ==
    /\ run[r].suite = s /\ run[r].stage \in {"look", "create", "write", "print"}
    /\ \A q \in Runs : q # r => run'[q] = run[q]
    /\ UNCHANGED <<name, configured, witnessVars, operatorVars>>
    /\ (UNCHANGED file /\ MovesOn(r, s)) \/ Makes(r, s) \/ Finishes(r, s) \/ BreaksOff(r, s)

LEMMA RunStepForm ==
    ASSUME KeygenTypeOK, NEW r \in Runs, KeygenStep(r)
    PROVE  \E s \in Suites : RunForm(r, s)
<1> PICK s \in Suites :
        Look(r, s) \/ Create(r, s) \/ CreateFails(r, s) \/ Write(r, s) \/ WriteFails(r, s)
          \/ Announce(r, s) \/ Kill(r, s)
  BY DEF KeygenStep
<1> USE DEF RunForm, MovesOn, Makes, Finishes, BreaksOff
<1>1. ASSUME NEW stage, NEW t \in Suites, GoTo(r, stage, t)
      PROVE  run'[r] = Place(stage, t) /\ \A q \in Runs : q # r => run'[q] = run[q]
  BY <1>1 DEF GoTo, KeygenTypeOK
<1>2. \A stage : At(r, stage, s) => run[r].suite = s /\ run[r].stage = stage
  BY Places
<1>3. \A stage, t : Place(stage, t).stage = stage
  BY Places
<1>4. "ed25519" \in Suites /\ "mldsa44" \in Suites /\ s \in {"ed25519", "mldsa44"}
  BY DEF Suites
<1>5. CASE Look(r, s)
  <2>1. At(r, "look", s) /\ run[r].suite = s /\ run[r].stage = "look"
          /\ UNCHANGED <<file, name, configured, witnessVars, operatorVars>>
    BY <1>2, <1>5 DEF Look
  <2>2. CASE file[s] # NoFile /\ GoTo(r, "exists", s)
    BY <1>1, <2>1, <2>2
  <2>3. CASE s = "ed25519" /\ GoTo(r, "look", "mldsa44")
    BY <1>1, <1>4, <2>1, <2>3
  <2>4. CASE s = "mldsa44" /\ file[s] = NoFile /\ GoTo(r, "create", "ed25519")
    BY <1>1, <1>4, <2>1, <2>4
  <2> QED
    BY <1>4, <1>5, <2>2, <2>3, <2>4 DEF Look
<1>6. CASE Create(r, s)
  <2>1. /\ At(r, "create", s) /\ run[r].suite = s /\ run[r].stage = "create"
        /\ UNCHANGED <<name, configured, witnessVars, operatorVars>>
    BY <1>2, <1>6 DEF Create
  <2>2. CASE file[s] = NoFile
    <3>1. /\ file' = [file EXCEPT ![s] = Minted(r, s, FALSE)]
          /\ GoTo(r, "write", s)
      BY <1>6, <2>2 DEF Create
    <3>2. Makes(r, s) /\ \A q \in Runs : q # r => run'[q] = run[q]
      BY <1>1, <2>1, <2>2, <3>1
    <3> QED
      BY <2>1, <3>2
  <2>3. CASE file[s] # NoFile
    <3>1. UNCHANGED file /\ GoTo(r, "exists", s)
      BY <1>6, <2>3 DEF Create
    <3>2. MovesOn(r, s) /\ \A q \in Runs : q # r => run'[q] = run[q]
      BY <1>1, <2>1, <2>3, <3>1
    <3> QED
      BY <2>1, <3>1, <3>2
  <2> QED
    BY <2>2, <2>3
<1>7. CASE CreateFails(r, s)
  <2>1. /\ run[r].suite = s /\ run[r].stage = "create"
        /\ UNCHANGED <<file, name, configured, witnessVars, operatorVars>>
    BY <1>2, <1>7 DEF CreateFails
  <2>2. run'[r].stage = "failed" /\ \A q \in Runs : q # r => run'[q] = run[q]
    BY <1>1, <1>3, <1>7 DEF CreateFails
  <2> QED
    BY <2>1, <2>2
<1>8. CASE Write(r, s)
  <2>1. /\ At(r, "write", s) /\ run[r].suite = s /\ run[r].stage = "write"
        /\ UNCHANGED <<name, configured, witnessVars, operatorVars>>
        /\ file' = [file EXCEPT ![s] = Minted(r, s, TRUE)]
    BY <1>2, <1>8 DEF Write
  <2>2. /\ run'[r] = IF s = "ed25519" THEN Place("create", "mldsa44") ELSE Place("print", s)
        /\ \A q \in Runs : q # r => run'[q] = run[q]
    BY <1>1, <1>4, <1>8 DEF Write
  <2> QED
    BY <2>1, <2>2
<1>9. CASE WriteFails(r, s)
  <2>1. /\ At(r, "write", s) /\ run[r].suite = s /\ run[r].stage = "write"
        /\ UNCHANGED <<name, configured, witnessVars, operatorVars>>
        /\ \E whole \in BOOLEAN : file' = [file EXCEPT ![s] = Minted(r, s, whole)]
    BY <1>2, <1>9 DEF WriteFails
  <2>2. run'[r].stage = "failed" /\ \A q \in Runs : q # r => run'[q] = run[q]
    BY <1>1, <1>3, <1>9 DEF WriteFails
  <2> QED
    BY <2>1, <2>2
<1>10. CASE Announce(r, s)
  BY <1>1, <1>2, <1>10 DEF Announce
<1>11. CASE Kill(r, s)
  <2>1. run[r].suite = s /\ run[r].stage \in {"look", "create", "write", "print"}
    BY <1>11 DEF Kill, InProgress, Ended, KeygenTypeOK
  <2>2. /\ run'[r].stage = "killed" /\ \A q \in Runs : q # r => run'[q] = run[q]
        /\ UNCHANGED <<name, configured, witnessVars, operatorVars>>
    BY <1>1, <1>3, <1>11 DEF Kill
  <2>3. CASE At(r, "write", s)
    BY <1>11, <2>1, <2>2, <2>3 DEF Kill
  <2>4. CASE ~At(r, "write", s)
    BY <1>11, <2>1, <2>2, <2>4 DEF Kill
  <2> QED
    BY <2>3, <2>4
<1> QED
  BY <1>5, <1>6, <1>7, <1>8, <1>9, <1>10, <1>11

\* A touch happens between runs, and puts something in the place of one file.
LEMMA TouchForm ==
    ASSUME KeygenTypeOK, NEW s \in Suites, NEW kind, Touch(s, kind)
    PROVE  /\ \A r \in Runs : ~InProgress(r)
           /\ touched' = touched \union {r \in Runs : run[r].stage # "idle"}
           /\ UNCHANGED <<run, name, configured, witnessVars, faultsLeft>>
           /\ touchesLeft' \in 0..MaxTouches
           /\ file[s] # NoFile /\ file[s] \in SeedFile
           /\ \E t \in Suites, content \in Contents :
                 /\ file' = [file EXCEPT ![t] = content]
                 /\ content # NoFile =>
                       /\ content.vkey \in {file[s].vkey, NoComment}
                       /\ content.seed \in {file[s].seed, Foreign}
<1>1. /\ \A r \in Runs : ~InProgress(r)
      /\ touched' = touched \union {r \in Runs : run[r].stage # "idle"}
      /\ UNCHANGED <<run, name, configured, witnessVars, faultsLeft>>
      /\ touchesLeft' \in 0..MaxTouches
      /\ file[s] # NoFile
  BY KeygenAssumption DEF Touch, KeygenTypeOK
<1>2. file[s] \in SeedFile
  BY <1>1 DEF KeygenTypeOK, Contents
<1>3. Foreign \in Seeds
  BY DEF Seeds
<1> DEFINE Fits(content) ==
        /\ content \in Contents
        /\ content # NoFile =>
              /\ content.vkey \in {file[s].vkey, NoComment}
              /\ content.seed \in {file[s].seed, Foreign}
<1>4. Fits(NoFile) /\ Fits(file[s])
  BY <1>2 DEF Contents
<1>5. \A private \in BOOLEAN : Fits([file[s] EXCEPT !.private = private])
  BY <1>2 DEF Contents, SeedFile
<1>6. Fits([file[s] EXCEPT !.whole = FALSE])
  BY <1>2 DEF Contents, SeedFile
<1>7. Fits([file[s] EXCEPT !.seed = Foreign])
  BY <1>2, <1>3 DEF Contents, SeedFile
<1>8. Fits([file[s] EXCEPT !.vkey = NoComment])
  BY <1>2 DEF Contents, SeedFile
<1>9. \E t \in Suites : \E content : Fits(content) /\ file' = [file EXCEPT ![t] = content]
  <2> HIDE DEF Fits
  <2> QED
    BY <1>4, <1>5, <1>6, <1>7, <1>8 DEF Touch, Put
<1> QED
  BY <1>1, <1>2, <1>9
-----------------------------------------------------------------------------
(***************************************************************************)
(* Each part of the invariant is kept by each kind of step.                *)
(***************************************************************************)

\* A run that takes a step has not been touched: it has not ended.
LEMMA StepsUntouched ==
    ASSUME KeygenTypeOK, TouchedHaveEnded, NEW r \in Runs, KeygenStep(r)
    PROVE  r \notin touched
<1>1. run[r].stage \in {"look", "create", "write", "print"}
  BY RunStepForm DEF RunForm
<1> QED
  BY <1>1 DEF TouchedHaveEnded, Ended

LEMMA TypeRunStep ==
    ASSUME KeygenTypeOK, NEW r \in Runs, KeygenStep(r)
    PROVE  KeygenTypeOK'
<1>1. /\ file' \in [Suites -> Contents]
      /\ UNCHANGED <<name, configured, witnessVars, operatorVars>>
  <2>1. \A s \in Suites, whole \in BOOLEAN : Minted(r, s, whole) \in Contents
    BY MintedIsSeedFile DEF KeygenTypeOK, Contents
  <2>2. NoFile \in Contents
    BY DEF Contents
  <2>3. file \in [Suites -> Contents]
    BY DEF KeygenTypeOK
  <2>4. PICK s \in Suites :
            /\ UNCHANGED <<name, configured, witnessVars, operatorVars>>
            /\ \/ UNCHANGED file
               \/ \E whole \in BOOLEAN : file' = [file EXCEPT ![s] = Minted(r, s, whole)]
               \/ file' = [file EXCEPT ![s] = NoFile]
    BY RunStepForm DEF RunForm, Makes, Finishes, BreaksOff
  <2> QED
    BY <2>1, <2>2, <2>3, <2>4
<1>2. ASSUME NEW s \in Suites,
             Look(r, s) \/ Create(r, s) \/ CreateFails(r, s) \/ Write(r, s) \/ WriteFails(r, s)
               \/ Announce(r, s) \/ Kill(r, s)
      PROVE  /\ \E stage \in {"look", "create", "write", "print"} \union Ended, t \in Suites :
                    run' = [run EXCEPT ![r] = Place(stage, t)]
             /\ faultsLeft' \in 0..MaxFaults
  <2>1. "ed25519" \in Suites /\ "mldsa44" \in Suites
    BY DEF Suites
  <2>2. UNCHANGED faultsLeft \/ \E kind : Fault(kind)
    BY <1>2 DEF Look, Create, CreateFails, Write, WriteFails, Announce, Kill
  <2>3. faultsLeft' \in 0..MaxFaults
    BY <2>2, KeygenAssumption DEF KeygenTypeOK, Fault
  <2>4. \E stage \in {"look", "create", "write", "print"} \union Ended, t \in Suites :
            GoTo(r, stage, t)
    BY <1>2, <2>1 DEF Look, Create, CreateFails, Write, WriteFails, Announce, Kill, Ended
  <2> QED
    BY <2>3, <2>4 DEF GoTo
<1>3. /\ run' \in [Runs -> [stage : {"idle", "look", "create", "write", "print"} \union Ended,
                            suite : Suites]]
      /\ faultsLeft' \in 0..MaxFaults
  BY <1>2 DEF KeygenStep, KeygenTypeOK, Place
<1> QED
  BY <1>1, <1>3 DEF KeygenTypeOK, witnessVars, operatorVars

LEMMA TypeStep == KeygenTypeOK /\ [KeygenNext]_vars => KeygenTypeOK'
<1> SUFFICES ASSUME KeygenTypeOK, [KeygenNext]_vars
             PROVE  KeygenTypeOK'
  OBVIOUS
<1>1. ASSUME NEW r \in Runs, Invoke(r)
      PROVE  KeygenTypeOK'
  <2>1. "ed25519" \in Suites
    BY DEF Suites
  <2> QED
    BY <1>1, <2>1 DEF Invoke, GoTo, Place, KeygenTypeOK, witnessVars, operatorVars
<1>2. ASSUME NEW s \in Suites, LoadKey(s)
      PROVE  KeygenTypeOK'
  <2>1. /\ UNCHANGED <<file, run, name, configured, operatorVars, faultsLeft>>
        /\ file[configured[s]] \in Contents
        /\ NoKeys \in [Suites -> Contents]
    BY <1>2 DEF LoadKey, KeygenTypeOK, NoKeys, Contents
  <2>2. CASE witness' = "down" /\ identity' = NoKeys
    BY <2>1, <2>2 DEF KeygenTypeOK, operatorVars
  <2>3. CASE s = "ed25519" /\ witness' = "loading"
              /\ identity' = [identity EXCEPT ![s] = file[configured[s]]]
              /\ Accepts(file[configured[s]], s)
    BY <2>1, <2>3 DEF KeygenTypeOK, operatorVars, Accepts
  <2>4. CASE s = "mldsa44" /\ witness = "loading" /\ witness' = "up"
              /\ identity' = [identity EXCEPT ![s] = file[configured[s]]]
              /\ Accepts(file[configured[s]], s)
    BY <2>1, <2>4 DEF KeygenTypeOK, operatorVars, Accepts
  <2> QED
    BY <1>2, <2>2, <2>3, <2>4 DEF LoadKey, Suites
<1>3. CASE Stop
  BY <1>3 DEF Stop, KeygenTypeOK, NoKeys, Contents, operatorVars
<1>4. ASSUME NEW s \in Suites, NEW kind, Touch(s, kind)
      PROVE  KeygenTypeOK'
  BY <1>4, TouchForm DEF KeygenTypeOK, witnessVars
<1>5. CASE UNCHANGED vars
  BY <1>5 DEF vars, KeygenTypeOK, witnessVars, operatorVars
<1> QED
  BY <1>1, <1>2, <1>3, <1>4, <1>5, TypeRunStep DEF KeygenNext

\* Steps that move neither a run nor a file disturb none of these three.
LEMMA QuietSteps ==
    ASSUME KeygenInv, UNCHANGED <<file, run, name, touched>>
    PROVE  (TouchedHaveEnded /\ WritersOwn /\ SecondIsFree /\ NothingLeft /\ CommentsAreMinted)'
BY DEF KeygenInv, TouchedHaveEnded, WritersOwn, SecondIsFree, NothingLeft, CommentsAreMinted,
       At, Wrote, MintedNothing, Minted

LEMMA TouchedStep == KeygenInv /\ [KeygenNext]_vars => TouchedHaveEnded'
<1> SUFFICES ASSUME KeygenInv, [KeygenNext]_vars
             PROVE  TouchedHaveEnded'
  OBVIOUS
<1> USE DEF KeygenInv
<1>1. ASSUME NEW r \in Runs, Invoke(r)
      PROVE  TouchedHaveEnded'
  <2>1. run[r].stage = "idle" /\ touched' = touched /\ \A q \in Runs : q # r => run'[q] = run[q]
    BY <1>1, Places DEF Invoke, GoTo, operatorVars, KeygenTypeOK
  <2> QED
    BY <2>1 DEF TouchedHaveEnded, Ended, KeygenTypeOK
<1>2. ASSUME NEW r \in Runs, KeygenStep(r)
      PROVE  TouchedHaveEnded'
  <2>1. touched' = touched /\ \A q \in Runs : q # r => run'[q] = run[q]
    BY <1>2, RunStepForm DEF RunForm, operatorVars
  <2> QED
    BY <1>2, <2>1, StepsUntouched DEF TouchedHaveEnded, KeygenTypeOK
<1>3. ASSUME NEW s \in Suites, NEW kind, Touch(s, kind)
      PROVE  TouchedHaveEnded'
  BY <1>3, TouchForm DEF TouchedHaveEnded, InProgress, Ended
<1>4. ASSUME NEW s \in Suites, LoadKey(s)
      PROVE  TouchedHaveEnded'
  BY <1>4, QuietSteps DEF LoadKey, operatorVars
<1>5. CASE Stop \/ UNCHANGED vars
  BY <1>5, QuietSteps DEF Stop, operatorVars, vars
<1> QED
  BY <1>1, <1>2, <1>3, <1>4, <1>5 DEF KeygenNext

\* Two runs never own one file: the seeds tell.
LEMMA OwnersDiffer ==
    ASSUME NEW q \in Runs, NEW r \in Runs, q # r, NEW s, NEW t, NEW v, NEW w
    PROVE  Minted(q, s, v) # Minted(r, t, w)
<1>1. Minted(q, s, v).seed = <<q, s>> /\ Minted(r, t, w).seed = <<r, t>>
  BY DEF Minted
<1> QED
  BY <1>1

\* From its first creation to its end, an untouched run holds the first file.
LEMMA HoldsTheFirst ==
    ASSUME WritersOwn, NEW r \in Runs, r \notin touched,
           \/ run[r] \in {Place("create", "mldsa44"), Place("write", "mldsa44")}
           \/ run[r].stage \in {"print", "printed"}
    PROVE  file["ed25519"] = Minted(r, "ed25519", TRUE)
BY DEF WritersOwn, Wrote, Suites

LEMMA WritersStep == KeygenInv /\ [KeygenNext]_vars => WritersOwn'
<1> SUFFICES ASSUME KeygenInv, [KeygenNext]_vars
             PROVE  WritersOwn'
  OBVIOUS
<1> USE DEF KeygenInv
<1>1. ASSUME NEW r \in Runs, Invoke(r)
      PROVE  WritersOwn'
  <2>1. /\ run'[r] = Place("look", "ed25519") /\ \A q \in Runs : q # r => run'[q] = run[q]
        /\ UNCHANGED <<file, name, touched>>
    BY <1>1 DEF Invoke, GoTo, operatorVars, KeygenTypeOK
  <2>2. run'[r].stage = "look"
    BY <2>1, PlaceFields
  <2>3. \A s \in Suites : ~At(r, "write", s)' /\ ~Wrote(r, s)'
    BY <2>2, PlaceFields DEF At, Wrote
  <2> QED
    BY <2>1, <2>3 DEF WritersOwn, At, Wrote, Minted
<1>2. ASSUME NEW r \in Runs, KeygenStep(r)
      PROVE  WritersOwn'
  <2>1. r \notin touched /\ UNCHANGED <<touched, name>>
    BY <1>2, StepsUntouched, RunStepForm DEF RunForm, operatorVars
  <2> SUFFICES ASSUME NEW q \in Runs, q \notin touched, NEW t \in Suites
               PROVE  /\ At(q, "write", t)' => file'[t] = Minted(q, t, FALSE)
                      /\ Wrote(q, t)' => file'[t] = Minted(q, t, TRUE)
    BY <2>1 DEF WritersOwn, Minted
  <2>2. /\ At(q, "write", t) => file[t] = Minted(q, t, FALSE)
        /\ Wrote(q, t) => file[t] = Minted(q, t, TRUE)
    BY DEF WritersOwn
  <2>3. file \in [Suites -> Contents] /\ Minted(q, t, FALSE) # NoFile /\ Minted(q, t, TRUE) # NoFile
    BY MintedIsSeedFile DEF KeygenTypeOK
  <2>4. PICK s \in Suites : RunForm(r, s)
    BY <1>2, RunStepForm
  <2>5. CASE q # r
    <3>1. run'[q] = run[q]
      BY <2>4, <2>5 DEF RunForm
    <3>2. (At(q, "write", t)' <=> At(q, "write", t)) /\ (Wrote(q, t)' <=> Wrote(q, t))
      BY <3>1 DEF At, Wrote
    <3>3. \/ UNCHANGED file
          \/ /\ file[s] = NoFile \/ file[s] = Minted(r, s, FALSE)
             /\ \E c : file' = [file EXCEPT ![s] = c]
      BY <2>1, <2>4 DEF RunForm, Makes, Finishes, BreaksOff, WritersOwn
    <3>4. Minted(q, t, FALSE) # Minted(r, s, FALSE) /\ Minted(q, t, TRUE) # Minted(r, s, FALSE)
      BY <2>5, OwnersDiffer
    <3>5. CASE t # s
      BY <2>2, <2>3, <3>2, <3>3, <3>5
    <3>6. CASE t = s
      BY <2>2, <2>3, <3>2, <3>3, <3>4, <3>6
    <3> QED
      BY <3>5, <3>6
  <2>6. CASE q = r
    <3>1. CASE UNCHANGED file /\ MovesOn(r, s)
      <4>1. \/ run'[r].stage \in {"exists", "look", "failed", "killed"}
            \/ run'[r] = Place("create", "ed25519")
            \/ At(r, "print", s) /\ run'[r] = Place("printed", s)
        BY <3>1, PlaceFields DEF MovesOn
      <4>2. ~At(q, "write", t)'
        BY <2>6, <4>1, PlaceFields DEF At
      <4>3. Wrote(q, t)' => run[q].stage = "print"
        BY <2>6, <4>1, PlaceFields DEF Wrote, At
      <4>4. Wrote(q, t)' => Wrote(q, t)
        BY <4>3 DEF Wrote
      <4> QED
        BY <2>2, <3>1, <4>2, <4>4
    <3>2. CASE Makes(r, s)
      <4>1. At(q, "write", t)' => t = s
        BY <2>6, <3>2, PlaceFields DEF At, Makes
      <4>2. Wrote(q, t)' => s = "mldsa44" /\ t = "ed25519"
        BY <2>6, <3>2, PlaceFields DEF Wrote, Makes
      <4>3. Wrote(q, t)' => Wrote(q, t)
        BY <2>6, <3>2, <4>2 DEF Wrote, At, Makes
      <4>4. file'[t] = IF t = s THEN Minted(r, s, FALSE) ELSE file[t]
        BY <2>3, <3>2 DEF Makes
      <4> QED
        BY <2>2, <2>6, <4>1, <4>2, <4>3, <4>4
    <3>3. CASE Finishes(r, s)
      <4>1. run'[r].stage \in {"create", "print"}
        BY <3>3, PlaceFields DEF Finishes
      <4>2. ~At(q, "write", t)'
        BY <2>6, <4>1, PlaceFields DEF At
      <4>3. file'[t] = IF t = s THEN Minted(r, s, TRUE) ELSE file[t]
        BY <2>3, <3>3 DEF Finishes
      <4>4. t # s /\ Wrote(q, t)' => s = "mldsa44" /\ t = "ed25519"
        BY <2>6, <3>3, PlaceFields DEF Wrote, Suites, Finishes
      <4>5. t # s /\ Wrote(q, t)' => Wrote(q, t)
        BY <2>6, <3>3, <4>4 DEF Wrote, At, Finishes
      <4> QED
        BY <2>2, <2>6, <4>2, <4>3, <4>5
    <3>4. CASE BreaksOff(r, s)
      <4>1. ~At(q, "write", t)' /\ ~Wrote(q, t)'
        BY <2>6, <3>4, PlaceFields DEF At, Wrote, BreaksOff
      <4> QED
        BY <4>1
    <3> QED
      BY <2>4, <3>1, <3>2, <3>3, <3>4 DEF RunForm
  <2> QED
    BY <2>5, <2>6
<1>3. ASSUME NEW s \in Suites, NEW kind, Touch(s, kind)
      PROVE  WritersOwn'
  <2>1. \A q \in Runs : q \notin touched' => run'[q].stage = "idle"
    BY <1>3, TouchForm
  <2>2. \A q \in Runs \ touched', t \in Suites : ~At(q, "write", t)' /\ ~Wrote(q, t)'
    BY <2>1, PlaceFields DEF At, Wrote
  <2> QED
    BY <2>2 DEF WritersOwn
<1>4. ASSUME NEW s \in Suites, LoadKey(s)
      PROVE  WritersOwn'
  BY <1>4, QuietSteps DEF LoadKey, operatorVars
<1>5. CASE Stop \/ UNCHANGED vars
  BY <1>5, QuietSteps DEF Stop, operatorVars, vars
<1> QED
  BY <1>1, <1>2, <1>3, <1>4, <1>5 DEF KeygenNext

\* Where a run has come, if it is at the first or the second creation.
LEMMA Arrivals ==
    ASSUME KeygenTypeOK, NEW r \in Runs, NEW s \in Suites, RunForm(r, s)
    PROVE  /\ At(r, "create", "ed25519")' =>
                 At(r, "look", "mldsa44") /\ file["mldsa44"] = NoFile /\ UNCHANGED file
           /\ At(r, "write", "ed25519")' => s = "ed25519" /\ Makes(r, s)
           /\ At(r, "create", "mldsa44")' => s = "ed25519" /\ Finishes(r, s)
<1>1. CASE MovesOn(r, s) /\ UNCHANGED file
  BY <1>1, PlaceFields DEF MovesOn, At
<1>2. CASE Makes(r, s)
  <2>1. run'[r].stage = "write" /\ run'[r].suite = s
    BY <1>2, PlaceFields DEF Makes
  <2>2. \A stage, t : At(r, stage, t)' => stage = "write" /\ t = s
    BY <2>1, PlaceFields DEF At
  <2> QED
    BY <1>2, <2>2
<1>3. CASE Finishes(r, s)
  <2>1. \/ s = "ed25519" /\ run'[r].stage = "create" /\ run'[r].suite = "mldsa44"
        \/ run'[r].stage = "print"
    BY <1>3, PlaceFields DEF Finishes
  <2>2. \A stage, t : At(r, stage, t)' => run'[r].stage = stage /\ run'[r].suite = t
    BY PlaceFields DEF At
  <2> QED
    BY <1>3, <2>1, <2>2
<1>4. CASE BreaksOff(r, s)
  BY <1>4, PlaceFields DEF BreaksOff, At
<1> QED
  BY <1>1, <1>2, <1>3, <1>4 DEF RunForm

\* Of two untouched runs, only one is past the first creation.
LEMMA OnePastTheFirst ==
    ASSUME KeygenInv, NEW q \in Runs, NEW r \in Runs, q # r, q \notin touched, r \notin touched,
           At(q, "write", "ed25519") \/ At(q, "create", "mldsa44"),
           At(r, "write", "ed25519") \/ At(r, "create", "mldsa44") \/ At(r, "write", "mldsa44")
    PROVE  FALSE
<1>1. \A p \in Runs : p \notin touched
              /\ (At(p, "write", "ed25519") \/ At(p, "create", "mldsa44") \/ At(p, "write", "mldsa44"))
          => \E v \in BOOLEAN : file["ed25519"] = Minted(p, "ed25519", v)
  BY HoldsTheFirst DEF KeygenInv, WritersOwn, At, Suites
<1> QED
  BY <1>1, OwnersDiffer

LEMMA SecondStep == KeygenInv /\ [KeygenNext]_vars => SecondIsFree'
<1> SUFFICES ASSUME KeygenInv, [KeygenNext]_vars
             PROVE  SecondIsFree'
  OBVIOUS
<1> USE DEF KeygenInv
<1>1. ASSUME NEW r \in Runs, Invoke(r)
      PROVE  SecondIsFree'
  <2>1. /\ run'[r] = Place("look", "ed25519") /\ \A q \in Runs : q # r => run'[q] = run[q]
        /\ UNCHANGED file
    BY <1>1 DEF Invoke, GoTo, KeygenTypeOK
  <2>2. run'[r].stage = "look"
    BY <2>1, PlaceFields
  <2> QED
    BY <2>1, <2>2, PlaceFields DEF SecondIsFree, At
<1>2. ASSUME NEW r \in Runs, KeygenStep(r)
      PROVE  SecondIsFree'
  <2>1. r \notin touched
    BY <1>2, StepsUntouched
  <2>2. PICK s \in Suites : RunForm(r, s)
    BY <1>2, RunStepForm
  <2>3. "ed25519" \in Suites /\ "mldsa44" \in Suites /\ s \in {"ed25519", "mldsa44"}
        /\ file \in [Suites -> Contents]
    BY DEF Suites, KeygenTypeOK
  <2> SUFFICES ASSUME NEW q \in Runs
               PROVE  /\ At(q, "create", "ed25519")' =>
                            file'["mldsa44"] = NoFile \/ file'["ed25519"] # NoFile
                      /\ At(q, "write", "ed25519")' \/ At(q, "create", "mldsa44")' =>
                            file'["mldsa44"] = NoFile
    BY DEF SecondIsFree
  <2>4. CASE q = r
    <3>1. CASE At(q, "create", "ed25519")'
      <4>1. file'["mldsa44"] = NoFile
        BY <2>2, <2>4, <3>1, Arrivals
      <4> QED
        BY <4>1
    <3>2. CASE At(q, "write", "ed25519")'
      <4>1. s = "ed25519" /\ Makes(r, s)
        BY <2>2, <2>4, <3>2, Arrivals
      <4>2. file["mldsa44"] = NoFile /\ file'["mldsa44"] = file["mldsa44"]
        BY <2>3, <4>1 DEF Makes, SecondIsFree
      <4>3. ~At(q, "create", "ed25519")'
        BY <3>2, PlaceFields DEF At
      <4> QED
        BY <4>2, <4>3
    <3>3. CASE At(q, "create", "mldsa44")'
      <4>1. s = "ed25519" /\ Finishes(r, s)
        BY <2>2, <2>4, <3>3, Arrivals
      <4>2. file["mldsa44"] = NoFile /\ file'["mldsa44"] = file["mldsa44"]
        BY <2>3, <4>1 DEF Finishes, SecondIsFree
      <4>3. ~At(q, "create", "ed25519")'
        BY <3>3, PlaceFields DEF At
      <4> QED
        BY <4>2, <4>3
    <3> QED
      BY <3>1, <3>2, <3>3
  <2>5. CASE q # r
    <3>1. run'[q] = run[q]
      BY <2>2, <2>5 DEF RunForm
    <3>2. \A stage, t : At(q, stage, t)' <=> At(q, stage, t)
      BY <3>1 DEF At
    <3>3. q \in touched => ~At(q, "write", "ed25519") /\ ~At(q, "create", "mldsa44")
      BY Places DEF TouchedHaveEnded, Ended
    <3>4. CASE UNCHANGED file
      BY <3>2, <3>4 DEF SecondIsFree
    <3>5. CASE Makes(r, s) \/ Finishes(r, s) \/ BreaksOff(r, s)
      <4>1. At(r, "create", s) \/ At(r, "write", s)
        BY <3>5 DEF Makes, Finishes, BreaksOff
      <4>2. \E c : file' = [file EXCEPT ![s] = c]
        BY <3>5 DEF Makes, Finishes, BreaksOff
      <4>3. CASE s = "mldsa44"
        <5>1. file["ed25519"] # NoFile /\ file'["ed25519"] = file["ed25519"]
          <6>1. file["ed25519"] # NoFile
            <7>1. r \notin touched /\ run[r] \in {Place("create", "mldsa44"), Place("write", "mldsa44")}
              BY <2>1, <4>1, <4>3 DEF At
            <7>2. file["ed25519"] = Minted(r, "ed25519", TRUE)
              BY <7>1, HoldsTheFirst
            <7> QED
              BY <7>2, MintedIsSeedFile DEF KeygenTypeOK, Suites
          <6> QED
            BY <2>3, <4>2, <4>3, <6>1
        <5>2. ~At(q, "write", "ed25519") /\ ~At(q, "create", "mldsa44")
          BY <2>1, <2>5, <3>3, <4>1, <4>3, OnePastTheFirst
        <5> QED
          BY <3>2, <5>1, <5>2
      <4>4. CASE s = "ed25519"
        <5>1. file'["mldsa44"] = file["mldsa44"]
          BY <2>3, <4>2, <4>4
        <5>2. At(q, "write", "ed25519") \/ At(q, "create", "mldsa44") => file'["mldsa44"] = NoFile
          BY <5>1 DEF SecondIsFree
        <5>3. CASE Makes(r, s)
          <6>1. file'["ed25519"] # NoFile
            BY <2>3, <4>4, <5>3, MintedIsSeedFile DEF Makes, KeygenTypeOK
          <6> QED
            BY <3>2, <5>2, <6>1
        <5>4. CASE Finishes(r, s) \/ BreaksOff(r, s)
          <6>1. file["mldsa44"] = NoFile
            BY <4>4, <5>4 DEF Finishes, BreaksOff, SecondIsFree
          <6> QED
            BY <3>2, <5>1, <5>2, <6>1
        <5> QED
          BY <3>5, <5>3, <5>4
      <4> QED
        BY <2>3, <4>3, <4>4
    <3> QED
      BY <2>2, <3>4, <3>5 DEF RunForm
  <2> QED
    BY <2>4, <2>5
<1>3. ASSUME NEW s \in Suites, NEW kind, Touch(s, kind)
      PROVE  SecondIsFree'
  <2>1. \A r \in Runs : run'[r].stage \notin {"create", "write"}
    BY <1>3, TouchForm DEF InProgress, Ended
  <2> QED
    BY <2>1, PlaceFields DEF SecondIsFree, At
<1>4. ASSUME NEW s \in Suites, LoadKey(s)
      PROVE  SecondIsFree'
  BY <1>4, QuietSteps DEF LoadKey, operatorVars
<1>5. CASE Stop \/ UNCHANGED vars
  BY <1>5, QuietSteps DEF Stop, operatorVars, vars
<1> QED
  BY <1>1, <1>2, <1>3, <1>4, <1>5 DEF KeygenNext

LEMMA NothingStep == KeygenInv /\ [KeygenNext]_vars => NothingLeft'
<1> SUFFICES ASSUME KeygenInv, [KeygenNext]_vars
             PROVE  NothingLeft'
  OBVIOUS
<1> USE DEF KeygenInv
<1>1. ASSUME NEW r \in Runs, Invoke(r)
      PROVE  NothingLeft'
  <2>1. /\ \A q \in Runs : q # r => run'[q] = run[q]
        /\ run[r].stage = "idle" /\ UNCHANGED file
    BY <1>1, Places DEF Invoke, GoTo, KeygenTypeOK
  <2> QED
    BY <2>1 DEF NothingLeft, MintedNothing, At
<1>2. ASSUME NEW r \in Runs, KeygenStep(r)
      PROVE  NothingLeft'
  <2>1. PICK s \in Suites : RunForm(r, s)
    BY <1>2, RunStepForm
  <2> SUFFICES ASSUME NEW q \in Runs, MintedNothing(q)', NEW t \in Suites, file'[t] # NoFile
               PROVE  file'[t].seed \notin {q} \X Suites
    BY DEF NothingLeft
  <2>2. CASE q = r
    <3>1. MovesOn(r, s) /\ UNCHANGED file
      <4>1. run'[r].stage \in {"idle", "look", "exists", "create"}
        BY <2>2, PlaceFields DEF MintedNothing, At
      <4>2. ~Makes(r, s) /\ ~BreaksOff(r, s)
        <5>1. ASSUME Makes(r, s)
              PROVE  FALSE
          <6>1. run'[r].stage = "write"
            BY <5>1, PlaceFields DEF Makes
          <6> QED
            BY <4>1, <6>1
        <5>2. ~BreaksOff(r, s)
          BY <4>1 DEF BreaksOff
        <5> QED
          BY <5>1, <5>2
      <4>3. ASSUME Finishes(r, s)
            PROVE  FALSE
        <5>1. run'[r] = Place("create", "mldsa44")
          BY <4>1, <4>3, PlaceFields DEF Finishes
        <5>2. run'[r].stage = "create" /\ run'[r].suite = "mldsa44"
          BY <5>1, PlaceFields
        <5> QED
          BY <2>2, <5>2, PlaceFields DEF MintedNothing, At
      <4> QED
        BY <2>1, <4>2, <4>3 DEF RunForm
    <3>2. At(r, "create", s) /\ file[s] # NoFile => s = "ed25519"
      BY DEF SecondIsFree, Suites
    <3>3. run[r].stage \in {"idle", "look", "exists"} \/ At(r, "create", "ed25519")
      <4>1. run'[r].stage \in {"idle", "look", "exists", "create"}
        BY <2>2, PlaceFields DEF MintedNothing, At
      <4>2. run'[r].stage \notin {"printed", "failed", "killed"}
        BY <4>1
      <4>3. At(r, "look", s) \/ At(r, "look", "ed25519") \/ At(r, "look", "mldsa44")
              \/ (At(r, "create", s) /\ file[s] # NoFile)
        BY <3>1, <4>2, PlaceFields DEF MovesOn
      <4> QED
        BY <3>2, <4>3, Places
    <3>4. MintedNothing(r)
      BY <3>3 DEF MintedNothing
    <3> QED
      BY <2>2, <3>1, <3>4 DEF NothingLeft
  <2>3. CASE q # r
    <3>1. run'[q] = run[q]
      BY <2>1, <2>3 DEF RunForm
    <3>2. MintedNothing(q)
      BY <3>1 DEF MintedNothing, At
    <3>3. \/ file'[t] = file[t]
          \/ \E whole \in BOOLEAN : file'[t] = Minted(r, s, whole)
      BY <2>1 DEF RunForm, Makes, Finishes, BreaksOff, KeygenTypeOK
    <3>4. ASSUME NEW whole \in BOOLEAN, file'[t] = Minted(r, s, whole)
          PROVE  file'[t].seed \notin {q} \X Suites
      <4>1. file'[t].seed = <<r, s>>
        BY <3>4 DEF Minted
      <4> QED
        BY <2>3, <4>1
    <3> QED
      BY <3>2, <3>3, <3>4 DEF NothingLeft
  <2> QED
    BY <2>2, <2>3
<1>3. ASSUME NEW s \in Suites, NEW kind, Touch(s, kind)
      PROVE  NothingLeft'
  <2> SUFFICES ASSUME NEW q \in Runs, MintedNothing(q)', NEW u \in Suites, file'[u] # NoFile
               PROVE  file'[u].seed \notin {q} \X Suites
    BY DEF NothingLeft
  <2>1. MintedNothing(q)
    BY <1>3, TouchForm DEF MintedNothing, At
  <2>2. file[s].seed \notin {q} \X Suites /\ (file[u] # NoFile => file[u].seed \notin {q} \X Suites)
    BY <1>3, <2>1, TouchForm DEF NothingLeft
  <2>3. Foreign \notin {q} \X Suites
    BY KeygenValues
  <2>4. PICK t \in Suites, content \in Contents :
            /\ file' = [file EXCEPT ![t] = content]
            /\ content # NoFile => content.seed \in {file[s].seed, Foreign}
    BY <1>3, TouchForm
  <2> QED
    BY <2>2, <2>3, <2>4 DEF KeygenTypeOK
<1>4. ASSUME NEW s \in Suites, LoadKey(s)
      PROVE  NothingLeft'
  BY <1>4, QuietSteps DEF LoadKey, operatorVars
<1>5. CASE Stop \/ UNCHANGED vars
  BY <1>5, QuietSteps DEF Stop, operatorVars, vars
<1> QED
  BY <1>1, <1>2, <1>3, <1>4, <1>5 DEF KeygenNext

LEMMA CommentsStep == KeygenInv /\ [KeygenNext]_vars => CommentsAreMinted'
<1> SUFFICES ASSUME KeygenInv, [KeygenNext]_vars
             PROVE  CommentsAreMinted'
  OBVIOUS
<1> USE DEF KeygenInv
<1> DEFINE Fits(content) ==
        content # NoFile /\ content.vkey # NoComment =>
            \E r \in Runs, t \in Suites : content.vkey = Vkey(<<r, t>>, t, name[r])
<1>1. \A s \in Suites : Fits(file[s])
  BY DEF CommentsAreMinted
<1>2. ASSUME UNCHANGED name, \A s \in Suites : Fits(file'[s])
      PROVE  CommentsAreMinted'
  BY <1>2 DEF CommentsAreMinted
<1>3. ASSUME NEW r \in Runs, KeygenStep(r)
      PROVE  CommentsAreMinted'
  <2>1. PICK s \in Suites : RunForm(r, s)
    BY <1>3, RunStepForm
  <2>2. \A whole \in BOOLEAN : Fits(Minted(r, s, whole))
    BY MintedIsSeedFile DEF KeygenTypeOK
  <2>3. Fits(NoFile)
    OBVIOUS
  <2> HIDE DEF Fits
  <2>4. \A t \in Suites : Fits(file'[t])
    BY <1>1, <2>1, <2>2, <2>3 DEF RunForm, Makes, Finishes, BreaksOff, KeygenTypeOK
  <2> QED
    BY <1>2, <2>1, <2>4 DEF RunForm
<1>4. ASSUME NEW s \in Suites, NEW kind, Touch(s, kind)
      PROVE  CommentsAreMinted'
  <2>1. PICK t \in Suites, content \in Contents :
            /\ file' = [file EXCEPT ![t] = content]
            /\ content # NoFile => content.vkey \in {file[s].vkey, NoComment}
    BY <1>4, TouchForm
  <2>2. Fits(content)
    BY <1>1, <1>4, <2>1, TouchForm
  <2> HIDE DEF Fits
  <2>3. \A u \in Suites : Fits(file'[u])
    BY <1>1, <2>1, <2>2 DEF KeygenTypeOK
  <2> QED
    BY <1>2, <1>4, <2>3, TouchForm
<1>5. CASE (\E r \in Runs : Invoke(r)) \/ (\E s \in Suites : LoadKey(s)) \/ Stop \/ UNCHANGED vars
  <2>1. UNCHANGED <<file, name>>
    BY <1>5 DEF Invoke, LoadKey, Stop, vars
  <2> QED
    BY <1>1, <1>2, <2>1
<1> QED
  BY <1>3, <1>4, <1>5 DEF KeygenNext

\* A file that the witness accepts and that has comments is as it was minted.
LEMMA AcceptedIsMinted ==
    ASSUME KeygenInv, NEW s \in Suites, NEW t \in Suites,
           Accepts(file[t], s), file[t].vkey # NoComment
    PROVE  \E r \in Runs : name[r] = ConfigName /\ file[t] = Minted(r, s, TRUE)
<1>1. file[t] # NoFile /\ file[t] \in SeedFile /\ file[t].private = TRUE /\ file[t].whole = TRUE
  BY DEF Accepts, KeygenInv, KeygenTypeOK, Contents, SeedFile
<1>2. PICK r \in Runs, u \in Suites : file[t].vkey = Vkey(<<r, u>>, u, name[r])
  BY <1>1 DEF KeygenInv, CommentsAreMinted
<1>3. file[t].vkey = Vkey(file[t].seed, s, ConfigName)
  BY DEF Accepts
<1>4. file[t].seed = <<r, u>> /\ u = s /\ name[r] = ConfigName
  BY <1>2, <1>3 DEF Vkey
<1>5. file[t] = [seed |-> file[t].seed, vkey |-> file[t].vkey, private |-> TRUE, whole |-> TRUE]
  BY <1>1 DEF SeedFile
<1> QED
  BY <1>2, <1>4, <1>5 DEF Minted

LEMMA IdentityStep == KeygenInv /\ [KeygenNext]_vars => OwnIdentity'
<1> SUFFICES ASSUME KeygenInv, [KeygenNext]_vars
             PROVE  OwnIdentity'
  OBVIOUS
<1>1. UNCHANGED name
  <2>1. ASSUME NEW r \in Runs, KeygenStep(r) PROVE UNCHANGED name
    BY <2>1, RunStepForm DEF RunForm, KeygenInv
  <2>2. ASSUME NEW s \in Suites, NEW kind, Touch(s, kind) PROVE UNCHANGED name
    BY <2>2 DEF Touch
  <2> QED
    BY <2>1, <2>2 DEF KeygenNext, Invoke, LoadKey, Stop, vars
<1>2. ASSUME UNCHANGED identity
      PROVE  OwnIdentity'
  BY <1>1, <1>2 DEF KeygenInv, OwnIdentity, Minted
<1>3. ASSUME identity' = NoKeys
      PROVE  OwnIdentity'
  BY <1>3 DEF OwnIdentity, NoKeys
<1>4. ASSUME NEW s \in Suites, LoadKey(s)
      PROVE  OwnIdentity'
  <2>1. \/ identity' = NoKeys
        \/ /\ Accepts(file[configured[s]], s)
           /\ identity' = [identity EXCEPT ![s] = file[configured[s]]]
    BY <1>4 DEF LoadKey
  <2>2. configured[s] \in Suites /\ identity \in [Suites -> Contents]
    BY DEF KeygenInv, KeygenTypeOK
  <2>3. ASSUME Accepts(file[configured[s]], s),
               identity' = [identity EXCEPT ![s] = file[configured[s]]]
        PROVE  OwnIdentity'
    <3> SUFFICES ASSUME NEW t \in Suites, identity'[t] # NoFile, identity'[t].vkey # NoComment
                 PROVE  \E r \in Runs : name[r] = ConfigName /\ identity'[t] = Minted(r, t, TRUE)
      BY <1>1 DEF OwnIdentity, Minted
    <3>1. CASE t = s
      BY <2>2, <2>3, <3>1, AcceptedIsMinted
    <3>2. CASE t # s
      BY <2>2, <2>3, <3>2 DEF KeygenInv, OwnIdentity
    <3> QED
      BY <3>1, <3>2
  <2> QED
    BY <1>3, <2>1, <2>3
<1>5. ASSUME NEW r \in Runs, KeygenStep(r)
      PROVE  UNCHANGED identity
  BY <1>5, RunStepForm DEF RunForm, witnessVars, KeygenInv
<1>6. ASSUME NEW s \in Suites, NEW kind, Touch(s, kind)
      PROVE  UNCHANGED identity
  BY <1>6 DEF Touch, witnessVars
<1>7. CASE (\E r \in Runs : Invoke(r)) \/ UNCHANGED vars
  BY <1>2, <1>7 DEF Invoke, vars, witnessVars
<1>8. CASE Stop
  BY <1>3, <1>8 DEF Stop
<1> QED
  BY <1>2, <1>4, <1>5, <1>6, <1>7, <1>8 DEF KeygenNext

-----------------------------------------------------------------------------
(***************************************************************************)
(* The theorems.                                                           *)
(***************************************************************************)

\* The inductive invariant of key generation and loading: who owns which file.
THEOREM KeygenInvariant == KeygenSpec => []KeygenInv
<1>1. KeygenInv /\ [KeygenNext]_vars => KeygenInv'
  BY TypeStep, TouchedStep, WritersStep, SecondStep, NothingStep, CommentsStep, IdentityStep
     DEF KeygenInv
<1> QED
  BY <1>1, KeygenInitInv, PTL DEF KeygenSpec

\* Type correctness; a witness that runs has both of its keys.
THEOREM KeygenTypeCorrect == KeygenSpec => []KeygenTypeOK
<1>1. KeygenInv => KeygenTypeOK
  BY DEF KeygenInv
<1> QED
  BY <1>1, KeygenInvariant, PTL

\* What keygen has printed is there and loads, for any number of racing runs.
THEOREM PrintedIsLoadableHolds == KeygenSpec => []PrintedIsLoadable
<1>1. KeygenInv => PrintedIsLoadable
  <2> SUFFICES ASSUME KeygenInv, NEW r \in Runs, run[r].stage = "printed", r \notin touched,
                      NEW s \in Suites
               PROVE  /\ file[s] # NoFile /\ file[s].seed = <<r, s>>
                      /\ name[r] = ConfigName => Accepts(file[s], s)
    BY DEF PrintedIsLoadable
  <2>1. file[s] = Minted(r, s, TRUE)
    BY DEF KeygenInv, WritersOwn, Wrote
  <2>2. /\ Minted(r, s, TRUE) # NoFile /\ Minted(r, s, TRUE).seed = <<r, s>>
        /\ Minted(r, s, TRUE).vkey = Vkey(<<r, s>>, s, name[r])
    BY MintedIsSeedFile DEF KeygenInv, KeygenTypeOK
  <2>3. Minted(r, s, TRUE).private /\ Minted(r, s, TRUE).whole
    BY DEF Minted
  <2> QED
    BY <2>1, <2>2, <2>3 DEF Accepts
<1> QED
  BY <1>1, KeygenInvariant, PTL

\* A refused run has minted nothing: the pre-flight and create_new together do what
\* the pre-flight alone could not.
THEOREM RefusedMintsNothingHolds == KeygenSpec => []RefusedMintsNothing
<1>1. KeygenInv => RefusedMintsNothing
  BY DEF KeygenInv, NothingLeft, MintedNothing, RefusedMintsNothing
<1> QED
  BY <1>1, KeygenInvariant, PTL

\* The witness runs under nothing but keys that were minted for it, whatever the
\* operator did to the files.
THEOREM OwnIdentityHolds == KeygenSpec => []OwnIdentity
<1>1. KeygenInv => OwnIdentity
  BY DEF KeygenInv
<1> QED
  BY <1>1, KeygenInvariant, PTL

\* No run overwrites what another one or the operator put there.
THEOREM NeverOverwrittenHolds == KeygenSpec => NeverOverwritten
<1> DEFINE Keeps == \A r \in Runs : KeygenStep(r) =>
        \A s \in Suites : file'[s] # file[s] => file[s] \in {NoFile, Minted(r, s, FALSE)}
<1>1. KeygenInv => Keeps
  <2> SUFFICES ASSUME KeygenInv, NEW r \in Runs, KeygenStep(r), NEW t \in Suites,
                      file'[t] # file[t]
               PROVE  file[t] \in {NoFile, Minted(r, t, FALSE)}
    OBVIOUS
  <2>1. r \notin touched
    BY StepsUntouched DEF KeygenInv
  <2>2. PICK s \in Suites : RunForm(r, s)
    BY RunStepForm DEF KeygenInv
  <2>3. At(r, "write", s) => file[s] = Minted(r, s, FALSE)
    BY <2>1 DEF KeygenInv, WritersOwn
  <2>4. (\E c : file' = [file EXCEPT ![s] = c]) => s = t
    BY DEF KeygenInv, KeygenTypeOK
  <2> QED
    BY <2>2, <2>3, <2>4 DEF RunForm, Makes, Finishes, BreaksOff
<1> QED
  BY <1>1, KeygenInvariant, PTL DEF NeverOverwritten
=============================================================================
