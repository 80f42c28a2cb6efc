-------------------------------- MODULE Keygen --------------------------------
(***************************************************************************)
(* Minting and loading the witness's two keys (src/src/keygen.rs): several *)
(* `mosskeys-witness keygen` processes on one directory, the operator who  *)
(* puts things right between them, and a witness that loads what it finds. *)
(*                                                                         *)
(* A seed is the run that minted it and the suite it was minted for; the   *)
(* vkey of a seed names the suite and the witness it is derived for.  A    *)
(* file that was not written to its end has no seed line that decodes to   *)
(* 32 bytes.  fsync of a new file makes its name durable too.              *)
(***************************************************************************)
EXTENDS Naturals

CONSTANTS
    Runs,                   \* keygen processes, in the same --out-dir
    Names, ConfigName,      \* witness names; the one in witness.toml
    Foreign,                \* a seed that no run minted
    NoFile, NoComment,
    Touches,                \* what the operator does to a seed file, of TouchKinds
    MaxTouches,
    Faults,                 \* of {"kill", "power_loss", "disk_full"}
    MaxFaults

ASSUME KeygenAssumption ==
    /\ ConfigName \in Names
    /\ MaxTouches \in Nat /\ MaxFaults \in Nat

Suites == {"ed25519", "mldsa44"}    \* Suite::ALL, minted in this order
Seeds  == (Runs \X Suites) \union {Foreign}
Vkey(seed, suite, witness) == [seed |-> seed, suite |-> suite, name |-> witness]
Vkeys  == [seed : Seeds, suite : Suites, name : Names]

\* `vkey` stands for both comments, of which the vkey includes the name.
SeedFile == [seed : Seeds, vkey : Vkeys \union {NoComment}, private : BOOLEAN, whole : BOOLEAN]
TouchKinds == {"remove", "copy", "chmod", "damage", "edit", "strip"}

ASSUME KeygenValues ==
    NoFile \notin SeedFile /\ NoComment \notin Vkeys /\ Foreign \notin Runs \X Suites

VARIABLES
    file,           \* per suite: its seed file in the directory
    run,            \* per run: where it is in generate
    name,           \* per run: --name; never changes
    configured,     \* per suite: the file that witness.toml leads to; never changes
    witness,        \* "down", "loading" (it has the first key) or "up"
    identity,       \* per suite: what the witness read
    touched,        \* history: the runs that had begun when the operator did something
    touchesLeft, faultsLeft

witnessVars == <<witness, identity>>
operatorVars == <<touched, touchesLeft>>
vars == <<file, run, name, configured, witnessVars, operatorVars, faultsLeft>>

Ended == {"printed", "exists", "failed", "killed"}
Place(stage, s) == [stage |-> stage, suite |-> s]
Contents == SeedFile \union {NoFile}
NoKeys == [s \in Suites |-> NoFile]

KeygenTypeOK ==
    /\ file \in [Suites -> Contents]
    /\ run \in [Runs -> [stage : {"idle", "look", "create", "write", "print"} \union Ended,
                         suite : Suites]]
    /\ name \in [Runs -> Names]
    /\ configured \in [Suites -> Suites]
    /\ witness \in {"down", "loading", "up"}
    /\ identity \in [Suites -> Contents]
    /\ witness # "down" => identity["ed25519"] # NoFile
    /\ witness = "up" => identity["mldsa44"] # NoFile
    /\ touched \subseteq Runs
    /\ touchesLeft \in 0..MaxTouches /\ faultsLeft \in 0..MaxFaults

KeygenInit ==
    /\ file = NoKeys
    /\ run = [r \in Runs |-> Place("idle", "ed25519")]
    /\ name \in [Runs -> Names]
    /\ configured \in [Suites -> Suites]
    /\ witness = "down" /\ identity = NoKeys
    /\ touched = {}
    /\ touchesLeft = MaxTouches /\ faultsLeft = MaxFaults

-----------------------------------------------------------------------------
(***************************************************************************)
(* generate.                                                               *)
(***************************************************************************)
At(r, stage, s) == run[r] = Place(stage, s)
GoTo(r, stage, s) == run' = [run EXCEPT ![r] = Place(stage, s)]
InProgress(r) == run[r].stage \notin Ended \union {"idle"}

Fault(kind) == kind \in Faults /\ faultsLeft > 0 /\ faultsLeft' = faultsLeft - 1

Invoke(r) ==
    /\ At(r, "idle", "ed25519")
    /\ GoTo(r, "look", "ed25519")
    /\ UNCHANGED <<file, name, configured, witnessVars, operatorVars, faultsLeft>>

\* Mutant of Look: only the first file is looked for.
LookOnce(r, s) ==
    /\ At(r, "look", s)
    /\ IF file["ed25519"] # NoFile THEN GoTo(r, "exists", s) ELSE GoTo(r, "create", "ed25519")
    /\ UNCHANGED <<file, name, configured, witnessVars, operatorVars, faultsLeft>>

\* The pre-flight, one path.exists() after the other.
Look(r, s) ==
    /\ At(r, "look", s)
    /\ CASE file[s] # NoFile -> GoTo(r, "exists", s)
         [] file[s] = NoFile /\ s = "ed25519" -> GoTo(r, "look", "mldsa44")
         [] OTHER -> GoTo(r, "create", "ed25519")
    /\ UNCHANGED <<file, name, configured, witnessVars, operatorVars, faultsLeft>>

Minted(r, s, whole) ==
    [seed |-> <<r, s>>, vkey |-> Vkey(<<r, s>>, s, name[r]), private |-> TRUE, whole |-> whole]

\* Mutant of Create: truncate instead of create_new.
CreateTruncates(r, s) ==
    /\ At(r, "create", s)
    /\ file' = [file EXCEPT ![s] = Minted(r, s, FALSE)]
    /\ GoTo(r, "write", s)
    /\ UNCHANGED <<name, configured, witnessVars, operatorVars, faultsLeft>>

\* A key is minted and its file made with create_new and mode 0600.
Create(r, s) ==
    /\ At(r, "create", s)
    /\ IF file[s] = NoFile
          THEN file' = [file EXCEPT ![s] = Minted(r, s, FALSE)] /\ GoTo(r, "write", s)
          ELSE GoTo(r, "exists", s) /\ UNCHANGED file
    /\ UNCHANGED <<name, configured, witnessVars, operatorVars, faultsLeft>>

CreateFails(r, s) ==
    /\ At(r, "create", s) /\ Fault("disk_full")
    /\ GoTo(r, "failed", s)
    /\ UNCHANGED <<file, name, configured, witnessVars, operatorVars>>

\* write_all and sync_all; then the next suite, or the vkeys.
Write(r, s) ==
    /\ At(r, "write", s)
    /\ file' = [file EXCEPT ![s] = Minted(r, s, TRUE)]
    /\ IF s = "ed25519" THEN GoTo(r, "create", "mldsa44") ELSE GoTo(r, "print", s)
    /\ UNCHANGED <<name, configured, witnessVars, operatorVars, faultsLeft>>

\* Mutant of WriteFails: the error is dropped, the run goes on.
WriteFailsUnseen(r, s) ==
    /\ At(r, "write", s) /\ Fault("disk_full")
    /\ \E whole \in BOOLEAN : file' = [file EXCEPT ![s] = Minted(r, s, whole)]
    /\ IF s = "ed25519" THEN GoTo(r, "create", "mldsa44") ELSE GoTo(r, "print", s)
    /\ UNCHANGED <<name, configured, witnessVars, operatorVars>>

\* The file stays, cut short or, if only sync_all failed, whole.
WriteFails(r, s) ==
    /\ At(r, "write", s) /\ Fault("disk_full")
    /\ \E whole \in BOOLEAN : file' = [file EXCEPT ![s] = Minted(r, s, whole)]
    /\ GoTo(r, "failed", s)
    /\ UNCHANGED <<name, configured, witnessVars, operatorVars>>

\* run_keygen prints both vkeys once both files are there.
Announce(r, s) ==
    /\ At(r, "print", s)
    /\ GoTo(r, "printed", s)
    /\ UNCHANGED <<file, name, configured, witnessVars, operatorVars, faultsLeft>>

\* The process ends wherever it is; with the machine, an unsynced file may go too.
Kill(r, s) ==
    /\ InProgress(r) /\ run[r].suite = s
    /\ \/ Fault("kill")
             /\ \E whole \in BOOLEAN : file' = IF At(r, "write", s)
                   THEN [file EXCEPT ![s] = Minted(r, s, whole)] ELSE file
       \/ Fault("power_loss") /\ file' = IF At(r, "write", s)
                   THEN [file EXCEPT ![s] = NoFile] ELSE file
    /\ GoTo(r, "killed", s)
    /\ UNCHANGED <<name, configured, witnessVars, operatorVars>>

KeygenStep(r) ==
    \E s \in Suites :
        \/ Look(r, s)
        \/ Create(r, s) \/ CreateFails(r, s)
        \/ Write(r, s) \/ WriteFails(r, s)
        \/ Announce(r, s)
        \/ Kill(r, s)

-----------------------------------------------------------------------------
(***************************************************************************)
(* The operator, while no keygen runs: a seed file is removed, replaced by *)
(* a copy of the other, opened to the group or closed again, damaged, has  *)
(* its seed line replaced, or its comments removed.                        *)
(***************************************************************************)
Put(s, content) == file' = [file EXCEPT ![s] = content]

Touch(s, kind) ==
    /\ \A r \in Runs : ~InProgress(r)
    /\ kind \in Touches /\ touchesLeft > 0 /\ touchesLeft' = touchesLeft - 1
    /\ file[s] # NoFile
    /\ \/ kind = "remove" /\ Put(s, NoFile)
       \/ kind = "copy"   /\ \E t \in Suites : Put(t, file[s])
       \/ kind = "chmod"  /\ \E private \in BOOLEAN : Put(s, [file[s] EXCEPT !.private = private])
       \/ kind = "damage" /\ Put(s, [file[s] EXCEPT !.whole = FALSE])
       \/ kind = "edit"   /\ Put(s, [file[s] EXCEPT !.seed = Foreign])
       \/ kind = "strip"  /\ Put(s, [file[s] EXCEPT !.vkey = NoComment])
    /\ touched' = touched \union {r \in Runs : run[r].stage # "idle"}
    /\ UNCHANGED <<run, name, configured, witnessVars, faultsLeft>>

-----------------------------------------------------------------------------
(***************************************************************************)
(* from_config: load_seed for the one suite, then for the other.           *)
(***************************************************************************)

\* Mutant of Accepts: the comments are not compared.
AcceptsAnyComment(f, s) == f # NoFile /\ f.private /\ f.whole

Accepts(f, s) ==
    /\ f # NoFile /\ f.private /\ f.whole
    /\ f.vkey \in {NoComment, Vkey(f.seed, s, ConfigName)}

\* Mutant of LoadKey: a key that is refused is gone without.
LoadKeyGoesOn(s) ==
    /\ witness = IF s = "ed25519" THEN "down" ELSE "loading"
    /\ LET f == file[configured[s]] IN
          identity' = IF Accepts(f, s) THEN [identity EXCEPT ![s] = f] ELSE identity
    /\ witness' = IF s = "ed25519" THEN "loading" ELSE "up"
    /\ UNCHANGED <<file, run, name, configured, operatorVars, faultsLeft>>

\* Any error ends the process; it is started again.
LoadKey(s) ==
    /\ witness = IF s = "ed25519" THEN "down" ELSE "loading"
    /\ LET f == file[configured[s]] IN
          IF Accepts(f, s)
             THEN /\ identity' = [identity EXCEPT ![s] = f]
                  /\ witness' = IF s = "ed25519" THEN "loading" ELSE "up"
             ELSE witness' = "down" /\ identity' = NoKeys
    /\ UNCHANGED <<file, run, name, configured, operatorVars, faultsLeft>>

Stop ==
    /\ witness # "down"
    /\ witness' = "down" /\ identity' = NoKeys
    /\ UNCHANGED <<file, run, name, configured, operatorVars, faultsLeft>>

KeygenNext ==
    \/ \E r \in Runs : Invoke(r) \/ KeygenStep(r)
    \/ \E s \in Suites : LoadKey(s) \/ \E kind \in TouchKinds : Touch(s, kind)
    \/ Stop

KeygenSpec == KeygenInit /\ [][KeygenNext]_vars

-----------------------------------------------------------------------------
(***************************************************************************)
(* Properties.                                                             *)
(***************************************************************************)

\* CS-08 and CS-09, "what you register is what the witness will sign with": until
\* the operator does something, the files of a run that has printed its vkeys hold
\* its very seeds, and load under its name, whatever other runs raced it, failed or
\* died before and after.
PrintedIsLoadable ==
    \A r \in Runs : run[r].stage = "printed" /\ r \notin touched =>
        \A s \in Suites :
            /\ file[s] # NoFile /\ file[s].seed = <<r, s>>
            /\ name[r] = ConfigName => Accepts(file[s], s)

\* "So a partial identity (one suite written, the other refused) can never occur":
\* of a run that is refused because a file exists, no seed is anywhere, although
\* the pre-flight and the two creations are five steps that other runs fall between.
RefusedMintsNothing ==
    \A r \in Runs : run[r].stage = "exists" =>
        \A s \in Suites : file[s] # NoFile => file[s].seed \notin {r} \X Suites

\* T8 and I4: a seed file that carries its vkey comment is only ever run as what keygen
\* minted it for: not as the other suite, under another name, or with a seed that somebody
\* has put in its place, wherever the paths lead.  A file without the comment is taken
\* for what it is configured as, since load_seed has nothing to hold it against: an
\* operator who strips both comments may run one seed as both suites.
OwnIdentity ==
    \A s \in Suites : identity[s] # NoFile /\ identity[s].vkey # NoComment =>
        \E r \in Runs : name[r] = ConfigName /\ identity[s] = Minted(r, s, TRUE)

\* T2, "existing seed files are never overwritten": no step of a run changes a file
\* that holds anything but what this run has made itself.
NeverOverwritten ==
    [][\A r \in Runs : KeygenStep(r) =>
          \A s \in Suites : file'[s] # file[s] => file[s] \in {NoFile, Minted(r, s, FALSE)}]_vars
=============================================================================
