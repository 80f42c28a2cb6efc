------------------------------ MODULE StateFile ------------------------------
(***************************************************************************)
(* The witness's append-only state file, line by line (src/src/store.rs).  *)
(*                                                                         *)
(* A line is what the replay loop sees of it.  Its kind is                 *)
(*   "record"   it parses and its checksum matches                         *)
(*   "garbage"  it is UTF-8, but does not parse or checksum                *)
(*   "badutf8"  it is not UTF-8: BufRead::read_line returns InvalidData    *)
(* and it is `ended` when its '\n' is there; only the last line of a file  *)
(* can lack it.  A record is its origin and its tree head: version,        *)
(* checksum, encodings and the stored note follow from those two.          *)
(***************************************************************************)
EXTENDS Naturals, Sequences

CONSTANTS
    Origins,    \* log origins
    Heads,      \* tree heads: a size and a root hash
    NoHead      \* "never cosigned for this origin": None of states.get(origin)

ASSUME NoHeadAssumption == NoHead \notin Heads

HeadOrNone == Heads \union {NoHead}

Record(o, h, ended) == [kind |-> "record", origin |-> o, head |-> h, ended |-> ended]
Junk(kind, ended)   == [kind |-> kind, ended |-> ended]

Line == [kind : {"record"}, origin : Origins, head : Heads, ended : BOOLEAN]
          \union [kind : {"garbage", "badutf8"}, ended : BOOLEAN]

IsRecordOf(line, o) == line.kind = "record" /\ line.origin = o

(***************************************************************************)
(* Appending.  write_all hands over the record and its '\n'; when it fails *)
(* or the process dies in it, a piece of the line stays behind: nothing,   *)
(* a cut in ASCII, a cut inside the three bytes of the em dash that starts *)
(* every signature line of a note, or everything but the '\n'.             *)
(***************************************************************************)
Pieces == {"ascii", "utf8", "all_but_newline"}

Torn(o, h, piece) ==
    CASE piece = "ascii"           -> Junk("garbage", FALSE)
      [] piece = "utf8"            -> Junk("badutf8", FALSE)
      [] piece = "all_but_newline" -> Record(o, h, FALSE)

Unterminated(f) == f # <<>> /\ ~f[Len(f)].ended

\* Bytes written after an unterminated line continue that line: no record
\* followed by a record on one line parses.
Fused(line, rest) ==
    Junk(IF "badutf8" \in {line.kind, rest.kind} THEN "badutf8" ELSE "garbage", rest.ended)

AppendLine(f, line) ==
    IF Unterminated(f) THEN [f EXCEPT ![Len(f)] = Fused(f[Len(f)], line)]
                       ELSE Append(f, line)

(***************************************************************************)
(* Replay.  A garbage line with nothing after it is a torn tail and is     *)
(* cut; any other line that is no record makes the open fail, as Corrupt   *)
(* or, when it is not UTF-8, as Io.  Last record wins.                     *)
(***************************************************************************)
TornTail(f) == f # <<>> /\ f[Len(f)].kind = "garbage"

\* Mutant of Readable: corrupt lines are skipped.
ReadableAlways(f) == TRUE

Readable(f) ==
    \A k \in 1..Len(f) : f[k].kind = "record" \/ (k = Len(f) /\ TornTail(f))

\* Mutant of Repaired: a missing '\n' is not put back.
RepairedByCutting(f) == IF TornTail(f) THEN SubSeq(f, 1, Len(f) - 1) ELSE f

\* Mutant of Repaired: the cut takes the last good record along.
RepairedTooFar(f) == IF TornTail(f) THEN SubSeq(f, 1, Len(f) - 2) ELSE f

\* What a successful open leaves in the file: the torn tail cut off, or the
\* missing '\n' of the last record written.
Repaired(f) ==
    IF TornTail(f) THEN SubSeq(f, 1, Len(f) - 1)
    ELSE IF Unterminated(f) THEN [f EXCEPT ![Len(f)].ended = TRUE]
    ELSE f

\* Mutant of Replays: the first record of an origin wins.
ReplaysFirst(f, m) ==
    \A o \in Origins :
        \/ m[o] = NoHead /\ \A k \in 1..Len(f) : ~IsRecordOf(f[k], o)
        \/ \E k \in 1..Len(f) :
              /\ IsRecordOf(f[k], o) /\ m[o] = f[k].head
              /\ \A j \in 1..k-1 : ~IsRecordOf(f[j], o)

\* m is the map replay builds from f.
Replays(f, m) ==
    \A o \in Origins :
        \/ m[o] = NoHead /\ \A k \in 1..Len(f) : ~IsRecordOf(f[k], o)
        \/ \E k \in 1..Len(f) :
              /\ IsRecordOf(f[k], o) /\ m[o] = f[k].head
              /\ \A j \in k+1..Len(f) : ~IsRecordOf(f[j], o)

(***************************************************************************)
(* Losing power.  The first `synced` lines of the file are durable; of the *)
(* rest any prefix may have reached the disk, cut anywhere in a line.      *)
(***************************************************************************)
Remnants(line) ==
    {Junk("garbage", FALSE), Junk("badutf8", FALSE)}
      \union (IF line.kind = "record" THEN {[line EXCEPT !.ended = FALSE]} ELSE {})

CrashImages(f, synced) ==
    {SubSeq(f, 1, n) : n \in synced..Len(f)}
      \union UNION {{Append(SubSeq(f, 1, n), r) : r \in Remnants(f[n + 1])}
                        : n \in synced..(Len(f) - 1)}
=============================================================================
