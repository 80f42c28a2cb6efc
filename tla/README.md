# A formal model of mosskeys-witness

TLA+ specifications of the witness, TLC configurations that check them on small
instances, and TLAPS proofs for every instance. Paths such as `store.rs` are
relative to the crate's `src/`; the lines each definition stands for are in
`PROJECT.json`.

## 1. The system

`mosskeys-witness` receives checkpoints of transparency logs, checks that each
extends the last one it cosigned for that log, records it in an fsynced
append-only file and answers with two cosignature lines. What it promises above
all (docs/threat-model.md, I1 and I2): it never cosigns two heads of a log that
are in conflict, and it never releases a cosignature that is not on disk.

| Component | State | Operations | Talks to |
|---|---|---|---|
| **State store** (`store.rs`) | the state file and its OS lock; the map of latest states behind one mutex | `open` (lock, replay, torn-tail cut, newline repair), `update` (check, append, fsync, insert), `latest*` | the file system |
| **Witness protocol** (`witness.rs`) | the allowlist (`ArcSwap`), the manual stanzas, two seeds | `from_config`, `add_checkpoint`, `apply_managed_entries` | store, allowlist |
| **HTTP server** (`server.rs`) | permits per endpoint, request timers, the runtime's worker threads | `POST add-checkpoint`, `GET <origin hash>/checkpoint`, `run`, shutdown | witness, poller |
| **Feed sync** (`sync.rs`) | managed file, temp file, ETag cache | `sync_feed`: conditional request, validation, change check, `write_atomic`, `save_etag` | the feed, the file system |
| **Discovery poller** (`discovery.rs`) | none | tick, `sync_feed` on a blocking thread, hot-swap | sync, witness |
| **Configuration** (`config.rs`) | none | `load`, `validate`, merge of manual and managed stanzas | managed file |
| **Request parser** (`witness.rs`) | none | `parse_request` | |
| **Keygen** (`keygen.rs`) | two seed files | `generate`, `load_seed` | the file system, witness startup |
| **Command line** (`main.rs`, `cli.rs`) and **systemd units** | none | exit codes of `sync`; restart on exit 10 | sync, the witness process |

### Behaviours that are hard

* *Threads.* Requests of one process run in parallel; one mutex covers check,
  append, fsync and map. The allowlist is swapped under requests that have
  pinned the old one.
* *Processes.* A second witness may start while the first dies; the poller and
  any number of `sync` processes share three files and no lock; two `keygen` may
  run in one directory.
* *Limits.* A request holds a permit while its body dribbles in, and a worker
  thread while it waits for the mutex; timeout, disconnect, panic and shutdown
  must give both back, and must not cut an update in two.
* *Clients.* They retry what may have been recorded, from sizes that may be
  stale, and race each other.
* *Crashes.* A process may die inside `write_all`; the machine may lose power
  with a record in the page cache only; `write_all` or `sync_all` may fail and
  the process live on; a response may be lost although its record is durable.
* *Stale state.* A 409's size, a cached ETag, a record replayed but never
  synced, "unchanged" decided against a file that another process wrote.

`PROJECT.json` lists these under `hazards`, each at its line, with the
properties that would catch it going wrong.

What makes each component correct: *store*, an acknowledged update survives
everything and nobody acts on an older state; *protocol*, the released heads of
a log form one append-only history, signed for by keys that were trusted;
*monitoring*, its notes belong to that same history and are never behind it; *sync and poller*, the
managed file always holds what the feed served and the running allowlist comes
to follow it, failing closed; *configuration*, manual stanzas always win;
*server*, every complete request is served and no other one changes anything;
*keygen*, what is printed is there and loads, nothing is overwritten, and the
witness runs a seed file that carries its vkey comment as what it was minted for
or not at all (one without the comment is taken for what it is configured as);
*the whole*, a head is cosigned
only under a key that somebody entitled to it named, and honest logs get on.

## 2. Modules

```
StateFile ── Store ──┬── StoreSafety ── StoreProofs
                     │        └── MCStore
Allowlist ───────────┴── Witness ── WitnessSafety (+ StoreSafety) ── WitnessProofs (+ StoreProofs)
    │                                 │  ├── MCWitness
    │                                 │  ├── Rebase ── RebaseProofs, MCRebase
    │                                 │  └── System ── SystemProofs, MCSystem
    │                        AppendOnly │ (refined by WitnessSafety)
    └── Discovery ──────────────────────┘ (instantiated by System)
            ├── DiscoveryProofs
            └── MCDiscovery
Keygen ── KeygenProofs, MCKeygen        Server ── ServerProofs, MCServer
```

**StateFile.** The file is a sequence of lines as the replay loop sees them: a
record (origin and tree head), a line that does not parse or checksum, or one
that is not UTF-8, each with or without its newline. Operators say what an
append does behind an unterminated line (the two fuse), what `replay` accepts,
builds and repairs, and which files a crash may leave (`CrashImages`: the
synced lines, and any prefix of the rest cut anywhere). Encodings, checksum and
the stored note are functions of origin and head and are left out.

**Store.** `Store::open` as `Open`/`OpenRefused`, then `Repair`; `Store::update`
as `Call` (the thread waits for the mutex), `Approve` or `Refuse` (the closure,
mutex taken), `Write`, `Sync` (map insert, mutex given back), `Return`. `Locked`
changes nothing, so it is the absence of a step. `status[i]` is where process
`i` stands, `op[c]` where thread `c` is, `mem[i]` is `Inner::states`. The
closure's decision is open here, so what is proved of the store holds for any
closure. `Faults` turns environment faults on one by one.

**Allowlist.** The merge rule, the same in `config.rs` and `witness.rs`.

**Witness.** `add_checkpoint` over the store. Body, allowlist lookup,
signatures, ST-05 and the clock depend on the body and one pinned snapshot, so
they are one step (`Admit`, or `TurnAway` for each early return, in the order
of the code). `Verdict` is the closure ST-06 to ST-10. `AppendRecord`,
`Release` and `AppendFails` compose with the store's steps; `Reply` writes the
response. `Swap` is `apply_managed_entries`, `Serve` the monitoring `GET`.
History variables: `cosigned`, the heads whose cosignatures a 200 carries, and
`served`, the heads whose stored note was given out. Merkle and signature code
lives in `metamorphic-log` and is external: heads are related by `Consistent`,
and a proof is "valid", "bogus" or "empty" as its verifier finds it.

**AppendOnly.** The abstract specification: a set of published heads per log,
each extending all before it. `ResponsesAppendOnly` and `EverythingAppendOnly`
instantiate it with the heads of the responses, and with those of responses
and monitoring notes together.

**Rebase.** Honest clients of one growing log over the witness. A client submits
its head from the size it believes the witness to be at, and takes the size of a
409 for the next try, or gives way when the witness is past its head. Answers
are lost (`Miss`), the process dies and is started again, appends fail, the state
file is lost, the origin leaves the allowlist and returns. The clients are
external; they do what `tests/conformance/sm.rs` does.

**Discovery.** One pass is one `sync_feed`, in the poller or in a one-shot
process, step by step: `Begin` (file there? ETag read), `NotModified`/`Receive`/
`RequestFails`, `Compare`, `Create`, `Write`, `Rename`, `SaveEtag`, then
`Unchanged`, `Apply` (hot-swap) or `Exit10` (after which the systemd unit
restarts the witness). `scenario` is chosen at the start and never changes: who
runs passes (poller, timer, syncs by hand), what the feed may serve, which
faults there are and how many. `fd` says which file a pass's open handle points
to, because the temp file has one name for all passes. `dirty` and `lasting` are
the disk: `sync_all` makes a content durable, but neither the directory after
the rename nor the ETag file is synced, so `WriteBack` takes each to the disk in
any order or never, and `PowerLoss` brings back what lasts. A managed set is
written by one `write(2)`, it is far below the size at which `write_all` would
split it. A stop by signal lets the poller's running `sync_feed` finish before
the process ends; the model lets it end at any point, which includes that.

**System.** `run`: `Witness` and `Discovery` in one process. `LoadConfig`,
`OpenStore`, `Bind` are its boot, in that order; `HotSwap` is a pass's `Apply` and
the witness's `Swap` in one; `Crash` and `Restart` end both; requests come while
the listener is bound. So the allowlists that `Witness` alone takes from a set of
possible ones are here those that real passes bring.

**Keygen.** `generate` step by step: `Look` for one file, then the other, then
`Create` and `Write` for each suite, `Announce` (the vkeys are printed). Each step
may fail and the process may die at each. The operator acts between runs
(`Touch`). `LoadKey` is `load_seed` for one suite, then for the other, at each start
of the witness, from wherever `witness.toml` leads (`configured`: swapped and
doubled paths too). A seed is who minted it for which suite; a vkey is a
function of seed, suite and name.

**Server.** A request from the moment its headers are in: in line at its
endpoint's gate (`Admit`, first come first), behind it under the timer while its
body arrives, then into its handler in the very poll that finds the body whole
(`Handle`). From there it blocks a worker thread on the store's mutex until it
has its answer. `CanPoll`: everything else, timeouts and disconnects too, needs a
worker that no handler blocks. The store is reduced to its mutex and to
`recorded`. Layers, timers and permits are axum's, tower's and tokio's, as
`router_shared` stacks them.

**StoreSafety, WitnessSafety** hold the properties and the inductive invariants;
**StoreProofs, WitnessProofs, DiscoveryProofs, SystemProofs, KeygenProofs,
ServerProofs** the proofs; **MC\*** the bounded instances. A
definition introduced as "Mutant of D" is a bug that D does not have: put in D's
place, it makes TLC find the property violated.

## 3. Runs

Every passing run is exhaustive within its bounds.

| Run | Question | Bounds |
|---|---|---|
| `store_crash` | Does an acknowledged update survive kills, torn writes, power loss and failing fsyncs, with two processes and threads? | 2 origins, 2 heads, 3 faults, 4 lines |
| `store_disk_full` | Writes fail part-way, fsyncs fail, the process is killed, the file is lost: how much can a file that still opens have lost? | 2 origins, 2 heads, 1 process, 2 threads, 3 faults, 4 lines |
| `witness_crash` | Do the released cosignatures stay one durable history under the same faults, against a log that forks? | empty tree, a chain of two, a fork; 2 processes, 2 requests, 3 faults, 4 lines |
| `witness_protocol` | Every old size, proof and head, the size-0 cases, every rejection; is anything served before it is durable, or after something newer was given out? | 6 heads, 57 bodies, power loss, 2 faults |
| `rebase` | Does an honest log get on, whatever is lost, restarted or raced? Is the size in a 409 one that the witness accepts then? | empty tree and a chain of two, 2 clients, 2 faults, 1 lost answer |
| `discovery` | Do file and allowlist follow a feed that changes, breaks and changes back; under crashes, failing writes, power loss; with poller and timer at once? | 4 kinds of deployment; 3 sets, up to 3 changes, up to 3 faults |
| `system` | Under which keys are heads cosigned when poller, timer, crashes and restarts meet requests in flight? Do monitors keep seeing the latest head of every log, and do revoked keys stop counting? | 2 logs (one pinned), 2 keys, 3 sets, 4 bodies, 1 request, 1 change, 1 fault |
| `keygen` | What do racing, failing and dying keygens and a busy operator leave, and what does the witness make of it? | 3 keygens, 2 names, 2 touches, 2 faults |
| `server` | Do permits, threads and mutex come back from every way a request can end, and does none of them record anything but an answered request? | 3 requests, 2 workers, 1 permit per endpoint |

Why the bounds are enough. Two processes and two threads give every pair of
racing steps; what they race for is one lock, one mutex, one map entry. A torn
tail, a duplicate and a good record behind it need three lines, a fourth gives
one more repair, and in `store_disk_full` room for a record of each origin to fuse.
There one process is enough, no other can have the file open. Two faults are needed for "failed fsync, then power loss", the
third is room for the retry. Four heads hold an empty tree, growth and a fork;
the fork at size 0 and the fork at size 2 are in `witness_protocol`. In
discovery, three changes and three sets let the feed break, change and change
back. Three keygens are two that race and one that comes after; two touches are
needed to swap two files or to remove and replace one. One permit and two
workers are the least at which the gate fills and workers run out; of requests
that differ in nothing but their kind one order is checked (`InOrder`). The
`system` run keeps one request and one fault because it adds the composition
only; the races of requests are in the witness runs, those of passes in
`discovery`. `MaxLines`, `MaxFaults`, `MaxLosses`, `MaxTouches`, a scenario's
`maxFaults` and `maxChanges`, and `Submissions` are the only bounds; `MaxLines` keeps an update from starting that could pass the length,
so nothing that has started is cut off. Symmetry: processes and threads, in
`MCStore` also heads and origins, and the keygens of `MCKeygen` are
interchangeable there; no run with liveness uses it. `CHECK_DEADLOCK FALSE` is set
where the system may stop for good: a witness whose file is not readable, a feed
that has settled, keygens and requests that have all ended.

### What the code does and its documents do not say

Each of these runs ends in a counterexample to a sentence of the repository,
quoted in `PROJECT.json`.

| Run | Shown |
|---|---|
| `witness_short_write` | `write_all` fails part-way (disk full), the process lives on: the next record fuses onto the piece, is answered 200, and is cut off as a torn tail by the next open. The witness then cosigns a fork. Truncating back on a failed append, or refusing to append after one, would close it. |
| `store_torn_tail` | A write torn inside an em dash (every signature line begins with one) is `InvalidData` to `read_line`: the witness does not start, instead of truncating. |
| `witness_published` | A record written by a killed process and never synced is replayed, served by the monitoring endpoint, then lost with the power; another head of that size follows. An fsync in `open` would close it. |

Further disagreements were met while modelling. They have no run of their own;
where a run can show them, the setting that does is named:

* A failed `sync_all` answers 500 with its record in the file, so "nothing was
  persisted for this request" (server.rs:132) does not hold, though retries come
  out right (`SyncFails`).
* A witness that starts on an empty state file has nothing to hold against a fork
  of what it cosigned before: it comes from old size 0. So losing the file can cause
  mis-cosigning, against docs/threat-model.md:217 and config.example.toml:26
  (`MCWitness_shortwrite.cfg` with `LosingSpec` and the faults `kill`, `lose_state`:
  `NoConflict`). What is checked with a lost file, in `rebase`, is that honest logs
  find back.
* "A panic handler returns 500" (docs/threat-model.md:131): `router_shared` has no
  such layer, so a panic ends the connection it happens on and its client gets no
  answer. What holds is that nothing is recorded, and that the other requests are
  served (`Panic` in `Server`; `Served` makes an exception of the request itself).
* A `sync` by hand beside the poller makes the set old news to it, and the
  running witness never takes it (`discovery` with the setup
  `{"poller", "by_hand"}`: `AllowlistFollows` without `Alone`).
* A `sync` that dies between its rename and its exit is followed by syncs that
  all exit 0, so nobody restarts the witness (the setup `{"timer"}` with the
  fault `kill`: `AllowlistFollows`).
* An ETag that could not be saved outlives its set: a feed that changes back is
  answered 304 for a file that says something else, against sync.rs:172 and 375
  (`Following` with the fault `etag_lost`: `NotModifiedMeansCurrent`). A `kill`
  between rename and ETag does the same, which is why `Crashing` has no feed
  changes in `discovery` and in `system`.
* Power loss does it the other way round: the rename is lost, the new ETag is
  not, and the feed answers 304 for the old set until it changes again
  (`GoingDown` without `KeepsPower`: `NotModifiedMeansCurrent` and
  `AllowlistFollows`). An fsync of the directory before `save_etag` would close it.
* All passes share one temp name: two at once may give an empty or mixed file
  the managed file's name (`OneShots = {s1, s2}`, `{"by_hand"}`:
  `ManagedWasOffered`).
* "So a partial identity can never occur" (keygen.rs:148): a failing second file
  leaves one, and keygen then refuses until the operator removes it. What does
  hold is `RefusedMintsNothing`: of a run refused for a file that exists. A
  dangling symbolic link at `mldsa44.seed` would break that too, `exists()` does
  not see it and `create_new` refuses it; links are not modelled.
* A boot reads the two keys one after the other, so a keygen in between may give
  it two identities' halves; each is still one minted for its suite and name
  (`OwnIdentity`).
* A seed file without its vkey comment, copied over the other one, has the witness
  run one seed as both suites, although the two "share no seed material"
  (docs/threat-model.md:79): keygen mints them apart, nothing checks it at start.
  `OwnIdentity` speaks of files that carry their comment.
* "512 concurrent submissions" (server.rs:71): axum gives every route a
  semaphore of its own, so with a name prefix there are two times 512, and as
  many again for the monitoring paths. `Endpoints` models that.
* "draining" (server.rs:300): nothing is drained. Handlers that run come to their
  end as the runtime is dropped, requests in line or half received are cut
  (`Exit`). What holds is that those have changed nothing.

### Fairness

* *Discovery* (`AllowlistFollows`). Weak fairness of `Load` and `Serve`: the service
  manager starts a witness that is down (packaging/docker-compose.yml:24,
  `restart: unless-stopped`). Of `PassStep` for each pass: a request has a
  30-second timeout and everything else is local, so a pass that has begun ends.
  Of `Begin` for the poller (its ticker never stops while it serves) and for
  one-shot passes under the timer, not for those run by hand.
* *Rebase* (`Resyncs`). The process is started again, a thread that can go on does,
  the mutex comes round, and a client that has not succeeded tries again. That
  the origin is on the allowlist for good from some time on is a premise
  (`AllowedForGood`), a state file that is not readable any more an exception.
* *System* (`RevocationTakesHold`). The same as in its parts.
* *Server* (`Served`). Timers fire, tasks that are ready are polled when a worker is
  free, a thread that can take the mutex or finish does. Clients owe nothing:
  they may send half a body for ever. Each request is sent once, so nobody is
  overtaken at the mutex for ever; std's mutex promises no order.

The feed need not change, faults and losses need not happen: they are bounded,
without fairness.

## 4. Proofs

The theorems hold for every set of processes, threads, origins, heads and
requests, for every bound, and any number of faults. Checked by TLAPS with SMT,
Zenon and LS4.

* What rests on the locks alone holds under every fault, short writes, lost files
  and power loss included: types, `MutexHolds`, `GuardHolds`, and the theorems
  that follow from those two. What says that something *survives* assumes
  `DiskHolds`: `Faults` contains neither `short_write` nor `lose_state`. The run
  `witness_short_write` shows that the one cannot be dropped; without the state
  file nothing stands against a fork. Kills at any point, torn writes, power loss
  and failing fsyncs are included there too.
* *Store.* `StoredSurvives` is not inductive: it speaks of what replay makes of
  files that may come. `StoreInv` adds what makes it so. `Settled`: for every
  origin the record of the last acknowledged head is among the durable lines,
  and behind it stand, for that origin, only heads approved later. `Framed`: only
  the last line can lack its newline, and none does while a witness runs, so no
  record ever fuses. `WrittenLast`: between `write_all` and `sync_all` the
  record is the last line. `HoldersOnly`, `OwnersOnly`: mutex and file lock are
  held by who acts. Lemmas about `SettledBy` (append, repair, crash) carry each
  step. From it: `StoredSurvivesHolds`, `RunningIsCurrentHolds`. The part about
  the locks (`MutexInv`) is inductive by itself and needs no disk; from it
  `SingleWriterHolds`, `CheckedStateHoldsAlways`. `AlwaysReopensHolds` needs one
  invariant more, `Replayed`: what `open` has replayed is without junk once it is
  repaired (`RepairedWhole`), and an append keeps it so.
* *Store on a failing disk.* `LosesOneAtMostHolds` says what is left without
  `DiskHolds`: a file that opens lacks the latest record of one origin at most. Its
  invariant `TrailInv` goes by the lines that end (`Whole`): what a running witness
  holds is among them, and only later attempts of that origin stand behind
  (`AppendSettles`: an append continues the last line or comes behind it). A record
  that fused is the one exception (`Trail`), and while it is, the last line is a torn
  tail with its newline; any append behind that makes the file one that replay
  refuses (`AppendReadable`), so a second record is never lost silently.
* *Witness.* `WitnessStoreStep`: every step of the witness is a step of the
  store or leaves it alone, so `MutexInv` and `StoreInv` come for free. `GuardInv`
  holds under every fault: an approved closure still extends what it approved on
  (`ApprovedExtends`, by the mutex), and every head of size 0, wherever it is
  (`HeadsFrom` goes through disk, maps and requests), is the empty tree
  (`RootedHeads`), which is why the skipped consistency check for old size 0 is
  sound: ST-07. From it `ReleasesExtendCurrentHolds`, and
  `ConflictNamesCurrentSizeHolds`: the refusal is decided under the mutex, so the
  map cannot move before the size is read. `WitnessInv` adds, on a disk that holds,
  `CosignedBehind`, the heart: *every* head that a replay may ever show, the
  acknowledged one and the unsettled attempts behind it, extends everything
  cosigned. From it: `NoConflictHolds`, `NeverResumesBehindHolds`, and
  `ResponsesRefine`, the refinement of `AppendOnly`. `CosignedIsDurableHolds`: no
  step of the store takes a durable record away (`DurableKept`).
* *Monitors.* `EverythingRefines` takes what is served into the same history, and
  `NeverServesOlderHolds` says that what is shown extends all that was given out
  before it; the one looks at heads that are new to the public, the other at those
  given again as well. Both follow from `PublishedInvariant`. A
  served head need not be durable, so `CosignedBehind` says nothing of it;
  `PublishedInv` says instead that whatever replays from the lines that stay
  (`Firm`) extends all that was given out. Where only processes die, all lines
  stay, and torn writes and failing fsyncs just add behind them. Where only the
  power fails, the durable lines stay, and nobody ever starts on others: a file
  without a running process is wholly synced then. Both kinds of crash in one
  deployment are excluded, since the theorem would be false
  (`witness_published`).
* Assumptions on constants (`HeadAssumption`): `Consistent` is reflexive and
  transitive, a head extends only smaller heads or itself, and everything that
  is not empty extends the empty tree. That is what RFC 6962 consistency gives
  when SHA-256 does not collide. `HonestAssumption`: a log computes its own tree
  heads right, and an allowlist that has its origin has its key. TLC evaluates
  both in every run that has them.
* *Rebase.* `HonestNeverRefusedHolds`, whatever the clients believe at first, for
  any losses and every fault of the witness. `RebaseInv`: all that the witness
  holds of the log's origin is on the log's one history (`HeadsFrom(LogHeads)`), so
  a proof the log sends from any size it has been told is one the witness can
  check; no client believes the witness past its own goal, so ST-05 never hits it;
  and the key stays on the allowlist with the origin, which rules out 403. The
  witness part of the invariant is `GuardInv`, which makes `RebaseConflictNames` and
  `RebaseReleases` hold of retrying clients as well.
* *Keygen.* `KeygenInv`, in one sentence: the first seed file is the lock on the
  second. `create_new` lets one run make `ed25519.seed`; until the operator acts,
  and he acts only while no run is under way, nobody else gets past it
  (`SecondIsFree`, `OnePastTheFirst`), so what a run has written is its own
  (`WritersOwn`) and a run that is refused later has nothing to leave
  (`NothingLeft`). `CommentsAreMinted` (comments come from keygen alone, a `touch`
  copies or removes them) gives `OwnIdentity`, which is about files that still have
  them, by the vkey check of `load_seed`.
* *Server.* `ServerInv`: types, permits and records at once. `Balance` is the
  argument: every step is to the gate nothing, one request in, or one out, and
  the free permits move the other way; so a permit that is given back always
  fits. No step moves a request that is answered, and only `Finish` records. That
  `Finish` answers in the step it records in is the handler without an await between
  the two; `UnansweredIsUnrecorded` rests on little more than that.
* *Discovery.* `DiscoveryInv`, for any number of passes at once, without a lock,
  and every fault of the model, power loss included. The files may hold a mixture of two sets, or half of
  one, so `OnlyVetted` cannot go by whole sets: `Kept` goes by stanza. What a
  stanza says was served for its origin, in the managed file, in the temp file
  and in what a power loss would leave (`FilesVetted`); `OverwrittenVetted` is the
  lemma that two writers in one file keep that, because what is left behind the
  shorter text is lines of a set that was vetted too. `OpenIsThere` (a file
  somebody has open under its name exists) is what a writer needs before it.
  From it `OnlyVettedHolds`. With the poller alone, or the timer alone
  (`AtMostOneSync`: a systemd unit does not overlap with itself), `AloneInv` gives
  more. The temp file is one pass's own (`TempIsOwn`), so what it renames is its
  own set, whole and synced. From it `ManagedWasOfferedHolds`, and
  `MemoryMatchesFileHolds`, which excludes the one case that breaks it: a `sync`
  killed between its rename and its exit, which nobody answers with a restart.
  `NotModifiedMeansCurrentHolds` needs two exclusions more, each of which TLC shows to
  be needed (section 3): power loss, and kills or lost ETags on a feed that may
  change back (`KeepsTags`). `TagsTrue` is its invariant: the cached ETag, and the one
  of a request under way, stand for what is in the file, except for a pass
  between its rename and its ETag; on a settled feed the only ETag that can be
  answered with a 304 is the feed's own, and a pass stores that one only
  behind the rename.
* *System.* `SystemInv` takes `DiscoveryInv` over as it stands: every step of the
  system is a step of Discovery or leaves its part alone (`DiscoveryKept`), and
  `SystemAssumption` contains what Discovery assumes of its constants. On top of
  it both components see one process and one allowlist (`SystemTypeOK`), and every
  request in the store is `Vouched` for by a set that has been offered: the
  pinned snapshot may be out of date by then, but what was offered stays offered.
  From it `OnlyOfferedCosignedHolds`, with no assumption on the disk.
  `SystemHistory` carries `StoreInv`, `WitnessInv` and `PublishedInv` over on a disk
  that holds, and with them I1 (`SystemNoConflict`), I2 (`SystemCosignedIsDurable`),
  SM-04 (`SystemNeverResumesBehind`), MP-05 (`SystemNeverServesOlder`: also for a log
  that is off the allowlist) and the one history per log of responses and
  notes together (`SystemEverythingRefines`): a step
  of the system is a step of a served request, of a starting process, of the
  end of one (`StopServer`), or beside the witness (`ServiceKinds`), and an end
  takes maps and locks away and nothing from the file. System has no power loss
  in its witness part, so nothing needs to be excluded.

Every safety property that a passing run checks is the subject of a theorem.
`Resyncs`, `Served`, `AllowlistFollows` and `RevocationTakesHold` stay with TLC in any
case: liveness under fairness is out of the prover's reach.

## 5. Not modelled

* Record encoding, checksum and base64; the text of notes and responses; the
  cosignature timestamp (no decision depends on it).
* The request grammar (a body parses or not): sequential string code with a
  conformance test per row. TOML and JSON syntax, vkey parsing, the validation of
  names, addresses and intervals, for the same reason.
* Connections before their headers are in, keep-alive, and what hyper does with
  a response that nobody reads. The poller's blocking task at shutdown (it delays
  `Exit` by at most its timeouts).
* The kernel dropping dirty pages after a failed fsync. In `Keygen`, a new file
  that was synced is taken to keep its name over a power loss, although its
  directory is not synced. Symbolic links; docs/threat-model.md asks for key
  paths that are regular files, which no code checks.
* Packaging, CI and interop drivers: they keep no state of the running system.

## 6. Plan

Done: all modules of section 2, their runs, and the theorems of section 4.
Left, in this order:

1. Proofs: what holds of a managed file when passes run into each other, beyond
   `OnlyVetted`.
2. `Request`: the line grammar of `parse_request` as pure operators against a
   reference definition; `old` sizes at the 64-bit boundary.
3. Connections in `Server`: header timer and keep-alive around the requests.
