# A TLA+ model of falcon-ocr-cpu

falcon-ocr-cpu runs one vision-language model on a CPU and turns page images
into text. The arithmetic of the model is straight-line code with bitwise
tests; what is hard to get right around it is control: pages that overlap,
threads that hand a queue to each other, a spin barrier, drafts that are
verified and rolled back, a file that survives crashes. That control is what
this project models.

Around the program stands a research tree of Python scripts that compare it,
stage by stage, with a GPU reference. Their arithmetic is again out of reach;
what is hard to get right in them is evidence: inputs frozen by hash, builds and
GPU runs that may happen once, records that the next script accepts. That is the
second half of this project.

The source paths below are relative to the repository; the program is the
Rust crate in `src/`, the scripts are in `scripts/` and `research/`.

## 1. The system

| part | state | operations | interacts with |
|---|---|---|---|
| **Page streams** `runner/stream.rs` | `InOrder` (answers waiting, next index), `Emitter` (stopped) | `push`, `pop`, `finish`, `has_pending_error` | every multi-page run; the caller's `on_page` callback, which may answer Break |
| **Continuous batching** `runner/batch/{mod,schedule,rows}.rs` | `Scheduler` (next, active), `Rows` (sessions, rows, alone), room left per page | `admit`, `alone`, `finish`; `Engine::start`, `step`, `finish`, `abandon`; `drive` | the feed, the emitter, the document history |
| **Pipelined feed** `runner/batch/feed.rs` | `Ahead` (queue, running prefill) | `ready`, `take`, `take_alone`, `spawn` | prefetch thread, scoped prefill thread, `drive` |
| **Page pipeline** `runner/pipeline.rs` | the receiver, the page staged ahead | `stage`, `finish_staged`, `read_pages` | prefetch thread, second pool, callback |
| **Decode team** `team.rs` | epoch, job, counters, sleeping flags, the `busy` lock | `enter`, `run`, `worker`, `drop` | the kernels' parallel loops; several calling threads |
| **Thread tuner** `tune.rs`, `DecodeTeam` in `runner/mod.rs` | sizes, samples, choice, limit, report | `select`, `record`, `record_verify`, `limit`, `take_report` | all decode loops of one runner, under one lock |
| **Output and stop ladder** `runner/generate.rs`, `repetition.rs` | tokens, per-period counters, finish reason | `Generation::push`, `RepetitionStop::push` | every decode loop |
| **Plain and speculative decoding** `runner/generate.rs`, `runner/speculate.rs` | next token, KV cache, draft, head rows | `decode_plain`, `decode_speculative` | drafters, draft head, session |
| **Drafters** `draft.rs` | n-gram index of the page, history of the document | `propose`, `push_page`, `continuation`, `clear` | speculation, document history shared by the runner's pages |
| **Run job** `main.rs`, `book/` | the records file, the run's summary | `scan_output`, `open_output`, `Sink::page`, `RunJob::run` | the runner; the file system across crashes |
| **Escalation** `runner/escalate.rs` | loaded near-exact runner, load error | `escalate`, `rerun` | `on_page` of the run job; a second runner |
| Cohorts `runner/cohort.rs` | states, sessions, active rows | fixed-set joint decode | the runner |
| Routing `router/`, `runner/mod.rs` | none (a decision per page) | `plan_route`, `safety_net` | the runner |
| Session and KV cache `model/cache.rs`, `quant/kv*` | layers, length, next position | `append`, `seal_prefix`, `truncate`, `retire_cache` | forward pass, speculation |
| Screened head `head_screen.rs`, panel GEMM `kernels/panels`, kernels, quantization, preprocessing, tokenizer, model files, configuration, command line | immutable after start-up | pure functions | the forward pass |

The experiments of the research tree, each a directory of files, JSON records
and a few scripts run one after the other by hand:

| part | experiments (families) | scripts |
|---|---|---|
| **FP32 crossovers** | layer 7, layer 8, block 0 | prepare, build, run, GPU arm, compare |
| **Downstream windows, telescope** | downstream, prefix/suffix telescope | prepare, native and GPU segments, compare, review; launched once |
| **Operator experiments** | observed partition probe, W2, RMS width 768, GPU rsqrt, RMS scales, CUDA source identity, owned workspace, AOCL build | capture, export, validate, replay, review |
| **BF16 observer** | the observer's two attempts (with fused substages and the roundtrip before them) | export, instrument, assemble, launch |
| **Corpus qualification** | functional regression, official evaluation, CPU corpus snapshot | capture, plan, run, audit, compare |
| **Quantization probes** | scalar, AVX2 and real AVX2 probes | capture, check |
| **Corpus reference run** | reference | one resumable run |
| **Full pages and serving** | official pages, vLLM pages, held-out pages, harness references, exp2 replay | request, finalize, import, score, replay |

Their state is the directory: which files exist, whether whole, and what each
record says of the others. They interact only through it, at the pace of whoever
types the commands: a file may be edited, a script killed, or started twice,
between any two of its steps.

What makes each part correct:

* *Page streams*: order, exactly one answer per page, at most so many pages in
  flight, no page started past a failure the callback has not seen, silence
  after Break.
* *Continuous batching*: no page lost or doubled, rows that never address
  another page's cache, caches released on every way out, a loop that cannot
  spin with nothing to do.
* *Feed and pipeline*: every page gets its own queue entry whatever failed
  before it; a bounded number of prepared pages; threads that cannot wait for
  each other for ever, also when one panics or the callback stops the run.
* *Decode team*: the job on the caller's stack outlives its readers, every task
  runs exactly once before `run` returns, no wake-up is lost.
* *Tuner*: a sample belongs to the size that produced it, nothing unmeasured
  is chosen, the limit holds whenever it came, tuning ends.
* *Stop ladder*: incremental counters equal the rule they implement.
* *Speculation*: the output is token for token that of plain decoding.
* *Drafters*: the incremental indexes answer what a search would.
* *Run job*: no record is lost or doubled by kills, full disks and repairs;
  "ok" means every page is recorded. *Escalation*: one load, whatever fails.
* *Experiments*: what an accepted record says of its inputs is what was really
  read; chains of records never speak of two versions of a file, nor rest on a
  half-written or rejected one; the expensive step runs once per directory; an
  accepted record is never rewritten.

Hard behaviours, all of them listed with their lines under `hazards` in
`PROJECT.json`: out-of-order completion behind an in-order callback, ownership
of a queue that moves between threads, parking against wake-ups, an index read
under a lock and used after it, rollback of a cache, and crashes between two
bytes of a record.

## 2. Modules

| module | models | promise it states or implements |
|---|---|---|
| `PageStream` | nothing in particular: the contract of every multi-page run | abstract specification |
| `Batching` | `Scheduler`, `drive`, `Rows`, `Emitter` | implements `PageStream` with Width = the batch size |
| `BatchingProofs` | | theorems about `Batching` |
| `Prefetch` | `Runner::read_pages` and its bounded queue | shared by the next two |
| `AheadFeed` | `Ahead`, its side thread, the scope around it | |
| `Pipeline` | `recognize_files_pipelined` at batch size 1 | implements `PageStream` with Width = 2 |
| `PrefetchProofs` | | theorems about the queue, `Pipeline` and `AheadFeed` |
| `SpinTeam`, `SpinTeamProofs` | `Team`, its workers, callers and drop | |
| `Tuner`, `TunerMC`, `TunerProofs` | `Tuner`, `DecodeTeam`; the machines of its runs | |
| `Generation` | `Generation`, `RepetitionStop` | |
| `PlainDecode` | `decode_plain` | abstract specification of decoding |
| `Speculation` | `decode_speculative` | implements `PlainDecode` |
| `DecodingProofs` | | theorems about `Generation` and `Speculation` |
| `Drafter`, `DrafterProofs` | `NgramDrafter`, `DocumentHistory` | |
| `OutputFile` | `scan_output`, `open_output`, `record_line` as operators | used by `RunJob` |
| `Escalation` | `Escalation`, as `on_page` drives it | used by `RunJob` |
| `RunJob`, `RunJobProofs` | runs over one records file | relies on the order `PageStream` promises |
| `Evidence` | what a step of a script does to files, records and invocations | the steps of the next eight |
| `Crossover`, `Telescope`, `Operators`, `Observer`, `Corpus`, `Quantization`, `Reference`, `Serving` | the scripts of the families in the table above, as sequences of steps | |
| `Ownership` | nothing: the rule the scripts of a book keep, stated over their text | what `EvidenceProofs` assumes of a book |
| `Outlines` | nothing: what a proof outline of a book is, and when its scripts bear it out | what the theorems about the content of records assume besides |
| `Inference` | nothing: an outline for a given book, found by walking its scripts | gives `EvidenceMC` its outline; nothing rests on it |
| `EvidenceMC` | the book of all 27 families and the scenarios of the run | keeps the rule of `Ownership`, has an outline |
| `EvidenceProofs` | | theorems about every book that keeps the rule, or has an outline besides |

### Batching

`drive` is one thread. An action is a stretch of its code up to the next thing
somebody else decides: whether a prefill is ready, how an engine call ends, what
the callback answers. `pc` is the place in `drive`: `loop`, `admit`, `joint`,
`close` (a finished or failed page leaves its row), `hand` (the emitter pops
and calls back), `returned`. `next` and `active` are the scheduler's fields,
`held` and `emitNext` the emitter's, `sessions`, `row`, `cached`, `alone` and
`history` those of `Rows`. A page's tokens are abstracted to `room`, how many it
may still generate; a step may end any set of pages that includes those whose
room it fills, which stands for stop tokens and loops.

`Stream == INSTANCE PageStream WITH Width <- RowLimit, started <- next` is the
refinement mapping: the other three variables of the contract have the same
names here. A batching step is a Start (admission), a Resolve (a page's result
is pushed), a Deliver (pop and callback) or a stutter.

### AheadFeed and Pipeline

Both extend `Prefetch`: a thread that prepares pages in order, any of which may
fail or panic, and sends them into a queue of capacity PREFETCH; the send fails
once the receiver is gone. In `AheadFeed` the receiver's owner is a variable
(`owner`): it moves into the scoped prefill thread and comes back when that is
joined, or goes with it if it panics. The caller is reduced to what the feed
sees of `drive`; `Batching` has the other half, where `ready` is any Boolean.
In `Pipeline` the receiver is borrowed, and what matters is that one thread at a
time uses it and that it is dropped before the scope waits for the reader.

### SpinTeam

One action per atomic operation of one thread: the three stores before the epoch
bump, the bump, one unpark per sleeping worker, the claim of a task, its run,
the wait; on the other side the epoch load, the stop load, raising the sleeping
flag, the two rechecks, the park and its ways out, the job load, the decrement.
The steps interleave as under sequential consistency. What the code asks for
(`team.rs`): `job`, `next` and `pending` are stored Relaxed before the SeqCst
`epoch.fetch_add`, and a worker reads them after an Acquire load of the new
epoch, so it sees the stores; `pending` goes down with Release and is waited on
with Acquire; the sleeping flag and the epoch recheck, the pair that needs a
total order, are SeqCst; the claim is a Relaxed read-modify-write, which cannot
give out an index twice; `stop` is stored SeqCst, and its Relaxed load in the
spin may be late but is repeated. Orders weaker than an interleaving are not
explored. An unpark token that is set before the park is
taken at once, as `std::thread::park` specifies. The stop recheck before the
park is modelled though it is redundant with that token.

### Tuner

A step's time decides the choice through medians; the model lets any candidate
be the one to keep, which covers every timing, and keeps of a sample only which
team the step really ran on. Row counts, which weigh a sample, and the
candidates a host computes (`auto_candidates`, `pipeline_half`) are left out.
A machine is its list of sizes, the one decoding starts on and the reserve.

### Generation, PlainDecode, Speculation

The model is deterministic, so a page fixes one text, its greedy continuation,
and `PlainDecode` reveals it token by token through `Generation`'s stop ladder.
In `Speculation` the KV cache is the sequence of output tokens it has read; a
row that has read exactly a prefix of the text predicts the text's next token,
and a row that has read anything else predicts an arbitrary token. Drafts are
arbitrary too, and so is when to draft, so the refinement does not depend on
the drafters or on `DraftPolicy`. The trained head is the list of rows it has
read, each with the position its features came from.

### Drafter

Positions are counted from 1 and 0 stands for no entry. The hash maps of the
code are functions over all n-grams; the loop that catches the index up and the
one that pushes a page are actions of their own, one turn each, which lets the
invariant be stated for every state of them.

### OutputFile, Escalation and RunJob

A file is a sequence of pieces: the first part of a record's JSON, the rest of
it, a newline, and NUL in place of any of them after a power loss. Opening the
file is one step: `open_output` truncates or appends a newline, never both, so a
kill inside it leaves one of the two files the model already has. Truncation and
metadata are taken as durable. Byte order marks and cuts inside a UTF-8 sequence
are below the granularity of a piece. One run at a time uses the file. A page in
`BadPages` may fail or not, in each run anew. With `--escalate` a page that is
recognized may need the near-exact model: `nearExact` is the pair of the code's
`runner` and `failed`. Its record counts the same for a later run whether it was
reread or not, so a record's outcome is still text or error.

### Evidence and the experiments

A script is straight-line code over files, so it is data: a sequence of steps
(`Hash`, `Reads`, `Follow` a record's digests, `Same`, `Launch`, `Create`,
`Fill`, ...), each named for the idiom of the scripts it stands for and defined
once in `Evidence` as an action. `Try` and `Bare` mark where a handler is in
force; `Either` and `IfAccepted` are the scripts' own branches. A *family* names
an experiment's files and phases; `kept` are the records its scripts never
replace, `closed` those that say their inputs stayed the same from beginning to
end, `again` the phases made to be run again. An invocation is a process: it has
a phase, the next step, the digests it saw and the versions it read. A file has a
version and is whole or not; equal hashes are equal versions, and an edit makes a
new one.

`Pin`, `Matches`, `Gate` and the like touch only the invocation's own state. They
run before anything else does (`Quiet`), which leaves out only interleavings that
no other step can tell apart.

What the modules do not say, and why the properties are about less than all of
the records:

* a script's own text is loaded before it hashes anything, and only data files
  listed as `editable` are edited; what a script hashes late, after the work, is
  not editable there, or its record is not in `closed`. The former is so for the
  run's records in the official evaluation, the real probe's binary, the scalar
  probe's report, the exp2 replay's capture, the model code and weights of the
  reference run, the build log, binary and test list of a crossover; the latter
  for fused substages, full-page runs, exp2 arguments and the replay as a whole,
  for a crossover's plan, which is written before the last check of the sources
  and of the archive it names (`capture.py:108-124`; `preparation.json`, written
  after it, is closed), and for the report of the owned workspace (`captured`),
  which hashes every file again after its closure check (`Listed`; section 6);
* the replay of that report compares the disk both with the report's digests and
  with those its gates validated (`Validated`), so `replayed` is closed although
  the report it rests on is not;
* a check that only rejects a report covers what the script's own table names:
  everything hashed (`Settle`) or those files (`SettleOn`), as in the GPU phases
  and in `launch_once.py`. The comparisons check again what `execution.json`
  names (`Executed`), which is neither the project nor its archive;
* `launch_once.py` starts the GPU phase as a child with a timeout. Killed alone,
  it leaves a child that does what that phase does when it is started by hand; the
  model ends both at once and has that phase as an invocation of its own beside a
  launcher that was killed;
* reviews and comparisons read only, and are not launches; the phases in `again`
  may be started any number of times up to the scenario's bound;
* scripts that check for their output and then write it (official, reference,
  held-out, harness) are run by one process at a time, because one GPU or one
  output directory serves them; two at once would mix their pages. The same holds
  for AVX2's `check` during its `capture`, so invocations of different phases at
  once (`mixed`) are for block 0 only;
* some digests are known not to be chained: the installed runtime between
  roundtrip and observer, the AOCL compiler, rsqrt's lookup table (hashed twice,
  its copy not compared), the RMS captures' receipt (compared with the binary as
  it is, not with the build record). The model follows the code in each;
* in the reference run the ground truth is hashed before inference and read again
  after; a crash before `run.json` leaves a directory that is neither new nor
  resumable; resuming a finished run sets its `run.json` back to running;
* the layer 8 scripts are the originals of layer 7's, the observer's second
  attempt is the first plus its predecessor; both are run alone only, not twice at once.

## 3. Runs

| run | instance | checks |
|---|---|---|
| `batching` | 5 pages, 3 rows, up to 2 tokens, drafting | types and budget; `EveryPageAccounted`, `NeverIdles`, `ArrivesOnce`, `RowsKeepTheirSession`, `NoCacheLeak`, `AloneDraftsFromAll`; implements `PageStream`; `AnswersEveryPage` |
| `ahead_feed` | 5 pages, PREFETCH 2 | `TakesItsOwn`, `PollingSuffices`, `ScopeReturns` |
| `pipeline` | 5 pages, PREFETCH 2 | `InFlightBound`, `EndsAsItSays`, `RunReturns`; implements `PageStream` |
| `spin_team` | 2 callers, 2 workers, 2 tasks, 2 loops, time-outs, up to 2 tasks that panic on either side | `JobOutlivesWorkersUnlessUnwound`, `LoopIsComplete` (panics included: the poisoned lock keeps later callers out), `LoopsReturn`, `WorkersExit` |
| `spin_team_unwind` | 1 caller, 2 workers, a panic | *violates* `JobOutlivesWorkers` (finding 1) |
| `tuner` | 1 or 2 callers; sizes 3, 4 with reserve 2, or 2, 3, 4; limit 2 | `AloneSamplesRanOnTheirSize`, `ChoiceInForce`, `Settles` |
| `tuner_rayon` | the same | *violates* `SamplesRanOnTheirSize` (finding 2) |
| `generation` | 2 letters and a stop token, 9 tokens, periods 1 and 2 | `StopsExactlyOnLoops`, `EndsForAReason` |
| `speculation` | every text of 5 tokens, drafts of up to 3 | `CacheFollowsOutput`, `HeadReadsItsPositions`; implements `PlainDecode` |
| `run_job` | 2 pages, one of which may fail, 3 runs with any flags, 1 power loss | `OkMeansRecorded`, `OwnOutputAccepted`, `LoadsOnce`, `RecordsStay`, `ResumeAddsMissingOnly` |
| `drafter` | 2 letters, n-grams of 1 and 2, pages of 4, 2 pages before the current one | `DraftsTheLatestMatch` |
| `evidence` | 27 families in 5 scenarios | types, `ClosureIsTrue`, `ChainAgrees`, `LaunchedOnce`, `RecordsStay`; before it starts, the rule of `Ownership` and the outline of every family |

The scenarios of `evidence` bound a behaviour by how many invocations are alive
at once, edits, kills and restarts: (1) every family, one invocation, one edit,
one restart of a phase made to be resumed; (2) two invocations of the same phase
and a kill, for the families that create their outputs exclusively; (3) block 0
with two invocations in any two phases; (4) the official evaluation with a kill
and three restarts; (5) reference, held-out and harness pages with an edit, two
kills and three restarts. The scenarios are not combined: an edit during a race
of two invocations would be caught by the checks of whichever survives, which (1)
covers for each of them. The theorems of `EvidenceProofs` do combine them: there
invocations, edits, kills and restarts are unbounded.

Every property has a mutant in `PROJECT.json`: a plausible bug of the code, as a
second version of one of the model's definitions, under which the run finds the
property violated.

### Bounds

* *Five pages, three rows*: enough for a row to be refilled while two others
  decode, for two answers to wait behind a slow page, for a failure to be held
  with pages left to admit, and for the last page to run alone after all of it.
  The theorems of `BatchingProofs` remove the bound.
* *Five pages, PREFETCH 2* (the code's value): the queue, the reader's hand and
  the second pool are full while a page decodes, and one page is unread.
* *Two workers, two tasks, two loops*: one worker can be late for a loop while
  the other is early for the next; a claim can overshoot; two callers contend.
* *Two tokens per page in `batching`, five in `speculation`*: a page can end at
  its first, a middle and its last token, and a draft can end before, at and
  after each of them. Three drafted tokens leave none, some or all accepted.
* *Nine tokens in `generation`*: both windows (4 and 6) fit, with a broken cycle
  before them.
* *Tuner*: WARMUP, RUN and ROUNDS are 1, so the round is as short as it can be
  and `MaxSteps = 7` counted steps still contain warm-up, a complete round, the
  late reserve and the round after it, for either machine, with the limit at any
  step.
* *Evidence*: an edit, a kill, a rival and a resumption each fall between any two
  steps of every script; the properties relate at most two records and one file,
  so that one edit is enough to make two of them disagree. `TellStep` gives the
  next phase the hashes a command line needs.
* *Panics*: two, one on either side or both on the same.
* *Run job*: three runs allow a cut run, a repair that is cut again and a run
  that succeeds, with a power loss between any two of them.

A run whose behaviours end (a finished page, all runs or invocations used up)
has `CHECK_DEADLOCK FALSE`: `generation`, `speculation`, `run_job`, `evidence`
and `spin_team_unwind`. All the others are checked for deadlock; where the
program returns, an explicit stutter (`Returned`, `Ended`, `Dropped`) says so, and
`SpinsOn` is the caller that spins for ever on a dead worker's decrement.

### Fairness

* `Batching`: weak fairness of `Next`. `drive` is one running thread and every
  engine call returns.
* `AheadFeed`, `Pipeline`: weak fairness per thread. In `AheadFeed` the caller
  only has to keep polling; that its rows ever go idle is *not* assumed after
  page 0, which is what makes `PollingSuffices` worth stating.
* `Evidence`: none, and no liveness: nobody has to type the next command.
* `SpinTeam`: weak fairness per thread; `LoopsReturn` lets a caller off when a
  task has panicked, since nothing promises otherwise. A time-out has none: `LoopsReturn` and
  `WorkersExit` show that the flags and tokens alone suffice and that the
  100 ms of `park_timeout` are the safety net its comment says. A caller need
  not enter, but leaves once it has, and the team is dropped in the end if
  `drop` has begun.
* `Tuner`: a caller goes on decoding, and strong fairness of a plain step: not
  every step verifies a draft, since only single-row steps are timed. `Settles`
  is about one caller at a time. With two callers the model (and the code) lets
  each of them discard the other's samples: a sample counts only if its index is
  still current, and the other's steps move it.

## 4. Proofs

All theorems hold for every value of the constants that satisfies the named
assumptions; none of them is assumed from the runs.

**`BatchingProofs`** (assumption: the counts are naturals, the budget positive).
The inductive invariant is
`TypeOK /\ Control /\ EveryPageAccounted /\ RowsHeld /\ AloneLast`.
`EveryPageAccounted` alone is not inductive: closing a page keeps it only if the
page is active (`Control`: `closing \subseteq active`), and a row's budget stays
natural only if every page that decodes has room for one more token
(`RowsHeld`). `NeverIdles`, the comment behind the code's debug_assert, needs
the reason why the inner loop stopped, so `Control` has a conjunct for it:
at `joint` with nothing active, `next = Pages`. There is one lemma per action or
group of actions (`ControlSteps`, `StartRowInv`, `ClosePageInv`, ...), and
`Inductive == Spec => []IInv`. From it: `TypeCorrect`, `Accounted`,
`NoBusyWait`, `AnswersArriveOnce`, `SessionsStay`, `CachesReleased`,
`AloneIsLast`, and the refinement `Implements == Spec => KeepsStreamPromise`,
which needs the invariant to show that the pages in flight of the contract are
exactly `active`.

**`DecodingProofs`**, *Generation*. The invariant says what the counters count: the newest
`runs[p]` tokens equal the token `p` before them, and the one before those does
not (or is missing). `CountedExact` shows that a push keeps that; then
`StopsOnLoops` and `EndsWithReason`, for every vocabulary, period bound and
window of at least two cycles.

**`DrafterProofs`**. The invariant says that each map holds the latest of the
occurrences it has *seen*: ends up to `indexed` for the page, ends up to `Reach`
for the document, which while a page is being pushed is the position before the
loop's. The interesting step is `PushPage`: the text grows, but no n-gram of
tokens can end at the page boundary or reach across it, because it would contain
the separator, and the one that ended the old text stays out because the
separator follows it. `DraftsWhatASearchWouldFind` follows at the moment of the
answer: the loop is done, so what was seen is everything but the present.

**`PrefetchProofs`** (assumption: PREFETCH is positive) is about the queue and
both its consumers, so that what the queue promises is said once: `QueueInv`,
the entries in the queue are the pages read last, in order, and with it seven
lemmas, of which `ReceiveGivesNext` matters most: a receive returns page
`Received == read - Len(queue)`. The module extends `Pipeline` and `AheadFeed`
together, two systems over the same queue that share nothing else.

* *Pipeline*: `PipeInv` says for each place of the main thread what is staged
  (`PlaceInv`) and that the pages which had their turn, plus the one staged, are
  the pages received (`StageInv`). A thread that runs beside a page is the reason
  why it needs more than the main thread's counters. From it `BoundedAhead`,
  `EndsTruly` and the refinement `PipelineStreams == Spec => KeepsStreamPromise`.
* *AheadFeed*: `TakesItsOwn` is not inductive, since it says nothing of the queue.
  `OwnerInv` says where the queue stands for each owner: at the caller's page for
  the feed and for a side thread that has not received, one page on after that.
  The exception is what makes it true: after a `reader_stopped` the caller's page
  moves on and the queue does not, but then the reader has panicked and the queue
  is empty for ever (`Lost`).

**`SpinTeamProofs`** (assumption: callers and workers are different threads, and
there are finitely many workers, at least one). `IInv` has five parts: types; the lock admits
one caller past `bump` (`LockInv`); `pending` is the number of workers that owe
a decrement, those in the loop and those whose `seen` lags behind the epoch
(`DebtInv`); a worker in the loop holds the job of the current epoch (`JobInv`);
each claimed task below `next` was run once or is held by one thread
(`ClaimInv`). A panic leaves its caller dead and the lock poisoned, which each
part has to survive. `JobOutlives` and `Complete` follow; that `pending` never
wraps is part of `TypeCorrect`.

*Speculation*, in the same module. `PageInv` says that output,
cache, drafted features and head rows are all prefixes of the page's text, with
their lengths tied to the place in `decode_speculative`. The step that needs it
is `Verify`: what the rows of a forward pass predict depends on what they have
read, so a draft that differs from the text leaves no row after it whose
prediction is used. Two sequences that follow the same text to the same length
are equal (`FollowsEqual`), which gives `CacheIsOutput`; `KeepsGreedy` is the
refinement of `PlainDecode`.

**`RunJobProofs`**. `FileInv` says of the records file what the program can have
made of it, whatever runs, kills and power losses came before: every line begins
with a record, as far as the text or a NUL goes (`Clean`). It is kept by the
repair, which cuts only what follows the last newline, by a write that a kill
cuts short at any piece, and by a power loss that turns any tail into NULs.
`JobInv` says what the run in progress relies on: while it writes, the file ends
a line (`Closed`); with `--resume` the pages still to do have no record; and as
long as no page failed, every page has a record or is still to do. `Where(text, p)` is the set of places of page `p`'s
successful records; it only grows in a repair or a write (`RepairedIs`,
`WritingAdds`), so `RecordsAreKept` is a comparison of two cardinalities.
`OkIsRecorded`, `OwnOutputIsAccepted` and `ResumeAddsOnlyMissing` follow.
`LoadedOnce` has an invariant of its own, `LoadsCounted`, which reads the number
of loads off the state of the escalation.

**`TunerProofs`** (assumption: the sizes ascend from above the reserve; limit,
warm-up, rounds are positive; finitely many threads). `AllowedIs` says what
`Tuner::allowed` returns on an ascending list: the candidates within the limit
are the first ones. Its proof needs the least candidate past the limit, and gets
it from the well-foundedness of the naturals (`Least`). `ChoiceInv` bounds the
choice by `Allowed` and not by the limit, because with every candidate above it
the first one is chosen all the same. `AloneInv` says why a lone caller never
falls back to Rayon: nobody else has entered a team, so the team it entered is
the size it selected. `LimitWithReserve` moves every candidate, sample list and
index up by one, which `ReserveFirst` works out.

**`EvidenceProofs`** (assumptions: those of `Ownership` and, for the last two
theorems, of `Outlines`). The book of experiments is a
constant, so a theorem about it must say which books it is about. `Ownership`
states a rule on the text of the scripts, position by position, as a reader would
check it: every launch of a phase stands behind one exclusive creation that no
path goes around (`LaunchesBehind`); every step that writes a record in `kept` is
reached only through a claim on it, and not again after it was filled (`Owned`).
A claim is the creation of a token by `open(path, "x")` or `mkdir`, or, in the
scenarios with one invocation alive, a check that the record is not there. TLC
evaluates the rule for all 27 families when it starts the run `evidence`, so the
theorems hold of this book; the number of invocations, edits, kills and restarts
is free.

`WorldInv` is what holds whatever the scripts do. `HoldsNow` says of an invocation
that it is between its claim on a record and the last step that may write it,
where the handler counts if it may write the record. `RecordHeld` is the
strengthening `TypeOK` and `RecordsStay` need: one invocation holds a record at
most; the token of a record that is held is there, so no other can claim it; a
record that is held does not say ok; and one that does is whole and its token
stays. It is inductive because whoever comes to hold a record by a step saw its
token missing (`ComesToHold`). A handler may write over its own record after the
fill failed to be the last step, but then the invocation is `bad` and the record
says no. `LaunchHeld` is the same argument for the expensive step, with the memory
of a launch in the invocation itself (`launched`), because a phase may launch its
arm many times in one loop. Every step of the scripts is first reduced to two
facts, what it does to its invocation (`Turn`) and to the files (`Effect`), so the
twenty-five actions are gone through once and not once per invariant.

*What accepted records say.* `ChainAgrees` and `ClosureIsTrue` depend on which
digests a script has at hand where it writes a record, and on whose word it has
them. `Outlines` (assumption `OutlineAssumption`) says what has to be known at
each step for them to hold, as a proof outline in the manner of Floyd. A *note*
at a position of a script lists what an invocation there that has found nothing
wrong is sure of: files whose digest it keeps (`has`) or may keep (`may`), files it
may have read (`looked`), records it knows to be accepted (`acc`), and *facts*
`<<f, U, W>>`: no version of `f` under the term `U` is newer than one under `W`,
where a term is the digests kept (`Saw`), the bytes read (`Looks`), the disk,
the first version, what record q claims (`Says(q)`) or what its writer read
(`Used(q)`). Two facts in opposite directions are an equality, and a chain of
checks around an edit is a chain of inequalities that closes: hashed before read,
read before hashed again, both hashes the same. `Follows` says when a step leads
from one note to another, `Lasting` which facts nobody else can undo, `Announces`
what must be known where a record is filled in. They read the text of the
scripts alone, never a state; that the states keep to it is what is proved.
`Inference` finds the outline of the 27 families and TLC evaluates
`OutlineAssumption` for it when the run starts; an error in `Inference` could
only make that fail.

The inductive invariant is `TrueInv`: `WorldInv` and `RecordsInv` from above;
`IdleInv` and `PhaseInv`, an idle invocation remembers nothing, and invocations
alive at once are in one phase unless the scenario is mixed; `BoltInv`, and
`TruthInv`. A *bolt* is a creation that every path to a write of a file passes,
and a *barrier* if an error before it ends the script without a handler:
`BoltHeld` says that at most one invocation is behind it, and from it follows
that a rival cannot change what the one behind it has hashed (`Untouched`).
`TruthInv` has two halves. `Fits`: every invocation that has found nothing wrong
fits one of the notes of its position. `Sound`: every record that says ok tells
what the outline says it tells (`TrueRecord`), rests only on records that are
accepted, whole, on the disk as it names them and in agreement with it, and, if
it claims closure, on what its own phase and theirs read. The two need each
other: what a `Follow` takes from a record is true because the record is
sound, and a record becomes sound at its `Fill` because its writer's note
fits. A step of another invocation keeps both because accepted records stay
(`Spares`, from `RecordsInv`) and facts last. `EvidenceChainAgrees` and
`EvidenceClosureIsTrue` follow. No scenario, number of invocations, edits, kills
or restarts is bounded; what the outline is told of the scenarios is only whether
invocations of an experiment are ever alive together and in different phases.

With these two, every invariant that a passing run checks is a theorem, and so are
the action properties and the refinements. Only model-checked is liveness:
`AnswersEveryPage`, `PollingSuffices`, `ScopeReturns`, `RunReturns`,
`LoopsReturn`, `WorkersExit`, `Settles`. Liveness under fairness and ENABLED are
beyond the prover.

What a recursive definition computes for every input cannot be proved either, and
RECURSIVE operators rule a module out altogether, which is why `Generation` and
`Drafter` state their counters and indexes step by step instead of as recursive
functions, and `RunJob` says of the pages to do that they are enumerated in
order (`InOrder`) instead of filtering the list of inputs.

## 5. Findings

1. **`team.rs`: the job may not outlive its workers.** Comments at lines 120 and
   203 say that `run` does not return before every worker is through with the
   job. The wait is plain code after the caller's own tasks, not a drop guard: a
   task that panics on the calling thread unwinds past it, and a worker then
   loads a job that has left the stack. Run `spin_team_unwind` shows the
   schedule. (The poisoned lock does keep every later caller off the team, and
   without an unwind the job does outlive its workers: `spin_team`.)
2. **`runner/mod.rs`: a Rayon step is recorded as a team's sample.** `tune.rs:200`
   says a sample is a step that ran on `sizes[index]`, but when another caller
   holds the team, `select` keeps the index and falls back to Rayon. Run
   `tuner_rayon` shows it; with one caller at a time it cannot happen (`tuner`).

## 6. What is not modelled

* Cohorts, routing, the session's cache states, the screened head's candidate
  selection, the GEMM partition, output budgets and the resolution of the
  weights: planned, see below.
* The forward pass, attention, GEMM tiles, SIMD, quantization, resampling and
  the draft head's network: floating-point code with bitwise tests, which a
  model checker cannot evaluate. The models take a forward pass as one step that
  may fail.
* Model files, the tokenizer, host detection, tracing, flags and reports:
  read once, no state afterwards.
* A failed spawn in `Team::new` leaves the workers before it running (`team.rs:89`);
  the model starts with a complete team, and no text of the repository promises
  otherwise. A worker's panic leaves `pending` above zero and its caller waiting
  for ever; that is in the model, and no liveness is claimed for it.
* The document history's mutex is held for a page and orders callers of
  `decode_speculative` (`speculate.rs:27`); contention on it is a matter of speed
  only.
* Of the research tree: training, benchmarks, one-shot analyses and the scripts
  that supplement the experiments above, among them `freeze_bf16_local_contract.py`,
  `run_official_evaluation.py`, `fetch_reference.py`, `convert_w8.py`,
  `restore_corpus`, `build_pages.py` and `request_vllm_draftgen.py`. They are
  computation or one pass from input to output.

Read while modelling, and covered by no property:

* the RMS and rsqrt captures accept the executable as it is, whatever their own
  build record says (`capture_width768_intervention.py:119`,
  `capture_gpu_rsqrt_intervention.py:163`);
* `finalize_vllm_reference.py:31` rewrites the report in place: a kill leaves it
  unreadable, and the request script then refuses the directory;
* `build_pages.py`: a resumed build shares its random numbers with the documents
  it skips (lines 158, 325), and a manifest line cut by a kill stops the next run
  at `json.loads` (line 288);
* `request_vllm_draftgen.py:65,90` looks for its output and then writes it;
* `export_owned_workspace.py:287-290` hashes every file again after the closure
  check of lines 279-283 and still reports `source_and_artifact_closure_unchanged`
  (line 293): a file changed in between is reported as it is now, with a status
  that says nothing changed, under the comment "Revalidate captured bytes and
  source pins after every completed mode." (line 277). The tests change a file
  right after its gate only (`test_workspace_observation.py:178-198`). The gates
  in the same report keep the digests that were validated, and
  `replay_observed_partials.py:67-70` compares those with the disk: the difference
  is noticed there, and without that check, or with `captured` in `closed`, TLC
  finds `ClosureIsTrue` violated with one edit;
* a crossover's build runs the binary it copied, to list its tests, before it
  hashes it (`capture.py:203,209` of layer 7). The model reads it there and edits
  no binary: with an edit in between, the list of tests is of another executable
  than `build.json` names;
* `run_official_fullpages.py:104` hashes image and golden record after the page,
  `export_bf16_exp2_replay.py:80` hashes the capture again after checking it.

## 7. Plan

Done, in the order of importance: the ordered stream and batching with proofs;
feed and pipeline; the decode team, panics included; the tuner; the stop ladder
with proofs; speculation against plain decoding; the records file and
escalation; the drafters with proofs; the experiments of the research tree.

Next, modules:

1. `Session`: the cache's states (compact, sealed, split, retired) with append,
   seal, truncate and retire; `Speculation` and `Batching` on top of it instead
   of their abstract caches.
2. `Recognize`: routing, the safety net's reread at the cap and the output
   budget, as one page's way through up to three attempts, in front of
   `Escalation`.
3. `Cohort`: the fixed-set joint decode, as a second implementation of the rows
   that `Batching` drives.
4. `PanelGemm`: the split of rows and panels over threads as a partition of the
   tiles (the one hazard listed without a property), and `Screen`: candidates of
   sound bounds contain the first argmax; both as operators compared with their
   definitions over bounded inputs.
5. `PageSet`: `build_pages.py` with its resumption.

Composition: `Batching` with `AheadFeed` in place of its arbitrary `ready`.

Every safety property that a passing run checks is a theorem; a new module brings
its own.
