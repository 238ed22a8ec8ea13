# fast-llm in TLA+

A verification development for fast-llm, an inference engine for one kind of
language model that runs a decode step as a graph of small tasks on two engines
at once: a pool of CPU threads and a persistent GPU kernel. Both take tasks from
lock-free queues in unified memory, count down the dependencies of the tasks
they feed, and publish what becomes ready. The modules here model that core,
the decoder and the speculative loop on top of it, the dot kernels below it, and
the caches, controllers and clocks around it. TLC checks them on small
instances, and TLAPS proves the main invariants for all instances. Paths are
relative to the repository.

## 1. Inventory

| part | state | operations | correct when |
|---|---|---|---|
| ready queue (`src/runtime/queue.h`) | cells (seq, val), `head`, `tail`: 32-bit words | `push`, `pop`, `pop_bulk`, `pop_bulk_light` | a bounded FIFO: nothing lost, duplicated or overwritten; "empty" and "full" are honest |
| task graph (`src/runtime/graph.cpp`) | task table, consumer arrays, `dep_init`, terminal | `add`, `edge`, `freeze`, `run_serial` | acyclic, one sink, `dep_init` counts every entry that leads to a task |
| runtime, host (`src/runtime/runtime.cpp`) | `RtShared` control words, life cycle | `start`, `run`, `stop` | every task once, after its producers; returns; leaves nothing behind |
| CPU workers (`runtime.cpp`) | position in the loop, ring cursor, the task in hand | poll q[2], q[1], steal, execute, decrement, publish, park | as above; never a codebook dot while there is a GPU |
| GPU executor (`src/runtime/gpu_exec.cu`) | one batch per block, peer cursor | bulk-poll q[3], own ring or q[0], peers, q[1]; execute, merge consumers, decrement, publish | as above; never a decode op |
| parking (`runtime.cpp`) | `mu_`, `cv_`, `wake_gen_`, `active`, `run_flag` | wait, notify | no lost wake-up |
| decoder (`src/model/decoder.cpp`) | graphs for 1..16 positions, KV cache, `n_past` | build, `step_batch`, `rewind_to`, `reset` | a batch equals the steps one by one; stale KV rows are never read |
| speculative loop (`tools/decode_main.cpp`) | output, next token, KV position | draft, verify, accept, rewind, truncate | emits what greedy decoding emits |
| suffix index, controller (`src/spec/`) | token stream, gram chains; latency and acceptance estimates | `push`, `draft`; `choose`, `observe` | a draft continues a prior occurrence of the tail; lengths stay in range |
| certified head (`src/model/head_cert.h`) | quantised head, bounds | `init`, `argmax` | the exact argmax, lowest id on ties |
| shadow weights (`src/runtime/shadow.cpp`) | span table, cache file | register, find, build, load, save | a span resolves to its own tensor; a partial file is not used |
| model files (`src/model/gguf.cpp`) | mapped file, tensor table | parse | - |
| kernels and formats (`src/runtime/kernels.h`, `kernels_gpu.h`, `quants.h`) | none | dots per format, appendix, instruction set and number of columns; their dispatch | every product of a row and a column is added once; an optimised kernel keeps the bits of the plain one |
| clock calibration (`gpu_exec.cu`) | mailbox of `RtShared`, samples | ping, stamp, pong, median | a stamp is matched with its own ping |
| arena, atomics, tables, benchmarks | - | - | - |

How they interact. The decoder builds graphs once and calls `Runtime::run` for
every step. `run` resets `dep_count`, publishes the roots, sets `active` and
waits. Agents (workers and blocks) never talk to each other: they share the
queues, `dep_count` of each task, `done_flag` and `n_done`. The agent whose
atomic subtraction brings a `dep_count` to zero pushes the task into the queue
its routing names. A dot task is a tile of rows: which kernel computes it depends
on the engine that took it, the format and the process's settings, so the bits
of a result must not depend on who was faster. The host returns when the terminal has been executed *and*
`n_done` has reached the number of tasks. `stop` drops `run_flag`, which every
loop and every push retry looks at. The tool drives the decoder with drafts
from the suffix index, as many tokens as the controller asks for, and rewinds the
KV cache; after each pass the certified head may stand in for the logits of the
graph. Shadows are built or mapped before the first step, by every process for
itself, over one cache file that all processes share.

What is hard. Several engines race for a queue word, for a steal and for the
last decrement of a task. A GPU block subtracts for a whole batch at once. The
reset of a run uses plain stores while blocks keep polling. A push can meet a
full ring whose consumers may be pushing themselves, while `stop` arrives. A
worker may go to sleep while a run opens. A tile may end in an odd row, start in the
middle of a row pair or have more columns than a kernel's registers. A writer of
the cache may crash, or run out of disk, between any two writes, and others may write
it at the same time. `PROJECT.json` lists the hazards with
their lines and the properties aimed at them.

## 2. Modules

| module | models | abstraction |
|---|---|---|
| `TaskGraph` | frozen graphs, as constants with the assumptions `add`, `edge` and `freeze` establish | consumer arrays are kept as arrays: an entry may be repeated |
| `GraphExecution` | what `Runtime::run` promises: each task once, after its producers, return when all are done | abstract specification |
| `Runtime` | host, workers and GPU blocks on the shared queues or on private rings, stealing, teardown, restart | a queue is a bag of task ids whose pop takes any element; executing a batch is one step |
| `MCRuntime` | small graphs for `Runtime` | - |
| `TaskFifo` | a bounded FIFO with a hand per consumer | abstract specification |
| `TaskQueue` | `queue.h`, one step per access to a shared word, counters modulo `Modulus` | sequentially consistent memory |
| `ParkWake` | worker parking against `run` and `stop`, load by load | what a run does is left open |
| `GreedyDecode` | what a generation promises: the model's answer to the prompt and the tokens before, `-n` times | abstract specification |
| `GraphBuild` | `add`, `edge` and the helpers `dep_edge`, `fan_in`, `add_op`, `add_dot` as operators on a graph | sizes and pointers |
| `DecodeScript` | the calls `build_graph_m` makes, in order, with the buffers each task reads and writes | buffers are names; weights are left out |
| `DecodeGraph` | building, `freeze`, `run_serial` over several passes | executing a task is one step |
| `MCDecodeGraph` | six batches for `DecodeGraph` | - |
| `SpecDecode` | `run_once` of the decode tool over `step_batch`, `rewind_to`, `reset`: prefill in chunks, plain loop, speculative loop, margin gate, repeated generations | a pass over the graph is one step; the drafter may propose anything |
| `MCSpecDecode` | prompts and an irregular answer function for `SpecDecode` | - |
| `QuantLayout` | the weight formats, activation appendices and scalar dots of `quants.h`, the builder of appendices | a number is the bits it is unpacked from |
| `ShadowLayout` | bytes of a shadow, the builder threads, the span registry | the same |
| `CpuDot`, `GpuDot` | every dot kernel of the CPU and the device, the vector attention head, the column split | a kernel is the sequence of its fused multiply-adds |
| `TileExecution` | `exec_task_cpu`, `exec_task_block`, `exec_task_scalar` over these kernels, tile by tile | the settings of a process are a record |
| `MCTileExecution` | environments for `TileExecution` | - |
| `SuffixDraft` | `suffix_index.h`: gram chains, the longest match, the draft | tokens of a small vocabulary, any hash |
| `SpecController` | `spec_controller.h`, with drafter and passes as its environment | doubles are rationals |
| `HeadCert` | `init` and `argmax` of `head_cert.h` | small integers, any rounding within the margin |
| `ShadowCache` | `fl_shadow_init` in several processes at once and their one cache file, with crashes and short writes | a file is a sequence of units |
| `MCShadowCache` | models of equal and of different keys, a bound on the starts | - |
| `Calibration` | the clock calibration mailbox, with restarts | clocks are integers |
| `MCParts` | one run for `TileExecution`, `SuffixDraft`, `HeadCert`, `ShadowCache` and `DecodeGraph` | - |
| `MCHandshakes` | one run for `ParkWake`, `Calibration` and `SpecController` | - |
| `RuntimeProofs`, `TaskQueueProofs`, `HandshakeProofs` (of `ParkWake` and `Calibration`), `ShadowCacheProofs`, `SpecDecodeProofs`, `DraftAndHeadProofs` (of `SuffixDraft` and `HeadCert`), `DecodeGraphProofs` and, on top of it, `DecodeOrderProofs` | theorems and proofs | - |

The pieces fit as follows. `TaskQueue` justifies the queues of `Runtime`: a
push and a pop are single steps there, and a pop may miss a value whose push has
taken its position and not published it yet (`MayMiss`). `ParkWake` justifies
the action `Wake` of `Runtime`: a parked worker comes back when `active` is set
or the latch is dropped.

### Runtime: state and actions

`graph`, `dep`, `nDone`, `doneFlag`, `active`, `runFlag`, `noSteal` are the words
of `RtShared` and `Task::dep_count`. `q[x][t]` counts task `t` in queue `x`:
0..3 are `RtShared::q`, `4 + b` is the ring of block `b`. For an agent, `held` is
the batch in its hands, `rem` the consumer entries it still has to deliver, `pub`
the consumer it has found ready and not pushed yet, `rr` and `sweep` its ring
cursor. `execs` and `counted` are history.

- Host: `BeginRun` is the reset; `Open`, `PublishRoot` (one root per step, in id
  order), `AwaitDone`, `Close` follow `run` line by line. `Start`, `Stop`, `Join`
  are `start` and the two halves of `stop`; a second thread may stop during a
  run where `Teardown` is set.
- Worker: `Top` (latch), `Look` (`active`), `WorkerPop` on q[2] and q[1],
  `WorkerSteal` from q[0] or `WorkerStealRing`, then `Exec`, `Signal`,
  `WorkerNotify` (consumer array in order, one subtraction per entry), `Push`,
  `Count`; `WorkerBail` is the early return of `exec_and_publish` on teardown.
- Block: `Top`, q[3], its own queue, `BlockPeers`, q[1]; bulk pops of up to
  `GpuBatch`; `BlockNotify` subtracts once per distinct consumer what the whole
  batch owes it; `BlockBail` drops one publication and goes on.

The merge of a batch's consumers into (consumer, count) pairs keeps the order of
first occurrence in the code; the model lets the block deliver them in any order,
which includes that one.

### DecodeGraph: state and actions

`Build` makes the next call of the script: it adds the tasks (one per tile for a
dot), resolves the names it depends on to ids (`sigs`), and draws edges through
relay trees (`ports` in `graph`). `FreezePop` is one round of the loop of `freeze`
with its stack, `Execute` one round of `run_serial`. `before` holds the transitive
dependencies, computed along the way because ids are not topological (relays get
the newest id). A buffer is named after what it holds, its layer and position;
`dirty` is what has been written since it was cleared, `right` the tasks of a pass
that found their inputs computed and, for dots, which add to their output, their
output clear.

The runtime may execute a frozen graph in any order `InputsReady` allows.
`RaceFree` says that every such order computes the same, which is what lets
`SpecDecode` treat a pass as one step.

### SpecDecode: state and actions

`nPast` is `n_past_`; `kv[r]` is the sequence of tokens row `r` was computed from.
Rows are overwritten and never cleared, so those at or above `nPast` hold what
rejected drafts and earlier generations left. A pass (`StepBatch`) writes its
rows and answers each position from the rows up to it: with `Answer` if they
belong together (`Coherent`), with `Garbage` if not, with anything if one of them
is `blurred`, that is computed by fewer experts (`FASTLLM_APPROX_K`, positions
`Intermediate`). `Emit`, `Verify`, `Judge`, `Accept`, `Settle` are the body of the
speculative loop in its order; `low` are the positions whose margin is at most
`--approx-verify-tau`. The verify pass considers every draft of at most `SpecMax`
tokens, hence whatever the suffix index finds and whatever length the controller
asks for.

### Kernels: what a dot is, and when two are equal

A weight is a scale and a code, each named by the bits of the block they are
unpacked from; an activation by its column and the appendix block whose scale
multiplies it. An integer sum is exact and has no order: it is a set of products.
A float accumulation keeps its order: per accumulator, the chain of its fused
multiply-adds, and the tree that adds the accumulators. Two kernels are bitwise
equal when tree and chains are the same, and a kernel is exact when its chains
hold every product of the row and the column once and nothing else. Both are
facts about the order of the code, not about rounding: where the code associates
a factor differently the steps differ.

A behaviour of `TileExecution` fixes an environment in `Init` (engine,
instruction set, settings, format, shape, shadow) and executes the matrix tile
by tile, of any sizes; `y` records for every element the kernel, row and column
that made it. The loops over lanes, pairs, chunks and columns are in the kernels;
the early returns and fallbacks of the dispatch decide which of them runs.
`Spans` and `ShadowRow` are the registry and its binary search, so an expert of
odd height that starts in the middle of a row pair is looked up as the code does.

### The parts around the decoder

- `SuffixDraft`: `push` indexes the gram that ends at the new token; `draft` is
  the walk along a chain of at most `chain_cap_` ends, with the comparison of each
  gram, the extension backwards and the minimum match. `GramHash` maps eight
  grams to three values, so chains hold foreign grams.
- `SpecController`: a round is `choose`, a draft of at most that length, and
  `observe` with any accepted part and either pass time. `alpha_` counts
  fiftieths, averages round down, rates are compared exactly. `steady` is the
  environment (from now on drafts are accepted and cost nothing extra), `byRate`
  says the last draft was chosen by its rate and not by a forced probe.
- `HeadCert`: a problem gives rows, activations, a hint, and what the engine's
  int8 arithmetic adds to each dot, at most the margin. `CertPrepare` computes
  norms, rounded up, and anchors; `CertArgmax` evaluates anchors and hint and then
  whatever the bounds do not rule out, in the order of the code.
- `ShadowCache`: a process is at a step of `fl_shadow_init`, with an open file and its
  position in it, or with a mapping; any number of processes may be at any steps.
  `cache_path` and `cache_tmp` name inodes. `OpenTmp` empties the temporary file even
  under another writer, who goes on at its old position and leaves a hole; a write
  of a unit may fall short, which nobody checks; `PublishCache` renames what has the
  temporary name by then, or nothing; `Exit` is a crash or an ordinary exit at any
  step. A mapping or an open file keeps its inode when the name moves on. The header and
  the entries are one unit each, the payload one or more. `mixed` is history: the
  inodes that two processes had open for writing at once.
- `Calibration`: host and kernel thread alternate over `calib_ping` and
  `calib_pong`, each access a step; every reading of the clock moves it by
  `1..MaxTick`. `HostStart` is `start` up to the launch of the kernel, which `BeginCalibration`
  does after resetting the mailbox; `HostStop` ends the run so that a second
  calibration finds what the first left.

### Faulty variants

Operators marked *faulty* are never used by the specifications. Each replaces
one mapped definition by what a plausible bug would make of it, and shows that
the property named beside it in `PROJECT.json` would notice.

## 3. Runs

| run | instance | question | distinct states |
|---|---|---|---|
| `task_queue` | 2 pushers, 2 poppers, 2 cells, 3 pushes, words modulo 16 starting at 14, both fence modes | is the queue a FIFO with honest answers? | 201,772 |
| `runtime_shared` | 2 workers, 1 block, batches of 2, 2 runs of 2 graphs, 2 starts, with and without stealing | do runs execute their graphs and leave nothing behind? | 79,436 |
| `runtime_rings` | 1 worker, 2 blocks with rings of 2 cells, chunks of 3 ids, `stop` at any time | does anybody get stuck on full rings or on teardown? | 287,360 |
| `handshakes` | one per behaviour: 2 workers, 3 runs, 2 spurious wake-ups, `stop` at any time; the calibration; the controller | is a wake-up ever lost, a stamp stale, a wait endless? | 163,078 |
| `spec_decode` | prompt of 4, 4 tokens, drafts of up to 2, caches of 5 and 9 rows, 2 generations, every mode | is speculation lossless, over stale rows too? | 302,911 |
| `parts` | one part per behaviour, see below | do kernels, drafts, certified head and shadow cache keep their promises, and is a decode graph legal, race-free and repeatable? | 1,056,301 |
| `runtime_no_steal` | 1 worker, no GPU, `FASTLLM_NO_STEAL=1` | violated: `run` does not return | - |
| `queue_sizing` | 6 tasks, queues of 2 cells | violated: a push meets a full queue | - |
| `spec_gate` | prompt of 2, 5 tokens, drafts of up to 3, margin gate on | violated: a token is emitted twice | - |
| `spec_kv_full` | prompt of 2, 4 tokens, drafts of up to 3, 6 rows | violated: `--spec on` aborts | - |
| `codebook_cpu_only` | the environments of `parts` | violated: a codebook dot is zero | - |
| `shadow_writers` | 2 processes, 1 model, 3 starts, both layouts | violated: a cache of one layout is mapped as the other | - |

Why these bounds are enough to meet the interesting cases. Three pushes on two
cells fill the queue, wrap the cells and carry the words past zero (positions 14, 15,
0 modulo 16); two threads on each side lose races for both cursors. The graph
"step" has the shape of a decode step: a root op, three dots that route to q[3],
q[0] and q[1], a merge that is listed twice by one of its producers, and a
terminal; "single" has another size, so that a task surviving a run would be
read in the wrong graph. A batch of two makes a block subtract two entries at
once. With rings of two cells and chunks of three ids, "roots" makes the host
meet a full ring and "fan" makes an agent meet one. Two starts make the second
run follow a restart. Three runs let a worker that went to sleep in one window
meet the next two openings.

With drafts of up to two tokens a pass rejects all, some or none of its draft, the
gate can distrust position 1, and the last pass can accept past `-n`; four tokens
allow three passes, so rows of one rejected draft are overwritten by the next and
rejected again. The prompt of four is prefilled in chunks of three and one. Nine
rows are exactly `Room`, the least a speculative generation may need; five make
every mode abort. The second generation runs over the rows of the first, whose
tail differs from draft to draft.

`parts` checks five components that share no state, `handshakes` three. `active` and
`part`, chosen in `Init`, say which one moves; the variables of the others keep
their first value, so the state spaces add up. The instances of `parts`:

- Tiles: matrices of 5 rows in tiles of 1 to 3, so that odd tails and half pairs
  occur; on the device also 70 rows in tiles of 6, 64 and 70, on both sides of the
  column split's limit. Widths are the least with something to lose: 36 and 37
  floats (a remainder of the vector loop), nine blocks of 32 (an odd one), one to
  three superblocks. One to four columns: the multi-column kernels take two at a
  time and leave one. Two experts of five rows put the second in the middle of a
  pair. Every format, instruction set and switch that reaches a different kernel
  is among the environments; `kSmmlaScratchBytes` and `kMaxActBlocks` are small
  enough that both fallbacks happen.
- Drafts: all streams of up to 8 tokens over 2 tokens, a chain cap of 4; a match may
  overlap the tail, reach the start of the stream, or lie beyond the cap.
- Certified head: 3 rows of 4 columns in 2 segments, with equal and opposite rows,
  ties inside and outside the anchors, every hint, 1 to 3 anchors, and roundings up
  to the margin of 1 logit.
- Cache: 2 processes and 3 models, two of which have the same key and different weights
  and the third the same size and odd rows, both layouts and all modes. Three starts, with
  crashes between them (`MaxInits`): two that initialise together and one that
  finds what they left, or one after another.
- Decode graphs: batches of 1, 2 and 3, dense and expert layers, multi-column dots,
  barrier, truncated experts, certified head, 2 passes. A graph is built the same way
  every time, so there is one behaviour per configuration, and the interest lies in
  the configurations: a batch of three has a first, an intermediate and a last position;
  two layers hand over the residual stream; a weight has one, two or three tiles; with
  three experts, three tiles and the barrier one signal has 54 consumers, which fills
  the leaves of a first trunk and chains a second; seven heads make the appends' signal
  overflow. The second pass finds the buffers as the first left them.

And those of `handshakes`:

- Pool: see above.
- Controller: drafts of up to 2, a forced probe after 2 rounds, two pass times:
  enough for the acceptance estimate to sink to its lower clamp and for latencies
  that make drafting look worthless until a probe says otherwise.
- Calibration: 3 rounds, 2 starts, a clock that advances by 1 or 2.

`Runtime.tla` bounds `runs` and `starts` only; `TaskQueue.tla` bounds `pushes`;
`ParkWake.tla` bounds `runs` and `spurious`; `SpecDecode.tla` bounds `reps`; `DecodeGraph.tla`
bounds `passes`; `SuffixDraft.tla` bounds the stream (`MaxStream`); `Calibration.tla` bounds
`starts` and the clock's steps (`MaxTick`); `MCShadowCache.tla` bounds the starts of
processes (`MaxInits`); `ShadowCache.tla` itself bounds nothing. Deadlock checking is off in all
runs: once these bounds are used up, or after `stop`, nothing more is obliged to
happen. What must happen is stated as liveness instead.

Fairness. Threads are preempted and rescheduled by the operating system, so
each worker and the host's steps inside `run` and `stop` are weakly fair. The
launched GPU grid is clamped to the number of blocks that are resident together
(`gpu_start`), so each block is weakly fair too. No fairness is assumed of the
calls `start`, `run`, `stop` nor of a single branch of an agent: an agent that
polls forever has met its obligation. `SpecDecode` is the main thread alone and
weakly fair as a whole: a pass returns because `run` does (`RunReturns`). In
`SpecController` the generation goes on (`CtlFairness`), in `Calibration` the host's
thread and the launched calibration kernel both run (`CalFairness`). In
`ParkWake` the spin before parking is
bounded by time, so leaving it is part of the worker's weak fairness.

### What the violations say

- `runtime_no_steal`: `fastllm.h` promises that with `gpu_enabled = false` the
  "CPU executes GPU-affine work too", and `fl_task_queue` relies on it ("CPU steals
  it"). `FASTLLM_NO_STEAL=1` switches the steal off without looking at the GPU, so
  such a task stays in q[0] and `run` ends in its 60 s abort.
- `queue_sizing`: `queue.h` says the capacity is "sized >= n_tasks at Runtime
  creation, so push never blocks in steady state". It is the constant 65536. The
  push retry makes this harmless while some agent is free to pop.

- `spec_gate`: the comment at the speculative loop says that at its head `next_tok`
  "is emitted but not yet fed" (that is: about to be emitted, not fed). After a
  truncation `next_tok` is the last accepted draft, already emitted; the loop emits
  it a second time. It is then fed once, so from here on the KV rows lack a token
  the output and the suffix index have.
- `spec_kv_full`: "`--spec on` output is token-identical to `--spec off`", but a
  verify pass needs rows for drafts that will be rejected or that lie beyond `-n`,
  and `step_batch` aborts without them. `GenerationEnds` states the room that is
  enough: prompt + `-n` + `--spec-max` - 1.
- `codebook_cpu_only`: `runtime_internal.h` says that without a GPU the "CPU's
  CANONICAL path (fl_dot_row_any) does implement IQ2/IQ3 [...] so cpu-only runs stay
  correct". With fast kernels `exec_task_cpu` sends such a tile to
  `dequant_chunk`, which has no codebook case and leaves zeros. `TilesExact` excepts
  exactly this case.
- `shadow_writers`: `shadow.cpp` says that a cache of another layout "invalidates and
  rebuilds - never reinterprets", as it would be "silent corruption". The layout is
  checked in the header alone, and two processes without a cache write the one
  `path.tmp` at the same time: the second `fopen` empties the file of the first, and
  the first's payload may land behind the second's header. If they
  were asked for different layouts, whose sizes are equal, the next start maps rows in the
  one layout for kernels of the other.

### What the passing properties except or assume

- `AcceptedIsWhole` and `ServesWholeShadows` except a file that two processes had open
  for writing at once (`mixed`): nothing is true of such a file, as `shadow_writers`
  shows. They do cover that processes initialise at the same time, take the temporary
  file from one another, rename it before its writer is done, and map it.
  They promise a payload of some model with the same key: names, formats and shapes are all
  the entries say, so a cache of other weights of the same shapes is served. The
  models "A" and "A2" of the run are such a pair.
- `PathsBitwise` exempts the device's f32 tiles, whose column split depends on the
  rows of the tile, and three cases of the certified head: codebook heads, heads in
  f32 or q5_0 in canonical mode (the tile is canonical, the row fast), and a q8_K
  appendix that is switched off for the tiles alone.
- `CertIsArgmax` holds for roundings within `margin_`; that the margin of the code
  bounds the rounding of its kernels is not shown.
- `Recovers` supposes that drafts do get accepted, at the price of a pass without,
  from some point on. It says nothing of the cold start: until a pass without drafts has
  been measured `choose` asks for the full length, which `byRate` counts as
  drafting, and such a pass comes only from a drafter that finds nothing.

## 4. Proofs

Assumptions: `ConfigAssumption` (constants of `Runtime`), `GraphAssumption` and
`FrozenAssumption` (graphs; they hold of those the builder makes, see below), `QueueAssumption` (`TaskQueue`), `PoolAssumption` (`ParkWake`), `CacheAssumption`
(`ShadowCache`), `CalibrationAssumption` (`Calibration`),
`DecodeAssumption` (`SpecDecode`), `DraftAssumption` (`SuffixDraft`), `CertAssumption`
(`HeadCert`), and the `ConfigAssumption` of `DecodeGraph`: at least one position, tile, head
and expert used, any list of layers, any options. TLC evaluates them in the runs.

`RuntimeProofs` shows for every set of frozen graphs, every number of workers and
blocks, every queue capacity and batch size, with rings or without, and with
`stop` at any moment:

- `TypesHold`: types, in particular `dep_count >= 0`;
- `EachTaskRunsOnce`: no task is executed twice in a run;
- `InputsAreReady`: no task is executed before all its producers;
- `RunsAreDrained`: between runs nothing is queued, held or half delivered, which
  is what makes the plain stores of the reset safe;
- `RunsAreComplete`: `run` returns only when every task has been executed;
- `EnginesAreRespected`: the routing rules above, with and without stealing;
- `RuntimeImplementsGraphExecution`: every step is a step of `GraphExecution` or
  invisible.

`RunsAreComplete` adds that `n_done`
stays at the number of tasks once the wait of `run` is over. `EnginesAreRespected`
adds that under `FASTLLM_NO_STEAL` nobody gets to a stealing position; the rest is
`PlaceInv` (a claimed task lies on its route) and a case analysis of
`fl_task_queue`. In the refinement a claim starts its batch, `Exec` finishes it,
`BeginRun` begins and `Close` returns; all else is invisible.

The inductive invariant `IInv`. None of these properties is inductive: that no
task is claimed twice needs that it is in no other queue and in nobody's hands,
and this needs that it is published once. `PlaceInv` says a ready task is in
exactly one place (roots, a publisher's hand, once in the queue of its route, one
batch, executed). `ReadyInv` says only tasks without undelivered edges have a
place. An edge is undelivered while its producer has not been executed or the
producer's agent still has it in `rem`. `DepInv` says `dep_count` is at least the
number of undelivered edges; it may be larger, because a worker that bails out
drops its entries. Hence the subtraction that finds in `dep_count` exactly what
it subtracts has delivered all that was left, and its task had no place before.
`CountInv` ties `n_done` to the set of executed tasks, so `n_done = n` at the end
of `run` means all tasks are in the place "executed", and every other place is
empty (`QuietInv`). `PhaseInv` ties batch and epilogue to the agent's position.
There is one lemma per action; pops share `ClaimKeepsIInv`, pushes share
`EnqueueKeepsIInv`, steps that move no task share `UnmovedKeepsIInv`.

`TaskQueueProofs` shows for any finite set of pushers, any poppers, capacity,
bulk size and starting position, with and without the fences of `pop_bulk_light`:

- `SpecTypeOK`: types;
- `SpecEmptyIsHonest` and `SpecFullIsHonest`: what a pop or a push that gives up
  says of the queue was true when it read the cell;
- `SpecImplementsFifo`: nothing is lost, duplicated or taken out of order.

`QueueAssumption` asks that `2 * (MaxPushes + Capacity)` is at most the number of
words: the code compares a sequence word with a cursor by the sign of their
difference, which is right while the two are less than half of the words (2^31
there) apart. The history is bounded by `MaxPushes`, so no thread can
hold a cursor longer than that; how long one does in the program is not known.

The inductive invariant `QInv` says that the words are remainders of numbers
that only grow: `tail`, `head`, a sequence number for each cell, and the cursor
each thread holds. `Cursors` orders them, `Owners` gives each claimed position to
one thread and keeps the claims of two threads apart, and `Slots` says of each of the last `Capacity`
positions what its cell is: claimed by a pusher, published, or taken by a popper
who has or has not released it. `Locals` is the heart of it: the
compare-and-swap looks at the cursor only, while what makes it right was read
before, from the cell. What a thread saw of the cell of a cursor remains true as long as
the cursor is the current one, because only its owner changes a cell and nobody owns it
before the cursor moves. Words that repeat do not get in the way, because numbers
as near as these are equal when their words are (`DiffOfWords`). In the refinement a
won swap of `push` puts, a won swap of a pop takes and the last release hands over;
a write or a publication does not change what the queue holds, since
`ValueAt` reads it from the pusher until it is in the cell, and a read moves it
from the cell to the popper's hands.

The proof corrected the model. `FullIsHonest` said that a push which gives up had seen
`Capacity` items; false behind a bulk pop that has released only some
of its cells. The cells are released in order, yet the tail may be a lap further.
The run with three pushes cannot get there, one with four can. The bound is now
`Capacity` plus the cells such pops have released.

`HandshakeProofs` shows `NobodySleepsThroughRun` and `NobodySleepsThroughStop` for
any number of workers, runs and spurious wake-ups. The invariant: whoever is
between a test of the predicate and the wait owns the mutex; `active` and the
latch are stored before the mutex is asked for; so from the caller's critical
section on nobody is on the way to the wait set, and `notify_all` empties it.

`ShadowCacheProofs` shows `ServesWholeShadows` (`ProcessesServeWholeShadows`) and
`AcceptedIsWhole` (`AcceptedFilesAreWhole`) for any finite set of processes that
initialise at any time, any models and payload sizes, with crashes, failing calls and
short writes at any step. The only assumption is `CacheAssumption`: the shapes, which are
part of the key, determine the size. The invariant `CacheInv` is about files that are not
mixed. Such a file has one writer (`OneWriter`), who has written it in order from the start,
minus what was refused, and has a unit to come (`WrittenInv`). What follows a header and
entries that match is a payload of that layout and key, whole or cut short, and nothing
else (`ProperInv`); what is served was long enough and did match
(`MappedInv`). Mappings and the cache are not the temporary file (`HandlesInv`). The point
of the proof is that a short write is noticed although nobody looks at it: a missing
unit makes the file too short for the size check, or moves a unit of another kind to where
the header or the entries are read. Neither does it matter who renames a file: another
process may publish it under its writer and a third map it, but a file that passes
the checks has no unit to come, so its writer is not there any more.

`HandshakeProofs` also shows `StampInWindow` for any number of rounds and starts and any
steps of the clock. The invariant `CalInv` ties the round of the host to that of
the device: the same, or the device one ahead and waiting; ping and pong say
which. So a stamp is taken after the host's first reading and answered before its
second. That the median exists needs that ranks among the samples are a
bijection (`MedianExists`); the offset kept is that of one sample, hence wrong by at
most half of its round trip.

`SpecDecodeProofs` shows that speculation is lossless (`SpeculationIsLossless`:
`ImplementsGreedyDecode`) for every answer function, prompt, cache size, `-n`,
`--spec-max` and number of generations, and every draft of every pass; also
`RowsFollowOutput` (`EmittedAsFedUngated`) and `DecodeTypes`. What is assumed of
the model is that it answers every context that fits with a token, and that
`--spec-max` is at least 1 and at most 15. The output alone says nothing about
later tokens, hence the invariant `DecodeInv`. `RowsInv`: the rows in use are
prefixes of the last of them, whatever rejected drafts or earlier generations left
behind them. `FedInv`: what these rows hold at each position of `run_once`,
compared with prompt and output. `PassInv`: after a verify pass the rows end with
the draft and each answer is the model's answer to the rows up to it. `AcceptInv`:
accepted drafts are answers. So an accepted draft is the greedy token
and its row is in place already; `Settle` cuts the rows behind the last of them,
and the rewind never asks `rewind_to` to go forward. In the refinement `PlainStep`,
`Emit` and `Accept` generate a token, `Again` starts over, all else is invisible.
The theorem has the same exceptions as the run: with the margin gate or truncated
experts only the shape of the output is promised.

`DraftAndHeadProofs` shows `DraftIsLongestMatch` (`DraftIsTheLongestMatch`) for every
vocabulary, hash function, cap and least match, and streams of any length. The
invariant `IndexInv` (`IndexIsComplete`): the table has the latest end of every hash,
and each end is linked to the one before of the same hash, none left out. Hence
the walk goes from the latest end down, and its i-th step is at the end that has
i - 1 later ones (`WalkGoesByRank`): it reaches exactly the ends with fewer than
`chain_cap_` later ones. A match as long as `H` ends with the tail's gram, so no long
enough match is missed, whatever else has its hash; extending token by token finds
its length (`MatchLenIsLongest`: a match contains the shorter ones); and the first of
the longest met is the latest, as ranks fall with the position (`RankFalls`).

It also shows `CertIsArgmax` (`HeadIsCertified`) for every head, activation,
hint, number of anchors and segment width, and any rounding within the margin.
`CauchySchwarz` bounds the dot product of a segment by the product of the norms,
which are rounded up; the segments cover a row, the last one cut short
(`SegmentsFit`, `SumBySegments`), so a row's bound is above its logit
(`BoundIsAbove`). A skipped row's bound is below the best of the anchors less the margin, so
it cannot win; what `EvalAll` keeps of the others is the largest, the smallest id of
equals (`EvalAllIsBest`). Numbers are integers, as in the model, and the width is at
most `SEGS` segments. Sums are over sets of numbers, by taking away one element: the
induction theorems of the library cannot be used, so the proof has its own from
the least element of a set (`LeastNumber`, `Induction`, `MinimalSet`).

`DecodeGraphProofs` shows `WellFormed` (`WellFormedAlways`) and `BuildSucceeds`
(`BuildAlwaysSucceeds`) for any batch size, list of layers, tiles, heads, experts and
options, and that `run_serial` executes each task exactly once, after all it
waits for, in every pass (`PassRunsAllInOrder`). `DecodeOrderProofs` adds that the
dependency lists suffice for the buffers whatever order the runtime picks (`RaceFree`:
`GraphsAreRaceFree`), and that every pass, not only the first, reads what its own
sources wrote and adds to clear slots only (`PassIsRight`: `EveryPassIsRight`).
Without the options that join positions no task waits, even through relays, for a
later position (`Wavefront`: `PositionsAreStaggered`). The argument has five parts.

- Graphs. An edge to a task that nothing waits for yet makes no cycle and keeps
  `dep_init` the number of entries that name a task. `dep_edge` always finds room,
  since a producer keeps its last slot for a relay tree and a trunk its last for the
  next trunk. Hence a call that waits for earlier calls adds one task without
  consumers, gives consumers to those it waits for and takes none from the rest
  (`Called`): relays, however many, all have consumers.
- Script. Every call of `build_graph_m` waits only for names that earlier calls have
  given, no name is given twice, and each name is waited for before the terminal,
  but for those that the terminal waits for itself. Each stage is such a `Piece`, and
  pieces put together are one. What a stage names and uses is compared as sets, for
  every number of positions, heads and experts.
- Loop. A countdown is the number of entries that were not gone through yet
  (`Counting`), so a task becomes ready when the last task it waits for is popped. The
  edges have no cycle, so the loop pops everything (`PoppedAll`), the only task
  without consumers among it is the terminal, and it is a signal.
- Buffers. Each task that computes is one call of the script or one tile of it, after
  what that call waits for and before what it names (`Computes`, `Traced`); so to
  compare any two tasks it is enough to compare the calls. For each buffer `Makers`
  tells which names stand for it, for each name `Past` which earlier calls it vouches
  for, and `InPlace` says that a call follows the makers of what it reads and that the
  makers of what it writes come before or after it. One lemma per call of each stage
  shows that its `deps` provide that (`AllPlaced`). Then `NoRaces` and `DotsAddToSlots`
  follow from the edges alone. What `freeze` collects in `before` is what the edges
  order (`OrderInv`), which gives `RaceFree`. For the passes `RunInv` says that what the
  slots hold was put there by tasks of this pass, as `BeginPass` clears them.
- Cuts. Relays carry no position of the script, so what a task waits for cannot be read
  off its fields. Instead, a cut is a set of tasks that waits for nothing outside it, with
  the open relays of its producers. Each call continues a cut in two ways (`Sides`): with the new
  tasks outside it, always; with the new tasks in it, if it has what the call waits
  for. Each call for a position of the script waits for no later one (`ScriptInTime`), so for each q
  the calls up to position q make a cut (`Waves`), and what `freeze` collects in `before`
  never leaves it (`KnowsOnly`).

`FrozenGraphsFitRuntime` closes the gap to `Runtime`: what `GraphAssumption` and
`FrozenAssumption` ask of its constant graphs (a numbering that grows along every
edge, one task that nothing waits for, fan-outs of at most six, an exact
`dep_init`) holds of every graph `freeze` accepts. The proof changed the model in one
place: `Pop` counts down once for each entry of the consumer array, in its order, as the
code's loop does, where it used to take all consumers at once.

Only model-checked:

- all liveness (`RunReturns`, `StopReturns`, `EveryoneJoins`, `EveryValueArrives`, ...):
  fairness and ENABLED are out of the prover's reach;
- the kernels (`TileExecution`): their sums are recursive operators, and the induction
  theorems of the library cannot be used;
- the rational arithmetic of `SpecController`.

## 5. Not modelled

- Memory ordering: words are atomic and sequentially consistent. The acquire and
  release pairs of `queue.h` and the fences of `pop_bulk_light` are taken as
  sufficient.
- In `Runtime` a pop releases its cell at once. A push that spins only because a
  pop of that cell is in flight is not told from one that meets a full queue.
- Rounding: half floats, the quantizers, the error of a sum. The codebook tables. The
  arithmetic of decode ops other than dots and the attention head (norms, rotary
  embedding, activation functions, routing); what they read and write is in
  `DecodeScript`. In `Runtime` executing a task is a step.
- Metrics, handoff samples, profiling, launch geometry.
- The 60 s deadline of `run` and its abort: `RunReturns` shows it is not needed in
  the runs that pass.
- `start` allocates fresh rings from the arena each time and never returns the
  old ones; the model has the fresh rings and not the arena.
- `freeze`'s checks of aux blocks, formats and byte counts; arena and table capacities.
- Loading of tensors and hyper-parameters, model files, benchmarks, probes: sequential
  reading of bytes, or measurement.
- Power failures during a save (nothing is synced to disk, so the order of what
  survives is the file system's). What is in a file that two processes wrote at once:
  the run shows what can be, no property says what cannot.
- `hn[SEGS]` in `head_cert.h` holds one norm per segment, and `nseg_` can exceed `SEGS`
  when a width has no suitable divisor. `CertArgmax` has the guard `nseg_ <= SEGS`:
beyond it the code writes past an array and nothing can be said.
- The calibration loop (`--force-ids`) and the depth sweep of the decode tool,
  environment settings, diagnostics.

## 6. Plan

1. Core runtime, queue, parking and their theorems: done.
2. `GraphBuild`, `DecodeScript`, `DecodeGraph`: done. `WellFormed` and `BuildSucceeds`
   establish for built graphs what `TaskGraph` assumes.
3. `SpecDecode` against `GreedyDecode`, checked and proved: done. Left: the calibration loop, the depth
   sweep.
4. `SuffixDraft`, `SpecController`, `HeadCert`, `Calibration`: done, all but the controller
   with their theorems.
5. `ShadowCache`, any number of processes at once, with its theorems: done.
6. Kernels and their dispatch: done. Left: the other decode ops.
7. Proofs: of all components but the kernels and the controller: done. Left: that the two decoders of q4_K scales agree.
