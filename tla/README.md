# Voice-forge in TLA+

Voice-forge serves a dozen text-to-speech backends behind one FastAPI process,
with a registry of voices on disk, a streaming WebSocket for language-model
output, a web workbench to design voices, and commands to install backends, to
design a fleet of voices and to audition it. This directory models the parts
whose correctness depends on who does what when.

Paths below are relative to the package, `src/src/voice_forge/`, unless they
begin with `docs/` or `scripts/`. `PROJECT.json` maps each definition to its
lines.

## 1. Inventory

| Component | State | Operations | What is hard | What makes it correct |
|---|---|---|---|---|
| **WS session** `server.py` 1414-1608 | sentence queue, running index, `end_received`, `error_state`, connection gauge | handshake, receive a text frame, synthesize and send a sentence, finish | two tasks on one loop, failures on either side, a client that leaves at any await | order and wholeness of the frames, a truthful end, termination |
| **Audition client** `scripts/asgard_ws_audition.py` | the sending task, what is received | one row: connect, send in bursts, receive, save | two tasks, of which one is awaited in a `finally`; the server in between | a saved row is the whole speech; a row ends |
| **Serving core** `server.py` 120-173, 469-546, 700-800, `backends/{f5,xtts,dia,neutts,kokoro}.py` | `_BACKENDS`, loaded-gauge, each instance's model and `threading.Lock`, the worker pool | batch and streamed speech, load, unload, unload all, a session's calls | handlers on the loop against worker threads; a lock taken on the loop; generators suspended inside `with` | one inference per model, no model dropped in use, locks returned, every call answered |
| **Subprocess backends** `backends/_subprocess.py`, `subprocess_shim.py` | `_proc`, `_port`, the child, the port it binds, bytes in flight | load (pick port, spawn, poll), call, unload; in the child: bind, write, die, stall | a port picked before it is bound, deadlines, death in the middle of a body, unread pipes | no orphan, the right child answers, whole samples, complete answers, calls and loads end |
| **Text splitting** `sentence_buffer.py`, `backends/_chunking.py` | the buffer | feed, flush, `chunk_text` | boundaries cut in two, runs of stops and of blanks, lengths with separators | independent of the pieces, prompt, lossless, within the limit |
| **higgs streaming** `backends/higgs.py` | the streamer's queue, columns taken, samples given | generate (a thread), take, flush, close, join | a generating thread against a consumer, a delay pattern, chunks of two sizes | no frame lost or heard twice; a failure is no end |
| **orpheus tokens** `backends/orpheus.py` | prompt and continuation | interleave, generate, sort out, scatter | seven slots, three streams, tokens that are missing or none | what is heard is the speech |
| **higgs-mlx child** `backends/higgs_mlx.py` | reference cache and its key, one-thread executor | ensure the reference, generate | requests in parallel between two submissions | a call is spoken with its own reference |
| **Voice registry** `registry/__init__.py` with handlers of `server.py` 854-1178, `cli.py` 240-502, `persona_coverage.py`, `voice_lab/whisper.py` | a directory per voice: `ref.wav`, `ref.txt`, `metadata.json` | list, get, register, delete, tune, set_persona, set_backend, retrim | server and CLI in two processes, several files per voice, writes in place | a voice is what the calls on it were reported to have made of it; a failure can be repaired |
| **Documents** `lab_state.py`, `config.py`, `secrets/`, `scripts/bootstrap_persona_prompts.py` | scorecard, prompts, default backend, vault, password file, the server's cache of the vault | read, change and write back as a whole; look up a secret | readers without the writers' lock, in-place writes, two files that must agree, a cache by mtime | a document is what was reported; a secret was in the vault when it was looked up |
| **Forge UI** `static/forge/` | the store, what each element keeps, requests and auditions under way | every handler of the shell and its elements | answers out of order, one flag for all that is under way, repaints that replace elements | the anvil cools, requests and takes are of what is on display |
| **Voice design** `scripts/voice_design.py`, `voice_design/` | `fleet.yaml`, a persona's previews and manifest, its reference, the account | audition, persist, library, regen | commands in several terminals, a user who listens in between | the files are what was reported, and agree with each other |
| **Provisioning** `cli.py` 530-680, `backends/_higgs_post_install.py` | venv, packages, patched subtree, `state.json` | install, uninstall, load | a command killed anywhere | a first install is complete once `state.json` is there |
| **Release admission** `scripts/release_artifacts.py`, `.github/workflows/` | what a run is and how far it has come, the uploaded bundles, the package indexes | verify the source, create a manifest, verify a bundle, install it, check before publishing | jobs on machines of their own, runs again in whole or in part, refs that move, downloads that bring the wrong thing | what is published was built of the tag's commit, tested and installed by this very attempt |
| Presets and mixing, demo pages, metrics' counters | none of their own | | | |

How they meet: every handler runs on one asyncio loop. A handler that awaits
`run_in_threadpool`, or returns a `StreamingResponse` over a generator, hands
work to one bounded pool of threads; everything else, the batch form of
`/v1/audio/speech`, the load of a model and every unload included, runs on the
loop. A session feeds its SentenceBuffer, which queues sentences; its consumer
calls the backend in a worker thread. A backend is either in-process, with its
lock, or the parent of a child that runs the same protocol over HTTP. Pages,
scripts and commands meet the server on its sockets, or on its files.

The hazards, each at its line and with the properties that watch it, are in
`PROJECT.json`.

## 2. Modules

| Module | Models |
|---|---|
| `StreamProtocol` | what a client of `/v1/tts/stream` may rely on: the frames and their order, with no tasks and no queue |
| `WsSession` | the session's handler, producer and consumer; refines `StreamProtocol` |
| `WsAudition` | the session composed with a row of the audition client; refines `WsSession` |
| `Serving` | event loop, worker pool, `_BACKENDS`, instances, locks |
| `SubprocessChild` | `SubprocessBackend`, the shim, the host's ports |
| `Chunking` | `chunk_text` as recursive functions on sequences |
| `SentenceBuffer` | `SentenceBuffer` as a machine, extends `Chunking` |
| `HiggsStream` | the thread of generate, the queue, the chunks |
| `OrpheusTokens` | from codes to tokens and back |
| `HiggsMlx` | the reference cache and the executor of the higgs-mlx child |
| `VoiceStore` | the registry's directories and files, the calls of the server and of other processes on them |
| `Documents` | the single-file documents, the vault with its password file, the server's look-ups |
| `ForgeUi` | the Forge page |
| `VoiceDesign` | the voice_design commands |
| `Provisioning` | install and uninstall of a backend |
| `Release` | the admission of a release by the jobs of the workflows |
| `...Proofs` | the theorems on the module named; `WsSessionProofs` also those on `WsAudition`, `CommandProofs` those on `VoiceDesign` and `Provisioning`, `DocumentsProofs` also those on `Release`, `PiecesProofs` those on `SentenceBuffer` with `Chunking`, `OrpheusTokens` and `HiggsStream` |
| `MC...` | the instances TLC checks; `MCStreams`, `MCServer`, `MCDocuments` and `MCForge` put machines that share nothing side by side: a behaviour is one of one of them |

A definition whose comment begins "Faulty variant" is no part of a
specification: it is a plausible mistake in the definition that follows it, on
which the properties have been tried.

### StreamProtocol, WsSession and WsAudition

An action is the code between two awaits that can suspend: an asyncio task is
not interleaved in between, and `put` on an unbounded queue never suspends.
`phase`, `producer` and `consumer` are program counters; `queue`, `total`,
`ended`, `errors` and `gauge` are the variables of the code; `wire` is what the
client has received. `ReceiveText` is one turn of the producer's loop, its
`feed`, `flush` and puts included: how many sentences a frame forms and whether
text is left over is a choice (`SentenceBuffer` has the text itself). A send to
a client that has gone either raises or is lost, because starlette may or may
not have noticed. `Abandon` is the handler leaving the handshake by an
exception, and `Reject` by one of the explicit refusals.

`StreamProtocol` has the wire and four facts about the input, and says which
frame may come after which. `WsSession` implements it with `formed <- total`;
the other variables of the protocol are variables of the session too.

`WsAudition` gives the session a client: either any client, as in `WsSession`,
or a row of the script. `trickle` is its sending task, `client` its receiving
one, `unsent` and `arriving` the bursts on their way in, `heard` how far it has
come on the wire and `pcm` the audio it has kept. The row saves and reports only
after `complete`, and waits for the sender in its `finally` (`EndRow`).

### Serving

A job is one request. `loop` is the request whose code occupies the event loop:
a batch call keeps it through its inference, an unload while it waits for a
lock. `Pooled` requests take one of `PoolSize` threads for each `next()` or
call. `holder` is the lock of each instance; the five ways backends lock are
the constants `Locked` (f5, xtts, dia, neutts, against kokoro) and
`AcrossYield` (neutts, whose stream yields inside its `with`). `_ensure_backend`
awaits nothing, so it is one step however long a load takes; with it begin
`SynthesizeSpeech`, `SamplePreset` (a session, or the sample of a preset) and
`LoadBackend`. `Pop`, `Drop` and
`EndUnload` are the three steps of an unload. A stream may be abandoned by its
client between two chunks; `Close` then runs the generator's `with` exits.

### SubprocessChild

Instance `i` spawns child `i`: `_ensure_backend` makes an instance for every
load. `proc`, `port`, `cached` and `loading` are the parent's view, `child` and
`bound` what is true of the process and its socket; the two differ, which is
what the module is about. `Load` picks a port that is free then; `Serve` binds
it later, or dies if it is taken. A call reads the address of its instance
(`Address`) and connects to it later (`Connect`), in a worker thread that holds
nothing: unloads and loads of any backend may come in between, and whoever has
the port by then is the `peer`. `PollTimeout` may happen whenever the load is
in progress, and `Break` whenever a call reads: the deadlines are real time.
`Stall` is a child blocked on a pipe. Bytes are counted, four to a sample, and a
read takes any number of those available.

### Chunking and SentenceBuffer

Three kinds of character (a letter, a stop, a blank) are all that the regular
expressions tell apart. `ChunkText(text, 0)` is the list of
sentences of a whole text, and serves as the reference for the buffer; the
splits of the two files are written down separately, each from its own
expression.

### HiggsStream, OrpheusTokens and HiggsMlx

`HiggsStream` counts sound in frames. The delay pattern spreads a frame over
`Pad + 1` columns between two marks; `Take` is one turn of the generator's loop
with the decoding of all columns so far, `Finish` what it does at the sentinel,
`Raise` and `Unblock` the two steps of a failing thread. `Batch` is what
`synthesize` gives for the same columns, with the end mark stripped; the stream
strips it in its final flush only. `StreamKeepsTheAudio` says what the stream
gives out, the mark included where it completes a chunk, and
`StreamMatchesBatch` what the comment in the code says of it. A generation is
one segment of audio.

`OrpheusTokens` gives the codes of a stream the numbers 0, 1, 2, so that any
misplaced code shows; the language model may say what it likes: the tokens of
its speech in turn, some of them left out, others that are no codes in between,
and an end anywhere.

In `HiggsMlx`, request threads test the key, submit the preparation to the
one-thread executor and wait, set the two parts of the key, submit the
generation and wait.

### VoiceStore and Documents

A job is one call of a handler or of a command; `step` (`pc` in `Documents`)
says which step of it is next. A file is truncated in one step (`Open`) and
written in another (`Write`), a directory is unlinked file by file (`Unlink`)
before it is removed (`RemoveDir`), and `Kill` may end a job anywhere. What a
job writes is its number, so that a result made of the parts of two jobs can be
told. The handlers of the server do not await while they use these files, so
`Begin` lets one of them at a time work, while commands and other servers work
whenever they like.

`alone`, `report` and `sound` are not in the code. They say which voices or
documents the code answers for: no job on them was killed while it wrote, raised
half way, or met a job of another process on the same one; a registration that
brings a recording, a delete, or an `init` of the vault makes it sound again. A
preset brings none, with or without a transcript (`Presets`): over a voice that
has files it is a registration the code does not answer for, and
`OverwriteReplaces` says what the repository does. A request for a scorecard cell
may leave out the rating or clear it (`CellRequests`), which the code does not
tell apart; `report` follows the code there, and `OnlySentKeysChange` the docs.
`report` is what the jobs that were reported done have made of it. Nothing is
claimed of the others, because the code does nothing for them: an edit of the
CLI undoes one of the server, a register that is killed leaves a voice that
`exists()` and that `get` cannot read, and a rotate that is killed between its
two files leaves a vault its password file does not open.

In `Documents` a look-up (`GetSecret`, `Stat`, `ReadText`, `Decrypt`) is four
steps, between any of which a command may write. `window` collects what a look
could honestly have found since it began; the cipher is its contract.

### ForgeUi

JavaScript runs a handler up to its next await, so an action is a handler, or
the rest of one after its await. `Set` is the store's `set` with all that its
subscribers do: when an observed slice changed, every element is replaced, with
an abort of the audition under way. A request has the stages asked, served and,
if the page loads its lists anew afterwards, loading and fetched. `shown`, and
`over` and `card` of a request, are history: which voices the page was told are
forged, whether two loads overlapped, and what the user saw when asking.

The slider of the editor has a place where it is shown and one where it was last
released: `Drag` moves the first, `Release` makes it the second and starts an
audition. What the page sends are its `Overrides`, a knob at the default left
out, and what is heard is what the server makes of them (`Merged`), over the
setting the voice is stored with (`Stored`).

### VoiceDesign and Provisioning

`shell` is the command in each terminal, working on one persona after the other,
and `folder` the files they share. Files are written one after the other in the
order of the code; `reported` and `intact` are history: what ended write-backs
have put into the fleet, and what was written to its end without a rival. What a
user has played is no part of the state (see section 4).
`Provisioning` has the steps of an install, each
of which may be the last, the removal of a directory in any order, and what a
server takes for installed.

### Release

A run of the workflows goes through its jobs in the order in which they need
each other; `at` is where the job under way is, `clone` what the ref was when it
was checked out, `bundle` what it has downloaded. `expected` is the digest of the
manifest, which goes from job to job as an output and so survives a run again of
the failed jobs. `Downloads` is anything made of what was ever uploaded, or
forged: files with the names and metadata of some that were built, which nobody
has built (`Forged`), with a manifest to go with them or another's. The
checks of the files themselves compare what the code compares, the version and a
few sources (`DistributionFiles`), and two commits may have one version; only the
manifest and its digest tell such files apart. `smoked` is history. A digest is
the value itself, so collisions are left out, and so is what a job refuses
whatever it is (links, stray files, malformed environments).

The manifest names the attempt that built it and `verify_bundle` compares it with
the identity of the job, so that a run again of the failed jobs alone is refused
at its first bundle: only a run again of all jobs goes on. An upload that was
interrupted between the wheel and the sdist is therefore completed only by a
build with the same bytes.

## 3. Runs

| Run | Instance | Shows |
|---|---|---|
| `streams` | a session of three sentences with any client or a row of three bursts; two subprocess backends, two ports, two children, one call, two samples; three calls of f5 and kokoro, two threads, three instances | what passes through the server ends, and whole: the session keeps its queue in order, tells the truth, reports failures, ends, and implements `StreamProtocol`; a row that is reported ok saved the whole speech, and every row ends; no orphans, own child, whole samples, complete answers, calls and loads end; every call is answered where no stream keeps its lock |
| `server` | three requests of any kind, f5, neutts and kokoro, two threads, two chunks, three instances; two jobs of any kind on two voices with three fields; texts of eight characters in pieces of three, seven limits; higgs speeches of up to nine frames in chunks of two and three; orpheus speeches of up to three frames with two tokens lost and one stray | serialization, models kept in use, locks returned, cache, memory and gauge agree; a sound voice is what its jobs were reported to have made of it; the buffer agrees with `chunk_text` however it is fed, chunks keep the text and fit; the stream gives the audio of the batch call, failures are heard; what is heard is the speech |
| `documents` | two jobs of any kind, two personas, two secrets, look-ups and restarts; two attempts of the workflows, of one run or of two, on commits and tags of two versions, a commit being of either | a sound document is what was reported; a secret was current; what is published is qualified |
| `forge` | the page with two requests and an audition, one voice of two stored with a setting of its own; two voice_design commands; two install commands | the anvil cools, requests, takes and new voices are as displayed; design files are as reported; what first installs have installed is complete |
| `serving_stall` | two neutts calls and another | violation: the loop waits for a lock that only the loop can have released |
| `subprocess_restart` | three children | violation: a dead child is not restarted |
| `higgs_stream` | speeches of up to five frames | violation: the stream has a frame the batch call has not |
| `higgs_mlx_reference` | two calls, two voices, two texts | violation: a call is spoken with another's reference |
| `voice_store_preset` | one job, two voices | violation: a preset over a clone keeps the clone's recording |
| `documents_cell` | one job | violation: a rating that was not sent is cleared |
| `forge_cull` | the page | violation: a change of density forgets the rejected takes |
| `forge_ui_default` | the page | violation: a slider released at the default is not what is heard |

**Bounds.** Three sentences give a queue with one waiting, one taken and one not
formed, so an index can be skipped or repeated on either side; three bursts give
a first, a last and one between. In `streams` the three requests are numbered by
what they ask, since nothing else tells them apart, and in `documents` the first
run is of the first commit and version, for the same reason. Three requests are
the fewest in which a stream, a batch call and a bystander meet, and in which
two requests fight while an unload waits; two threads can both be taken; three
instances allow a reload while an old instance is in use. Two children allow a
second backend to be given the port the first has picked, and the reload of a
backend. Two samples are eight bytes: reads can end at every offset of a sample
and span two. Eight characters hold three sentences, and pieces of three can end
before, within and after every boundary. The higgs speeches end before, at and
after the end of each of the first three chunks, whose two sizes differ. Two
lost tokens have frames before, between and after them. Two jobs are enough for
every way in which one undoes or meets another, and for a repair after a kill;
two voices for a variant and its source, several fields or keys for an edit that
must keep the other. Three jobs on one voice with one field have been checked
once (21 million states). Two runs let one take what the other has built, and a
run again of one of them takes what it has built itself before: the fewest
attempts in which either happens. Two requests of the page overlap in every
order; `Doors = {"design"}` leaves every handler reachable, since with less open
the page can only do less. Two personas and two previews let write-backs of two
personas cross, and an audition of more previews be followed by one of fewer.
The theorems of section 5 do not depend on these bounds.

**Fairness.** `WsSession`: the loop runs what can run, a worker returns or
raises, and a receive notices a closed connection; nothing makes a client send,
so `SessionEnds` starts from a client that has said end or has gone. Of machines
side by side each has the fairness of its own module, where it asks nothing of
those that stay as they began (`CallsFairness` is `ServingFairness` for the
calls that are made). `WsAudition` (`AuditionFairness`) adds that the row's two
tasks run when they can, that the server receives what has come, and that its
handshake ends (`SubprocessChild` shows that a load does). `Serving`
(`ServingFairness`): the loop serves ready tasks, threads run, inferences end. A
thread that waits for a lock gets weak fairness only: it is not enough that the
lock is free now and then, and the run shows that it suffices because the
requests are finitely many. `SubprocessChild` (`ChildFairness`): threads run and
both deadlines (300 s and 600 s) pass; nothing at all is assumed of the child.

**Deadlock** is not checked: every module models a bounded number of requests,
and stops when they are done. That nothing stops before is what the liveness
properties say.

## 4. Findings

Each of these is a run that TLC finds violated.

- `serving_stall` (code): `backends/neutts.py` 172 holds a `threading.Lock`
  across `yield`. A batch neutts call or an unload on the loop then waits for a
  lock whose holder waits for the loop, and the server answers nobody, where
  `docs/ARCHITECTURE.md` 179 promises that backends run in parallel. With no
  such stream, `streams` shows that all calls are answered (`CallsEnd`).
- `higgs_mlx_reference` (code): `backends/higgs_mlx.py` 444-471 tests, prepares
  and records the reference in separate steps of parallel requests.
- `forge_cull` (code): the guard at `static/forge/forge-app.js` 531 compares with
  a contact sheet that the repaint has just made, so a density toggle clears the
  rejected takes, which the comment above it says it does not.
- `voice_store_preset` (code): `Registry.register` writes `ref.wav` and `ref.txt`
  only if it is given them and removes neither, so `voice add --preset
  --overwrite` over a cloned voice keeps that voice's recording and transcript,
  where `registry/__init__.py` 158 speaks of replacing and its lines 6-7 of
  presets without either.
- `forge_ui_default` (code): `static/forge/forge-spec-editor.js` 253 leaves out a
  knob at the default, and the server merges what it is sent over what is stored
  (`server.py` 1480-1486): a slider released at the default of a tuned voice is
  heard with the stored setting. `TakeIsOfTheEditor` excepts just this.
- `higgs_stream` (docs): when the end mark completes a chunk it is heard as one
  more frame, against the comment of `backends/higgs.py` 714-716.
- `documents_cell` (docs): a rating that is left out is cleared
  (`lab_state.py` 105), against the docstring at `server.py` 1229-1230.
- `subprocess_restart` (docs): `_restart_attempts` is never read, against
  `backends/_subprocess.py` 41-42.

Met while modelling, modelled as the code has them, and not given a run of
their own:

- `voice retrim` trims `ref.wav` in place and then copies it to itself;
  `shutil.copy2` raises, and the trimmed recording keeps the transcript of the
  whole one, where `docs/VOICE_LAB.md` 70-73 recommends the command
  (`VoiceStore`, kind `retrim`).
- kokoro has no lock, against `server.py` 15-16 (`Serving`, `Locked`).
- Several exceptions of the handshake close the socket without the error frame
  of `docs/API_SPEC.md` 273 (`WsSession`, `Abandon`).
- The port of a child that is dead or was unloaded may later be another child's,
  which then answers a call that has read the old address, in its own voice
  (`SubprocessChild`; `OwnChildAnswers` is about instances that are loaded and
  children that live).
- An audition that ends between its MP3 files and its manifest, or is not there
  yet, leaves the ids of the audition before under numbers whose files are new;
  `persist` goes by the manifest (`voice_design/audition.py` 81, 282-295), where
  the help of `--preview` (`scripts/voice_design.py` 489) says that the number is
  that of the MP3 file. `DesignIsAsReported` excepts files left in the writing.
- An install over a readable `state.json` leaves that file until its end; cut
  short before the post-install step it leaves a backend that loads and lacks
  the subtree (`cli.py` 586-624; `InstalledIsComplete` is about first installs).
- `s` and `r` are the same answer in an audition (`voice_design/audition.py`
  100-104; `PickNone`).
- A row of the audition script without any audio formats `None` as a number,
  outside the `try` that is to keep the program going (`EndRow`, the outcome
  `silent`).

## 5. Theorems

All are proved for every value of the constants that meets the assumptions named
beside them in the modules. Each machine has one inductive invariant, a
lemma per action or group of actions that preserves it, and then the theorems,
each of which follows from it.

**WsSessionProofs.** The properties of the wire are not inductive: that
`complete` tells the truth rests on where the two tasks are. `IInv` ties the
consumer's program counter to the last frame, `current` to the next index
expected, the queue to the interval between `current` and `total`, and each
exit of a task to the sentinel or to its entry in `errors`. Proved: type
correctness, `QueueInOrder`, the order of the wire, `CompleteIsTrue`,
`OutcomeIsReported`, `GaugeIsBalanced`, silence after a failure, and the
refinement of `StreamProtocol` (initial states to initial states, each step to a
step or a stutter).

For `WsAudition`, first that the composition is a session:
`AuditionSpec => Spec`, every step of the row being a stutter of the session and
every step of the server one of its own. So the invariant of `WsSession` holds,
and with it the invariant of the row: what it has heard is a prefix of the wire,
what it has kept are the audio frames of that prefix, and once it has seen
`complete` the wire is at its end. Proved: `RowIsTheSpeech`.

**ServingProofs.** `IInv` says which requests can be on the loop and in a
thread (`Control`), that the models in memory are those cached plus the one
being dropped (`CacheInv`), that an instance belongs to one name (`NameInv`), and
that a request in an inference, or suspended inside its `with`, holds the lock
of an instance that is in memory, and nobody else holds one (`LockInv`). The
last is the heart: an unload waits for the lock, so it cannot drop the model.
Proved: type correctness, `Serialized`, `InferenceHasModel`, `LockIsReturned`,
`BatchKeepsItsModel`, `CacheIsHonest`.

**SubprocessProofs.** `IInv` says that there is one load at a time (it keeps the
event loop), that an instance has a port exactly while it owns its child, that
only the load in progress may have a child that has not bound its port, and that
no live child is bound to the port of another or of a load in progress. Hence
the child that answers `/health` is the one just spawned, and the port of a
cached instance is its own child's until that child crashes. An address that a
call has read stays that of its instance as long as the instance is loaded, and
so the call that connects later reaches its own child, whatever was loaded in
between. For the audio, `4 * got + rest + unread = 4 * written` is inductive by
itself, and with `rest < 4` gives completeness at the end of a body. Proved:
type correctness, `NoOrphans`, `OwnChildAnswers`, `SamplesAreWhole`,
`AnswerIsComplete`.

**PiecesProofs.** The texts and the tokens are data of any length, and what a
recursive function makes of them is an induction. The induction theorems of the
library take an operator as a parameter, which none of the provers can
instantiate; but `WFMin`, that a non-empty set has an element minimal in a
well-founded order, does not. From it follow `Induction` over numbers, stated
about membership in a set, and from that the principles the module needs: over a
sequence from its end (`FrontInduction`), over the gaps of a text
(`GapInduction`), over lists of sentences (`ProperInduction`). `Recursion` says
that a definition whose argument gets smaller has a solution, so that `CHOOSE`
finds a function that satisfies its equation; `Agreement` that two solutions
are the same.

For `SentenceBuffer` the invariant is not about `Drained`, but about the text
already consumed. `Leads(h, ss)` says that a beginning `h` of a text gives the
sentences `ss` whatever follows it; it is closed under concatenation
(`LeadsOn`), a complete sentence with the white space after it leads to itself
(`LeadsSentence`), and `DrainIs` adds up what one call of `feed` consumes.
`TextInv` is then: `text` is some `h` that leads to `given`, and the buffer,
which holds no boundary. At the end the rest is one sentence or none. For
`chunk_text`, `GroupInv` says what the loop keeps: the chunks closed so far and
the current one, joined, are the sentences up to here, and each chunk is within
the limit or a single sentence; `JoinedProper` says that sentences joined by
blanks are found again by the split. Proved, for every text, every
division into pieces and every `max_chars`: `PiecesDoNotMatter`,
`GivenWhenComplete`, `ChunksKeepTheText`.

For `OrpheusTokens`, `Told(audio, n, m, nx, k)` says that the codes among what
follows the prompt are tokens of the speech, each at its own place up to the
first that is missing (place `m`), and after it from a place at most `k` further
on, `k` being the number missing. Hence a frame before `m` is the frame of the
speech (`FrameOfSpeech`), and with `k < 7` every later frame ends with a token
of another slot and is skipped (`BrokenFrame`): a token left out shifts what
follows by less than a frame, so nothing is put back into step by chance.
`ScatteredIs` is the loop over the frames, `NumbersOn` the three streams.
Proved, for speeches and references of any length: `HeardIsTheSpeech`.

For `HiggsStream`, `HiggsInv` says that columns put are columns taken plus
those in the queue, the sentinel at its end and nowhere else (`QueueInv`), that
what has been given out ends at a chunk's end and lacks less than the next
threshold (`ChunkInv`), how many columns a whole generation has (`EndInv`), and
what `played` is (`SoundInv`). That the mark is heard just when it completes a
chunk is then arithmetic: two multiples of the chunk's size cannot lie within
one of it (`ChunkEnds`). Proved, for every delay and every two chunk sizes:
`StreamKeepsTheAudio`, with the exact case in which the stream is longer than
the batch call, and `FailureIsHeard`.

**VoiceStoreProofs.** A voice is what was reported only at the end of a job, so
`StoreInv` says what each unfinished job has done so far. `RivalInv`: two jobs
that have to do with one voice are not alone, and the voice is not sound, so a
job that is `alone` has its voice, and the one it copies from, to itself.
`OwnInv`: what it has written up to its place (`Before`) is there, what a preset
or an edit leaves is what was reported, a variant has the files of its source.
`SoundInv`: a sound voice on which no job has begun to write is as reported. A
step of one job changes only its own voice (`Frame`), from which `OthersAreLeft`
keeps all the rest. Proved, for every number of voices and jobs:
`StoreIsAsReported`.

**DocumentsProofs.** Three invariants. `LookInv` says that a cache of the present
time holds the present vault, that the time a look was told is not of the future,
that a text of the present time is that of the file, and that a text which its
password does not open was closed at a moment the look has seen: a password that
is replaced closes the vault that is then on the disk too. `DocsInv` is of the
shape of `StoreInv`; to its `OwnInv` belongs that the password a job holds is the
one on the disk, and that a `rotate` between its two files has sealed the vault
with the password it is about to write. `ReleaseInv` says that jobs pass in order,
that the expected manifest is of an attempt of this run made by now (`OfTheRun`),
that a smoke which has passed in the attempt that built was of that build
(`SmokedInv`), what may be uploading (`AdmittedInv`), and that no sdist is without
its wheel (`IndexInv`). From these follows that the manifest which
`verify_bundle` accepts is of this attempt, and so is the smoke that went before:
the checks of the files compare versions, so that what ties a file to its commit
is the digest in the manifest, and the manifest's in the expected one.
Proved, for every number of jobs, runs and attempts: `SecretWasCurrent`,
`DocumentsAreAsReported`, `ReleasesAreQualified`.

**ForgeUiProofs.** `PageInv` says that an audition is of the editor on display
and an open chip on the focused card (`EditorInv`), that the context is that of
the design on the sheet (`ContextInv`), that two loads under way know of each
other, and that a load that overlaps with none brings all that was reported
forged (`LoadInv`). The contact sheet has an invariant of its own,
`FocusInv`: the focus is on a live take, or on the first if none is live, which
`RejectKeepsFocus` and `UndoKeepsFocus` get from the cardinality of a set less or
more one element. Proved, for every number of voices, takes and requests:
`AnvilCools`, `RequestsAreMeant`, `NewVoicesAreShown`, `TakeIsOfTheEditor` (with
the exception of a slider at the default, see section 4).

**CommandProofs.** Of `Provisioning`, `OrderlyInv` says that while only first
installs have touched the directory, one at a time, at most one command is
at work and `state.json` is not written before the subtree is whole; an install
over a readable `state.json` is none of them. Of `VoiceDesign`,
`DesignInv` says what a command in the writing has still to write: the files of
an audition from the m-th on (`InPreviews`), the reference (`InRef`), or the
fleet with one id changed (`InFleet`), and that what it wrote before is there if
nobody else writes to that resource; commands that do know of each other
(`ApartInv`). An intact resource has nobody who has opened a file of it, so its
files agree. Proved, for every number of terminals, personas and previews:
`InstalledIsComplete`, `DesignIsAsReported`.

**Only model-checked.** All liveness (`SessionEnds`, `RowEnds`,
`CallsEnd`, `CallEnds`, `LoadEnds`): the proof system has neither
fairness nor ENABLED. Every invariant of the passing runs is proved.

## 6. Not modelled, and the plan

Next, in this order:

1. `ForgeUi` composed with `VoiceStore`, so that what a load fetches may be a
   registry in the middle of a write; and `Serving` with `SubprocessChild`, whose
   calls are now only successes and failures in `Serving`.
2. Foreign programs on a picked port that answer, but no HTTP: `urlopen` then
   raises what the poll (`backends/_subprocess.py` 251) does not catch.
3. The remote voice that `forge_pick` (`server.py` 1021) leaves behind when the
   registration after it fails, as state of an account.

Left out for good: signal processing, mixing and presets (arithmetic with no
state), the cipher of the vault, virtual environments beyond the order of their
steps, prompt wording, markup and drawing, the single pages `lab.html` and
`live_demo.html` (markup with inline handlers; the endpoints they call are
modelled from the server's side), counters and histograms, the remote services
behind `voice_lab` and `voice_design` beyond success and failure.
