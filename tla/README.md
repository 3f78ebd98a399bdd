# Formal models of ltc-timecode-generator

The repository is a timecode workbench in Rust: it plays LTC (linear timecode)
through an audio device, decodes LTC from recordings, converts and tags recordings
with ffmpeg using the decoded timecode, and copies camera cards.  Two graphical user
interfaces and a command line sit on one engine thread.  This directory holds
TLA+ models of that program, the TLC configurations that check them, and proofs for
TLAPS.

Paths below are relative to `src/`; `engine.rs`, `job.rs`, `offload.rs`, `decode.rs`,
`subprocess.rs`, `tagger.rs`, `hw_cache.rs` and `converter/` are in `gui-engine/src/`;
`audio_output.rs`, `chunked_decode.rs`, `ltc_decoder.rs` and `ltc_integrity.rs` are in
`audio-core/src/`.

## 1. The system

### 1.1 Threads and how they talk

| thread | code | talks to |
|---|---|---|
| user interface | `ltc-gui/src/app.rs`, `ltc-slint/src/main.rs` | sends `GuiCommand`s over a channel, reads the published `AppStateSnapshot` |
| engine | `engine_main_loop` in `engine.rs` | every 40 ms: all waiting commands, one poll of the jobs, the job events, the audio events, publish |
| workers | closures given to `spawn_job` in `job.rs` | one channel of `JobEvent`s to the engine, a shared cancel flag and progress tracker |
| decode threads | `run_parallel` in `chunked_decode.rs`, the bridge in `decode.rs` | a counter of chunks, a slot per chunk, the job's cancel flag and progress |
| pipe readers | `spawn_stderr_reader`, `drain_pipe` in `subprocess.rs` | a child process, a channel to the caller |
| LTC scheduler | `ltc_scheduler_thread` in `audio_output.rs` | shares `LtcStreamState` with the engine behind a mutex; mailbox of `AudioEvent`s |
| audio callback | closures in `build_stream_generic` | reads ring buffers, counts its calls |

Two things outlive the program: the cache of tested encoders (`hw_cache.rs`) and the
files it was writing to when it ended, which a later session finds (`tagger.rs`,
`offload.rs`).  Apart from these a few chosen paths are kept.

### 1.2 Components, their state, what is hard and what makes them correct

| component | model | state | hard behaviour | correct when |
|---|---|---|---|---|
| job supervisor (`job.rs`) | JobSupervisor | `active`, `latest_job`, channel, `events_buffer`, cancel flags | a worker reports before its thread ends; `swap_remove` while walking; joins at shutdown | no live thread is forgotten, no final event is lost, repeated or overtaken, superseded jobs are recognised |
| recordings: scan, select, probe, decode (`engine.rs`) | RecordingFlow | listed groups, selection, deferred selection, probes, decode results, auto-apply latches | results arrive after what they belong to was replaced | what is shown belongs to what is selected |
| published status (`engine.rs`) | PublishedStatus | a phase per job kind | three writers: commands, poll, final events | the phase shown follows the job |
| conversion (`converter/runner.rs`, `process.rs`, `planning.rs`) | ConversionPlan, Conversion | steps, ffmpeg process, output files, encoders tried, ledger | cancel, stall and failure during a step; a second encoder takes over; clips that differ | what was announced is written, whole; what is not whole is owned up to |
| settings (`converter/settings.rs`, `channel_map.rs`) | ConversionPlan | channel map, templates | maps that lag behind the tracks | no output has the timecode track that is to be dropped |
| encoder validation (`hw_cache.rs`, `hw_device.rs`, `capabilities.rs`) | HwValidation | cache file, two stages, settings, untouched latch | the user chooses between the stages; another ffmpeg is installed between sessions | what is offered was tested; a choice of the user is not replaced |
| subprocesses (`subprocess.rs`) | Subprocess | child, pipe, reader thread, deadlines | time limit races exit; the child fills or keeps its pipe | no child is left, what was read reaches the caller, no wait without end |
| parallel decode (`chunked_decode.rs`, `decode.rs`) | ParallelDecode, ChunkMerge | chunk plan, counter, slots, bridge, temporary file | cancel between any two looks; boundaries; early return | every frame comes out once; a part never passes for the whole |
| decoded timecodes (`ltc_decoder.rs`, `ltc_integrity.rs`, `converter/timecode.rs`) | Timecode, DecodedTimecodes | frames found, repaired, trimmed | misread frames next to dropouts, midnight, numbers left out | a frame read right is not spoiled; the start of the file is found |
| tagging and renaming (`tagger.rs`, `runner.rs`) | Tagging | files of the folder, temporary files, ledger | in-place writes cut short, a second way after the first failed, sessions that end anywhere and are repeated | no clip is lost; a reported tag is there; damage is reported |
| card offload (`offload.rs`) | Offload | cards, selection, plan, temporary files, completed devices | failure and cancel between any two steps; edits while it runs | a card reported as copied is copied |
| LTC output (`audio_output.rs`, `engine.rs`) | LtcTransport | stream state, scheduler thread, watchdog, recovery attempts | stalls, recovery, reset and stop while a frame is being made | the timecode is made exactly while the engine says so, without a gap |
| rings, audio callback, clap (`audio_output.rs`, `engine.rs`) | SignalRing, SampleClock | ring buffer, frames due, a part of a sample carried over | two clocks, a ring that is full or empty, starts and resets that leave old samples | frames are heard whole, in order and once; the delay is accounted for; no drift |
| encoder, decoder on zero crossings (`ltc_encoder.rs`, `ltc_decoder.rs`) | LtcFrames | bits, intervals, sync words, grid and chains | a lost or added crossing moves all later bits; sync words made by chance | what is intact is found, nothing is made up |
| widgets and their settings (`edit_state.rs`, `ltc-gui/src/widgets/bound.rs`, `ltc-slint/src/shadows.rs`) | WidgetSync | shadow, pending edit, published snapshot | edits and older snapshots cross each other | no edit is taken back; what is shown is what is set |
| names and files of cards (`ltc-gui/src/widgets/offload.rs`, `ltc-slint/src/main.rs`, `engine.rs`) | CardEdits | list of cards, list the user sees | a scan replaces the list under the user | an entry is for the card it was meant for |
| correlation decoder, levels, filters, drift and quality | none | samples | floating-point signal processing | section 7 |
| grouping, card detection, naming, configuration, layout of the user interfaces, command line | none | data | parsing and formatting | section 7 |

`PROJECT.json` lists every component with the state of its model and every hazard
with the line where it bites and the properties that watch it.

## 2. The modules

    JobSupervisor --+-- RecordingFlow --+-- MCRecordingFlow
                    |                   +-- RecordingFlowProofs
                    +-- PublishedStatus
                    +-- Offload --+-- MCOffload
                                  +-- OffloadProofs
    Task <== Conversion, Subprocess, ParallelDecode          (refinement)
    ConversionPlan --- Conversion --+-- MCConversion --+
                                    +-- ConverterProofs |
    Subprocess --+--------------------------------------+-- MCProcesses
                 +-- ConverterProofs
    ParallelDecode --- ChunkMerge --- ParallelDecodeProofs
    Timecode --+-- DecodedTimecodes --+-- MCDecodedTimecodes
               |                      +-- DecodedTimecodesProofs
               +-- LtcFrames --+-- LtcFramesProofs
                               +-- MCLtcFrames +
    SampleClock --+----------------------------+-- MCSignal
    SignalRing ---+----------------------------+
    LtcTransport -+-- LtcOutputProofs
    WidgetSync --+-- MCInterfaces
    CardEdits ---+
    HwValidation +-- SettingsProofs
         +-- MCHwValidation
    Tagging --+-- MCTagging
              +-- ConverterProofs

Two abstract specifications hold the project together.  **JobSupervisor** is what the
engine may assume of its jobs; RecordingFlow, PublishedStatus and Offload extend it and
implement it with their own handlers; its properties are checked there, under the
commands the engine really has.  **Task** is what the supervisor assumes in turn of
the body of a job: it ends once, is reported as cancelled only if somebody asked, and
ends after it was asked.  Conversion, ParallelDecode and a watched child process
(Subprocess) are shown to be tasks, so that the fairness JobSupervisor assumes of
its workers is discharged for the three jobs that run longest.

**JobSupervisor** is the engine's tick and the workers.  `pc` is where the engine
thread is: applying commands, walking the active jobs in `poll` (`reap`, with `scan`
as the index), handling drained events, or shutting down.  `Command` and the spawning
disjuncts of `HandleEvent` stand for every handler: they cancel any set of kinds and
spawn at most one job.  Each handler of the concrete modules must be such a step.
`channel` is the mpsc channel, `events_buffer` what `poll` has received, `worker` where
a thread is: `running`, `reported` (its Finished event is sent) or `exited` (joinable).
`poll` receives until the channel is empty and only then looks at the threads, one after
the other: a worker may report and exit between the two, and `ReapOne` one index at a
time lets it.  `settled` is a history variable: final events handled or discarded.
Ids are bounded by `MaxJobs`; progress trackers and logs are left out.

**RecordingFlow** extends it with what the engine does to a folder of recordings.  The
recordings of a folder are a fixed sequence (`Contents`); every other value is
whose result it is: a probe, a decode result or a group result is represented by the
recording it came from (`work` of its job), because that is what the
properties tell apart.  Generations are only ever compared with the auto-apply latch, so
each pair is one Boolean (`ltc_fresh`, `group_fresh`: the generation is above the
latch).  A `ParseLtcWavFile` names a file of the selected recording.  This is an
assumption on the user interfaces, which offer only those; the engine does not check it.
Only the decodes look at their cancel flag; `Panicking` bounds which kinds may end with
a panic.

**PublishedStatus** extends it with the phase published for the conversion (guarded by
the published phase, reset by a selection) and for the offload (guarded by the list of
jobs, never reset).  The other kinds follow one of the two patterns.

**Offload** extends it with cards, selection, plan and the copy job.  One action per
step of `copy_file` and of the loops around it, each cancel check its own, every file
system call may fail.  A name with the suffix ` (2)` of `resolve_collision` is the pair of the
name and 2; contents are the identity of the source.
The instance has a card with two files of one name in different directories, and a
card with one empty file.  It starts after the card scan.

**ConversionPlan** is functions: the channel map with the swap the user makes, the steps
of the video, audio, synthetic and metadata pipelines, and the list of files shown
beforehand, which the code computes by another route.  A path is the tuple of what the
default templates put into a name.  **Conversion** runs such a plan.  `pc` follows the
job from probing through steps and encoders to tagging; a call of ffmpeg is spawned,
runs, and succeeds, exits with an error, is killed or stalls, each with what it may leave
in the file.  `disk` records for every path whether the file is whole, which
channels it carries and which encoder made it.  The encoders and the hardware
device are data of the case.  The flag is set at any time and looked at where the code
looks.  `late` counts what is begun after it was set.

**Subprocess** is the three ways to run a child: watched line by line, for its output,
and only to its end.  The child writes, closes its pipe, exits or hangs as it
likes; the pipe holds `PipeSize` lines; the reader thread and the caller take steps of
their own.  The reader ends at the end of the pipe, or at any time on a read that fails
(`ReaderFails`), which for the lines of stderr includes a line that is not UTF-8.  Time is
rounds of the caller's loop.

**ParallelDecode** is one decode job, of a WAV file or of a video whose channel is
extracted first: the plan of chunks is made round by round as in `plan_chunks`, each
worker claims, looks at the flag, decodes, looks again, counts and stores; the bridge
waits for the count; the job joins all, looks at the flag and gathers.  **ChunkMerge**
adds what `merge_results` returns, with decoders that may disagree by `Jitter` where a frame
begins: round by round the earliest report that is left is kept (`Keep`, `Earliest`), and
those too near to it are dropped (`Left`).

**Timecode** is the arithmetic on numbers, with the constants of a clock as
parameters: increment, and the two decrements of the code, which differ.
**DecodedTimecodes** walks a decoded file through its passes: the decoder skips frames
until it is locked, backfill, the check of the fields, the repair of outliers, the two ends,
the trim to a coherent start, and the shift to the start of the file.  Each
position of the file holds the true timecode, any other one, or nothing.

**HwValidation** is the two stages of finding out which encoders can be used, with the
cache file between sessions.  A session may end and another begin, perhaps with another
ffmpeg, at any step.  A version of ffmpeg stands for a build.  The settings are a
container, a codec and an audio encoder, which the user may set to anything at any time.

**Tagging** is phases T and R of the metadata pipeline on a folder of files.  A file is a
sequence of parts (boxes or chunks), each whole or cut short; its name's extension and
what its content is are told apart, because the code goes by the first.  A part may
hold a timecode, in the form it has there: two numbers of a text, the count of frames in
the sample of a timecode track (by the rate rounded down), the count of samples in a bext
chunk; a track says in which part its sample is.  `Counted` and `Sampled` are the
readers: what such a count says at a rate, the frames numbered by the rate rounded up.
`long` files are those whose offsets do not fit in 32 bits.  ffmpeg is external: it opens
what is `Readable`, and writes the container it is told (`ContainerFor`, which knows none for
WAV and AVI).  One action per
write; a write may fail, leave a piece, or be the last thing the program does.  It starts
where `Conversion` has `TagAndRename`, whose one step it refines informally.

**LtcTransport** is independent of the jobs: engine thread, scheduler thread and the
mutex of the stream state.  A command is turned into a list of steps (`todo`) that the
engine works off, because a stop can block in the middle: `joining` is the thread it
waits for, and while it waits it holds the mutex (`Locked`).  The scheduler takes the
mutex to read the state (`ReadState`), releases it, asks the watchdog, encodes and
pushes the frame, and takes it again to advance the timecode (`AdvanceState`).  Clock,
samples and ring are choices: a frame may be due or not, a callback stalled or not.
`ensure_audio_init` with its retries and its fall back to another device is one step
that ends with or without an output.  Timecodes are the frame numbers of a day.

**SignalRing** is the way of the samples from the scheduler to the device.  A sample is one
of the `Parts` of a frame and says which frame it belongs to, because the properties
tell apart no more: where a frame is cut, repeated or overtaken.  `StartRing` and
`PrefillFrame` put the lead-in and the prefill frame by frame behind whatever is still in the
ring, which the device may be emptying meanwhile; `PushSamples` pushes what fits; the callback
takes a sample or plays silence.  The device may fall behind the clock of the
system or run ahead of it (`behind`).  `allowance` is a history variable: the queue that
starts, resets and clocks explain.  A clap writes down the timecode the last tick has read
and is heard with the next sample, because its ring is empty.  **SampleClock** is the number
of samples of each frame, with the accumulator kept as an exact fraction; the code
uses an `f64`, whose error over a day is far below a sample.

**LtcFrames** is the encoder, a recording, and the decoder that works on zero crossings.
Frames become bits, bits become intervals between crossings, in quarters of a bit; a
recording loses or gains a crossing somewhere, or an end.  The decoder reads bits from
intervals, searches sync words with their tolerance, takes the dominant alignment for
the grid, looks for chains off the grid and reads the timecodes.  Finding the crossings
in samples, and the bit length they are measured with, are left out: lengths are exact.

**WidgetSync** is one setting and the widget that shows it, in the four ways the two
interfaces use `EditState`: bound in every frame (egui), written to only (the choice of
the timecode track in egui), pushed by a timer (Slint toggles and choices), and texts
that remember what was pushed (Slint).  The engine and the user interface are two
threads; commands are counted on one side and acknowledged by the count in the
snapshot on the other.  **CardEdits** is what the user enters about cards while a scan
replaces their list: names by mount (egui) or by place (Slint), files by place (both).

**MCProcesses**, **MCInterfaces** and **MCSignal** put models side by side that have
no state in common, so that one run checks them: the variable `subject` says which of them
moves, and the others stay at rest.  The other MC modules give constants their values.

Each module states one type invariant besides its properties.  In every module some
operators are marked as slips: what a plausible mistake would make of the definition that
follows.  Nothing uses them; replacing the definition by its slip must break the property
it is listed with in `PROJECT.json`.

## 3. The runs

| run | states | what it shows |
|---|---|---|
| `recording_flow` | 1.5 M | three jobs over four kinds, two folders with two and one recordings; no worker forgotten, no final event lost, what is shown fits the selection; implements JobSupervisor |
| `published_status` | 171 k | two jobs of conversion and offload, through shutdown; the status of an offload follows it, each job is reaped, shutdown ends |
| `ltc_transport` | 2.0 M | two outputs, two schedulers, a day of three frames, two frames of prefill; stalls, recoveries, resets, device changes |
| `offload` | 187 k | one copy of two cards into one of two folders; implements JobSupervisor with its fairness |
| `processes` | 994 k | every pipeline, channel map and kind of clip, ffmpeg ending in every way at every step; the three ways to call it against a child that does as it likes; both implement Task |
| `parallel_decode` | 361 k | two workers, a bridge and a user who cancels, files of no, one and several chunks; implements Task |
| `timecodes` | 332 k | every way of misreading two frames of a file of ten, with dropouts, at midnight, at minutes that leave numbers out |
| `hw_validation` | 35 k | two builds of ffmpeg, three codecs and containers, any number of sessions that end anywhere |
| `tagging` | 4.8 M | two clips, one of nine forms and one of four, and a file of someone else; three ways to name them; 25 and 29.97 frames per second; two sessions that end anywhere |
| `interfaces` | 389 k | four kinds of widgets against a late engine; names of two cards that are scanned again |
| `signal` | 693 k | twelve frames with a crossing lost or added in four of them; frames through a ring; four hundred frames of 29.97 per second at 44.1 kHz |
| `stop_deadlock` | violation | section 5, 1 |

What the properties say:

* `LiveWorkersListed`, `FinishedNeverLost`, `JobsAreReaped`, `ShutdownReturns`: the
  supervisor's contract, under the commands of the flow and of the conversion.  Two jobs are enough for one to be reaped while another moves
  to its place, and for one to supersede another; the invariants are proved for
  any number of jobs, so the bound matters for the liveness properties only.
* `ShownFits`, `ScannedFolderListed`: a late result does no harm: probes are shown only
  with a selection, group results are those of the selection, a result is that of
  the newest decode, and the folder listed is the one scanned last.  Three jobs allow a scan, a replaced job and
  its replacement.
* `OffloadSettles`: what is shown as running is shown as ended later, although the poll
  goes on seeing its thread.
* `CompletedIsDelivered`: a card reported as completed is in place.  It holds for plans in
  which no two cards bear one device name and for cards without files whose own
  names end in a suffix like ` (2)`: otherwise two sources can share a destination and
  the second replaces the first (`resolve_collision` looks only at how often the
  unsuffixed name was seen, and a plan is made per card).
* `PreviewIsWritten`: two pieces of code compute the outputs, the list shown beforehand
  (`plan_output_paths`) and the steps (`plan_video_steps` and the pipelines); a
  conversion of clips that succeeds has written the same files, each whole.  It needs clips
  that are as the first one was when the list was made (`AsProbed`).
* `NoLtcWritten`: the timecode that is to be dropped is found again after the channel
  map has moved it, in clips whose audio is laid out in another way.  Of the splits it speaks
  only where there is a map (`Splits`; section 5 says what happens without one).
* `PartialIsReported`: after any order of failures, stalls and cancels every part of an output
  was reported.  What an encoder that did not start has left is not one: `process.rs:282`
  removes it, and if that fails (the state `stuck`) the next encoder writes over it; after a
  cancel in between it stays, and nothing says so.
* `NoOrphan`, `LinesDelivered`, and `CallEnds` in `CallIsTask`: exits, time limits, stalls and
  cancels in any order with the writes of the child and with reads that fail.  A caller told of
  the exit has every line that was read, and that is every line unless a read has failed
  (section 5, 10 is what is lost then).
* `EveryFrameInAChunk`, `FramesOnce`: the plan of chunks covers every frame in one piece
  whatever the length of the file, and the merge takes each once although two chunks
  place it differently.  `OkIsWhole`, and `DecodeEnds` in `DecodeIsTask`: the threads.
* `RepairIsRight`, `StartIsTrue`: a repair never makes a frame wrong that was read right;
  with a signal that begins without a fault (`CleanHead`) the start of the file is the true one,
  with drop-frame counting only as long as none of the numbers up to the first frame follows one
  that is left out (`NoneLeftOut`; section 5, 3 is the other case).  They hold for files in which
  no misread value happens to continue another one (`Unrelated`), the only plausibility the
  code can judge by.
* `OfferedWasTested`, `ChoiceSurvives`, `WithheldIsDecided`: the cache vouches for nothing
  that was not tested with this ffmpeg and these devices; a late second stage
  leaves a choice alone that can still be used; in the end exactly what passed is offered.
* `NothingLost`: no order of partial writes, crashes, retries and names loses, doubles or
  empties a file.
* `ReportedIsTrue`: a clip reported as tagged carries the timecode in the part that the track
  or the header says, and a reader at the clip's rate gets back the second and frame that
  were to be written.  Excepted is where tagging in place cuts something off (`Exact`): an MP4
  at a rate with a fraction or beyond 4 GiB, a WAV that was damaged before or is too long for its
  header (section 5, 11).  A WAV at any rate is not excepted: rounding to samples and
  back gives the frame as long as there are more samples than frames.  The property
  speaks of the sample and of the offset that leads to it, not of the layout of the boxes around
  them, which is not modelled.
* `HarmIsReported`: what was damaged, and what has a temporary file left beside it, is in the
  ledger.  That a clip comes back as another kind of file is not in the ledger, and the
  property says when that happens: only to clips for which ffmpeg is told another container
  than their own, and which are reported as tagged (section 5, 12).
* `PlayingAgrees` (`PlayingIsDriven` and `SilentWhenStopped`): the engine's `is_playing` and the existence of a
  scheduler agree between commands.  The second rests on an argument that is nowhere in
  the code: the exhausted ladder stops nothing itself, but every way of getting there
  has torn the stream down before.
* `StoppedStaysStopped`: a recovery asked for by a stream that was stopped since does
  not start it.
* `TimecodeOnTime`: the frame in hand carries the timecode counted from the last start;
  after a reset it may be one ahead, once and for all, when the reset fell between the
  scheduler's two locks.
* `ImplementsSupervisor`, `OffloadImplementsSupervisor`: each handler is a step
  JobSupervisor allows, so its guarantees carry over.  For the copy job the refinement
  includes `FairSpec`: the assumption that workers end is discharged for it.
* `NoRevert`, `Settles`: what the user has entered stays on the screen until a
  snapshot that has it, whatever older snapshots arrive and whatever other command is
  confirmed before; a widget left alone ends up showing the setting, whoever
  changed it last.  `Settles` is about the widgets that are synchronised (`bound`, `pushed`).
* `NameIsOwn`: a name typed while the list changes is that of the card it was typed for.
* `IntactIsFound`, `FoundIsTrue`: with one crossing lost or added, or an end missing, the intact
  frames are found; if the bits have slipped, on each side that has at least five of
  them, but for the one after the damage.  What is found is in order and was sent, but for
  at most one timecode for each frame something happened to.
* `QueueIsAccounted`, `HeardAsMade` (`HeardInFrames` and `HeardInOrder`): the delay is that of
  starts, resets and clocks, a frame is heard once, after the one before it, and cut at most at
  its end and only when the ring was full.  `NoDrift`: the samples stay with the clock.
* `ConversionIsTask`, `DecodeIsTask`, `CallIsTask`: these bodies end once, as cancelled only
  if asked, and after being asked, whatever ffmpeg does.

Some properties are stated in the modules and hold, but are no part of a run: the type
invariants (those of JobSupervisor, Offload, ParallelDecode and DecodedTimecodes are proved);
`LatestIsNewest`, `FinishedIsLast`, `ChunkDecodedOnce`, `InRange`, `FirstIsTrue` of
DecodedTimecodes (a stretch without a fault makes the first frame a true one), `OneEncoder`
(two encoders are never mixed in one run) and `CancelIsPrompt` of Conversion (at most one
more call after the flag is set), which are proved; `OneOffload` (no second copy of the cards while one runs), `OffloadEndStays` and
`StatusImplementsSupervisor` of PublishedStatus, `FallsSilent` of SignalRing
(a stopped stream plays out what is queued and falls silent, under `RingSpec`), `TmpOnlyAfterError`
and `CancelIsPrompt` of Offload, `BarIsHonest` of ParallelDecode (the bar is full when the work is)
and `PublishedIsUsable` of HwValidation.  Adding one to the configuration of its
module checks it.

`CHECK_DEADLOCK FALSE` is given where the system really stops: a conversion, a call, a
decode, the passes over a file and the last session of the tagging end; the
transport stops after `Shutdown` and really hangs in the deadlock of `stop_deadlock`.
The combined runs stop because their bounds on commands, frames and epochs are used up.
RecordingFlow, PublishedStatus, Offload and HwValidation run with the deadlock check on.

### Fairness

* Engine steps are weakly fair: the loop never blocks on anything but the joins, and
  those are separate actions.
* `DeadlinePasses`: time passes.
* Workers of JobSupervisor are weakly fair only in `FairSpec` and the specifications of its
  extensions: a worker ends because its subprocesses are watched for stalls and file
  system calls return.  `ShutdownReturns` needs this: `shutdown` promises a time limit, but
  it looks at the deadline only before a join.
* Conversion: the steps of the job, and that a process that was killed ends.  Nothing is
  assumed of ffmpeg: it may run for ever, and the job ends when it is cancelled.
* Subprocess: caller and reader; nothing of the child, and no read has to fail.
* ParallelDecode: the job, the bridge and each worker, which compute.
* HwValidation: the jobs, whose calls of ffmpeg all have a time limit, and the engine.
* Tagging has no liveness property; its calls have time limits.
* WidgetSync: the engine, which ticks every 40 ms, and the screen, which is drawn or polled
  again within a second.  Nothing of the user: he need not move the focus.
* PublishedStatus: also the steps of the shutdown, which the engine takes by itself.
* SignalRing has liveness only in `RingSpec`: the clock and the device go on.
* `StopReturns` is refuted under fairness of both threads.

### Assumptions on the environment

* `GuiWaits`: the user interface offers Start only while the snapshot it shows does not
  play.  Two presses within one tick are outside it: `start_ltc` would then leave
  the first scheduler running with a stop signal nobody can reach.
* The decode commands name files of the selected recording.
* The operating system grants the wake lock, and a process that is killed ends.
* A child does not hand its pipe on to a process that outlives it.
* Reading the fields of a frame gives the right timecode, another one or none; a misread
  value that continues a neighbour cannot be told from a right one.
* A recording loses or gains one crossing, in one frame.  The lengths of intervals are those sent.
* No other program changes the folder while clips are tagged; a rename either happens or
  does not.

### Bounds

`MaxJobs`, `MaxItems` (job ids and item events), `MaxOutputs`, `MaxSchedulers`, `MaxEvents`
(opened outputs, spawned threads, unread audio events), `Day`, `Prefill`, the two
attempt limits (the code has 3 and 3; the runs use 1 and 2, enough to reach each rung).
`HasRoom` in RecordingFlow keeps one job for the follow-up of a deferred selection, and
`MoreToCome` in Offload leaves the inputs of a plan alone when no further plan can be made.

Conversion: two clips or tracks (a second one can differ from the first, fail after it
or be skipped) and a chain of two encoders, one of which needs a device.  Subprocess: three
lines and a pipe of two, so that the child has to wait; a limit of three rounds.
ParallelDecode: lengths 0, 5 and 14 with chunks of 8 and an overlap of 4, which makes
no chunk, a single one and several with a short last one; frames of 4 at two offsets, placed wrong by
one at most; progress in two steps; two workers.  The invariants that do not depend on the
merge are proved for all lengths and any number of workers.  DecodedTimecodes: a clock of
three frames, two seconds, two minutes and two hours, of which two numbers are left
out in every second minute, so that a file of ten frames passes a minute that leaves
numbers out or midnight; two misread frames, because a wrong neighbour of a
wrong frame is the case the repair has to survive.  HwValidation: two builds that
differ in encoders and formats; three codecs, one made in software only, one by two hardware
encoders or in software, and one that a build has in hardware only; an encoder that needs no
device, one that needs VAAPI and one Vulkan.  Sessions are not bounded.  Tagging: two
clips, one file of someone else, names that number the clips, that are one for all, and that
swap those of the clips; two sessions, so that one finds what another has left.  The first clip
is in turn of each kind that is treated differently, with a bext chunk or without,
with its moov box first or last, short or beyond 32 bits; each is tagged once at 25 and once at
29.97 frames per second, with frames at both ends of a second; 8000 samples per second.
WidgetSync: three values, three commands on their way and two changes by the engine, so that an
edit, a second edit and a foreign change can cross.  CardEdits: two cards with two files, four
commands: two names, a file and a scan.  LtcFrames: twelve frames, so that a slip leaves at
least five frames on one side of it, the length a chain must have, and fewer on the other; the
slip falls into frames 1, 3, 6 or 12, or up to 90 intervals (more than a frame) are missing at
an end.  SignalRing: two samples a frame, a ring of seven, which
is no multiple of it, and two starts or resets.  SampleClock: 400 frames; proved for all.

## 4. The proofs

Eight modules are checked by TLAPS for every value of the constants the assumptions allow
(`NoKindAssumption`, `OutcomeAssumption`, `MaxJobsAssumption`, `MaxItemsAssumption`,
`KindsAssumption`, `NoneAssumption`, `DecodeAssumption`, `TimecodeAssumption`,
`FileAssumption`, `HardwareAssumption`, `StartsAssumption`, `FoldersAssumption`,
`TemplatesAssumption`, `ClockAssumption`, `SubprocessAssumption`, `FilesAssumption`,
`OffloadKindAssumption`, `OffloadOutcomeAssumption`, `OffloadNoneAssumption`, `RingAssumption`,
`NothingAssumption`, `TransportAssumption`, `WidgetAssumption`, `CardAssumption`,
`FrameAssumption`, `ConversionAssumption`, `CasesAssumption`, `JitterAssumption`,
`FramesAssumption`, `SentAssumption`).  TLC
evaluates each of them in the runs.  Those that say more than that a number is a number or a
value is not another one:

* `CasesAssumption`: what `assemble_converter_settings` (`engine.rs`) puts together.  There
  are four pipelines; what is not metadata only is video exactly for clips; clips have a
  source of the timecode; the layout of each clip is known.  The map may be any sequence.
* `StartsAssumption`: a second of a clip has room for the frame its start names, and for more
  samples than frames.
* `JitterAssumption`: decoders misjudge where a frame begins by less than half its length;
  the threshold of `merge_results`, below which two reports are one frame, is made for that.
* `TimecodeAssumption`: fewer numbers are left out than a second has, and a minute has at least two
  seconds and an hour at least two minutes, so that numbers a few counts apart are not an hour apart.
* `FramesAssumption`: the fields of a frame hold what the clock can show (tens of frames and
  hours have two bits, of minutes and seconds three); three frames or more are
  recorded, because of two the one that is left has no majority (section 5, Decoder); and an end that is
  missing is no longer than the shortest frame has intervals, 93.
* `SentAssumption`: no timecode is sent twice, that is, the recording is shorter than a day.

Some theorems have a hypothesis of their own, which says
what the property needs and the code does not see to; the runs meet it too:

* `GuiWaits` (LtcTransport): Start is offered only while nothing plays, as in both interfaces.
* `Ui = "egui"` (CardEdits): names are sent with the mount point; section 5, 19, is the other case.
* `NoSuffixedNames` (Offload): no file of a card is called what another one would be called
  with a suffix.  `resolve_collision` counts names and never looks whether the name it makes up
  is that of a file, so two files may get one
  destination (section 5, 21).
* `ShortDropouts` (DecodedTimecodes): of as many frames as an hour has, one is read and in
  range.  Two frames an hour apart, both misread by an hour in the same way, could otherwise
  confirm each other.

**RecordingFlowProofs**: the supervisor

* `TypeCorrect`: `TypeOK` is inductive once the index `scan` is known to stay
  within the list.
* `LiveWorkersAlwaysListed`, `LatestAlwaysNewest`: `ListInv` adds that exactly the jobs
  below `next_id` are born, that a born job has a kind and that a listed job is
  born.  A spawn preserves both invariants because the new id is above every id in
  use, a reap because only a thread that has ended leaves the list (the lemma on
  `SwapRemove`: every other entry stays, none is repeated).
* `FinishedIsNeverLost`, `FinishedIsAlwaysLast`: an event is in one of two queues, and
  `Pipeline` is both, one after the other; lemmas say what a poll, a send and a taken
  event do to it.  `EventInv` ties it to the workers: a final event that is queued or
  settled comes from a worker that has reported, so a running one has none.

**RecordingFlowProofs**: the flow

* `FlowImplementsSupervisor`: every action of RecordingFlow is an action of JobSupervisor
  on its variables or leaves them alone; step simulation, one case per action.  The
  theorems above then hold of the flow (`FlowLosesNoResult`).
* `ShownAlwaysFits` (`ShownFits`): one inductive invariant, `ShownInv`.  Its heart: only the newest job of a kind gets past the
  staleness gate; a group result that is shown is the work of the newest group decode,
  which is that of the selected recording, because a selection empties `group` and only a
  new group decode fills it; the newest id of a kind is below `next_id`, so a spawn
  leaves the work of the others alone.
* `ScannedFolderAlwaysListed` (`ScannedFolderListed`): if scans do not panic, each final event of
  a scan says it succeeded (`ScansSucceed`; a spawn does not change the kind of a job that
  exists), and the newest scan was started for the folder chosen last (`NewestScan`).  Only
  the handler of scans settles a scan that is not stale, and it then lists that folder.

**ConverterProofs**

* `NoOrphanEver` (`NoOrphan`), `LinesAlwaysDelivered` (`LinesDelivered`): `CallInv` ties where
  the caller is to what has become of the child.  `LinesInv`: nobody but a running child writes,
  and the reader of a watched call ends only when the pipe is closed and empty or a read has
  failed, so at `await` nothing more is read (`WaitInv`).
* `CallTakesTaskSteps`: the initial state and every step of a call map to Task; the safety half
  of `CallIsTask`.  That a call ends stays with TLC.
* `NothingIsLost`: each clip is in the folder once.  Each write keeps the clip and its
  media (`Kept`, with one lemma each for appending, replacing a part and remuxing),
  each rename goes to a name that is not there (`RenameKeeps`).  The clips still to be
  done lie where the session has found them (`InputsInv`), because names once taken
  are never given again.
* `ReportsAreTrue` (`ReportedIsTrue`): a clip is reported only when nothing more is written to
  it (`TaggedInv`), so what is reported stays true of its file (`TruthInv`).  `WorkInv` follows
  the place of the sample from the track that names it in advance to the part that is
  appended there.  `CountedBack` and `SampledBack` are the arithmetic: for every timecode, a count
  of frames at a whole rate and a count of samples at any rate say the second and the frame
  they were made from.
* `HarmAlwaysReported` (`HarmIsReported`): each clip that is done with is unharmed or in the
  ledger, and is what its name says or was made another kind of file by ffmpeg (`HarmInv`,
  `KindInv`).  For that, how far the writing of the clip at work has got must say what is
  left to be owned up to (`WorkInv`), what has not been begun is as it was found
  (`UntouchedInv`), and temporary files belong to clips that were given to ffmpeg (`BesideInv`).
* `BrokenAlwaysReported` (`PartialIsReported`): until a run has failed, all files that are not
  whole are in the ledger, but for the one being written (`RunInv`: `Recorded`, `Reported`), and
  the result at the end says what became of the run (`Ended`).
* `RunTakesTaskSteps`: the safety half of `ConversionIsTask`.  `CancelAlwaysPrompt`: no call was
  begun late when another is decided upon (`PromptInv`).  `EncoderAlwaysOne`: while encoders
  are tried no file is whole; one that has worked is the only candidate (`EncoderInv`).
* `LtcNeverWritten` (`NoLtcWritten`): every step that is planned is clean, and steps are only taken
  from the front of the plan (`PlanInv`).  The lemmas are about the plan: what the channel map and
  the swap do to the timecode's place, which channels the loop over the pairs selects, and what a plan
  flattened from those of the clips contains.
* `PreviewAlwaysWritten` (`PreviewIsWritten`): the files written and those of the steps left
  are together the list shown beforehand (`PreviewInv`: `Closed`, `Listed`).  At the start this
  says that the two computations of the outputs agree, for any clips like the first one.

Loops are folds in the code and functions over the rounds in the model.  What they compute for every
input is proved without induction theorems: `LeastNumber` says that a set of numbers has a
least one, `Counting` that a set with 0, and with each number the next, has all; the set is the
rounds for which the claim holds.  The loop of `SelectedChannelPairs`, a flattened plan, the
rounds of the merge and the numbers of a day are treated so.

**ParallelDecodeProofs**

* `NoFrameIsCut` (`EveryFrameInAChunk`): between two rounds of the planning loop, whatever
  ends before the planned end lies within one chunk and the next one begins one overlap
  before it (`PlanInv`); a chunk is longer than the overlap, so the next round keeps that.
* `EachChunkOnce`, `SuccessIsWhole`: `WorkInv` says that each chunk below the counter is
  stored, or in the hands of one worker, or the job is cancelled; and that slots say
  `Cancelled` only if it is.  The look at the flag after the joins then makes a result
  whole.  `DecodeTypes` is proved with it.
* `EveryFrameOnce` (`FramesOnce`): `LateInv` says what the chunks being gathered report.  After
  each round of the merge the reports kept are in order, each is distinct from the one before, and every
  report is still to come or covered by one kept (`Sound`).  Reports that are not distinct are
  of one frame (`OneFrame`), which is where the assumption on the jitter is needed, and by
  `EveryFrameInAChunk` each frame is in a report.
* `DecodeTakesTaskSteps`: the safety half of `DecodeIsTask`; a result that is known is reported
  as cancelled only if the user asked (`AskedInv`).

**DecodedTimecodesProofs**

* `IncrementExists`, `BackUndoesForward`: the arithmetic, for a clock of any size: the
  successor of a number that is counted is counted, and the converter's decrement leads back
  exactly if that successor is not the first number of a minute that leaves numbers out, with
  and without drop-frame counting; the exception is where section 5, 3 begins.
* `TimecodeTypes`, `OrderIsKept` (`Ascending`), `StartInRange` (`InRange`): one
  invariant over all passes; `PartKeeps` treats every pass that only drops frames.
* `IncrementCounts`, `NumbersTell`: `Number` is the frame of the day a number counts, with an
  hour of `HourLen` and a day of `DayLen` frames; an increment goes one further (`Ahead`), and no
  two numbers count one frame.  So frames that are a few counts apart on the way round the day
  are so on one way only, which the next three need.
* `RepairAlwaysRight` (`RepairIsRight`): `FileInv` says what a file is: each position holds the
  successor of the one before, and is read right, not at all or misread in one of three
  ways.  Two frames one or two counts apart which are not neighbours are both right, and have exactly
  one frame between them (`Sandwich`); so what a repair or a fill puts in is the true number.
  `FramesInv` follows the frames: as read until they are validated, their own after, and between two that
  are kept none is left out that was in range.
* `StartAlwaysTrue` (`StartIsTrue`): the first two frames are right and next to each other
  (`RightHead`) and survive all passes (`StartInv`); then counting back from the first frame
  gives the start (`BackFromNext`).  The proof showed that drop-frame counting needs `NoneLeftOut`,
  which the clock of the run was too small to show.
* `FirstAlwaysTrue` (`FirstIsTrue`): two seconds without a fault stay among the frames
  (`RunInv`) and are a coherent run (`RunIsCoherent`), so trimming finds a start there or before.

**SettingsProofs**

* `OfferedAlwaysTested`: the cache key holds the list of encoders itself, so two
  sessions with one key test the same encoders; what is carried over from older passes under
  one key is therefore nothing (`ReconciledIsOneSession`), and the cache is exactly
  what one session has seen pass (`CacheInv`).
* `ChoiceAlwaysSurvives` (`ChoiceSurvives`): the checks before a conversion ask for at least what
  the selection of defaults asks for, so what passes them is not replaced.
* `NothingReverts` (`NoRevert`): a command is applied, on its way or not sent (`Counted`), so the
  number of an edit tells whether a snapshot has seen it; an edit the engine has not published
  is pending under its own number and its value is in the shadow (`EditHeld`).  The combo of
  section 5, 18 is why the shadow is claimed only of what is read back.
* `NamesAreOwn` (`NameIsOwn`): what is on its way carries the mount point it was typed for
  (`Meant`), and a scan finds cards with detected names.

**LtcOutputProofs**

* `NeverDrifts` (`NoDrift`): what was encoded beyond the prefill and the accumulator together
  are exactly the time of the frames (`ClockInv`), and the accumulator is below one
  sample, for any sample rate and frame rate that are fractions.  `DivisionFacts` and
  `CountFacts` are the arithmetic of the step.
* `QueueAlwaysAccounted` (`QueueIsAccounted`): as an invariant the property needs the frames
  that are still to come: what `start_ltc` has not put in yet and what the scheduler owes
  (`QueueInv`).
* `HeardIsAsMade` (`HeardAsMade`): the frame being heard and the queue are one line, in which each
  sample follows the one before it, or begins a later frame after a whole or a cut one, with
  nothing but lost frames between them (`LineInv`); all frames of the line are older than the
  one being made (`MakingInv`).  A push appends to the line, the callback shortens it.
* `StoppedByTheUser` (`StoppedStaysStopped`): the lists of steps the engine works off are the
  tails of a few plans (`Legal`), and in the plans of a stop nothing starts; a recovery resumes
  only what `was_playing` found playing (`WantedInv`).
* `PlayingAlwaysAgrees` (`PlayingAgrees`): at most one thread works on an output and it is the
  one the output names (`ThreadInv`), a thread that gives up has sent the news of it, and
  where the engine is in its plan says what is open, what is joined and what is still to come
  (`DeviceInv`).
* `TimecodeAlwaysOnTime` (`TimecodeOnTime`): the state of an output holds the timecode that is
  due, the frame in hand is the one read from it, and the thread between its two locks is the
  only one that may be a frame behind (`TimeInv`).

**LtcFramesProofs**

From what is sent to what is found, for every recording; the places of the damage, the
timecodes and the number of frames are arbitrary.

* The signal.  `WriteValBits` and `BitsOfFrame` say which bit of a frame is which digit's, and
  that the bits nobody writes are zero.  `MarksAreTimed` and `TimedJoin`: the intervals of
  the whole signal are those of its bits (`Timed`), so that every interval has a bit and a frame.
* `ReadingAlwaysTrue`: the inductive invariant is `ReadingInv`.  Intervals say a word if they can be
  split into those of its bits, single short ones being skipped (`IsReading`); whatever the
  intervals say, the loop has its first bits and stands before the next one, or in the middle of
  a skip (`AreRead`).  A skip is why "has read the first bits" alone is not inductive.
* What is heard (`IsHeard`).  One lemma for each way to record: whole, a missing end, a crossing
  lost or added (`WholeIsHeard`, `LateIsHeard`, `EarlyIsHeard`, `LostIsHeard`, `AddedIsHeard`).  A crossing damages
  one bit (`AlignedTo`), or makes two into one, after which everything comes a bit early (`SlippedAt`).
  The lemmas on reading a head and a splice (`HeadReads`, `SpliceReads`) are what they share.
* Where sync words are found.  `OnlySyncWords`: any other sixteen bits of the signal differ from
  the sync word in three places at least, because frames have zeros at fixed places (`Clear`)
  and a sync word that is shifted differs from itself; so with the tolerance of two only true ones
  are found and what the damage makes of its surroundings.  The slip `ToleranceOfThree` is the bound
  from the other side.
* What the scan keeps (`ScanKeeps`): positions at least a frame apart, and one less than a frame before every
  hit.  The damaged places lie in one frame, so at most one position that is kept is not a true one
  (`OddMixed`, `OddStarts`).
* The dominant alignment is that of a side (`DominantIsSide`), the grid finds that side whole, and
  the chain of the other side is accepted if it has five frames (`ChainIsAccepted`), but for the first one after
  the slip, which the scan may jump over.
* Digits are read back as written (`BitsToNatOfBits`, `DecodesTo`), so each frame start that is a
  true one decodes to what was sent.
* `IntactAlwaysFound` (`IntactIsFound`) and `FoundAlwaysTrue` (`FoundIsTrue`) put this together
  (`AlignedFrames`, `SlippedFrames`).  That found timecodes come in the order of their starts is
  `FoundIsOrdered`, on the numbering of a finite set.

The proof showed that a recording of two frames has to be excluded, and that a
missing end may cost more than its frame when it is longer than one; the
bound on `Ends` is the one the proof needs, the run uses 90.

**OffloadProofs**

* `CompletedAreDelivered` (`CompletedIsDelivered`): no two items of a card have one destination
  (`CollisionsResolved`: the suffix counts the files alike up to the one it is given to, and
  sets that contain each other and are equally large are equal); so the items behind the one
  under way stay delivered (`DeliveredInv`), and none belongs to another card when devices
  differ.  `PlanInv` says what the plan of a job is, whatever the user changes after it.
* `OffloadTypeInvariant`, `OffloadStepsOfSupervisor`: types, and the safety half of
  `OffloadImplementsSupervisor`.

Only model-checked: liveness and the fairness part of the refinements (`JobsAreReaped`,
`ShutdownReturns`, `OffloadSettles`, `Settles`, `WithheldIsDecided`, and what
`OffloadImplementsSupervisor`, `ConversionIsTask`, `DecodeIsTask` and `CallIsTask` say beyond
the steps proved above), which are out of the prover's reach; and what is planned (section 6).  Every
safety invariant of a run is proved.

## 5. Where code and documentation disagree

The first is the subject of a run.  The others are stated as properties at the end of their
modules, where TLC refutes them when they are added to a configuration.

1. **Stop can deadlock** (`StopReturns`, `audio_output.rs:390`; run `stop_deadlock`).
   `stop_ltc` joins the scheduler thread with the guard of the mutex held that the scheduler
   takes twice per frame.
2. **A stale decode is applied to another recording** (`ResultOfSelection` of
   RecordingFlow).  `engine.rs:2743` says "Bump decode generations so in-flight results from
   the old recording are discarded by the generation check."  `on_ltc_decode_finished`
   (`engine.rs:2055`) never compares the generation a result was started under with the
   current one: a decode that succeeded just before another recording was selected is
   shown as the result of the new one and sets its split, drop-frame and start
   settings.
3. **A start that is not counted** (`StartExists` of DecodedTimecodes).
   `ltc_encoder.rs:113` says "frames 0 and 1 are skipped at the start of each minute", a test of
   the converter is named `test_shift_timecode_back_drop_frame_skips_nonexistent`.
   `decrement_timecode_frame` (`converter/timecode.rs:72`) goes to the minute before only from
   frames 0 and 1, which no counted timecode has; from 01:01:00;02 it steps to
   01:01:00;01.  The start of a file is then one frame late for every such minute.  The decoder's
   own `decrement_timecode` (`ltc_decoder.rs:1201`) tries the naive step first and accepts it,
   because its successor is where it came from; backfill stops there.
4. **A deferred selection is lost** (`DeferredSelectionApplied`, `engine.rs:135`).
   It waits for a scan result that has been handled already.
5. **Two conversions at once** (`SingleConversion`, `engine.rs:882`, `job.rs:644`).
   `cancel` reaches the first job of the kind only.
6. **Running for ever** (`RunningIsLive`, `engine.rs:322`).  The poll republishes a job
   whose terminal phase a selection has cleared.
7. **The second offload is not shown** (`OffloadIsShown`, `ltc-gui/src/app.rs:159`).
8. **Handoff of an empty folder** (`HandoffHasFiles`, `engine.rs:2039`).
9. **The bridge is waited for in vain** (`BridgeIsShortLived` of ParallelDecode,
   `decode.rs:457`).  The "short-lived helper thread" ends when every chunk is counted or the
   job is cancelled; when `decode_ltc_chunked` returns early because the file cannot be opened
   or scanned, none is counted and the job hangs until it is cancelled.
10. **Output and lines may be missing** (`OutputComplete` of Subprocess, `subprocess.rs:178`).
    `drain_pipe` "reads all bytes" (line 351), but the reader looks at its stop flag before each
    read, and the flag is set as soon as the child has exited.  And lines are lost
    (`AllLinesDelivered`, `subprocess.rs:285`): `watch_stderr_lines` says "On normal exit, all
    buffered lines are delivered via `on_line`" (line 234), but `Err(_) => break` ends its reader
    on the first line that is not UTF-8; what ffmpeg writes after it is read by nobody, and the
    exit is returned all the same.
11. **A tag that says another time** (`TaggedHasTime` of Tagging).  `tag_mp4_tmcd` counts
    frames by `fps.floor()` (`tagger.rs:300`): 29 for 29.97 and 23 for 23.976, so that the last frame
    of a second and the first of the next have one count and no reader can tell
    them apart.  The place of the sample is cut to 32 bits (`tagger.rs:274`), so in an
    MP4 beyond 4 GiB the track leads elsewhere.  A
    WAV whose session ended between appending the chunk and correcting the RIFF size is
    patched in place by the next one, whose report is true of a chunk no reader of the header sees;
    the size of one that is too long is cut to 32 bits, too (`tagger.rs:902`).
12. **A WAV becomes Matroska** (`KeepsContainer` of Tagging).  `tagger.rs:952` says "Determine
    output container (match input)", but `container_for_input` (`media_ext.rs:39`) has neither
    WAV nor AVI and answers "mkv".  A WAV that cannot be tagged in place is remuxed with
    `-f matroska` (`tagger.rs:992`), and the result is renamed over the `.wav` (line 1027) and
    reported as tagged via ffmpeg.  The branch for `container == "wav"` (line 983) is
    never taken.
13. **Track ids repeat** (`TrackIdsDistinct`).  `tagger.rs:266` says "We need to patch
    mvhd's next_track_id"; it is written back unchanged, so a clip tagged twice has two tracks
    of one id.  The older timecode track stays in the file, too.
14. **The fallback cannot read what it is given** (`FallbackCanRead`).  A failure after the
    moov box has become free space leaves a file ffmpeg does not open.  It is reported
    (`HarmIsReported`), but the file is not repaired.
15. **The key is not of the build** (`KeyIsOfBuild` of HwValidation).  `hw_cache.rs` says the key
    "identifies the ffmpeg build, not the validation outcome"; the list it holds has lost
    what stage 1 has tested and found failing, so a flaky encoder changes the key.  For
    the same reason what older passes knew is never added to the cache: with the same
    key the same encoders were tested.
16. **The container changes** (`ContainerIsKept`).  "Re-select best defaults for the new
    container" (`engine.rs`) takes the best combination of all, which may have another one.

17. **A reset text goes on showing the edit** (`TextIsRendered` of WidgetSync, with
    `Widgets = {"text"}`; `ltc-slint/src/shadows.rs:57`).  `shadows.rs:6` says "once acked, one
    final push renders the confirmed value".  The reset of the converter
    (`ltc-slint/src/main.rs:1018`) does not set the property, and `sync_and_push` compares with
    what was pushed last: a text that is typed and reset before a tick has seen it
    confirmed equals what was pushed last, and is not pushed.
18. **The timecode track is not followed** (`ComboFollows` of WidgetSync, with
    `Widgets = {"combo"}`; `ltc-gui/src/widgets/converter.rs:668`).  `ltc-gui/src/shadows.rs:5`
    says that "decode auto-apply, recording-selection resets" and others "propagate through
    `EditState::sync`".  The shadow of the track is synchronised only where it is overwritten at
    once, so the combo, the next decode and the preview of names keep the old track while
    the conversion uses that of the engine.
19. **A name for another card** (`NameIsOwn` of CardEdits with `Ui = "slint"`;
    `ltc-slint/src/main.rs:1320`).  `command.rs:176` says of the command by mount "GUIs should
    prefer this one"; the Slint interface names cards by place in the list it shows, and a
    scan may have put another card there.  Files are chosen by place in both interfaces
    (`SelectionIsOwn`).
20. **The timecode of a clap** (`ClapIsExact` of SignalRing; `engine.rs:616`).  `README.org:167`
    says "the beep and flash mark the exact timecode, which is logged with the take number".
    What is logged is the frame to be generated next; the LTC heard with the beep is older by all
    that is queued, a lead-in and five frames at least.  (The property allows one frame.)
21. **A suffix that is taken** (`CompletedIsDelivered` with `Files` containing the name twice and
    the pair of the name and 2; `offload.rs:1068`).  The plan is made with "collision handling" (line
    858), which counts the names of the card and does not look whether a name it makes up is that
    of a file: with `a.mp4`, `a.mp4` and `a (2).mp4` on a card the third copy replaces the second,
    and the card is reported as completed.  `NoSuffixedNames` excludes it in the proof.

Seen while modelling, not stated as properties:

* Engine: `README.org:97` says that existing files of matching size are skipped, and
  `copy_file` has no such check; `VERSION_LOG.org:523` says that a cancelled copy shows
  "Canceled by user" instead of "Offload complete", and the job returns success with the
  cards completed so far; the watchdog's attempts are forgotten by every
  initialisation that succeeds, and an initialisation that fails in a recovery leaves
  `is_playing` false, so that the next attempt does not resume; a card scan starts
  a duration probe while the converter's is under way, whose results become stale
  (`engine.rs:1922`); the headless program goes on after `StreamDead` (`cli.rs:507`).
* Encoders: `engine.rs:1750` says every codec has a software encoder to fall back to, which
  an ffmpeg built without it has not; the capabilities called "full (unvalidated)" in
  `hw_cache.rs` have been validated by `query_ffmpeg_capabilities`, so everything is tested twice.
* Conversion: an audio track is skipped for clips that lack it (`runner.rs:967`) although the plan
  is made for all (`planning.rs:309`); the preview "single enumeration" (`planning.rs:375`) is
  another one for the synthetic split and for metadata only; an audio split that is cancelled before
  its first track ends with "No output tracks produced"; a cancel during a call of ffmpeg
  ends as Failed; an extraction without split writes all clips to one path.
* Conversion: the map stays empty when the first clip is silent or was not probed
  (`reconcile_channel_map_to_probe`, `engine.rs:2292`).  The metadata pipeline then does not
  split (`use_split`, `runner.rs:1404`), and writes the first channel of each clip although a
  split without the timecode was asked for; that channel may be the timecode.
* Decoding: the head that is dropped leaves `first_ltc_timecode_secs` where it was
  (`ltc_integrity.rs:171`); a first frame misread as its successor lets the repair run
  down the file (`ltc_integrity.rs:14`); what the second pass drops is not in the
  statistics; the libltc decoder skips the integrity passes; the merge takes a first frame
  at 0.0 seconds for none.
* Tagging: the sample of a drop-frame track counts the numbers that are left out
  (`tagger.rs:299`: "the number of frames from midnight"); a file made by another program
  between the look for a name and the rename is replaced.
* Tagging, the layout of the timecode track, which the model leaves out: the comment says the
  drop-frame flag is "bit 0" and the 24-hour flag "bit 1" (`tagger.rs:457`), the code sets
  `0x100` and `0x200`; the entry of the sample description has no reserved field between
  its header and the flags, and its frame duration is the rate, not one unit of it
  (`tagger.rs:620`).  The test with ffprobe looks for the track only and says that the value
  is not surfaced (`tests/tagger_mp4.rs:267`).  A box with a 64-bit size makes the native tagger
  give up.
* Decoder: a sync word found late, or one made by chance, lets the scan jump over that of the
  next frame (`ltc_decoder.rs:2474`), and off the grid a run of fewer than five frames is lost
  although each of them is good; `dedupe_near_duplicates` is given
  starts that lie a frame apart and so has nothing to remove.  In a recording of two frames the sync
  word of the intact one and one that is found a bit off in the other are a tie, and
  `dominant_alignment` takes the later alignment, be it the wrong one.
* User interfaces: the handoff from an offload presets the timecode track, and the selection
  that follows resets it (`engine.rs:2714`).
* Signal: the queue never shrinks by itself, so each quick stop and start adds a lead-in
  and five frames to the delay and each reset up to a frame, until the ring is full; a reset
  between the scheduler's two locks skips the first frame.
* Signal: a frame pushed in part when the ring is nearly full swaps the channels of an output
  that uses only one of them (`audio_output.rs:1202`); after a stop old samples stay in the ring.

## 6. Plan

Done, in this order: JobSupervisor and RecordingFlow with proofs, PublishedStatus,
LtcTransport, Offload; Task with Conversion, Subprocess and ParallelDecode, whose safety is
proved; DecodedTimecodes with its proofs; HwValidation and Tagging, each with the proof of its
main invariant; WidgetSync and CardEdits; LtcFrames, SignalRing and SampleClock; the proofs of
Subprocess, LtcTransport, SignalRing, Offload, WidgetSync and CardEdits; those of Conversion and its plan,
of the reports of Tagging, of the merge and of the repair of timecodes; those of LtcFrames.

Next proofs: `OneOffload` and `StatusImplementsSupervisor` of PublishedStatus;
`CancelIsPrompt` of Offload; `BarIsHonest` of ParallelDecode; `PublishedIsUsable` of HwValidation.

Next modules: the remaining commands of the converter with the single-file probes; the watchdog
of the scheduler with a clock; ProgressTracker; the loop of the command line.

## 7. Not modelled

* Signal processing in floating point: levels, filters, finding zero crossings in samples, the
  correlation decoder, scores, drift and quality.  TLC has no such numbers to offer.
* The choice of a device configuration; scene, take and roll of the clapper.
* The argument lists of ffmpeg, name templates, file patterns and the grouping of files into
  recordings, card detection, parsing of ffmpeg's output: strings and formatting, without
  interleavings of their own.  Where they decide what happens, their outcome is a choice (a folder
  scan among fixed contents, a probe that finds any layout).
* The checks of the settings before a conversion, except for formats and codecs; trimming.
* Configuration, logging and the data types of the state.
* Layout and drawing of the user interfaces; apart from WidgetSync and CardEdits they are
  represented by the commands they may send.  The command line has a sequential loop of its own
  over the same parts.

Of the lines no definition stands for, most are of these kinds, and of the large files
`ltc_decoder.rs`, `converter.rs` and `cli.rs` a good part is tests, floating-point processing,
layout, and the parsing of arguments.
