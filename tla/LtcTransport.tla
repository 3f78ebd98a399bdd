---------------------------- MODULE LtcTransport ----------------------------
(***************************************************************************)
(* The generation of the timecode signal: the engine thread starts, resets *)
(* and stops the stream, a scheduler thread encodes one frame after the    *)
(* other (audio-core/src/audio_output.rs), and its watchdog asks the       *)
(* engine to recover a stream whose callback has stalled                   *)
(* (gui-engine/src/engine.rs).                                             *)
(*                                                                         *)
(* Engine and scheduler share the LtcStreamState of an output behind a     *)
(* mutex.  The scheduler takes it twice per frame, to read the state and,  *)
(* when the frame is in the ring, to advance it; between the two it holds  *)
(* nothing.  The engine holds the mutex while it joins the scheduler.      *)
(*                                                                         *)
(* A timecode is the number of its frame in the day.  The audio samples,   *)
(* the ring buffers, beeps and the clock are left out: whether the next    *)
(* frame is due, and whether the callback has stalled, is a choice.        *)
(***************************************************************************)
EXTENDS Integers, Sequences

CONSTANTS
    MaxOutputs,     \* bound: how many outputs are opened in a behaviour
    MaxSchedulers,  \* bound: how many scheduler threads are spawned
    MaxEvents,      \* bound: how many events wait to be drained
    Day,            \* the frames of a day, after which the timecode wraps
    StartTimecode,  \* the timecodes the user starts from or resets to
    Prefill,        \* the frames start_ltc encodes itself
    MAX_ATTEMPTS,           \* the soft attempts of the watchdog
    MAX_RECOVERY_ATTEMPTS,  \* the soft attempts of the engine
    GuiWaits        \* whether the user waits for the display before the next
                    \* press: Start is only offered while nothing plays

ASSUME TransportAssumption ==
    /\ MaxOutputs \in Nat /\ MaxSchedulers \in Nat /\ MaxEvents \in Nat
    /\ Day \in Nat \ {0} /\ StartTimecode \subseteq 0..(Day - 1) /\ Prefill \in Nat
    /\ MAX_ATTEMPTS \in Nat /\ MAX_RECOVERY_ATTEMPTS \in Nat \ {0}
    /\ GuiWaits \in BOOLEAN

Output == 1..MaxOutputs
Scheduler == 1..MaxSchedulers
Timecode == 0..(Day - 1)
Nobody == 0

VARIABLES
    output,             \* the open output, or Nobody
    opened,             \* how many outputs were opened so far
    ltc,                \* the LtcStreamState of each output
    spawned,            \* how many schedulers were spawned so far
    at,                 \* where each scheduler is in its loop
    out_of,             \* the output each scheduler works for
    stop_signal,        \* the stop signal each scheduler looks at
    tc_of,              \* the timecode of the frame each scheduler has read
    attempts,           \* recovery_attempts of the watchdog of each scheduler
    events,             \* the mailbox of AudioCore
    inbox,              \* the events the engine has drained and not handled
    pc,                 \* the phase of the tick of the engine
    todo,               \* what is left to do of a command or of a recovery
    joining,            \* the scheduler the engine waits for, holding the
                        \* mutex of its output
    is_playing, audio_initialized, recovery_attempts,   \* of the engine
    was_playing,        \* local of attempt_recovery
    wake_lock,          \* whether the system wake lock is held
    wanted,             \* history: the last transport command was Start
    due,                \* history: the timecode of the next frame, counted
                        \* from the last start or reset
    was_reset,          \* history: whether that was a reset
    old_frame           \* history: the frame in hand was read before it

outVars == <<output, opened, ltc>>
threadVars == <<spawned, at, out_of, stop_signal, tc_of, attempts>>
engineVars == <<pc, todo, inbox, joining>>
stateVars == <<is_playing, audio_initialized, recovery_attempts, was_playing, wake_lock>>
historyVars == <<wanted, due, was_reset, old_frame>>
transportVars == <<outVars, threadVars, events, engineVars, stateVars, historyVars>>

SuccTimecode(tc) == (tc + 1) % Day
Locked(o) == joining # Nobody /\ out_of[joining] = o
Alive(s) == at[s] \notin {"unborn", "exited"}

TransportInit ==
    /\ output = Nobody /\ opened = 0
    /\ ltc = [o \in Output |-> [running |-> FALSE, tc |-> 0, scheduler |-> Nobody]]
    /\ spawned = 0
    /\ at = [s \in Scheduler |-> "unborn"]
    /\ out_of = [s \in Scheduler |-> Nobody]
    /\ stop_signal = [s \in Scheduler |-> FALSE]
    /\ tc_of = [s \in Scheduler |-> 0]
    /\ attempts = [s \in Scheduler |-> 0]
    /\ events = <<>> /\ inbox = <<>>
    /\ pc = "commands" /\ todo = <<>> /\ joining = Nobody
    /\ is_playing = FALSE /\ audio_initialized = FALSE
    /\ recovery_attempts = 0 /\ was_playing = FALSE /\ wake_lock = FALSE
    /\ wanted = FALSE /\ due = 0 /\ was_reset = FALSE /\ old_frame = FALSE

-----------------------------------------------------------------------------
(* AudioCore, called by the engine thread.                                 *)

\* The state is replaced and the first frames are encoded under the mutex,
\* then a scheduler is spawned; one that runs already is not looked at.
StartStream(tc) ==
    /\ spawned < MaxSchedulers
    /\ spawned' = spawned + 1
    /\ ltc' = [ltc EXCEPT ![output] =
                [running |-> TRUE, tc |-> (tc + Prefill) % Day, scheduler |-> spawned + 1]]
    /\ at' = [at EXCEPT ![spawned + 1] = "top"]
    /\ out_of' = [out_of EXCEPT ![spawned + 1] = output]
    /\ due' = (tc + Prefill) % Day
    /\ was_reset' = FALSE /\ old_frame' = FALSE
    /\ wake_lock' = TRUE
    /\ is_playing' = TRUE
    /\ UNCHANGED <<stop_signal, tc_of, attempts>>

\* The device refuses to play: the state stays replaced, nothing is spawned.
StartFails(tc) ==
    /\ ltc' = [ltc EXCEPT ![output] =
                [running |-> TRUE, tc |-> (tc + Prefill) % Day, scheduler |-> Nobody]]
    /\ UNCHANGED <<threadVars, is_playing, wake_lock, due, was_reset, old_frame>>

start_ltc ==
    /\ \E tc \in StartTimecode : StartStream(tc) \/ StartFails(tc)
    /\ UNCHANGED <<output, opened>>

\* Common to stop_ltc and stop_output: the stop signal is set and, when there
\* is a handle, the thread is joined before the mutex is given back.
StopScheduler ==
    IF output = Nobody THEN UNCHANGED <<ltc, stop_signal, joining>>
    ELSE LET s == ltc[output].scheduler IN
         /\ ltc' = [ltc EXCEPT ![output] =
                    [running |-> FALSE, tc |-> @.tc, scheduler |-> Nobody]]
         /\ stop_signal' = [t \in Scheduler |-> stop_signal[t] \/ t = s]
         /\ joining' = s

-----------------------------------------------------------------------------
(* How the engine thread works off what it has to do: a command or a       *)
(* recovery is a sequence of steps, carried out one after the other.       *)

Doing(step) == joining = Nobody /\ todo # <<>> /\ Head(todo) = step

Idle == pc # "stopped" /\ todo = <<>> /\ joining = Nobody

Recovery == <<"stop_ltc", "stop_output", "closed", "init", "restart">>

-----------------------------------------------------------------------------
(* Slips a change to the code could make, for the mutation entries of      *)
(* PROJECT.json; nothing below uses them.                                  *)

\* The timecode that was copied for the frame is advanced and written back.
AdvanceCopiedState(s) ==
    /\ at[s] = "update" /\ ~Locked(out_of[s])
    /\ ltc' = [ltc EXCEPT ![out_of[s]].tc = SuccTimecode(tc_of[s])]
    /\ at' = [at EXCEPT ![s] = "top"]
    /\ UNCHANGED <<output, opened, spawned, out_of, stop_signal, tc_of, attempts,
                   events, engineVars, stateVars, historyVars>>

\* A successful init does not forget the attempts made before it.
DoInitKeepingAttempts ==
    /\ Doing("init")
    /\ \/ /\ ~audio_initialized /\ opened < MaxOutputs
          /\ opened' = opened + 1 /\ output' = opened + 1
          /\ audio_initialized' = TRUE
          /\ todo' = Tail(todo)
       \/ /\ todo' = IF audio_initialized THEN Tail(todo) ELSE <<>>
          /\ UNCHANGED <<output, opened, audio_initialized>>
    /\ UNCHANGED <<ltc, threadVars, events, pc, inbox, joining, is_playing,
                   recovery_attempts, was_playing, wake_lock, historyVars>>

\* A recovery restarts the stream whether it was playing or not.
DoRestartAlways ==
    /\ Doing("restart")
    /\ start_ltc
    /\ todo' = Tail(todo)
    /\ UNCHANGED <<events, pc, inbox, joining, audio_initialized,
                   recovery_attempts, was_playing, wanted>>

-----------------------------------------------------------------------------
(* The scheduler thread.                                                   *)

CheckStop(s) ==
    /\ at[s] = "top"
    /\ at' = [at EXCEPT ![s] = IF stop_signal[s] THEN "exited" ELSE "lock"]
    /\ UNCHANGED <<outVars, spawned, out_of, stop_signal, tc_of, attempts,
                   events, engineVars, stateVars, historyVars>>

\* Under the mutex: nothing to do while the stream does not run or the next
\* frame is not due yet, otherwise the state is copied.
ReadState(s) ==
    /\ at[s] = "lock" /\ ~Locked(out_of[s])
    /\ \/ /\ at' = [at EXCEPT ![s] = "top"]
          /\ UNCHANGED <<tc_of, old_frame>>
       \/ /\ ltc[out_of[s]].running
          /\ at' = [at EXCEPT ![s] = "frame"]
          /\ tc_of' = [tc_of EXCEPT ![s] = ltc[out_of[s]].tc]
          /\ old_frame' = FALSE
    /\ UNCHANGED <<outVars, spawned, out_of, stop_signal, attempts,
                   events, engineVars, stateVars, wanted, due, was_reset>>

\* The watchdog is content, be it because the callback was called or because
\* the stall is not confirmed, and the frame goes into the ring.
PushFrame(s) ==
    /\ at[s] = "frame"
    /\ at' = [at EXCEPT ![s] = "update"]
    /\ \E n \in {0, attempts[s]} : attempts' = [attempts EXCEPT ![s] = n]
    /\ due' = IF old_frame THEN due ELSE SuccTimecode(due)
    /\ UNCHANGED <<outVars, spawned, out_of, stop_signal, tc_of,
                   events, engineVars, stateVars, wanted, was_reset, old_frame>>

\* A confirmed stall: the engine is asked to recover, the frame is dropped
\* and will be read again.  Failures older than the window do not count.
Recover(s) ==
    /\ at[s] = "frame" /\ Len(events) < MaxEvents
    /\ \E n \in {0, attempts[s]} :
        /\ n < MAX_ATTEMPTS
        /\ attempts' = [attempts EXCEPT ![s] = n + 1]
    /\ events' = Append(events, "RecoveryNeeded")
    /\ at' = [at EXCEPT ![s] = "top"]
    /\ UNCHANGED <<outVars, spawned, out_of, stop_signal, tc_of,
                   engineVars, stateVars, historyVars>>

Die(s) ==
    /\ at[s] = "frame" /\ Len(events) < MaxEvents
    /\ attempts[s] >= MAX_ATTEMPTS
    /\ events' = Append(events, "StreamDead")
    /\ at' = [at EXCEPT ![s] = "exited"]
    /\ UNCHANGED <<outVars, spawned, out_of, stop_signal, tc_of, attempts,
                   engineVars, stateVars, historyVars>>

\* Under the mutex again: whatever the timecode is by now is advanced.
AdvanceState(s) ==
    /\ at[s] = "update" /\ ~Locked(out_of[s])
    /\ ltc' = [ltc EXCEPT ![out_of[s]].tc = SuccTimecode(@)]
    /\ at' = [at EXCEPT ![s] = "top"]
    /\ UNCHANGED <<output, opened, spawned, out_of, stop_signal, tc_of, attempts,
                   events, engineVars, stateVars, historyVars>>

SchedulerStep(s) ==
    \/ CheckStop(s) \/ ReadState(s) \/ PushFrame(s)
    \/ Recover(s) \/ Die(s) \/ AdvanceState(s)
-----------------------------------------------------------------------------
(* The steps of the engine thread.                                         *)

DoStopLtc ==
    /\ Doing("stop_ltc")
    /\ StopScheduler
    /\ todo' = <<"release">> \o Tail(todo)
    /\ UNCHANGED <<output, opened, spawned, at, out_of, tc_of, attempts,
                   events, pc, inbox, stateVars, historyVars>>

\* The output is taken first, so it is gone also while the join lasts.
DoStopOutput ==
    /\ Doing("stop_output")
    /\ StopScheduler
    /\ output' = Nobody
    /\ todo' = <<"release">> \o Tail(todo)
    /\ UNCHANGED <<opened, spawned, at, out_of, tc_of, attempts,
                   events, pc, inbox, stateVars, historyVars>>

JoinReturns ==
    /\ joining # Nobody /\ at[joining] = "exited"
    /\ joining' = Nobody
    /\ UNCHANGED <<outVars, threadVars, events, pc, todo, inbox, stateVars, historyVars>>

DoRelease ==
    /\ Doing("release")
    /\ wake_lock' = FALSE
    /\ todo' = Tail(todo)
    /\ UNCHANGED <<outVars, threadVars, events, pc, inbox, joining, is_playing,
                   audio_initialized, recovery_attempts, was_playing, historyVars>>

DoStopped ==
    /\ Doing("stopped")
    /\ is_playing' = FALSE
    /\ todo' = Tail(todo)
    /\ UNCHANGED <<outVars, threadVars, events, pc, inbox, joining,
                   audio_initialized, recovery_attempts, was_playing, wake_lock,
                   historyVars>>

DoClosed ==
    /\ Doing("closed")
    /\ audio_initialized' = FALSE /\ is_playing' = FALSE
    /\ todo' = Tail(todo)
    /\ UNCHANGED <<outVars, threadVars, events, pc, inbox, joining,
                   recovery_attempts, was_playing, wake_lock, historyVars>>

\* Every way to open an output, the retries and the fall back to another
\* device included: it ends with a fresh output and the attempts forgotten,
\* or without one, and then what was to follow is dropped.
DoInit ==
    /\ Doing("init")
    /\ \/ /\ audio_initialized
          /\ todo' = Tail(todo)
          /\ UNCHANGED <<output, opened, audio_initialized, recovery_attempts>>
       \/ /\ ~audio_initialized /\ opened < MaxOutputs
          /\ opened' = opened + 1 /\ output' = opened + 1
          /\ audio_initialized' = TRUE /\ recovery_attempts' = 0
          /\ todo' = Tail(todo)
       \/ /\ ~audio_initialized
          /\ todo' = <<>>
          /\ UNCHANGED <<output, opened, audio_initialized, recovery_attempts>>
    /\ UNCHANGED <<ltc, threadVars, events, pc, inbox, joining, is_playing,
                   was_playing, wake_lock, historyVars>>

DoStart ==
    /\ Doing("start")
    /\ start_ltc
    /\ todo' = Tail(todo)
    /\ UNCHANGED <<events, pc, inbox, joining, audio_initialized,
                   recovery_attempts, was_playing, wanted>>

\* The reset that comes before the start is overwritten by it.
DoRestart ==
    /\ Doing("restart")
    /\ IF was_playing THEN start_ltc
       ELSE UNCHANGED <<outVars, threadVars, is_playing, wake_lock, due, was_reset, old_frame>>
    /\ todo' = Tail(todo)
    /\ UNCHANGED <<events, pc, inbox, joining, audio_initialized,
                   recovery_attempts, was_playing, wanted>>

DoQuit ==
    /\ Doing("quit")
    /\ pc' = "stopped" /\ todo' = <<>>
    /\ UNCHANGED <<outVars, threadVars, events, inbox, joining, stateVars, historyVars>>

Step ==
    \/ DoStopLtc \/ DoStopOutput \/ JoinReturns \/ DoRelease \/ DoStopped
    \/ DoClosed \/ DoInit \/ DoStart \/ DoRestart \/ DoQuit

-----------------------------------------------------------------------------
(* Commands.                                                               *)

Command(steps) ==
    /\ pc = "commands" /\ Idle
    /\ todo' = steps
    /\ UNCHANGED <<outVars, threadVars, events, pc, inbox, joining, stateVars,
                   due, was_reset, old_frame>>

StartLtc ==
    /\ GuiWaits => ~is_playing
    /\ Command(<<"init", "start">>)
    /\ wanted' = TRUE

StopLtc == Command(<<"stop_ltc", "stopped">>) /\ wanted' = FALSE

SetDevice ==
    /\ Command(IF is_playing
               THEN <<"stop_ltc", "stopped", "stop_output", "closed", "init">>
               ELSE <<"stop_output", "closed", "init">>)
    /\ UNCHANGED wanted

InitAudio == ~audio_initialized /\ Command(<<"init">>) /\ UNCHANGED wanted

Shutdown == Command(<<"stop_ltc", "stop_output", "quit">>) /\ UNCHANGED wanted

\* Carried out at once: the scheduler may have a frame in hand.
Reset ==
    /\ pc = "commands" /\ Idle /\ output # Nobody
    /\ \E tc \in StartTimecode :
        /\ ltc' = [ltc EXCEPT ![output].tc = tc]
        /\ due' = tc
    /\ was_reset' = TRUE
    /\ old_frame' = \E s \in Scheduler : out_of[s] = output /\ at[s] = "frame"
    /\ UNCHANGED <<output, opened, threadVars, events, engineVars, stateVars, wanted>>

TransportCommand ==
    StartLtc \/ StopLtc \/ SetDevice \/ InitAudio \/ Shutdown \/ Reset

-----------------------------------------------------------------------------
(* The events of the tick: drained at once, handled one after the other.   *)

DrainEvents ==
    /\ pc = "commands" /\ Idle
    /\ inbox' = events /\ events' = <<>>
    /\ pc' = "events"
    /\ UNCHANGED <<outVars, threadVars, todo, joining, stateVars, historyVars>>

HandleEvent ==
    /\ pc = "events" /\ Idle /\ inbox # <<>>
    /\ inbox' = Tail(inbox)
    /\ \/ \* HardReset
          /\ Head(inbox) = "StreamDead"
          /\ todo' = Recovery /\ was_playing' = is_playing
          /\ UNCHANGED <<is_playing, recovery_attempts>>
       \/ \* Attempt
          /\ Head(inbox) = "RecoveryNeeded"
          /\ recovery_attempts < MAX_RECOVERY_ATTEMPTS
          /\ recovery_attempts' = recovery_attempts + 1
          /\ todo' = Recovery /\ was_playing' = is_playing
          /\ UNCHANGED is_playing
       \/ \* Exhausted
          /\ Head(inbox) = "RecoveryNeeded"
          /\ recovery_attempts >= MAX_RECOVERY_ATTEMPTS
          /\ is_playing' = FALSE
          /\ UNCHANGED <<todo, was_playing, recovery_attempts>>
    /\ UNCHANGED <<outVars, threadVars, events, pc, joining, audio_initialized,
                   wake_lock, historyVars>>

EndTick ==
    /\ pc = "events" /\ Idle /\ inbox = <<>>
    /\ pc' = "commands"
    /\ UNCHANGED <<outVars, threadVars, events, todo, inbox, joining, stateVars, historyVars>>

EngineStep == Step \/ DrainEvents \/ HandleEvent \/ EndTick

TransportNext ==
    \/ TransportCommand \/ EngineStep
    \/ \E s \in Scheduler : SchedulerStep(s)

TransportSpec == TransportInit /\ [][TransportNext]_transportVars

\* The engine and the scheduler threads are both scheduled.
FairTransportSpec ==
    /\ TransportSpec
    /\ WF_transportVars(EngineStep)
    /\ \A s \in Scheduler : WF_transportVars(SchedulerStep(s))

-----------------------------------------------------------------------------
Waiting(event) ==
    \E n \in 1..Len(inbox \o events) : (inbox \o events)[n] = event

TransportTypeOK ==
    /\ output \in {Nobody, opened} /\ opened \in 0..MaxOutputs
    /\ ltc \in [Output -> [running : BOOLEAN, tc : Timecode,
                           scheduler : Scheduler \cup {Nobody}]]
    /\ spawned \in 0..MaxSchedulers
    /\ at \in [Scheduler -> {"unborn", "top", "lock", "frame", "update", "exited"}]
    /\ out_of \in [Scheduler -> Output \cup {Nobody}]
    /\ stop_signal \in [Scheduler -> BOOLEAN]
    /\ tc_of \in [Scheduler -> Timecode]
    /\ attempts \in [Scheduler -> 0..MAX_ATTEMPTS]
    /\ Len(events) <= MaxEvents /\ Len(inbox) <= MaxEvents
    /\ pc \in {"commands", "events", "stopped"}
    /\ joining \in Scheduler \cup {Nobody}
    /\ recovery_attempts \in 0..MAX_RECOVERY_ATTEMPTS
    /\ is_playing => audio_initialized
    /\ Idle => (audio_initialized <=> output # Nobody)

\* While the engine says it is playing, a scheduler works on the open output,
\* or the news that it has died is on its way and leads to a hard reset.
PlayingIsDriven ==
    Idle /\ is_playing =>
        \/ \E s \in Scheduler : Alive(s) /\ out_of[s] = output /\ ~stop_signal[s]
        \/ Waiting("StreamDead")

\* When nothing plays, no scheduler thread is left to write frames and the
\* system may sleep; giving up a recovery stops nothing itself and relies on
\* the attempts before it.
SilentWhenStopped ==
    Idle /\ ~is_playing => (\A s \in Scheduler : ~Alive(s)) /\ ~wake_lock

\* What the engine shows and what the stream does agree, between commands.
PlayingAgrees == PlayingIsDriven /\ SilentWhenStopped

\* Once stopped by the user, the stream is not restarted by a recovery that
\* was asked for while it still ran.
StoppedStaysStopped == is_playing /\ Idle => wanted

\* The frame a scheduler has in hand carries the timecode that is due, counted
\* from the last start; after a reset it may be one ahead, when the scheduler
\* was between two frames' reads and advanced the new timecode.
TimecodeOnTime ==
    \A s \in Scheduler :
        at[s] = "frame" /\ out_of[s] = output /\ ~old_frame =>
            \/ tc_of[s] = due
            \/ was_reset /\ tc_of[s] = SuccTimecode(due)

-----------------------------------------------------------------------------
(* What the documentation says and the code does not keep (README,         *)
(* section 5).                                                             *)

\* Whoever stops the stream gets control back.
StopReturns == joining # Nobody ~> joining = Nobody
=============================================================================
