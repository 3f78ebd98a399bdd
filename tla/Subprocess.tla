----------------------------- MODULE Subprocess -----------------------------
(***************************************************************************)
(* The calls that run a child process (gui-engine/src/subprocess.rs):      *)
(*                                                                         *)
(*   "watch"   run_ffmpeg_collect_stderr: delivers the lines of stderr,    *)
(*             can be cancelled, kills a child that is silent too long;    *)
(*   "output"  run_output_with_timeout: collects the output, with a limit; *)
(*   "wait"    run_with_timeout: only waits, with a limit.                 *)
(*                                                                         *)
(* The child, the reader thread of its pipe and the caller run             *)
(* concurrently.  Of the two pipes of "output", which are treated alike,   *)
(* one is kept.  The child's end of the pipe is closed when it is dead: it *)
(* does not pass it on.  The other end is closed when the reader ends.     *)
(***************************************************************************)
EXTENDS Naturals

CONSTANTS
    Calls,      \* the calls to look at
    MaxLines,   \* the most a child writes
    PipeSize,   \* what the pipe holds before the child has to wait
    Limit,      \* rounds of the loops until the time limit or the stall
    NotYet      \* the result of a call that has not returned

ASSUME SubprocessAssumption ==
    /\ Calls \subseteq {"watch", "output", "wait"}
    /\ MaxLines \in Nat /\ PipeSize \in Nat \ {0} /\ Limit \in Nat \ {0}
    /\ NotYet \notin {"Ok", "Exit", "Spawn", "Cancelled", "Stalled", "TimedOut", "Wait"}

VARIABLES
    call,
    child,      \* "none", "running", "exited" or, once waited for, "reaped"
    pipeOpen,   \* whether the child holds its end
    sent,       \* lines the child has written
    taken,      \* lines the reader has taken out of the pipe
    delivered,  \* lines the caller has received
    reader,     \* "none", "checking", "reading" or "ended"
    readFailed, \* the reader has ended on a read that failed
    stop,       \* the flag that tells the reader to end
    at,         \* where the caller is
    clock,      \* rounds since the last line, or since the loop began
    pending,    \* the result to return when the reader is joined
    waitFailed, \* a wait for the child has failed
    asked,      \* the caller's cancel flag
    result

childVars == <<child, pipeOpen, sent>>
readerVars == <<taken, reader, readFailed, stop>>
callVars == <<at, clock, pending, waitFailed, result>>
subprocessVars == <<call, childVars, readerVars, delivered, callVars, asked>>

CallInit ==
    /\ call \in Calls
    /\ child = "none" /\ pipeOpen = FALSE /\ sent = 0
    /\ taken = 0 /\ delivered = 0 /\ stop = FALSE
    /\ reader = "none" /\ readFailed = FALSE
    /\ at = "spawn" /\ clock = 0 /\ pending = NotYet /\ waitFailed = FALSE
    /\ asked = FALSE /\ result = NotYet

Return(r) == at' = "returned" /\ result' = r /\ UNCHANGED <<clock, pending>>

GoTo(label, t) == at' = label /\ clock' = t /\ UNCHANGED <<pending, result>>

-----------------------------------------------------------------------------
(* Slips a change to the code could make, for the mutation entries of      *)
(* PROJECT.json; nothing below uses them.                                  *)

\* The child is told to end, and not waited for.
KillWithoutWait == child' = "exited" /\ pipeOpen' = FALSE /\ UNCHANGED sent

\* The exit of the child ends the call, whatever is left in the channel.
DisconnectedOnExit == child # "running"

\* The time the wait for a child that has closed its pipe takes is not
\* counted.
AwaitRoundUnbounded ==
    /\ child = "running" /\ GoTo("await", 1 - clock)
    /\ UNCHANGED <<childVars, waitFailed>>

-----------------------------------------------------------------------------
(* The child.                                                              *)

\* It waits while the pipe is full.  When nobody reads any more, what it
\* writes is lost.
ChildWrites ==
    /\ child = "running" /\ pipeOpen
    /\ sent < MaxLines
    /\ sent - taken < PipeSize \/ reader = "ended"
    /\ sent' = sent + 1
    /\ UNCHANGED <<call, child, pipeOpen, readerVars, delivered, callVars, asked>>

ChildClosesPipe ==
    /\ child = "running" /\ pipeOpen
    /\ pipeOpen' = FALSE
    /\ UNCHANGED <<call, child, sent, readerVars, delivered, callVars, asked>>

ChildExits ==
    /\ child = "running"
    /\ child' = "exited" /\ pipeOpen' = FALSE
    /\ UNCHANGED <<call, sent, readerVars, delivered, callVars, asked>>

Killed == child' = "reaped" /\ pipeOpen' = FALSE /\ UNCHANGED sent

-----------------------------------------------------------------------------
(* The reader thread.                                                      *)

\* That of "output" looks at its flag before every read.
ReaderChecks ==
    /\ reader = "checking"
    /\ reader' = IF call = "output" /\ stop THEN "ended" ELSE "reading"
    /\ UNCHANGED <<call, childVars, taken, readFailed, stop, delivered, callVars, asked>>

\* What it reads is in its buffer, or in the channel as long as the caller
\* of "watch" keeps the other end.
ReaderReads ==
    /\ reader = "reading" /\ taken < sent
    /\ taken' = taken + 1
    /\ reader' = IF call = "watch" /\ result # NotYet THEN "ended" ELSE "checking"
    /\ UNCHANGED <<call, childVars, readFailed, stop, delivered, callVars, asked>>

ReaderAtEnd ==
    /\ reader = "reading" /\ taken = sent /\ ~pipeOpen
    /\ reader' = "ended"
    /\ UNCHANGED <<call, childVars, taken, readFailed, stop, delivered, callVars, asked>>

\* A read that fails ends it as the end of the pipe does; to the reader of
\* "watch" a line that is not UTF-8 is one.  What is still in the pipe, and
\* what the child has yet to write, is not read.
ReaderFails ==
    /\ reader = "reading"
    /\ reader' = "ended" /\ readFailed' = TRUE
    /\ UNCHANGED <<call, childVars, taken, stop, delivered, callVars, asked>>

\* What a reader does if its reads succeed.
Reader == ReaderChecks \/ ReaderReads \/ ReaderAtEnd

-----------------------------------------------------------------------------
(* The start of every call.                                                *)

Spawn ==
    /\ at = "spawn"
    /\ \/ /\ child' = "running" /\ pipeOpen' = TRUE
          /\ reader' = IF call = "wait" THEN "none" ELSE "checking"
          /\ GoTo(IF call = "watch" THEN "check" ELSE "poll", 0)
       \/ UNCHANGED <<child, pipeOpen, reader>> /\ Return("Spawn")
    /\ UNCHANGED <<call, sent, taken, readFailed, stop, delivered, waitFailed, asked>>

\* Asking for the exit status of the child reaps it if it has ended.
TryWaitFails == waitFailed' = TRUE

-----------------------------------------------------------------------------
(* watch_stderr_lines.                                                     *)

\* The flag is looked at in every round, that is ten times a second.
CheckCancel ==
    /\ at = "check"
    /\ IF asked
       THEN Killed /\ Return("Cancelled")
       ELSE GoTo("receive", clock) /\ UNCHANGED childVars
    /\ UNCHANGED <<call, readerVars, delivered, waitFailed, asked>>

ReceiveLine ==
    /\ at = "receive" /\ delivered < taken
    /\ delivered' = delivered + 1
    /\ GoTo("check", 0)
    /\ UNCHANGED <<call, childVars, readerVars, waitFailed, asked>>

\* The channel is disconnected when the reader has ended and it is empty.
Disconnected == reader = "ended" /\ delivered = taken

Disconnect ==
    /\ at = "receive" /\ Disconnected
    /\ GoTo("await", 0)
    /\ UNCHANGED <<call, childVars, readerVars, delivered, waitFailed, asked>>

\* Nothing came in this round.
ReceiveNothing ==
    /\ at = "receive" /\ delivered = taken /\ reader # "ended" /\ clock + 1 < Limit
    /\ GoTo("check", clock + 1)
    /\ UNCHANGED <<call, childVars, readerVars, delivered, waitFailed, asked>>

\* Nothing came for too long: a child that runs is killed; one that has
\* ended is only reaped, and what it wrote is still waited for.
KillOnStall ==
    /\ at = "receive" /\ delivered = taken /\ reader # "ended" /\ clock + 1 >= Limit
    /\ \/ /\ child = "running" /\ Killed /\ Return("Stalled")
          /\ UNCHANGED waitFailed
       \/ /\ child # "running" /\ child' = "reaped" /\ UNCHANGED <<pipeOpen, sent>>
          /\ GoTo("check", clock) /\ UNCHANGED waitFailed
       \/ TryWaitFails /\ Killed /\ Return("Wait")
    /\ UNCHANGED <<call, readerVars, delivered, asked>>

AwaitRound ==
    /\ child = "running" /\ GoTo("await", clock + 1)
    /\ UNCHANGED <<childVars, waitFailed>>

\* Nothing more will come: the child is waited for, but not for ever.  The
\* cancel flag is not looked at any more.
AwaitExit ==
    /\ at = "await"
    /\ IF clock >= Limit
       THEN Killed /\ Return("Stalled") /\ UNCHANGED waitFailed
       ELSE \/ /\ child # "running" /\ child' = "reaped" /\ UNCHANGED <<pipeOpen, sent>>
               /\ \E r \in {"Ok", "Exit"} : Return(r)
               /\ UNCHANGED waitFailed
            \/ AwaitRound
            \/ TryWaitFails /\ Return("Wait") /\ UNCHANGED childVars
    /\ UNCHANGED <<call, readerVars, delivered, asked>>

-----------------------------------------------------------------------------
(* run_output_with_timeout and run_with_timeout.                           *)

\* The readers are told to stop, and joined; without readers it returns.
Settle(r) ==
    IF call = "output"
    THEN at' = "join" /\ pending' = r /\ stop' = TRUE /\ UNCHANGED <<clock, result>>
    ELSE Return(r) /\ UNCHANGED stop

Poll ==
    /\ at = "poll"
    /\ \/ /\ child = "exited"
          /\ child' = "reaped" /\ UNCHANGED <<pipeOpen, sent>>
          /\ Settle("Ok") /\ UNCHANGED waitFailed
       \/ /\ child = "running" /\ clock >= Limit
          /\ Killed /\ Settle("TimedOut") /\ UNCHANGED waitFailed
       \/ /\ child = "running" /\ clock < Limit
          /\ GoTo("poll", clock + 1) /\ UNCHANGED <<childVars, stop, waitFailed>>
       \/ TryWaitFails /\ Settle("Wait") /\ UNCHANGED childVars
    /\ UNCHANGED <<call, taken, reader, readFailed, delivered, asked>>

JoinOutput ==
    /\ at = "join" /\ reader = "ended"
    /\ Return(pending)
    /\ UNCHANGED <<call, childVars, readerVars, delivered, waitFailed, asked>>

-----------------------------------------------------------------------------
\* The user cancels; only "watch" is given the flag.
CancelCall ==
    /\ call = "watch" /\ ~asked /\ result = NotYet
    /\ asked' = TRUE
    /\ UNCHANGED <<call, childVars, readerVars, delivered, callVars>>

Caller ==
    \/ Spawn \/ CheckCancel \/ ReceiveLine \/ Disconnect \/ ReceiveNothing
    \/ KillOnStall \/ AwaitExit \/ Poll \/ JoinOutput

CallNext ==
    \/ ChildWrites \/ ChildClosesPipe \/ ChildExits
    \/ Reader \/ ReaderFails \/ Caller \/ CancelCall

\* The threads of the program run; nothing is assumed of the child.
CallSpec == CallInit /\ [][CallNext]_subprocessVars /\ WF_subprocessVars(Caller) /\ WF_subprocessVars(Reader)

-----------------------------------------------------------------------------
SubprocessTypeOK ==
    /\ delivered <= taken /\ taken <= sent
    /\ reader # "ended" => sent - taken <= PipeSize
    /\ readFailed => reader = "ended"
    /\ clock <= Limit
    /\ result # NotYet <=> at = "returned"

\* A call that has returned leaves no child behind, alive or as a zombie,
\* unless the operating system would not tell of it.
NoOrphan == result \notin {NotYet, "Spawn"} /\ ~waitFailed => child = "reaped"

\* The caller has seen every line read from an ffmpeg that ended by itself,
\* and that is every line it wrote, unless a read has failed: its messages
\* and its progress are taken from them.
LinesDelivered ==
    call = "watch" /\ result \in {"Ok", "Exit"} =>
        delivered = taken /\ (readFailed \/ taken = sent)

\* Every call returns, though the child may hang, close its pipe or fill
\* it; except that collecting output after a failed wait may not.
CallEnds == child # "none" ~> (result # NotYet \/ waitFailed)

\* A call is a task: cancelled it ends, and only then is it reported as
\* cancelled; and it ends although nobody cancels it.
Call == INSTANCE Task WITH
            Ends <- {"Ok", "Exit", "Spawn", "Cancelled", "Stalled", "TimedOut", "Wait"},
            Cancelled <- "Cancelled", None <- NotYet

CallIsTask == Call!TaskSpec /\ CallEnds

-----------------------------------------------------------------------------
(* What the documentation says and the code does not keep (README,         *)
(* section 5).                                                             *)

\* watch_stderr_lines says: "On normal exit, all buffered lines are
\* delivered".
AllLinesDelivered == call = "watch" /\ result \in {"Ok", "Exit"} => delivered = sent

\* drain_pipe "reads all bytes": what a child that ended in time has written
\* is in the output returned.
OutputComplete == call = "output" /\ result = "Ok" => taken = sent
=============================================================================
