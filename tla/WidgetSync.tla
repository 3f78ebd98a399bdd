----------------------------- MODULE WidgetSync -----------------------------
(***************************************************************************)
(* A widget of a user interface and the setting of the engine it shows.    *)
(*                                                                         *)
(* The user interface draws from a shadow of the setting (EditState in     *)
(* gui-engine/src/edit_state.rs), sends a command for every edit, and      *)
(* adopts what the engine publishes.  The engine counts the commands it    *)
(* has applied; an edit is confirmed when the count in the snapshot has    *)
(* reached its number.  Four ways to use the shadow are modelled:          *)
(*                                                                         *)
(*   "bound"   the egui widgets of bound.rs: synchronised and drawn in     *)
(*             every frame;                                                *)
(*   "combo"   the egui choice of the timecode track, which is only        *)
(*             written to;                                                 *)
(*   "pushed"  the Slint toggles and choices: the widget owns what it      *)
(*             shows, and a timer pushes the shadow into it;               *)
(*   "text"    the Slint text fields, which remember what was pushed.      *)
(*                                                                         *)
(* The user interface is one thread: a frame, a tick of the timer and a    *)
(* callback are one step each.  The engine is another.                     *)
(***************************************************************************)
EXTENDS Naturals, Sequences

CONSTANTS
    Values,       \* of the setting
    Default,      \* the one a reset or a new recording gives it
    Widgets,      \* the kinds to look at
    Keep,         \* a command that is about something else
    Nothing,
    MaxSends,     \* bound on the commands sent
    MaxOverrides  \* bound on the changes the engine makes of its own

ASSUME WidgetAssumption ==
    /\ Default \in Values /\ Keep \notin Values /\ Nothing \notin Values
    /\ Widgets \subseteq {"bound", "combo", "pushed", "text"}
    /\ MaxSends \in Nat /\ MaxOverrides \in Nat

VARIABLES
    widget,
    \* the engine
    channel,    \* commands on their way: the value they set, or Keep
    engine,     \* the setting
    applied,    \* applied_command_seq
    phase,      \* of the tick: "drain", "events" or "publish"
    overrides,
    published,  \* the snapshot: the setting and the count
    \* the user interface
    sent,       \* next_send_seq
    shadow,     \* EditState.value
    pending,    \* number of the edit that is not confirmed, 0 if none
    late,       \* whether it was sent longer than EDIT_CONFIRM_TIMEOUT ago
    focused,
    shown,      \* what the user sees
    pushed,     \* TextField.last_pushed
    \* history
    wanted,     \* what the user entered last
    asked       \* what the engine counts when it has applied it

settingVars == <<engine, applied, phase, overrides, published>>
shadowVars == <<shadow, pending, late>>
screenVars == <<focused, shown, pushed>>
userVars == <<wanted, asked>>
widgetVars == <<widget, channel, settingVars, sent, shadowVars, screenVars, userVars>>

WidgetInit ==
    /\ widget \in Widgets
    /\ channel = <<>> /\ engine = Default /\ applied = 0 /\ phase = "drain"
    /\ overrides = 0 /\ published = [value |-> Default, seq |-> 0]
    /\ sent = 0 /\ shadow = Default /\ pending = 0 /\ late = FALSE
    /\ focused = FALSE /\ shown = Default /\ pushed = Nothing
    /\ wanted = Nothing /\ asked = 0

-----------------------------------------------------------------------------
(* The engine's tick.                                                      *)

\* Every command is counted before it is applied.
DrainOne ==
    /\ phase = "drain" /\ channel # <<>>
    /\ applied' = applied + 1
    /\ engine' = IF Head(channel) = Keep THEN engine ELSE Head(channel)
    /\ channel' = Tail(channel)
    /\ UNCHANGED <<widget, phase, overrides, published, sent, shadowVars, screenVars, userVars>>

DrainEmpty ==
    /\ phase = "drain" /\ channel = <<>> /\ phase' = "events"
    /\ UNCHANGED <<widget, channel, engine, applied, overrides, published, sent,
                   shadowVars, screenVars, userVars>>

\* A result of a job may change the setting: a decode that succeeded, the
\* capabilities of ffmpeg, a deferred selection.
HandleEvents ==
    /\ phase = "events" /\ phase' = "publish"
    /\ \/ UNCHANGED <<engine, overrides>>
       \/ /\ overrides < MaxOverrides /\ overrides' = overrides + 1
          /\ engine' \in Values \ {engine}
    /\ UNCHANGED <<widget, channel, applied, published, sent, shadowVars, screenVars, userVars>>

\* Skipped when nothing has changed; the count is part of what is compared.
Published == [value |-> engine, seq |-> applied]

PublishIfChanged ==
    /\ phase = "publish" /\ phase' = "drain"
    /\ published' = Published
    /\ UNCHANGED <<widget, channel, engine, applied, overrides, sent, shadowVars, screenVars, userVars>>

Engine == DrainOne \/ DrainEmpty \/ HandleEvents \/ PublishIfChanged

-----------------------------------------------------------------------------
(* Slips a change to the code could make, for the mutation entries of      *)
(* PROJECT.json; nothing below uses them.                                  *)

\* A command that bypasses the sink is counted by the engine only.
SendUncounted(cmds, room) ==
    /\ room /\ applied + Len(channel \o cmds) <= MaxSends
    /\ channel' = channel \o cmds
    /\ sent' = IF Len(cmds) = 1 /\ cmds[1] = Keep THEN sent ELSE sent + Len(cmds)

\* Only an equal value confirms an edit.
AckedByEcho == pending # 0 /\ (published.value = shadow \/ late)

-----------------------------------------------------------------------------
(* EditState.                                                              *)

Send(cmds, room) ==
    /\ room /\ channel' = channel \o cmds /\ sent' = sent + Len(cmds)

HasRoom(n) == sent + n <= MaxSends

\* send_and_mark
SendAndMark(v) == shadow' = v /\ pending' = sent' /\ late' = FALSE

Acked == pending # 0 /\ (published.seq >= pending \/ late)

StillPending == IF Acked THEN 0 ELSE pending

\* sync, of a widget that has the focus or has not
Synced(focus) ==
    IF StillPending # 0 \/ focus THEN shadow ELSE published.value

Sync(focus) ==
    /\ shadow' = Synced(focus) /\ pending' = StillPending /\ UNCHANGED late

\* The user enters a value, with the command that is now last.
Enter(v) == wanted' = v /\ asked' = applied + Len(channel')

\* Two seconds have passed since the edit was sent.
TimePasses ==
    /\ pending # 0 /\ ~late /\ late' = TRUE
    /\ UNCHANGED <<widget, channel, settingVars, sent, shadow, pending, screenVars, userVars>>

\* The user does something else that sends a command; it may reset the
\* setting, as the selection of a recording does to all but the texts.
OtherCommand ==
    /\ \E c \in {Keep, Default} :
         /\ widget = "text" => c = Keep
         /\ Send(<<c>>, HasRoom(1))
    /\ UNCHANGED <<widget, settingVars, shadowVars, screenVars, userVars>>

-----------------------------------------------------------------------------
(* egui.                                                                   *)

\* A frame in which the user does nothing to the widget, except that he may
\* give it the focus or take it away.
Frame(focus) ==
    /\ widget = "bound"
    /\ Sync(focused) /\ shown' = shadow' /\ focused' = focus
    /\ UNCHANGED <<widget, channel, settingVars, sent, pushed, userVars>>

\* One in which he edits it: text, checkbox, slider and the selectors.
FrameWithEdit ==
    /\ widget = "bound"
    /\ \E v \in Values \ {Synced(focused)} :
         /\ Send(<<v>>, HasRoom(1)) /\ SendAndMark(v) /\ Enter(v)
         /\ shown' = v
    /\ focused' \in BOOLEAN
    /\ UNCHANGED <<widget, settingVars, pushed>>

\* The combo of the timecode track.
PickTrack ==
    /\ widget = "combo"
    /\ \E v \in Values \ {shadow} :
         /\ Send(<<v>>, HasRoom(1)) /\ SendAndMark(v) /\ Enter(v)
         /\ shown' = v
    /\ UNCHANGED <<widget, settingVars, focused, pushed>>

\* apply_group_selection: the engine is going to reset the track, and the
\* shadow is forced to follow.
SelectGroup ==
    /\ widget = "combo"
    /\ Send(<<Keep, Default>>, HasRoom(2))
    /\ shadow' = Default /\ pending' = 0 /\ late' = FALSE
    /\ Enter(Default) /\ shown' = Default
    /\ UNCHANGED <<widget, settingVars, focused, pushed>>

-----------------------------------------------------------------------------
(* Slint.                                                                  *)

\* push_shadow
Push ==
    /\ widget = "pushed"
    /\ Sync(FALSE) /\ focused' = FALSE
    /\ shown' = IF pending' = 0 THEN shadow' ELSE shown
    /\ UNCHANGED <<widget, channel, settingVars, sent, pushed, userVars>>

\* TextField.sync_and_push
SyncAndPush(focus) ==
    /\ widget = "text"
    /\ focused' = focus /\ Sync(focus)
    /\ IF pending' = 0 /\ pushed # shadow'
       THEN shown' = shadow' /\ pushed' = shadow'
       ELSE UNCHANGED <<shown, pushed>>
    /\ UNCHANGED <<widget, channel, settingVars, sent, userVars>>

\* A callback: what is shown has changed already.
Callback ==
    /\ widget \in {"pushed", "text"}
    /\ \E v \in Values \ {shown} :
         /\ Send(<<v>>, HasRoom(1)) /\ SendAndMark(v) /\ Enter(v)
         /\ shown' = v
    /\ UNCHANGED <<widget, settingVars, focused, pushed>>

\* on_conv_reset sets the properties of the toggles, not of the texts.
ResetText ==
    /\ widget = "text"
    /\ Send(<<Default>>, HasRoom(1)) /\ SendAndMark(Default)
    /\ Enter(Nothing)
    /\ UNCHANGED <<widget, settingVars, screenVars>>

-----------------------------------------------------------------------------
Screen(focus) == Frame(focus) \/ Push \/ SyncAndPush(focus)

UserActs == FrameWithEdit \/ PickTrack \/ SelectGroup \/ Callback \/ ResetText \/ OtherCommand

WidgetNext == Engine \/ (\E focus \in BOOLEAN : Screen(focus)) \/ UserActs \/ TimePasses

\* The engine ticks every 40 ms; egui repaints every second if nobody asks
\* for more, the timer of Slint fires every 40 ms.  The user need not move
\* the focus.
WidgetSpec == WidgetInit /\ [][WidgetNext]_widgetVars /\ WF_widgetVars(Engine) /\ WF_widgetVars(Screen(focused))

-----------------------------------------------------------------------------
WidgetTypeOK ==
    /\ widget \in Widgets /\ channel \in Seq(Values \cup {Keep})
    /\ engine \in Values /\ applied \in Nat /\ phase \in {"drain", "events", "publish"}
    /\ overrides \in Nat /\ published \in [value : Values, seq : Nat]
    /\ sent \in Nat /\ shadow \in Values /\ pending \in Nat
    /\ late \in BOOLEAN /\ focused \in BOOLEAN
    /\ shown \in Values /\ pushed \in Values \cup {Nothing}
    /\ wanted \in Values \cup {Nothing} /\ asked \in Nat

\* What the user has entered stays on the screen until a snapshot made after
\* the engine has applied it: no snapshot that is older, and no other
\* command that is confirmed in the meantime, takes it back.  (Only an
\* engine that does not answer for two seconds does.)
NoRevert ==
    wanted # Nothing /\ published.seq < asked /\ ~late => shown = wanted

\* A widget that is left alone ends up showing the setting, whoever changed
\* it last.
Follows(kind) ==
    widget = kind => (<>[]~focused => <>[](shown = engine))

Settles == Follows("bound") /\ Follows("pushed")

-----------------------------------------------------------------------------
(* What comments say and the code does not keep (README, section 5).       *)

\* ltc-slint/src/shadows.rs: "once acked, one final push renders the
\* confirmed value".  A text that was edited and reset before a tick saw
\* the edit confirmed equals what was pushed last, and is not pushed.
TextIsRendered == Follows("text")

\* ltc-gui/src/shadows.rs: recording resets and what a decode sets
\* "propagate through EditState::sync".  The combo of the timecode track
\* is never synchronised.
ComboFollows == Follows("combo")
=============================================================================
