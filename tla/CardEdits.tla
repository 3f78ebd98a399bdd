----------------------------- MODULE CardEdits ------------------------------
(***************************************************************************)
(* What the user enters about camera cards while they are scanned again.   *)
(*                                                                         *)
(* The engine keeps a list of cards; a scan, which runs as a job, replaces *)
(* it (on_offload_scan_finished in gui-engine/src/engine.rs).  The user    *)
(* interfaces draw the list that was published last, and what is entered   *)
(* there is applied ticks later to the list there is then.  A command says *)
(* which card it means by its mount point or by its place in the list.     *)
(***************************************************************************)
EXTENDS Naturals, SequencesExt

CONSTANTS
    Mounts,
    Files,      \* of a card, the same number on each
    Latest,     \* those of the latest day, chosen without being asked
    Detected,   \* the name a card is given by the scan
    Names,      \* those the user types
    Ui,         \* "egui" or "slint"
    MaxCommands \* bound on the commands

ASSUME CardAssumption ==
    /\ Latest \subseteq Files /\ Detected \notin Names
    /\ Ui \in {"egui", "slint"} /\ MaxCommands \in Nat

VARIABLES
    cards,      \* of the engine
    scan,       \* its job: "idle", "running", or "finished" and not handled
    tick,       \* where the engine is: "drain", "events" or "publish"
    commands,   \* on their way
    drawn,      \* the list that was published, and the user sees
    count,      \* of commands
    typed,      \* history: <<mount, name>> the user has entered
    chosen      \* history: <<mount, file>> the user has chosen or left out

cardVars == <<cards, scan, tick, commands, drawn, count, typed, chosen>>

\* A card as a scan finds it.
Card(mount) == [mount |-> mount, name |-> Detected, selected |-> Latest]

ScannedLists == {list \in SeqOf(Mounts, Cardinality(Mounts)) : IsInjective(list)}

Found(list) == [i \in DOMAIN list |-> Card(list[i])]

CardsInit ==
    /\ cards = <<>> /\ drawn = <<>> /\ commands = <<>> /\ count = 0
    /\ scan = "idle" /\ tick = "drain"
    /\ typed = {} /\ chosen = {}

-----------------------------------------------------------------------------
(* The engine.                                                             *)

WithName(i, name) ==
    IF i \in DOMAIN cards THEN [cards EXCEPT ![i].name = name] ELSE cards

\* A slip for the mutation entries: the place the card had on the screen.
SetByMountAsIndex(c) == WithName(c.place, c.name)

SetDeviceName(c) == WithName(c.place, c.name)

SetDeviceNameByMount(c) ==
    [i \in DOMAIN cards |->
        IF cards[i].mount = c.mount THEN [cards[i] EXCEPT !.name = c.name] ELSE cards[i]]

SetFileSelected(c) ==
    IF c.place \notin DOMAIN cards THEN cards
    ELSE [cards EXCEPT ![c.place].selected =
            IF c.on THEN @ \cup {c.file} ELSE @ \ {c.file}]

\* handle_offload_command; a second scan is not begun.
Handle(c) ==
    /\ cards' = CASE c.op = "name"  -> SetDeviceName(c)
                  [] c.op = "mount" -> SetDeviceNameByMount(c)
                  [] c.op = "file"  -> SetFileSelected(c)
                  [] c.op = "scan"  -> cards
    /\ scan' = IF c.op = "scan" /\ scan = "idle" THEN "running" ELSE scan

ApplyOne ==
    /\ tick = "drain" /\ commands # <<>>
    /\ Handle(Head(commands)) /\ commands' = Tail(commands)
    /\ UNCHANGED <<tick, drawn, count, typed, chosen>>

ApplyDone ==
    /\ tick = "drain" /\ commands = <<>> /\ tick' = "events"
    /\ UNCHANGED <<cards, scan, commands, drawn, count, typed, chosen>>

\* The list is replaced as a whole; cards may have come, gone or moved.  A
\* scan that failed has no list.
OnOffloadScanFinished ==
    /\ scan = "finished" /\ scan' = "idle"
    /\ cards' \in {cards} \cup {Found(list) : list \in ScannedLists}

HandleScan ==
    /\ tick = "events" /\ tick' = "publish"
    /\ OnOffloadScanFinished \/ (scan # "finished" /\ UNCHANGED <<cards, scan>>)
    /\ UNCHANGED <<commands, drawn, count, typed, chosen>>

PublishCards ==
    /\ tick = "publish" /\ tick' = "drain" /\ drawn' = cards
    /\ UNCHANGED <<cards, scan, commands, count, typed, chosen>>

ScanEnds ==
    /\ scan = "running" /\ scan' = "finished"
    /\ UNCHANGED <<cards, tick, commands, drawn, count, typed, chosen>>

-----------------------------------------------------------------------------
(* The user.                                                               *)

Enqueue(c) == count < MaxCommands /\ count' = count + 1 /\ commands' = Append(commands, c)

Rescan ==
    /\ Enqueue([op |-> "scan"])
    /\ UNCHANGED <<cards, scan, tick, drawn, typed, chosen>>

EnterName ==
    /\ \E i \in DOMAIN drawn, name \in Names :
         /\ Enqueue([op |-> IF Ui = "egui" THEN "mount" ELSE "name",
                  mount |-> drawn[i].mount, place |-> i, name |-> name])
         /\ typed' = typed \cup {<<drawn[i].mount, name>>}
    /\ UNCHANGED <<cards, scan, tick, drawn, chosen>>

\* Both user interfaces name the card of a file by its place.
ToggleFile ==
    /\ \E i \in DOMAIN drawn, file \in Files :
         /\ Enqueue([op |-> "file", place |-> i, file |-> file,
                  on |-> file \notin drawn[i].selected])
         /\ chosen' = chosen \cup {<<drawn[i].mount, file>>}
    /\ UNCHANGED <<cards, scan, tick, drawn, typed>>

CardsNext ==
    \/ ApplyOne \/ ApplyDone \/ HandleScan \/ PublishCards \/ ScanEnds
    \/ Rescan \/ EnterName \/ ToggleFile

CardsSpec == CardsInit /\ [][CardsNext]_cardVars

-----------------------------------------------------------------------------
CardsTypeOK ==
    /\ \A list \in {cards, drawn} :
         list \in Seq([mount : Mounts, name : Names \cup {Detected}, selected : SUBSET Files])
    /\ scan \in {"idle", "running", "finished"}
    /\ typed \subseteq Mounts \X Names /\ chosen \subseteq Mounts \X Files

\* A card never gets the name the user gave to another one, however the
\* scans change the list between the keystroke and the tick that applies it.
NameIsOwn ==
    \A i \in DOMAIN cards :
      cards[i].name = Detected \/ <<cards[i].mount, cards[i].name>> \in typed

\* The same of the files that are copied; it does not hold (README,
\* section 5).
SelectionIsOwn ==
    \A i \in DOMAIN cards, file \in Files :
      (file \in cards[i].selected) # (file \in Latest) => <<cards[i].mount, file>> \in chosen
=============================================================================
