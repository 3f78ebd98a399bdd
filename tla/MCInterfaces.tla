---------------------------- MODULE MCInterfaces ----------------------------
(* What the user enters, for TLC: a widget and the setting it shows        *)
(* (WidgetSync), and names and files of cards that are scanned again       *)
(* (CardEdits).  A behaviour is about one of them, with the other at rest. *)
EXTENDS WidgetSync, CardEdits

VARIABLE subject

interfaceVars == <<subject, widgetVars, cardVars>>

WidgetAtRest == WidgetInit /\ widget = "bound"

InterfaceInit ==
    \/ subject = "widget" /\ WidgetInit /\ CardsInit
    \/ subject = "cards" /\ CardsInit /\ WidgetAtRest

OnWidget(action) == subject = "widget" /\ action /\ UNCHANGED <<subject, cardVars>>
OnCards(action) == subject = "cards" /\ action /\ UNCHANGED <<subject, widgetVars>>

InterfaceNext == OnWidget(WidgetNext) \/ OnCards(CardsNext)

InterfaceSpec ==
    /\ InterfaceInit /\ [][InterfaceNext]_interfaceVars
    /\ WF_interfaceVars(OnWidget(Engine)) /\ WF_interfaceVars(OnWidget(Screen(focused)))
=============================================================================
