---------------------------- MODULE MCProcesses -----------------------------
(* The runs of the converter (MCConversion) and the calls of a child       *)
(* process they consist of (Subprocess), for TLC.  Conversion takes a call *)
(* for one step that ends in any of a few ways; that this is all a call    *)
(* does is what is asked of Subprocess here.  A behaviour is one of the    *)
(* two, with the other at rest.                                            *)
EXTENDS MCConversion, Subprocess

VARIABLE subject

processVars == <<subject, vars, subprocessVars>>

ConversionAtRest == Init /\ Pipeline = "audio" /\ settings.map = Identity(2)
CallAtRest == CallInit /\ call = "watch"

ProcessInit ==
    \/ subject = "conversion" /\ Init /\ CallAtRest
    \/ subject = "call" /\ CallInit /\ ConversionAtRest

Converting(action) == subject = "conversion" /\ action /\ UNCHANGED <<subject, subprocessVars>>
Calling(action) == subject = "call" /\ action /\ UNCHANGED <<subject, vars>>

ProcessNext == Converting(Next) \/ Calling(CallNext)

ProcessSpec ==
    /\ ProcessInit /\ [][ProcessNext]_processVars
    /\ WF_processVars(Converting(JobStep)) /\ WF_processVars(Converting(FfmpegKilled))
    /\ WF_processVars(Calling(Caller)) /\ WF_processVars(Calling(Reader))
=============================================================================
