-------------------------- MODULE MCRecordingFlow --------------------------
(* Instance of RecordingFlow for TLC: the folder cardA holds two recordings,*)
(* cardB one.                                                               *)
EXTENDS RecordingFlow

CONSTANTS cardA, cardB, clip1, clip2, clip3

MCKind == {FolderScan, ClipProbe, LtcDecode, LtcGroupDecode}
MCPanicking == {LtcDecode}
MCContents == [f \in {cardA, cardB} |-> IF f = cardA THEN <<clip1, clip2>> ELSE <<clip3>>]
=============================================================================
