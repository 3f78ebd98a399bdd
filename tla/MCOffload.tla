----------------------------- MODULE MCOffload -----------------------------
(* Instance of Offload for TLC: the first card has two files of the same   *)
(* name in different directories, the second one file.                     *)
EXTENDS Offload

CONSTANTS clip, take

MCFiles == << <<clip, clip>>, <<take>> >>
MCEmpty == {<<2, 1>>}
=============================================================================
