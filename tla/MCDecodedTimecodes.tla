-------------------------- MODULE MCDecodedTimecodes --------------------------
(* A small instance: a day of two hours, an hour of two minutes, a minute of *)
(* two seconds and a second of three frames.                                  *)
EXTENDS DecodedTimecodes

\* The start of a file at midnight, right before a minute with numbers left
\* out, and a little before midnight.
MCOrigins == {At(0, 0, 0, 0), At(0, 0, 1, 2), At(1, 1, 1, 1)}

\* A whole signal; one that begins late; short and long dropouts; a signal
\* that begins late and drops out.
MCGaps == {{}, {0}, {0, 1}, {5}, {1, 2, 3}, {0, 3}}
=============================================================================
