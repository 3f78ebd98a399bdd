----------------------------- MODULE MCTagging -----------------------------
(***************************************************************************)
(* A folder with two clips "A" and "B" and a file of someone else; the     *)
(* names asked for number the clips, give all of them one name, or swap    *)
(* those they have.  Their timecodes are at 25 and at 29.97 frames per     *)
(* second, the other way round in the next session.                        *)
(***************************************************************************)
EXTENDS Tagging, TLC

MCFile(c, kind, long, parts, size) ==
    [clip |-> c, ext |-> kind, format |-> kind, long |-> long, parts |-> parts,
     size |-> size, next |-> 2]

MCData == Part("data")
MCMoov == Moov(<<Track(1, 0)>>)
MCHeader == Part("header")

\* A clip in each of the forms that are treated differently.
MCShort(c) ==
    {MCFile(c, "mp4", FALSE, <<MCData, MCMoov>>, 0), MCFile(c, "wav", FALSE, <<MCData>>, 1),
     MCFile(c, "avi", FALSE, <<MCHeader, MCData>>, 0), MCFile(c, "ts", FALSE, <<MCHeader, MCData>>, 0)}

MCOther(c) ==
    {MCFile(c, "mp4", FALSE, <<MCMoov, MCData>>, 0), MCFile(c, "mp4", TRUE, <<MCData, MCMoov>>, 0),
     MCFile(c, "wav", FALSE, <<Part("bext"), MCData>>, 2), MCFile(c, "wav", TRUE, <<MCData>>, 1),
     MCFile(c, "mkv", FALSE, <<MCHeader, MCData>>, 0)}

MCNames == {"A", "B", "Take1", "Take2"}

MCFolders ==
    {("A" :> f) @@ ("B" :> g) @@ ("Take2" :> MCFile(0, "avi", FALSE, <<MCData>>, 0)) :
        f \in MCShort(1) \cup MCOther(1), g \in MCShort(2)}

MCNumbered == [p \in MCNames \X (1 .. 2) |-> IF p[2] = 1 THEN "Take1" ELSE "Take2"]
MCOneName == [p \in MCNames \X (1 .. 2) |-> "Take1"]
MCSwapped == [p \in MCNames \X (1 .. 2) |-> IF p[2] = 1 THEN "B" ELSE "A"]
MCTemplates == {MCNumbered, MCOneName, MCSwapped}

MCTime(s, f, fps) == [seconds |-> s, frames |-> f, fps |-> fps]

MCStarts ==
    <<<<MCTime(36000, 24, 25000), MCTime(59, 29, 29970)>>,
      <<MCTime(3599, 0, 29970), MCTime(86399, 7, 25000)>>>>
=============================================================================
