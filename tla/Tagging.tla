------------------------------ MODULE Tagging ------------------------------
(***************************************************************************)
(* Phases T and R of the metadata pipeline: the clips of a recording are   *)
(* given their timecode and renamed, in the folder they lie in, without a  *)
(* copy.  A MOV or MP4 whose moov box is the last one, and a WAV, are      *)
(* written to in place; all others, and those on which that fails, are     *)
(* remuxed by ffmpeg to a temporary file that replaces the original.       *)
(* Every write may fail or be cut short, and the program may be ended at   *)
(* any point; the clips may be tagged again by a later session, which      *)
(* finds what was left.  tagger.rs and tag_and_rename_files of             *)
(* converter/runner.rs, both in gui-engine/src.                            *)
(*                                                                         *)
(* Where a part of a file lies is its number; how a box or chunk is laid   *)
(* out inside is left out, what it holds of the timecode is not.  Drop-    *)
(* frame counting makes no difference to what is written but a flag.       *)
(***************************************************************************)
EXTENDS Integers, Sequences

CONSTANTS
    Clips,              \* the clips are 1 .. Clips, 0 is a file of someone else
    Names,              \* of files
    Folders,            \* what may lie in the folder: functions from names to files
    Templates,          \* the names the user may ask for: [Names \X clips -> Names]
    MaxSessions,
    Starts,             \* the timecode a session gives to a clip
    SampleRate,         \* of the WAV files
    NoBox

VARIABLES
    dir,                \* the files of the folder, by name
    tmp,                \* the temporary files, by the name of the original
    session, template, inputs,
    phase, current,     \* where the session is, and at which clip
    stopped,            \* the cancel flag
    moov,               \* the moov box rebuilt in memory
    mishaps,            \* the failures of this session: <<kind, clip>>
    tagged,             \* the clips reported as tagged, by way of tagging
    sound,              \* the clips this session has found without damage
    misnamed            \* and those that were not of the kind their name says

taggingVars == <<dir, tmp, session, template, inputs, phase, current, stopped, moov,
                 mishaps, tagged, sound, misnamed>>

sessionVars == <<session, template, inputs, sound, misnamed>>
reportVars == <<mishaps, tagged>>

-----------------------------------------------------------------------------
(* Timecodes: the seconds since midnight and the frame; the rate is in     *)
(* thousandths of a frame per second.                                      *)

Timecodes == [seconds : Nat, frames : Nat, fps : Nat]

\* A second has room for its frames, and for more samples than frames.
ASSUME StartsAssumption ==
    /\ MaxSessions \in Nat /\ Clips \in Nat /\ SampleRate \in Nat
    /\ Starts \in [1 .. MaxSessions -> [1 .. Clips -> Timecodes]]
    /\ \A n \in 1 .. MaxSessions, c \in 1 .. Clips :
           LET m == Starts[n][c]
           IN  1000 <= m.fps /\ m.fps < 1000 * SampleRate /\ 1000 * m.frames + 500 <= m.fps

\* The forms in which it is written.  A text names second and frame; the
\* sample of a timecode track counts frames, by the rate rounded down; the
\* field of a bext chunk counts samples.
Text(m) == <<m.seconds, m.frames>>

FrameCount(m) == m.seconds * (m.fps \div 1000) + m.frames

TimeReference(m) ==
    m.seconds * SampleRate + (2000 * m.frames * SampleRate + m.fps) \div (2 * m.fps)

\* What they say at a rate: frames are numbered by the rate rounded up.
Counted(n, fps) ==
    LET inSecond == (fps + 999) \div 1000
    IN  <<n \div inSecond, n % inSecond>>

Sampled(n, fps) ==
    <<n \div SampleRate, (2 * (n % SampleRate) * fps + 1000 * SampleRate) \div (2000 * SampleRate)>>

-----------------------------------------------------------------------------
(* Files.  A file is a sequence of boxes or chunks, whole or cut short.    *)

\* A part may hold a timecode, in one of its forms; a track of a moov box
\* says in which part that of the track is (0: in none).
Part(type) == [type |-> type, whole |-> TRUE, tracks |-> <<>>, time |-> <<>>]
Holding(type, time) == [Part(type) EXCEPT !.time = time]
Moov(tracks) == [Part("moov") EXCEPT !.tracks = tracks]
Track(id, at) == [id |-> id, at |-> at]

Tracks == [id : Nat, at : Nat]
PartTypes == {"data", "moov", "free", "sample", "bext", "header"}
Parts == [type : PartTypes, whole : BOOLEAN, tracks : Seq(Tracks), time : Seq(Nat)]
Kinds == {"mp4", "mxf", "mkv", "wav", "avi", "ts"}
Files == [clip : 0 .. Clips,
          ext : Kinds,      \* the name's extension ("mp4" also for those alike)
          format : Kinds,   \* what the content is
          long : BOOLEAN,   \* too long for offsets and sizes of 32 bits
          parts : Seq(Parts),
          size : Nat,       \* the parts the header of a WAV knows of
          next : Nat]       \* the next track id that the moov box of an MP4 names

IsMp4(f) == f.format = "mp4"
IsWav(f) == f.format = "wav"

LastPart(f) == f.parts[Len(f.parts)]

\* The places of the first part of a type, at most one.
First(f, type) ==
    {i \in DOMAIN f.parts : f.parts[i].type = type
                            /\ \A k \in 1 .. i - 1 : f.parts[k].type # type}

\* What ffmpeg and players can open: an MP4 needs its moov.
Readable(f) == IsMp4(f) => \E i \in DOMAIN f.parts : f.parts[i].type = "moov" /\ f.parts[i].whole

HasMedia(f) == \E i \in DOMAIN f.parts : f.parts[i].type = "data" /\ f.parts[i].whole

\* All of it is there, and a WAV file's header can and does know it.
Intact(f) ==
    /\ Readable(f) /\ \A i \in DOMAIN f.parts : f.parts[i].whole
    /\ IsWav(f) => f.size = Len(f.parts) /\ ~f.long

\* It is what its name says.
Fits(f) == f.format = f.ext

\* The parts that count as holding a timecode: of an MP4 those that a track
\* of its moov says, of a WAV those its header knows.
Found(f) ==
    {i \in DOMAIN f.parts :
        /\ f.parts[i].whole
        /\ IsMp4(f) =>
               \E k \in DOMAIN f.parts :
                   /\ f.parts[k].type = "moov" /\ f.parts[k].whole
                   /\ \E j \in DOMAIN f.parts[k].tracks : f.parts[k].tracks[j].at = i
        /\ IsWav(f) => i <= f.size /\ \A k \in 1 .. i : f.parts[k].whole}

Says(f, time, fps) ==
    IF Len(time) # 1 THEN time
    ELSE IF IsWav(f) THEN Sampled(time[1], fps) ELSE Counted(time[1], fps)

\* The file can be opened and the timecode is in it.
Carries(f, m) ==
    Readable(f) /\ \E i \in Found(f) : Says(f, f.parts[i].time, m.fps) = Text(m)

\* The container ffmpeg is told to write; it knows none for WAV and AVI.
ContainerFor(ext) ==
    CASE ext \in {"mp4", "mxf", "mkv"} -> ext
      [] ext = "ts" -> "mp4"
      [] OTHER -> "mkv"

\* What ffmpeg makes of it, under the same name.
RemuxedParts(container, m) ==
    IF container = "mp4"
    THEN <<Holding("data", Text(m)), Moov(<<Track(1, 0), Track(2, 1)>>)>>
    ELSE <<Holding("header", Text(m)), Part("data")>>

Remuxed(f, m) ==
    [f EXCEPT !.format = ContainerFor(f.ext),
              !.parts = RemuxedParts(ContainerFor(f.ext), m),
              !.size = 0, !.next = 3]

\* Each clip, and what belongs to someone else, is there once, with its media.
EachOnce(files) ==
    \A c \in 0 .. Clips :
        \E n \in DOMAIN files :
            /\ files[n].clip = c /\ HasMedia(files[n])
            /\ \A m \in DOMAIN files \ {n} : files[m].clip # c

ASSUME FoldersAssumption ==
    \A d \in Folders : d \in [DOMAIN d -> Files] /\ DOMAIN d \subseteq Names /\ EachOnce(d)

ASSUME TemplatesAssumption == Templates # {} /\ Templates \subseteq [Names \X (1 .. Clips) -> Names]

-----------------------------------------------------------------------------
(* Sessions.                                                               *)

Path == inputs[current]
File == dir[Path]
Meta == Starts[session][current]

NameOf(c) == CHOOSE n \in DOMAIN dir : dir[n].clip = c

\* The files with f under this name.
With(files, name, f) ==
    [n \in DOMAIN files \cup {name} |-> IF n = name THEN f ELSE files[n]]

Without(files, name) == [n \in DOMAIN files \ {name} |-> files[n]]

TaggingInit ==
    /\ dir \in Folders /\ tmp = <<>>
    /\ session = 0 /\ template = CHOOSE t \in Templates : TRUE
    /\ inputs = [c \in 1 .. Clips |-> NameOf(c)]
    /\ phase = "idle" /\ current = 1 /\ stopped = FALSE /\ moov = NoBox
    /\ mishaps = {} /\ tagged = {} /\ sound = {} /\ misnamed = {}

\* The folder is scanned and the conversion of its clips started; the
\* temporary files of earlier sessions have other names and stay unnoticed.
Begin ==
    /\ phase \in {"idle", "done"} /\ session < MaxSessions
    /\ session' = session + 1
    /\ template' \in Templates
    /\ inputs' = [c \in 1 .. Clips |-> NameOf(c)]
    /\ sound' = {c \in 1 .. Clips : Intact(dir[NameOf(c)])}
    /\ misnamed' = {c \in 1 .. Clips : ~Fits(dir[NameOf(c)])}
    /\ tmp' = <<>>
    /\ phase' = "clip" /\ current' = 1 /\ stopped' = FALSE /\ moov' = NoBox
    /\ mishaps' = {} /\ tagged' = {}
    /\ UNCHANGED dir

Running == phase \notin {"idle", "done"}

CancelSession ==
    /\ Running /\ ~stopped
    /\ stopped' = TRUE
    /\ UNCHANGED <<dir, tmp, sessionVars, phase, current, moov, reportVars>>

\* The program is ended.  A process of ffmpeg may go on, but only the
\* program puts its output in place.
Crash ==
    /\ Running
    /\ phase' = "idle" /\ current' = 1 /\ stopped' = FALSE /\ moov' = NoBox
    /\ UNCHANGED <<dir, tmp, sessionVars, reportVars>>

-----------------------------------------------------------------------------
(* Tagging in place.                                                       *)

Proceed(label) == phase' = label /\ UNCHANGED <<sessionVars, current, stopped>>

Write(f) == dir' = [dir EXCEPT ![Path] = f]

WithLast(f, part) == [f EXCEPT !.parts = [@ EXCEPT ![Len(f.parts)] = part]]
Appended(f, part) == [f EXCEPT !.parts = Append(@, part)]

\* A write appends the part, or fails and leaves nothing or a piece of it;
\* the clip is then given to ffmpeg.
AppendPart(part, next) ==
    \/ Write(Appended(File, part)) /\ Proceed(next)
    \/ UNCHANGED dir /\ Proceed("ffmpeg")
    \/ Write(Appended(File, [part EXCEPT !.whole = FALSE])) /\ Proceed("ffmpeg")

ReportTagged(way) == tagged' = tagged \cup {<<way, current>>} /\ UNCHANGED mishaps

\* The flag is looked at before each clip.  The way to tag it goes by its
\* name; for some there is no timecode, and MPEG-TS has no place for one.
TagFile ==
    /\ phase = "clip" /\ current <= Clips /\ ~stopped
    /\ \/ Proceed("rename")
       \/ /\ File.ext # "ts"
          /\ Proceed(IF File.ext \in {"mp4", "wav"} THEN File.ext ELSE "ffmpeg")
    /\ UNCHANGED <<dir, tmp, moov, reportVars>>

\* A file that cannot be opened or parsed, or is not what its name says, is
\* not touched.
LeaveToFfmpeg ==
    /\ phase \in {"mp4", "wav"}
    /\ Proceed("ffmpeg")
    /\ UNCHANGED <<dir, tmp, moov, reportVars>>

\* A slip a change could make: the place of the end before the sample.
OffsetOfEnd(f) == Len(f.parts)

\* Where the sample will be; more than 32 bits are cut off.
Offset(f) == IF f.long THEN 0 ELSE Len(f.parts) + 1

NextTrackId(f) == f.next

\* The new box is the old one and a track under the next free id, which is
\* left as it was.
Rebuilt(f) ==
    [LastPart(f) EXCEPT !.tracks = Append(@, Track(NextTrackId(f), Offset(f)))]

\* The moov box must be the last; it becomes free space first.
OverwriteMoov ==
    /\ phase = "mp4" /\ IsMp4(File) /\ LastPart(File).type = "moov" /\ LastPart(File).whole
    /\ moov' = Rebuilt(File)
    /\ \/ Write(WithLast(File, Part("free"))) /\ Proceed("mdat")
       \/ UNCHANGED dir /\ Proceed("ffmpeg")
    /\ UNCHANGED <<tmp, reportVars>>

\* The sample of the new track, and then the new box.
AppendMdat ==
    /\ phase = "mdat"
    /\ AppendPart(Holding("sample", <<FrameCount(Meta)>>), "moov")
    /\ UNCHANGED <<tmp, moov, reportVars>>

AppendMoov ==
    /\ phase = "moov"
    /\ AppendPart(moov, "sync")
    /\ UNCHANGED <<tmp, moov, reportVars>>

\* A bext chunk that is there is written over in place, one cut short too.
PatchBext ==
    /\ phase = "wav" /\ IsWav(File) /\ First(File, "bext") # {}
    /\ \/ \E i \in First(File, "bext") :
             /\ Write([File EXCEPT !.parts[i].time = <<TimeReference(Meta)>>])
             /\ Proceed("sync")
       \/ UNCHANGED dir /\ Proceed("ffmpeg")
    /\ UNCHANGED <<tmp, moov, reportVars>>

\* Otherwise one is appended, and the header made to know it; of a chunk cut
\* short not even its name need be there to be found.
AppendBext ==
    /\ phase = "wav" /\ IsWav(File) /\ \A i \in First(File, "bext") : ~File.parts[i].whole
    /\ AppendPart(Holding("bext", <<TimeReference(Meta)>>), "size")
    /\ UNCHANGED <<tmp, moov, reportVars>>

\* More than 32 bits are cut off.
RiffSize(f) == IF f.long THEN 0 ELSE Len(f.parts)

UpdateRiffSize ==
    /\ phase = "size"
    /\ \/ Write([File EXCEPT !.size = RiffSize(File)]) /\ Proceed("sync")
       \/ UNCHANGED dir /\ Proceed("ffmpeg")
    /\ UNCHANGED <<tmp, moov, reportVars>>

SyncInPlace ==
    /\ phase = "sync"
    /\ \/ ReportTagged("native") /\ Proceed("rename")
       \/ UNCHANGED reportVars /\ Proceed("ffmpeg")
    /\ UNCHANGED <<dir, tmp, moov>>

-----------------------------------------------------------------------------
(* Tagging via ffmpeg.                                                     *)

\* A slip a change could make: a failure of the last resort is only logged.
NoteRenameOnly(kind) ==
    /\ mishaps' = IF kind = "tag" THEN mishaps ELSE mishaps \cup {<<kind, current>>}
    /\ UNCHANGED tagged

\* Failures are noted and the clip is renamed all the same.
NoteFailure(kind) == mishaps' = mishaps \cup {<<kind, current>>} /\ UNCHANGED tagged

\* The process has succeeded, and left a file that is large enough.
RemuxSucceeds ==
    /\ phase = "ffmpeg" /\ Readable(File)
    /\ tmp' = With(tmp, Path, Remuxed(File, Meta))
    /\ Proceed("replace")
    /\ UNCHANGED <<dir, moov, reportVars>>

\* It has not, or was not to be waited for; what it left is removed if that
\* can be done.
RemuxFails ==
    /\ phase = "ffmpeg"
    /\ \/ UNCHANGED tmp
       \/ tmp' = With(tmp, Path, [File EXCEPT !.parts = <<>>])
    /\ NoteFailure("tag") /\ Proceed("rename")
    /\ UNCHANGED <<dir, moov>>

\* The file replaces the original in one step, or stays beside it.
ReplaceOriginal ==
    /\ phase = "replace"
    /\ \/ /\ Write(tmp[Path]) /\ tmp' = Without(tmp, Path)
          /\ ReportTagged("ffmpeg")
       \/ NoteFailure("tag") /\ UNCHANGED <<dir, tmp>>
    /\ Proceed("rename")
    /\ UNCHANGED moov

-----------------------------------------------------------------------------
(* Renaming, and the end.                                                  *)

NewPath == template[Path, current]

\* A slip a change could make: the name is not looked for first.
TakenNever(n) == n = Path

Taken(n) == n \in DOMAIN dir

NextClip == phase' = "clip" /\ current' = current + 1 /\ UNCHANGED <<sessionVars, stopped>>

\* A name that is taken, be it the clip's own, is skipped, which is no failure.
RenameClip ==
    /\ phase = "rename"
    /\ \/ Taken(NewPath) /\ UNCHANGED <<dir, reportVars>>
       \/ /\ ~Taken(NewPath)
          /\ \/ dir' = With(Without(dir, Path), NewPath, File) /\ UNCHANGED reportVars
             \/ NoteFailure("rename") /\ UNCHANGED dir
    /\ NextClip
    /\ UNCHANGED <<tmp, moov>>

\* All clips are done, or the flag was seen.
EndSession ==
    /\ phase = "clip" /\ (current > Clips \/ stopped)
    /\ Proceed("done")
    /\ UNCHANGED <<dir, tmp, moov, reportVars>>

Native ==
    \/ TagFile \/ LeaveToFfmpeg
    \/ OverwriteMoov \/ AppendMdat \/ AppendMoov
    \/ PatchBext \/ AppendBext \/ UpdateRiffSize \/ SyncInPlace

Ffmpeg == RemuxSucceeds \/ RemuxFails \/ ReplaceOriginal

TaggingNext == Begin \/ CancelSession \/ Crash \/ Native \/ Ffmpeg \/ RenameClip \/ EndSession

TaggingSpec == TaggingInit /\ [][TaggingNext]_taggingVars

-----------------------------------------------------------------------------
FileOf(c) == dir[NameOf(c)]

\* The type invariant.
TaggingTypeOK ==
    /\ phase \in {"idle", "clip", "mp4", "mdat", "moov", "wav", "size", "sync", "ffmpeg",
               "replace", "rename", "done"}
    /\ session \in 0 .. MaxSessions /\ current \in 1 .. Clips + 1
    /\ DOMAIN dir \subseteq Names /\ DOMAIN tmp \subseteq Names
    /\ inputs \in [1 .. Clips -> Names]
    /\ mishaps \subseteq {"tag", "rename"} \X (1 .. Clips)
    /\ tagged \subseteq {"native", "ffmpeg"} \X (1 .. Clips)
    /\ phase = "mdat" => LastPart(File).type = "free"
    /\ phase = "size" => LastPart(File).type = "bext"
    /\ phase = "replace" => Path \in DOMAIN tmp

\* No clip and no other file of the folder is ever lost, doubled or left
\* without its media, whatever the names asked for, wherever writing stops
\* and however often it is tried again ("Never touches media data").
NothingLost == EachOnce(dir)

\* Tagging in place is exact only where it cuts nothing off (README, section
\* 5): not in an MP4 whose rate has a fraction or that is too long for an
\* offset of 32 bits, and not in a WAV that was damaged before or is too
\* long for its header.
Exact(c) ==
    \/ IsMp4(FileOf(c)) /\ ~FileOf(c).long /\ Starts[session][c].fps % 1000 = 0
    \/ IsWav(FileOf(c)) /\ c \in sound

\* A clip that was reported as tagged can be opened and holds the timecode,
\* where the track or the header says, in the form the file is to have it
\* in, although it is written in several steps and whatever of them earlier
\* sessions have left undone.
ReportedIsTrue ==
    \A way \in {"native", "ffmpeg"}, c \in 1 .. Clips :
        <<way, c>> \in tagged /\ (way = "native" => Exact(c)) =>
            Carries(FileOf(c), Starts[session][c])

\* A session that ends owns up to the harm it has done: each clip that was
\* whole and is not any more, and each that has a temporary file left beside
\* it, is in the ledger, although tagging has two stages and the first one's
\* failures are only logged.  One harm is not owned up to: a clip whose
\* container ffmpeg is not told comes back as another kind of file under its
\* old name, and is reported as tagged; that is the only way a clip stops
\* being what its name says.
HarmIsReported ==
    phase = "done" =>
        \A c \in 1 .. Clips :
            /\ \/ c \in sound /\ ~Intact(FileOf(c))
               \/ \E n \in DOMAIN tmp : tmp[n].clip = c
               => <<"tag", c>> \in mishaps
            /\ c \notin misnamed /\ ~Fits(FileOf(c)) =>
                   <<"ffmpeg", c>> \in tagged /\ ContainerFor(FileOf(c).ext) # FileOf(c).ext

-----------------------------------------------------------------------------
(* What the documentation says and the code does not keep (README,         *)
(* section 5).                                                             *)

\* "Tag a file with start-timecode" (tag_file), whichever way it was done.
TaggedHasTime == \A t \in tagged : Carries(FileOf(t[2]), Starts[session][t[2]])

\* "Determine output container (match input)" (tag_via_ffmpeg_with).
KeepsContainer == \A c \in 1 .. Clips : c \notin misnamed => Fits(FileOf(c))

\* "We need to patch mvhd's next_track_id" (tag_mp4_tmcd): the ids of the
\* tracks of a clip tagged twice.
TrackIdsDistinct ==
    \A n \in DOMAIN dir :
        \A i \in DOMAIN dir[n].parts : \A j, k \in DOMAIN dir[n].parts[i].tracks :
            j # k => dir[n].parts[i].tracks[j].id # dir[n].parts[i].tracks[k].id

\* "on failure ... so the caller can fall through to the ffmpeg fallback"
\* (tag_mp4_tmcd): the fallback can read what it is given.
FallbackCanRead == phase = "ffmpeg" /\ current \in sound => Readable(File)
=============================================================================
