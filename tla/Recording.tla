----------------------------- MODULE Recording -----------------------------
(***************************************************************************)
(* A session with WriteOnDisk: the store of module Store and the files its *)
(* DiskWriter (internal/hls/store/disk_writer.go) keeps in                 *)
(* OutputDir/sessionID.                                                    *)
(*                                                                         *)
(* The calls of the writer are synchronous: a call of the store that cuts  *)
(* a part or a segment has them in `pending` and returns, releases s.mu    *)
(* and broadcasts only when they are made.  SetInit's write and the final  *)
(* playlist come after s.mu was released, the latter after the broadcast.  *)
(* os.WriteFile is two steps, for it truncates the file before it fills    *)
(* it; each may fail, which is logged and forgotten.  The process may stop *)
(* between any two steps, by a crash or by Server.Close, which destroys    *)
(* the sessions and finalizes none; and the directory is not cleared when  *)
(* the next session of the same id moves in.                               *)
(*                                                                         *)
(* Abstractions: durations and the other tags of the disk playlist are     *)
(* left out; an entry carries, beside the file it names, the media that    *)
(* file is there for.  What was written survives the process.              *)
(***************************************************************************)
EXTENDS Store, FiniteSets

CONSTANTS
    MaxSessions,    \* bound: sessions that use the directory, one at a time
    MaxFailures     \* bound: writes that fail in a session

ASSUME RecordingAssumption == MaxSessions \in Nat \ {0} /\ MaxFailures \in Nat

VARIABLES
    session,    \* the number of the session in the directory
    open,       \* it is running
    recording,  \* Store.diskWriter is not nil
    pending,    \* the writes the call in progress still has to make
    opened,     \* the first of them has truncated its file
    written,    \* writtenSegments
    files,      \* the directory: from names to contents
    failed      \* names of the files this session failed to write

diskVars == <<pending, opened, written, files, failed>>
recVars == <<vars, session, open, recording, diskVars>>

-----------------------------------------------------------------------------
(* Names, writes and contents.                                             *)

InitName == <<"init", 0, 0>>
PlaylistName == <<"playlist", 0, 0>>
PartName(msn, idx) == <<"part", msn, idx>>
SegmentName_InWindow(msn) == <<"segment", msn % PlaylistWindow, 0>>
SegmentName_OneBelow(msn) == <<"segment", msn - 1, 0>>
SegmentName(msn) == <<"segment", msn, 0>>

\* A call of writeFile; `final` is the playlist function's endList.
Write(name, media, final) == [name |-> name, media |-> media, final |-> final]

WriteInit == Write(InitName, <<>>, FALSE)
WritePart(part) == Write(PartName(part.msn, part.idx), part.data, FALSE)
WriteList(final) == Write(PlaylistName, <<>>, final)
WriteSegment(seg) == <<Write(SegmentName(seg.msn), seg.data, FALSE), WriteList(FALSE)>>

IsSegment(w) == w.name[1] = "segment"

\* What is in a file: which session wrote it, whether all of it is there, its
\* media, or its entries if it is a playlist.
File(whole, media, listed, endList) ==
    [session |-> session, whole |-> whole, media |-> media,
     listed |-> listed, endList |-> endList]

Torn == File(FALSE, <<>>, <<>>, FALSE)

Contents(w) ==
    IF w.name = PlaylistName THEN File(TRUE, <<>>, written, w.final)
                             ELSE File(TRUE, w.media, <<>>, FALSE)

Put(name, content) ==
    files' = [n \in DOMAIN files \cup {name} |-> IF n = name THEN content ELSE files[n]]

\* The writes of finalizePart, for the part that the accumulator of s becomes:
\* the part's own file comes after the segment it completed.
FinalizePartWrites_AsCommented(s) ==
    LET seg == AppendPart(s).currentSeg
    IN  IF IsFull(seg) THEN WriteSegment(seg) ELSE <<WritePart(LastOf(seg.parts))>>

FinalizePartWrites(s) ==
    LET seg == AppendPart(s).currentSeg
    IN  (IF IsFull(seg) THEN WriteSegment(seg) ELSE <<>>)
            \o <<WritePart(LastOf(seg.parts))>>

\* The writes Finalize makes before it releases s.mu.
FlushPartWrites(s) == IF s.currentPart # NoPart THEN FinalizePartWrites(s) ELSE <<>>

FlushWrites_PartOnly(s) == FlushPartWrites(s)

FlushWrites_AfterTheLast(s) ==
    LET seg == FlushPart(s).store.currentSeg
    IN  <<WriteList(TRUE)>> \o FlushPartWrites(s)
            \o (IF seg.dur > 0 THEN WriteSegment(seg) ELSE <<>>)

FlushWrites(s) ==
    LET seg == FlushPart(s).store.currentSeg
    IN  FlushPartWrites(s) \o (IF seg.dur > 0 THEN WriteSegment(seg) ELSE <<>>)

-----------------------------------------------------------------------------
RecordingInit ==
    /\ Init
    /\ session = 0 /\ open = FALSE /\ recording = FALSE
    /\ pending = <<>> /\ opened = FALSE /\ written = <<>>
    /\ files = [n \in {} |-> Torn]
    /\ failed = {}

\* RegisterSession: a new store, and a disk writer if its directory is there
\* or can be made.
OpenSession ==
    /\ ~open /\ session < MaxSessions
    /\ session' = session + 1
    /\ open' = TRUE
    /\ recording' \in BOOLEAN
    /\ fragments' = <<>> /\ store' = NewStore
    /\ owed' = Nothing /\ notifier' = NewNotifier
    /\ pending' = <<>> /\ opened' = FALSE /\ written' = <<>>
    /\ failed' = {}
    /\ UNCHANGED files

Makes(writes) == pending' = IF recording THEN writes ELSE <<>>

Quiet == open /\ pending = <<>>

TakeInit ==
    /\ Quiet
    /\ SetInit
    /\ Makes(<<WriteInit>>)
    /\ UNCHANGED <<session, open, recording, opened, written, files, failed>>

TakeFragment(frag, lost) ==
    /\ Quiet
    /\ AddFragment(frag, lost)
    /\ LET fed == Accumulate(store, Len(fragments'), frag, lost)
       IN  Makes(IF ReachesTarget(fed.currentPart)
                 THEN FinalizePartWrites(fed) ELSE <<>>)
    /\ UNCHANGED <<session, open, recording, opened, written, files, failed>>

\* Finalize, up to the release of s.mu.
FinalizeSession ==
    /\ Quiet
    /\ Finalize
    /\ Makes(FlushWrites(store))
    /\ UNCHANGED <<session, open, recording, opened, written, files, failed>>

\* Broadcast or BroadcastEnded; Finalize has its last playlist still to write.
Announce ==
    /\ Quiet
    /\ Broadcast \/ BroadcastEnded
    /\ Makes(IF store.ended THEN <<WriteList(TRUE)>> ELSE <<>>)
    /\ UNCHANGED <<session, open, recording, opened, written, files, failed>>

-----------------------------------------------------------------------------
(* writeFile, on the first of the pending writes.                          *)

\* WriteSegment lists its segment whether or not the file was written.
Returns(w) ==
    /\ pending' = Tail(pending)
    /\ opened' = FALSE
    /\ written' = IF IsSegment(w) THEN Append(written, [name |-> w.name, media |-> w.media])
                                  ELSE written

OpenFile ==
    /\ open /\ pending # <<>> /\ ~opened
    /\ Put(Head(pending).name, Torn)
    /\ opened' = TRUE
    /\ UNCHANGED <<vars, session, open, recording, pending, written, failed>>

FillFile ==
    /\ open /\ opened
    /\ Put(Head(pending).name, Contents(Head(pending)))
    /\ Returns(Head(pending))
    /\ UNCHANGED <<vars, session, open, recording, failed>>

\* Before or after the file was truncated.
FailToWrite ==
    /\ open /\ pending # <<>>
    /\ Cardinality(failed) < MaxFailures
    /\ failed' = failed \cup {Head(pending).name}
    /\ Returns(Head(pending))
    /\ UNCHANGED <<vars, session, open, recording, files>>

\* servePartFromDisk: GetDiskWriter, then ReadPart with no lock held.
ServePartFromDisk(msn, idx) ==
    LET name == PartName(msn, idx)
        answer(status, from, media) == [status |-> status, from |-> from, media |-> media]
    IN  IF ~recording THEN answer(503, 0, <<>>)
        ELSE IF name \notin DOMAIN files THEN answer(404, 0, <<>>)
        ELSE answer(200, files[name].session, files[name].media)

-----------------------------------------------------------------------------
\* A crash, Server.Close, or the end of a session that was finalized.  What
\* was in memory is gone; the variables keep it until the next session.
Stop ==
    /\ open
    /\ open' = FALSE
    /\ pending' = <<>> /\ opened' = FALSE
    /\ UNCHANGED <<vars, session, recording, written, files, failed>>

RecordingNext ==
    \/ OpenSession
    \/ TakeInit
    \/ \E frag \in Fragment, lost \in SUBSET Uses : TakeFragment(frag, lost)
    \/ FinalizeSession
    \/ Announce
    \/ OpenFile
    \/ FillFile
    \/ FailToWrite
    \/ Stop

RecordingSpec == RecordingInit /\ [][RecordingNext]_recVars

-----------------------------------------------------------------------------
(* Properties.                                                             *)

Names == {InitName, PlaylistName} \cup ({"part"} \X Nat \X Nat) \cup ({"segment"} \X Nat \X {0})

Entry == [name : Names, media : Seq(Nat)]

\* Every variable of the recording has its type, a file that is being filled
\* is torn, and nothing is pending that a closed session could still write.
RecordingTypeOK ==
    /\ session \in 0 .. MaxSessions
    /\ open \in BOOLEAN /\ recording \in BOOLEAN /\ opened \in BOOLEAN
    /\ pending \in Seq([name : Names, media : Seq(Nat), final : BOOLEAN])
    /\ written \in Seq(Entry)
    /\ DOMAIN files \subseteq Names
    /\ \A n \in DOMAIN files :
          files[n] \in [session : 1 .. MaxSessions, whole : BOOLEAN, media : Seq(Nat),
                        listed : Seq(Entry), endList : BOOLEAN]
    /\ failed \subseteq Names
    /\ opened => /\ open /\ pending # <<>>
                 /\ Head(pending).name \in DOMAIN files
                 /\ files[Head(pending).name] = Torn

\* The file is there, all of it, and this session wrote it.
Intact(name) ==
    name \in DOMAIN files /\ files[name].whole /\ files[name].session = session

Listed == IF Intact(PlaylistName) THEN files[PlaylistName].listed ELSE <<>>

(***************************************************************************)
(* Whenever the playlist file of this session can be read, whatever was    *)
(* happening when the process stopped: each segment it lists, the first    *)
(* ones of the stream in order and without a gap, is in the file it names, *)
(* unless the write of just that file failed; and so is the init segment.  *)
(* A segment of a predecessor in the directory is never played for one of  *)
(* this session.                                                           *)
(***************************************************************************)
ListedIsRecorded ==
    /\ \A i \in DOMAIN Listed :
          /\ RunTo(Listed[i].media,
                   IF i = Len(Listed) THEN LastOf(Listed[i].media)
                                      ELSE Listed[i + 1].media[1] - 1)
          /\ Listed[i].name \notin failed =>
                Intact(Listed[i].name) /\ files[Listed[i].name].media = Listed[i].media
    /\ Listed # <<>> =>
          /\ Listed[1].media[1] = 1
          /\ InitName \in failed \/ Intact(InitName)

(***************************************************************************)
(* "On stop: writes the final VOD playlist": when Finalize has returned,   *)
(* unless a write of the playlist failed, the file has EXT-X-ENDLIST; and  *)
(* a file that has it lists all the media the session ever took in (given  *)
(* fragments longer than a millisecond).                                   *)
(***************************************************************************)
FinishedIsComplete ==
    /\ (Quiet /\ recording /\ store.ended /\ owed = Nothing /\ PlaylistName \notin failed) =>
          Intact(PlaylistName) /\ files[PlaylistName].endList
    /\ (Intact(PlaylistName) /\ files[PlaylistName].endList) =>
          IF Listed = <<>> THEN fragments = <<>>
          ELSE LastOf(LastOf(Listed).media) = Len(fragments)

\* s.mu is held across the writes of parts and segments: a playlist can be
\* made, or a part looked up, only when none is left.
Locked == \E i \in DOMAIN pending : pending[i].name[1] \in {"part", "segment"}

Announced(msn, idx) ==
    notifier.lastMSN >= 0 /\ ~Later(Media(msn, idx), Media(notifier.lastMSN, notifier.lastPart))

(***************************************************************************)
(* A client that learnt of a part, from a playlist or by being woken, may  *)
(* ask for disk/part-N-i instead of part-N-i: it gets the same bytes, if   *)
(* the session is recorded and that write did not fail.  It does not get a *)
(* predecessor's part of the same number, nor 404, for the last part of a  *)
(* segment either (store.go:186 says that one is not written).             *)
(***************************************************************************)
AvailableIsOnDisk ==
    (open /\ recording) =>
        \A p \in Published(store) :
            LET idx == p[2].idx
            IN  /\ ~Locked \/ Announced(p[1], idx)
                /\ PartName(p[1], idx) \notin failed
                => ServePartFromDisk(p[1], idx)
                      = [status |-> 200, from |-> session, media |-> p[2].data]

\* The playlist file of this session, and how many fragments it names.
PlaylistFile ==
    IF PlaylistName \notin DOMAIN files \/ files[PlaylistName].session # session
    THEN [state |-> "absent", upto |-> 0]
    ELSE IF ~files[PlaylistName].whole THEN [state |-> "torn", upto |-> 0]
    ELSE [state |-> IF files[PlaylistName].endList THEN "sealed" ELSE "growing",
          upto |-> IF Listed = <<>> THEN 0 ELSE LastOf(LastOf(Listed).media)]

Promise == INSTANCE Archive WITH
    taken <- Len(fragments),
    cut   <- IF written = <<>> THEN 0 ELSE LastOf(LastOf(written).media),
    file  <- PlaylistFile

(***************************************************************************)
(* The files implement the abstract archive: from one version of the       *)
(* playlist to the next the recording only grows, by whole segments, it is *)
(* sealed when it is complete, and it is not touched after that.           *)
(***************************************************************************)
ImplementsArchive == Promise!Spec

=============================================================================
