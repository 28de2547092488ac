----------------------------- MODULE Mp4Recorder -----------------------------
(***************************************************************************)
(* The rolling MP4 recorder of a live stream (egress_mp4_recorder.c): a    *)
(* timer reads the GOP ring and writes files; at a key frame past the time *)
(* limit it closes the file and goes on in a new one.  Opening a file may  *)
(* fail, and a recorder that falls behind is moved to the last key frame   *)
(* by the ring (GopReader).                                                *)
(*                                                                         *)
(* Frame n is frames[n]; a video frame other than a sync picture (one that *)
(* is_sync_key knows: intra slices, IDR, CRA) needs the video frame before *)
(* it.  The recorder asks two things of a frame: whether the slot is       *)
(* marked a key frame (rotation), and whether it is marked or holds a sync *)
(* picture (the start of a file).  A tick holds rec->mu, so stop waits for *)
(* its end; the publisher does not wait.                                   *)
(***************************************************************************)
EXTENDS Integers, Sequences, FiniteSetsExt

CONSTANTS
    MaxMs,      \* max_second, in steps of the clock
    TickFrames, \* ZMS_MP4_REC_TICK_FRAMES
    MaxGop,     \* bound: distance of two key frames
    MaxFrames,  \* bound: frames committed
    MaxFaults   \* bound: files or tracks that cannot be opened, overruns

Mp4Assumption == /\ MaxMs \in Nat \ {0} /\ TickFrames \in Nat \ {0}
                 /\ MaxGop \in Nat \ {0} /\ MaxFrames \in Nat /\ MaxFaults \in Nat

VARIABLES
    frames,      \* committed: kind ("sync", "inter", "audio"), the key mark, dts
    audioConfig, \* the queue has an audio configuration
    rec,         \* reader position, running, frames left in this tick
    file,        \* the file being written, NoFile: rec->mov is NULL
    closed,      \* the files closed
    faults       \* failed opens, missing tracks and overruns so far

vars == <<frames, audioConfig, rec, file, closed, faults>>

IsKey(n) == frames[n].key
IsSync(n) == frames[n].kind = "sync"
VideoFrames == {n \in DOMAIN frames : frames[n].kind # "audio"}
LastOf(S) == IF S = {} THEN 0 ELSE Max(S)
LastKey == LastOf({n \in DOMAIN frames : IsKey(n)})
LastVideo(n) == LastOf({m \in VideoFrames : m < n})

\* After open_new_file: no frame, no track, not armed.
NewFileArmed ==                             \* mutant: video_armed is not reset
    [held |-> <<>>, armed |-> TRUE, audio |-> FALSE, start |-> 0, last |-> 0]
NewFile == [held |-> <<>>, armed |-> FALSE, audio |-> FALSE, start |-> 0, last |-> 0]
NoFile == [NewFile EXCEPT !.start = -1]
-----------------------------------------------------------------------------
Now == IF frames = <<>> THEN 0 ELSE frames[Len(frames)].dts

\* zms_frame_refresh_key_from_es: the commit marks a sync picture as a key
\* frame whether the publisher did or not (frames that are configuration only
\* hold no picture).
Refreshed(kind, marked) == marked \/ kind = "sync"

\* The video configuration is there before the first key frame.  A publisher
\* marks nothing a key frame that is no sync picture.
Commit(kind, marked, step) ==
    /\ Len(frames) < MaxFrames
    /\ marked => kind = "sync"
    /\ kind = "inter" => /\ LastKey # 0
                         /\ Cardinality({n \in VideoFrames : n > LastKey}) < MaxGop - 1
    /\ kind # "audio" => step = 1
    /\ frames' = Append(frames, [kind |-> kind, key |-> Refreshed(kind, marked),
                                 dts |-> Now + step])
    /\ UNCHANGED <<audioConfig, rec, file, closed, faults>>

SetAudioConfig ==
    /\ ~audioConfig
    /\ audioConfig' = TRUE
    /\ UNCHANGED <<frames, rec, file, closed, faults>>

Init ==
    /\ frames = <<>> /\ audioConfig = FALSE
    /\ rec = [on |-> FALSE, at |-> 1, left |-> 0]
    /\ file = NoFile /\ closed = <<>> /\ faults = 0

\* zms_mp4_recorder_start: the reader is put on the last key frame.
Start ==
    /\ ~rec.on /\ closed = <<>>
    /\ rec' = [rec EXCEPT !.on = TRUE, !.at = IF LastKey = 0 THEN 1 ELSE LastKey]
    /\ UNCHANGED <<frames, audioConfig, file, closed, faults>>

\* ensure_tracks: the audio track is added when its configuration is known.
WithTracks(f) == [f EXCEPT !.audio = audioConfig]

\* tick_nolock.  Without a video configuration it stops after the open.
TickBegin ==
    /\ rec.on /\ rec.left = 0
    /\ rec.at <= Len(frames)
    /\ file' = WithTracks(IF file = NoFile THEN NewFile ELSE file)
    /\ rec' = [rec EXCEPT !.left = IF LastKey = 0 THEN 0 ELSE TickFrames]
    /\ file' # file \/ rec' # rec
    /\ UNCHANGED <<frames, audioConfig, closed, faults>>

\* open_new_file fails at the start of a tick, or it succeeds and ensure_tracks
\* has no video track to add (a configuration of another codec): the next tick
\* tries again what failed, in the second case with the file that is open.
OpenFails ==
    /\ rec.on /\ rec.left = 0 /\ file = NoFile
    /\ faults < MaxFaults
    /\ faults' = faults + 1
    /\ file' \in {NoFile, NewFile}
    /\ UNCHANGED <<frames, audioConfig, rec, closed>>

\* The ring dropped the frames the recorder stood on.
Overrun ==
    /\ rec.on /\ rec.at < LastKey
    /\ faults < MaxFaults
    /\ faults' = faults + 1
    /\ rec' = [rec EXCEPT !.at = LastKey]
    /\ UNCHANGED <<frames, audioConfig, file, closed>>

\* should_rotate: the length is that of the frames written so far.
ShouldRotate(n) ==
    IsKey(n) /\ file.armed /\ file.last >= file.start /\ file.last - file.start >= MaxMs

\* feed_h264 / feed_h265: nothing before the first frame of the file that is
\* marked a key frame or holds a sync picture.
FeedVideo(f, n) ==
    LET start == IF f.armed THEN f.start ELSE frames[n].dts
    IN IF ~f.armed /\ ~(IsKey(n) \/ IsSync(n)) THEN f
       ELSE [f EXCEPT !.armed = TRUE, !.start = start, !.held = Append(@, n),
                      !.last = frames[n].dts]

\* feed_aac
FeedAac(f, n) ==
    IF ~f.audio \/ ~f.armed THEN f
    ELSE [f EXCEPT !.held = Append(@, n),
                   !.last = IF frames[n].dts > @ THEN frames[n].dts ELSE @]

\* close_file_fire_hook: the hook reports what was closed.
Closed(f) == Append(closed, f)

Reading == rec.left > 0 /\ rec.at <= Len(frames)
Took(left) == rec' = [rec EXCEPT !.at = @ + 1, !.left = left]

ReadAudio ==
    /\ Reading /\ frames[rec.at].kind = "audio"
    /\ file' = FeedAac(file, rec.at)
    /\ Took(rec.left - 1)
    /\ UNCHANGED <<frames, audioConfig, closed, faults>>

ReadVideo ==
    /\ Reading /\ frames[rec.at].kind # "audio"
    /\ ~ShouldRotate(rec.at)
    /\ file' = FeedVideo(file, rec.at)
    /\ Took(rec.left - 1)
    /\ UNCHANGED <<frames, audioConfig, closed, faults>>

\* The key frame that rotates the file is the first one of the next ...
RotateLosesKey ==                       \* mutant: the frame is not fed again
    /\ Reading /\ ShouldRotate(rec.at)
    /\ closed' = Closed(file)
    /\ file' = WithTracks(NewFile)
    /\ Took(rec.left - 1)
    /\ UNCHANGED <<frames, audioConfig, faults>>

Rotate ==
    /\ Reading /\ ShouldRotate(rec.at)
    /\ closed' = Closed(file)
    /\ file' = FeedVideo(WithTracks(NewFile), rec.at)
    /\ Took(rec.left - 1)
    /\ UNCHANGED <<frames, audioConfig, faults>>

\* ... unless that one cannot be opened or gets no video track: the key frame
\* was taken and is lost, and in the second case the new file stays open.
RotateFails ==
    /\ Reading /\ ShouldRotate(rec.at)
    /\ faults < MaxFaults
    /\ faults' = faults + 1
    /\ closed' = Closed(file)
    /\ file' \in {NoFile, NewFile}
    /\ Took(0)
    /\ UNCHANGED <<frames, audioConfig>>

TickEnd ==
    /\ rec.left > 0 /\ rec.at > Len(frames)
    /\ rec' = [rec EXCEPT !.left = 0]
    /\ UNCHANGED <<frames, audioConfig, file, closed, faults>>

\* zms_mp4_recorder_stop / destroy_recorder: what the ring still holds is not
\* written.
Stop ==
    /\ rec.on /\ rec.left = 0
    /\ rec' = [rec EXCEPT !.on = FALSE]
    /\ closed' = IF file = NoFile THEN closed ELSE Closed(file)
    /\ file' = NoFile
    /\ UNCHANGED <<frames, audioConfig, faults>>

Next ==
    \/ \E kind \in {"sync", "inter", "audio"}, marked \in BOOLEAN, step \in {0, 1} :
           Commit(kind, marked, step)
    \/ SetAudioConfig \/ Start
    \/ TickBegin \/ OpenFails \/ Overrun \/ ReadAudio \/ ReadVideo
    \/ Rotate \/ RotateFails \/ TickEnd \/ Stop

Spec == Init /\ [][Next]_vars
-----------------------------------------------------------------------------
Files == {closed[k] : k \in DOMAIN closed} \cup {file}
Holds(f) == {f.held[k] : k \in DOMAIN f.held}

\* A file plays on its own: it starts with a sync picture, marked a key frame
\* or not, and the frame another one needs is in the same file, whatever failed
\* or was overrun before.
FilesDecode == \A f \in Files : f.held # <<>> =>
    /\ IsSync(f.held[1])
    /\ \A n \in Holds(f) \cap VideoFrames : IsSync(n) \/ LastVideo(n) \in Holds(f)

\* As long as nothing failed, nothing is lost where one file ends and the next
\* begins: every video frame from the first recorded on is in one file.
Recorded == UNION {Holds(f) : f \in Files} \cap VideoFrames
NothingLost == (faults = 0 /\ Recorded # {}) =>
    \A n \in VideoFrames : (Min(Recorded) <= n /\ n < rec.at) =>
        Cardinality({k \in DOMAIN closed : n \in Holds(closed[k])})
        + (IF n \in Holds(file) THEN 1 ELSE 0) = 1
=============================================================================
