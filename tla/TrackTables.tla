------------------------------ MODULE TrackTables ------------------------------
(***************************************************************************)
(* The contexts of ffmpeg that container_ffmpeg.c opens, and the tables of *)
(* tracks that the managers (manager/audio.c, video.c, subtitle.c,         *)
(* chapter.c) keep of their streams.                                       *)
(*                                                                         *)
(* The tables are brought up to date when a file is opened and whenever a  *)
(* list is asked for; a track that is not found again is kept and marked   *)
(* as pending.  The reader delivers the streams that are not discarded,    *)
(* and plays those the managers have selected.  Meanwhile the programs of  *)
(* a transport stream change: streams leave them and new ones come.        *)
(***************************************************************************)
EXTENDS Integers, Sequences, FiniteSets, SequencesExt

CONSTANTS Playlists,  \* what is opened: a file, or two of which the second has the sound;
                      \* each a record of net, streams, programs and chapters
          Wrap,       \* entries of a table (TRACKWRAP: 20, video 4, chapters 64)
          SelProgram, \* the program asked for (g_sel_program_id); 0 when none is
          MaxCalls,   \* bound: calls of the application
          MaxStreams  \* bound: streams of a context

Assumptions ==
  /\ Wrap \in Nat \ {0}
  /\ \A f \in Playlists : /\ Len(f) \in 1 .. 2
                           /\ \A i \in DOMAIN f : Len(f[i].streams) <= MaxStreams

VARIABLES
  avContextTab,   \* the two contexts
  use_custom_io,  \* the context reads by SAM_ReadFunc
  tracks,         \* the tables of the managers
  terminating,
  isPlaying,
  playing,        \* of cPlayback: a Close has to stop
  list,           \* the last list of audio tracks
  calls,
  opened,         \* number of the last context, in place of its address
  wrongClose,     \* history: a context was closed as custom io that is not
  fresh,          \* history: nothing changed since the tables were brought up to date
  lost,           \* history: programs lost a stream, the tables a track for want of room
  stale           \* history: tables of an earlier file were still there at an opening

player  == <<terminating, isPlaying, playing, list, calls>>
history == <<opened, wrongClose, fresh, lost, stale>>
vars    == <<avContextTab, use_custom_io, tracks, player, history>>

Contexts == {0, 1}
Kinds    == {"audio", "video", "subtitle", "chapter"}
Garbage  == -1   \* an entry of a list that was not written

-----------------------------------------------------------------------------
(* The tables *)

Unused == [k \in Kinds |-> [of |-> <<>>, cur |-> IF k = "subtitle" THEN 0 ELSE 1, pending |-> {}]]
HasCurrent(t, k) == t[k].cur > 0 /\ t[k].of # <<>>
Current(t, k) == t[k].of[t[k].cur]

\* A track that is in the table is taken for the same, whatever stream it had.
Has(t, k, id) == \E i \in DOMAIN t[k].of : t[k].of[i].Id = id
IndexOf(t, k, id) == CHOOSE i \in DOMAIN t[k].of : t[k].of[i].Id = id
HasRoom(t, k, id) == Has(t, k, id) \/ Len(t[k].of) < Wrap

\* Slip: a track that is in the table is left as it is.
ManagerAdd_keep(t, k, track) ==
  IF Has(t, k, track.Id) THEN t
  ELSE IF HasRoom(t, k, track.Id) THEN [t EXCEPT ![k].of = Append(@, track)] ELSE t

ManagerAdd(t, k, track) ==
  IF Has(t, k, track.Id) THEN [t EXCEPT ![k].pending = @ \ {track.Id}]
  ELSE IF HasRoom(t, k, track.Id) THEN [t EXCEPT ![k].of = Append(@, track)] ELSE t

InitUpdate(t, k) == [t EXCEPT ![k].pending = {t[k].of[i].Id : i \in DOMAIN t[k].of}]
Pending(t, k, i) == t[k].of[i].Id \in t[k].pending

\* MANAGER_SET; subtitles are switched off with 0.
Set(t, k, id) ==
  IF k = "subtitle" /\ id <= 0 THEN [t EXCEPT ![k].cur = 0]
  ELSE IF Has(t, k, id) THEN [t EXCEPT ![k].cur = IndexOf(t, k, id)] ELSE t

\* The list of audio tracks leaves out the entry of a pending one, unwritten.
ManagerList(t) ==
  [i \in DOMAIN t["audio"].of |->
     IF Pending(t, "audio", i) THEN Garbage ELSE t["audio"].of[i].Id]

ManagerDel == Unused

-----------------------------------------------------------------------------
(* container_ffmpeg_update_tracks *)

Closed == [is |-> "none", no |-> 0, pb |-> "none", streams |-> <<>>, programs |-> <<>>,
           chapters |-> 0, discard |-> {}]
Alloc  == [Closed EXCEPT !.is = "empty", !.no = opened + 1]

\* The streams of the program asked for, or of the first that has a picture; else all.
Chosen(c) ==
  LET fits(p) == /\ c.programs[p] # {}
                 /\ IF SelProgram > 0 THEN p = SelProgram
                    ELSE \E n \in c.programs[p] : c.streams[n].kind = "video"
      ps == {p \in DOMAIN c.programs : fits(p)}
  IN  IF ps = {} THEN DOMAIN c.streams
      ELSE c.programs[CHOOSE p \in ps : \A q \in ps : p <= q]

\* A stream without an id takes its index.
Id(c, n) == IF c.streams[n].id = 0 THEN n - 1 ELSE c.streams[n].id

\* Codec2Encoding: streams of an unknown codec are left out.
Encoding(c, n) == c.streams[n].codec # "unknown"

Track(id, no, a, n) == [Id |-> id, AVIdx |-> a, no |-> no, stream |-> n]

AddChapters(r, c, a) ==
  [r EXCEPT !.t = FoldLeft(LAMBDA t, i : ManagerAdd(t, "chapter", Track(Len(c.streams) + i, c.no, a, 0)),
                           @, [i \in 1 .. c.chapters |-> i - 1])]

\* Of the first file only the first picture is read; of the second all of it.
AddVideo(r, c, a, n) ==
  LET adds == Encoding(c, n) /\ HasRoom(r.t, "video", Id(c, n))
  IN  [t     |-> IF adds THEN ManagerAdd(r.t, "video", Track(Id(c, n), c.no, a, n)) ELSE r.t,
       read  |-> IF a = 1 \/ (adds /\ ~r.video) THEN r.read \cup {<<a, n>>} ELSE r.read,
       video |-> r.video \/ adds]

AddAudio(r, c, a, n) ==
  [r EXCEPT !.t = IF Encoding(c, n) THEN ManagerAdd(@, "audio", Track(Id(c, n), c.no, a, n)) ELSE @,
            !.read = IF a = 1 THEN @ \cup {<<a, n>>} ELSE @]

\* Subtitles are added when the file is opened.  What ffmpeg has no decoder for is left out.
AddSubtitle(r, c, a, n, initial) ==
  [r EXCEPT !.t = IF initial /\ Encoding(c, n)
                    THEN ManagerAdd(@, "subtitle", Track(Id(c, n), c.no, a, n)) ELSE @,
            !.read = IF n \in c.discard THEN @ ELSE @ \cup {<<a, n>>}]

AddStream(r, c, a, n, initial) ==
  CASE n \notin Chosen(c)               -> r
    [] c.streams[n].kind = "video"      -> AddVideo(r, c, a, n)
    [] c.streams[n].kind = "audio"      -> AddAudio(r, c, a, n)
    [] c.streams[n].kind = "subtitle"   -> AddSubtitle(r, c, a, n, initial)

AddStreams(r, c, a, initial) ==
  FoldLeft(LAMBDA s, n : AddStream(s, c, a, n, initial), AddChapters(r, c, a),
           [n \in DOMAIN c.streams |-> n])

\* Slip: a pending track can be selected.
SelectedAudio_pending(t) ==
  LET ids == DOMAIN t["audio"].of
  IN  IF ids = {} THEN 0 ELSE t["audio"].cur

\* The audio track that is played on: the current one if it was found again, else the first.
SelectedAudio(t) ==
  LET there == {i \in DOMAIN t["audio"].of : ~Pending(t, "audio", i)}
  IN  IF there = {} THEN 0
      ELSE IF t["audio"].cur \in there THEN t["audio"].cur
      ELSE CHOOSE i \in there : \A j \in there : i <= j

\* What an update leaves: the tables and the streams that are read.  A pointer of a track may
\* be one to a stream that is gone.
Updated(cs, t, initial) ==
  LET r0 == [t |-> InitUpdate(InitUpdate(t, "video"), "audio"), read |-> {}, video |-> FALSE]
      r1 == IF cs[0].is = "none" THEN r0 ELSE AddStreams(r0, cs[0], 0, initial)
      r2 == IF "none" \in {cs[0].is, cs[1].is} THEN r1 ELSE AddStreams(r1, cs[1], 1, initial)
      i  == SelectedAudio(r2.t)
      s  == r2.t["audio"].of[i]
  IN  IF i = 0 THEN r2
      ELSE [r2 EXCEPT !.t["audio"].cur = i,
                      !.read = IF s.no = cs[s.AVIdx].no THEN @ \cup {<<s.AVIdx, s.stream>>} ELSE @]

Discard(cs, read) ==
  [a \in Contexts |-> [cs[a] EXCEPT !.discard = {n \in DOMAIN cs[a].streams : <<a, n>> \notin read}]]

Full(cs, t) ==
  \E a \in Contexts : \E n \in DOMAIN cs[a].streams :
    /\ n \in Chosen(cs[a]) /\ Encoding(cs[a], n) /\ cs[a].streams[n].kind \in {"audio", "video"}
    /\ ~Has(t, cs[a].streams[n].kind, Id(cs[a], n))

\* A stopped container is not looked at.
container_ffmpeg_update_tracks ==
  IF terminating THEN UNCHANGED <<avContextTab, tracks, fresh, lost>>
  ELSE LET u == Updated(avContextTab, tracks, FALSE)
       IN  /\ avContextTab' = Discard(avContextTab, u.read) /\ tracks' = u.t
           /\ fresh' = TRUE /\ lost' = (lost \/ Full(avContextTab, u.t))

-----------------------------------------------------------------------------
(* Opening and stopping *)

\* container_ffmpeg_init_av_context: a file of the box is read by custom io.
Opens(c, f, no) == [is |-> "open", no |-> no, pb |-> IF f.net THEN "own" ELSE "custom",
                    streams |-> f.streams, programs |-> f.programs, chapters |-> f.chapters,
                    discard |-> {}]
container_ffmpeg_get_avio_context(f) == {"ok"} \cup (IF f.net THEN {} ELSE {"noFile"})
Outcomes(f) == container_ffmpeg_get_avio_context(f) \cup {"fails"}
Stages == {"noFile", "fails", "ok"}

init_av_context(s, a, f, outcome) ==
  CASE outcome = "noFile" -> [s EXCEPT !.cs[a] = Alloc]
    [] outcome = "fails"  -> [s EXCEPT !.cs[a] = Closed, !.custom[a] = @ \/ ~f.net]
    [] outcome = "ok"     -> [s EXCEPT !.cs[a] = Opens(s.cs[a], f, opened + 1),
                                       !.custom[a] = @ \/ ~f.net]

\* container_ffmpeg_stop refuses without a first context, and goes up to the first that is not
\* there.  A context of custom io is closed by hand.
container_ffmpeg_stop(s) ==
  LET closes == IF s.cs[0].is = "none" THEN {} ELSE {a \in Contexts : s.cs[a].is # "none"}
  IN  [cs     |-> [a \in Contexts |-> IF a \in closes THEN Closed ELSE s.cs[a]],
       custom |-> [a \in Contexts |-> s.custom[a] /\ a \notin closes],
       wrong  |-> s.wrong \/ \E a \in closes : s.custom[a] /\ s.cs[a].pb # "custom"]

Now == [cs |-> avContextTab, custom |-> use_custom_io, wrong |-> wrongClose]

Becomes(s) == avContextTab' = s.cs /\ use_custom_io' = s.custom /\ wrongClose' = s.wrong

\* PlaybackOpen and container_ffmpeg_init, then the lists that cPlayback::Start asks for and
\* PlaybackPlay.  Tables of a file that was not closed are still there.
Start(files, outcomes, plays) ==
  LET s0   == IF isPlaying THEN container_ffmpeg_stop(Now) ELSE Now
      s1   == init_av_context(s0, 0, files[1], outcomes[1])
      s2   == IF outcomes[1] = "ok" /\ Len(files) = 2
                THEN init_av_context(s1, 1, files[2], outcomes[2]) ELSE s1
      ok   == \A i \in DOMAIN files : outcomes[i] = "ok"
      u    == Updated(s2.cs, tracks, TRUE)
      v    == Updated(Discard(s2.cs, u.read), u.t, FALSE)
      up   == [s2 EXCEPT !.cs = Discard(@, v.read)]
  IN  /\ opened' = opened + 1
      /\ stale' = (ok /\ (stale \/ tracks # Unused))
      /\ isPlaying' = (ok /\ plays)
      /\ playing' = (playing \/ ok)
      /\ IF ok THEN /\ Becomes(IF plays THEN up ELSE container_ffmpeg_stop(up))
                    /\ tracks' = v.t /\ list' = ManagerList(v.t)
                    /\ terminating' = ~plays /\ fresh' = plays
                    /\ lost' = Full(s2.cs, v.t)
               ELSE /\ Becomes(s2)
                    /\ terminating' = (terminating \/ isPlaying)
                    /\ UNCHANGED <<tracks, list, lost>> /\ fresh' = FALSE

\* cPlayback::Close
Close ==
  IF playing
    THEN /\ Becomes(IF isPlaying THEN container_ffmpeg_stop(Now) ELSE Now)
         /\ tracks' = ManagerDel
         /\ terminating' = (terminating \/ isPlaying)
         /\ isPlaying' = FALSE /\ playing' = FALSE /\ fresh' = FALSE /\ lost' = FALSE
         /\ stale' = FALSE
         /\ UNCHANGED <<list, opened>>
    ELSE UNCHANGED <<avContextTab, use_custom_io, tracks, terminating, isPlaying, playing, list, history>>

\* FindAllPids asks while it plays, FindAllSubtitlePids and GetChapters always.
FindAllPids ==
  /\ IF isPlaying THEN container_ffmpeg_update_tracks /\ list' = ManagerList(tracks')
                  ELSE UNCHANGED <<avContextTab, tracks, fresh, lost, list>>
  /\ UNCHANGED <<use_custom_io, terminating, isPlaying, playing, opened, wrongClose, stale>>

FindOthers ==
  /\ container_ffmpeg_update_tracks
  /\ UNCHANGED <<use_custom_io, terminating, isPlaying, playing, list, opened, wrongClose, stale>>

\* PlaybackSwitchAudio and container_ffmpeg_switch_audio
SwitchAudio(id) ==
  /\ isPlaying
  /\ LET t == Set(tracks, "audio", id)
         of == t["audio"].of
     IN  /\ tracks' = t
         /\ fresh' = (fresh /\ HasCurrent(t, "audio") /\ ~Pending(t, "audio", t["audio"].cur))
         /\ avContextTab' =
              IF t = tracks \/ of = <<>> THEN avContextTab
              ELSE [avContextTab EXCEPT ![0].discard =
                     {n \in DOMAIN avContextTab[0].streams :
                        LET is == {i \in DOMAIN of : /\ of[i].AVIdx = 0 /\ of[i].stream = n
                                                     /\ of[i].no = avContextTab[0].no}
                        IN  IF is = {} THEN n \in @
                            ELSE \E i \in is : of[i].Id # Current(t, "audio").Id}]
  /\ UNCHANGED <<use_custom_io, terminating, isPlaying, playing, list, opened, wrongClose, lost, stale>>

SwitchSubtitle(id) ==
  /\ isPlaying
  /\ tracks' = Set(tracks, "subtitle", id)
  /\ UNCHANGED <<avContextTab, use_custom_io, terminating, isPlaying, playing, list, history>>

Calls ==
  /\ calls < MaxCalls /\ calls' = calls + 1
  /\ \/ \E f \in Playlists, plays \in BOOLEAN :
          \E o \in [DOMAIN f -> Stages] : (\A i \in DOMAIN f : o[i] \in Outcomes(f[i])) /\ Start(f, o, plays)
     \/ Close \/ FindAllPids \/ FindOthers
     \/ \E i \in DOMAIN list : list[i] # Garbage /\ SwitchAudio(list[i])
     \/ \E id \in {0} \cup {tracks["subtitle"].of[i].Id : i \in DOMAIN tracks["subtitle"].of} :
          SwitchSubtitle(id)

\* The file ends: PlaybackTerminate leaves the tables.
Ends ==
  /\ isPlaying
  /\ Becomes(container_ffmpeg_stop(Now))
  /\ terminating' = TRUE /\ isPlaying' = FALSE /\ fresh' = FALSE
  /\ UNCHANGED <<tracks, playing, list, calls, opened, lost, stale>>

-----------------------------------------------------------------------------
(* ffmpeg, while the reader reads: a stream leaves its program, or a new one comes. *)

ProgramChanges ==
  /\ isPlaying
  /\ \E p \in DOMAIN avContextTab[0].programs :
       \/ \E n \in avContextTab[0].programs[p] :
            avContextTab' = [avContextTab EXCEPT ![0].programs[p] = @ \ {n}]
       \/ /\ Len(avContextTab[0].streams) < MaxStreams
          /\ \E k \in {"audio", "video"} :
               LET n == Len(avContextTab[0].streams) + 1
               IN  avContextTab' = [avContextTab EXCEPT
                     ![0].streams = Append(@, [id |-> 100 + n, kind |-> k, codec |-> "known"]),
                     ![0].programs[p] = @ \cup {n}]
  /\ lost' = (lost \/ ~(Chosen(avContextTab[0]) \subseteq Chosen(avContextTab'[0])))
  /\ fresh' = FALSE
  /\ UNCHANGED <<use_custom_io, tracks, player, opened, wrongClose, stale>>

Init ==
  /\ avContextTab = [a \in Contexts |-> Closed]
  /\ use_custom_io = [a \in Contexts |-> FALSE]
  /\ tracks = Unused /\ terminating = FALSE /\ isPlaying = FALSE /\ playing = FALSE
  /\ list = <<>> /\ calls = 0 /\ opened = 0
  /\ wrongClose = FALSE /\ fresh = FALSE /\ lost = FALSE /\ stale = FALSE

Next == Calls \/ Ends \/ ProgramChanges

Spec == Init /\ [][Next]_vars

-----------------------------------------------------------------------------
Reads(t, k) ==
  LET c == Current(t, k)
  IN  /\ ~Pending(t, k, t[k].cur) /\ c.no = avContextTab[c.AVIdx].no
      /\ c.stream \notin avContextTab[c.AVIdx].discard

(* After an update the reader is given the audio that is selected, and of  *)
(* the first file no other; and the picture that is selected, as long as   *)
(* the programs kept theirs (container_ffmpeg_update_tracks, ManagerAdd,   *)
(* container_ffmpeg_switch_audio).  Not so with tracks of a file that was  *)
(* not closed before the next was opened.                                  *)
SelectedIsRead ==
  isPlaying /\ fresh /\ ~stale =>
    /\ (\E i \in DOMAIN tracks["audio"].of : ~Pending(tracks, "audio", i))
         => /\ HasCurrent(tracks, "audio") /\ Reads(tracks, "audio")
            /\ \A n \in DOMAIN avContextTab[0].streams \ avContextTab[0].discard :
                 avContextTab[0].streams[n].kind = "audio"
                   => Current(tracks, "audio").AVIdx = 0 /\ Current(tracks, "audio").stream = n
    /\ HasCurrent(tracks, "video") /\ ~lost => Reads(tracks, "video")

(* A list of audio tracks has an entry that was not written only when the  *)
(* programs lost a stream, or the file before was not closed; without, it  *)
(* names every audio stream of the program (ManagerList, ManagerAdd).      *)
ListIsWhole ==
  isPlaying /\ fresh /\ ~lost /\ ~stale =>
    /\ \A i \in DOMAIN list : list[i] # Garbage
    /\ \A a \in Contexts : \A n \in Chosen(avContextTab[a]) :
         /\ avContextTab[a].streams[n].kind = "audio" /\ Encoding(avContextTab[a], n)
         => Has(tracks, "audio", Id(avContextTab[a], n))

(* "Free custom IO independently": container_ffmpeg_stop closes by hand    *)
(* the contexts of custom io and no other.                                 *)
CustomIOIsClosed == ~wrongClose
===============================================================================
