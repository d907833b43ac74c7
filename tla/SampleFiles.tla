----------------------------- MODULE SampleFiles -----------------------------
(* Files for the models of the players.                                     *)

(* For PlayerSH4: a stream of the net with two programs, the second without *)
(* sound; a film of the box with two sound tracks and subtitles beside it;  *)
(* and a file with neither picture nor sound.                               *)
NetStream  == [http |-> TRUE, video |-> {1, 3}, audio |-> {2, 4}, subs |-> {}, static |-> {},
               programs |-> <<{1, 2}, {3}>>]
FilmOnDisk == [http |-> FALSE, video |-> {1}, audio |-> {2, 3}, subs |-> {4}, static |-> {9},
               programs |-> <<>>]
TextFile   == [http |-> FALSE, video |-> {}, audio |-> {}, subs |-> {1}, static |-> {}, programs |-> <<>>]

AllFiles  == {NetStream, FilmOnDisk, TextFile}
LiveFiles == {NetStream, FilmOnDisk}

(* For TrackTables: a transport stream of two programs of which the first   *)
(* has no picture, a film of the box with subtitles and a chapter, and      *)
(* sound that comes in a file of its own.                                   *)
S(id, kind) == [id |-> id, kind |-> kind, codec |-> "known"]

Radio == [net |-> TRUE, chapters |-> 0, programs |-> <<{1}, {2, 3}>>,
          streams |-> <<S(1, "audio"), S(2, "video"), S(3, "audio")>>]
Film  == [net |-> FALSE, chapters |-> 1, programs |-> <<>>,
          streams |-> <<[S(0, "video") EXCEPT !.codec = "unknown"], S(4, "video"), S(5, "audio"),
                        S(6, "subtitle")>>]
Sound == [net |-> TRUE, chapters |-> 0, programs |-> <<>>, streams |-> <<S(5, "audio"), S(7, "audio")>>]

AllPlaylists == {<<Radio>>, <<Film>>, <<Film, Sound>>}
===============================================================================
