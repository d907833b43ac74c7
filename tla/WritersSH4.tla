----------------------------- MODULE WritersSH4 -----------------------------
(***************************************************************************)
(* The writers of libeplayer3 for the SH4 boxes                            *)
(* (src/libeplayer3/output/writer/sh4): the same task as in WritersMipsel, *)
(* for a decoder that takes a packet in several PES packets.  XWrite(s, c) *)
(* is writeData of a codec, from its static variables and the call to its  *)
(* new static variables and what it writes.                                *)
(***************************************************************************)
EXTENDS PesChunks

\* pes.c of sh4: a size over 65522 is "unbounded", whatever the header's own length
PesHeader(size, pts, code) ==
    LET extra == HasPts(pts) + (IF code THEN 5 ELSE 0)
    IN  [what |-> "pes", len |-> 9 + extra, pts |-> pts,
         x |-> IF size = -1 \/ size > MaxPesPacketSize - 13 THEN 0 ELSE size + 3 + extra]

\* the private data header behind a PES header, counted in its length field
WithPrivateData(h) == << [h EXCEPT !.x = (@ + 9) % 65536], Mark(9) >>

Packet(c, m) == << <<PesHeader(c.len + m, c.pts, FALSE)>>
                   \o (IF m > 0 THEN <<Mark(m)>> ELSE <<>>) \o <<Data(0, c.len)>> >>

FirstHeader(c) == PesHeader(IF c.len <= MaxPesPacketSize THEN c.len ELSE MaxPesPacketSize, c.pts, FALSE)

\* the packet in parts of at most a PES packet, the time stamp with the first
Parts(c, head) ==
    LET n == (c.len + MaxPesPacketSize - 1) \div MaxPesPacketSize
        Part(i) == LET from == (i - 1) * MaxPesPacketSize
                       len  == IF c.len - from <= MaxPesPacketSize THEN c.len - from ELSE MaxPesPacketSize
                   IN  (IF i = 1 THEN head ELSE <<PesHeader(len, FALSE, FALSE)>>) \o <<Data(from, len)>>
    IN  [i \in 1..n |-> Part(i)]

(***************************************************************************)
(* Audio writers.                                                          *)
(***************************************************************************)
AACWrite(s, c) ==
    IF c.kind = "adts" THEN IF c.len < 8 THEN Nothing(s) ELSE Result(s, Packet(c, 0))
    ELSE IF c.kind = "broken" THEN Nothing(s)
    ELSE Result(s, Packet(c, 7))

AC3Write(s, c)    == Result(s, Packet(c, 0))
DTSWrite(s, c)    == Result(s, Packet(c, 0))
MP3Write(s, c)    == Result(s, Packet(c, 0))
VORBISWrite(s, c) == Result(s, Packet(c, 0))

FirstReset(s) == [s EXCEPT !.first = TRUE]

\* the private data as a packet of its own, once after a reset
WMAWrite(s, c) ==
    IF s.first /\ c.psize = 0 THEN Nothing(s)
    ELSE Result([s EXCEPT !.first = FALSE],
                (IF s.first THEN << <<PesHeader(c.psize, TRUE, FALSE), Config(c.id, c.psize)>> >> ELSE <<>>)
                \o Packet(c, 0))

\* bytes of the sub-frames that fit one PES packet of 2048 bytes
PrepareClipPlay(c) ==
    LET frame == (IF c.rate \in {48000, 44100} THEN 40 ELSE IF c.rate \in {96000, 88200} THEN 80 ELSE 160)
                 * c.channels * 2
    IN  frame * ((2048 - 18 - 14) \div frame)

\* samples in PES packets of a fixed size; what is left over waits for the next packet, and is
\* overwritten when that packet alone does not fill a PES packet
PCMWrite(s, c) ==
    LET size == IF s.first THEN PrepareClipPlay(c) ELSE s.size
        kept == IF s.first THEN 0 ELSE s.kept
        conf == IF s.first THEN c.id ELSE s.conf
        base == IF s.first THEN 0 ELSE s.count
        n    == IF c.len < size THEN 0 ELSE 1 + (c.len - (size - kept)) \div size
        Pes(i) == <<PesHeader(14 + size, c.pts, FALSE), Chunk("frame", 7, (base + i) % 32), Config(conf, 7)>>
                  \o (IF i = 1 /\ kept > 0 THEN <<Chunk("kept", kept, 0)>> ELSE <<>>)
                  \o <<IF i = 1 THEN Data(0, size - kept) ELSE Data((i - 1) * size - kept, size)>>
    IN  Result([s EXCEPT !.first = FALSE, !.size = size, !.conf = conf, !.count = (base + n) % 32,
                         !.kept = IF n = 0 THEN c.len ELSE (c.len + kept) % size],
               [i \in 1..n |-> Pes(i)])

(***************************************************************************)
(* Video writers.                                                          *)
(***************************************************************************)
MPEG2Write(s, c) == Result(s, Parts(c, <<FirstHeader(c)>>))

H263Write(s, c) == Result(s, << WithPrivateData(PesHeader(c.len, c.pts, FALSE)) \o <<Data(0, c.len)>> >>)

\* divx.c: the extradata when it differs from the last that was sent; no reset clears it
DIVXWrite(s, c) ==
    LET conf == c.psize > 0 /\ s.conf # c.id
    IN  Result([s EXCEPT !.conf = IF conf THEN c.id ELSE @],
               << <<PesHeader(c.len, c.pts, FALSE)>>
                  \o (IF conf THEN <<Config(c.id, c.psize)>> ELSE <<>>) \o <<Data(0, c.len)>> >>)

\* divx2.c: a made up header with every frame, the extradata once after a reset
DIVX2Write(s, c) ==
    Result([s EXCEPT !.first = FALSE],
           << <<PesHeader(c.len, c.pts, TRUE), Mark(17)>>
              \o (IF s.first THEN <<Config(c.id, c.psize)>> ELSE <<>>) \o <<Data(0, c.len)>> >>)

\* VC-1: metadata and extradata once after a reset; start codes until a frame brings its own
VC1Write(s, c) ==
    LET seen == s.seen \/ c.kind = "startcode"
    IN  Result([s EXCEPT !.first = FALSE, !.seen = seen],
               (IF s.first THEN << <<PesHeader(40, FALSE, FALSE), Mark(40)>>,
                                   <<PesHeader(c.psize, FALSE, FALSE), Config(c.id, c.psize)>> >>
                ELSE <<>>)
               \o Parts(c, <<FirstHeader(c)>> \o (IF seen THEN <<>> ELSE <<Mark(4)>>)))

VC1Reset(s) == [s EXCEPT !.first = TRUE, !.seen = FALSE]

\* WMV: metadata with the extradata in it once after a reset
WMVWrite(s, c) ==
    Result([s EXCEPT !.first = FALSE],
           (IF s.first THEN << <<PesHeader(36, FALSE, FALSE), Config(c.id, 36)>> >> ELSE <<>>)
           \o Parts(c, WithPrivateData(FirstHeader(c))))

(***************************************************************************)
(* H.264: see WritersMipsel for the kinds of track.  c.clip says that the  *)
(* length of the last NAL unit reaches past the end of the packet.         *)
(***************************************************************************)
UpdateExtraData(c) == IF c.sets = "large" THEN "unchanged" ELSE IF c.sets = "small" THEN "sets" ELSE "empty"

\* container parameters and parameter sets once after a reset, then each NAL unit in a PES packet
\* of its own, the time stamp with the first; a NAL unit that is cut off is dropped
H264Write(s, c) ==
    IF c.kind = "annexb" /\ ~s.avc3
    THEN Result([s EXCEPT !.first = FALSE],
                << <<PesHeader(-1, c.pts, TRUE), Mark(1), Data(0, c.len), Mark(1)>> >>)
    ELSE IF c.kind = "annexb" THEN Nothing(s)
    ELSE LET made == IF s.first /\ c.kind = "bare" THEN UpdateExtraData(c) ELSE "unchanged"
             conf == c.kind = "avcC" \/ made = "sets"
             Offset(i) == 4 * i + FoldLeft(LAMBDA a, b : a + b, 0, SubSeq(c.nals, 1, i - 1))
             whole == IF c.clip THEN Len(c.nals) - 1 ELSE Len(c.nals)
             Nal(i) == <<PesHeader(c.nals[i], c.pts /\ i = 1, FALSE), Mark(4), Data(Offset(i), c.nals[i])>>
         IN  Result([s EXCEPT !.first = FALSE, !.avc3 = @ \/ made # "unchanged"],
                    (IF s.first
                     THEN << <<PesHeader(19, FALSE, FALSE), Mark(19)>>,
                             <<PesHeader(c.psize, FALSE, FALSE)>>
                             \o (IF conf THEN <<Config(c.id, c.psize)>> ELSE <<>>) >>
                     ELSE <<>>)
                    \o [i \in 1..whole |-> Nal(i)])

H264Reset(s) == [s EXCEPT !.first = TRUE, !.avc3 = FALSE]

(***************************************************************************)
(* The table of the writers.                                               *)
(***************************************************************************)
AvailableWriter == {"A_IPCM", "A_PCM", "A_MP3", "A_MPEG/L3", "A_AC3", "A_AAC", "A_DTS", "A_WMA", "A_VORBIS",
                    "V_MPEG2", "V_MPEG2/H264", "V_MPEG4/ISO/AVC", "V_MKV/XVID", "V_MS/VFW/FOURCC", "V_MPEG4",
                    "V_WMV", "V_H263", "V_FLV", "V_VC1"}

GetWriter(e, video) == IF e \in AvailableWriter THEN e ELSE IF video THEN "V_MPEG2" ELSE "A_MP3"

\* divx2 chooses between the two files for the MPEG-4 encodings: a build has one of them
WriteData(e, s, c, divx2) ==
    CASE e = "A_AAC"                                   -> AACWrite(s, c)
      [] e = "A_AC3"                                   -> AC3Write(s, c)
      [] e = "A_DTS"                                   -> DTSWrite(s, c)
      [] e \in {"A_MP3", "A_MPEG/L3"}                  -> MP3Write(s, c)
      [] e = "A_VORBIS"                                -> VORBISWrite(s, c)
      [] e = "A_WMA"                                   -> WMAWrite(s, c)
      [] e \in {"A_IPCM", "A_PCM"}                     -> PCMWrite(s, c)
      [] e \in {"V_MPEG2", "V_MPEG2/H264"}             -> MPEG2Write(s, c)
      [] e \in {"V_H263", "V_FLV"}                     -> H263Write(s, c)
      [] e \in {"V_MPEG4", "V_MKV/XVID", "V_MS/VFW/FOURCC"} -> IF divx2 THEN DIVX2Write(s, c) ELSE DIVXWrite(s, c)
      [] e = "V_VC1"                                   -> VC1Write(s, c)
      [] e = "V_WMV"                                   -> WMVWrite(s, c)
      [] e = "V_MPEG4/ISO/AVC"                         -> H264Write(s, c)

ResetWriter(e, s) ==
    CASE e = "V_MPEG4/ISO/AVC" -> H264Reset(s)
      [] e = "V_VC1"           -> VC1Reset(s)
      [] e \in {"A_WMA", "A_IPCM", "A_PCM", "V_WMV", "V_MPEG4", "V_MKV/XVID", "V_MS/VFW/FOURCC"} -> FirstReset(s)
      [] OTHER                 -> s
=============================================================================
