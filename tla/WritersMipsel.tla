--------------------------- MODULE WritersMipsel ---------------------------
(***************************************************************************)
(* The writers of libeplayer3 for MIPS and ARM boxes: one file per codec   *)
(* turns a packet of the container into PES packets                        *)
(* (src/libeplayer3/output/writer/mipsel).  XWrite(s, c) is writeData of a *)
(* codec: from its static variables s and the call c to its new static     *)
(* variables and what it writes.                                           *)
(***************************************************************************)
EXTENDS PesChunks

CONSTANT LatmMod     \* frames from one LATM configuration to the next: 14

VARIABLE box        \* GetSTBType(): "dreambox", "vuplus", "hisilicon" or "other"

Bcma == IF box = "dreambox" THEN 4 ELSE 0       \* "BCMA" before the size of the payload

(***************************************************************************)
(* Audio writers.                                                          *)
(***************************************************************************)
\* ADTS frames as they are, raw frames behind a made up ADTS header
AACWrite(s, c) ==
    IF c.kind = "adts" THEN IF c.len < 8 THEN Nothing(s) ELSE Result(s, Whole(c, 0))
    ELSE IF c.kind = "broken" THEN Nothing(s)
    ELSE Result(s, Whole(c, 7))

\* the configuration goes out with every LatmMod-th frame, from the context the first frame
\* after a reset creates; a frame too large for LOAS is dropped
LATMWrite(s, c) ==
    IF c.kind = "loas" THEN IF c.len < 8 THEN Nothing(s) ELSE Result(s, Whole(c, 0))
    ELSE IF c.len > 8191 THEN Nothing(s)
    ELSE LET first == s.count = 0
             latm  == 1 + c.len \div 255 + 1 + (IF first THEN c.psize + 4 ELSE 0) + c.len
         IN  Result([s EXCEPT !.count = (@ + 1) % LatmMod],
                    << <<InsertPesHeader(latm + 3, c.pts, FALSE), Mark(3)>>
                       \o (IF first THEN <<Config(c.id, c.psize + 4)>> ELSE <<>>)
                       \o <<Mark(2 + c.len \div 255), Data(0, c.len)>> >>)

AACReset(s) == [s EXCEPT !.count = 0]

AC3Write(s, c) == Result(s, Whole(c, 0))
DTSWrite(s, c) == Result(s, Whole(c, 0))
MP3Write(s, c) == Result(s, Whole(c, 0))

\* the private data goes with every packet, the payload's size before it
WMAWrite(s, c) ==
    Result(s, << <<InsertPesHeader(4 + c.psize + c.len + Bcma, c.pts, FALSE),
                   Mark(Bcma + 4), Config(c.id, c.psize), Data(0, c.len)>> >>)

\* raw samples in buffers of 30 ms, each behind the format; set up when the resampler was
\* (re)started or for the first packet of the process, and never by reset()
PCMWrite(s, c) ==
    LET set  == c.resampling \/ s.size = 0
        size == IF set THEN ((c.rate * 30) \div 1000) * c.channels * 2 ELSE s.size
        kept == IF set THEN 0 ELSE s.kept
        conf == IF set THEN c.id ELSE s.conf
        n    == (kept + c.len) \div size
        Buffer(i) == <<InsertPesHeader(size + 4 + Bcma + 18, TRUE, FALSE), Mark(Bcma + 4),
                       Config(conf, 18)>>
                     \o (IF i = 1 /\ kept > 0 THEN <<Chunk("kept", kept, 0)>> ELSE <<>>)
                     \o <<IF i = 1 THEN Data(0, size - kept) ELSE Data((i - 1) * size - kept, size)>>
    IN  Result([s EXCEPT !.size = size, !.conf = conf, !.kept = (kept + c.len) % size],
               [i \in 1..n |-> Buffer(i)])

\* DVD LPCM frames of 1/600 s; the same life of the buffer; the frame's number is the
\* counter, which moved for the frame before, plus the frame's index in this call
LPCMWrite(s, c) ==
    IF c.channels > 8 \/ ((c.resampling \/ s.size = 0) /\ c.rate \notin {48000, 96000, 44100, 32000})
    THEN Nothing(s)
    ELSE LET set   == c.resampling \/ s.size = 0
             size  == IF set THEN ((c.rate * 150) \div 90000) * c.channels * 2 ELSE s.size
             kept  == IF set THEN 0 ELSE s.kept
             conf  == IF set THEN c.id ELSE s.conf
             first == IF set THEN 0 ELSE s.count
             n     == (kept + c.len) \div size
             Frame(i) == <<InsertPesHeader(size + 6 + 1, TRUE, FALSE), Mark(1),
                           Chunk("frame", 3, (first + 2 * (i - 1)) % 32), Config(conf, 3)>>
                         \o (IF i = 1 /\ kept > 0 THEN <<Chunk("kept", kept, 0)>> ELSE <<>>)
                         \o <<IF i = 1 THEN Data(0, size - kept)
                              ELSE Data((i - 1) * size - kept, size)>>
         IN  Result([s EXCEPT !.size = size, !.conf = conf, !.kept = (kept + c.len) % size,
                              !.count = (first + n) % 32],
                    [i \in 1..n |-> Frame(i)])

(***************************************************************************)
(* Video writers.                                                          *)
(***************************************************************************)
MJPEGWrite(s, c) == Result(s, Whole(c, 0))

FirstReset_forgotten(s) == s
FirstReset(s) == [s EXCEPT !.first = TRUE]

\* MPEG-4 and H.263: the extradata once after a reset
MPEG4Write(s, c) ==
    LET conf == s.first /\ c.psize > 0
    IN  Result([s EXCEPT !.first = @ /\ ~conf],
               << <<InsertPesHeader(c.len + (IF conf THEN c.psize ELSE 0), c.pts, FALSE)>>
                  \o (IF conf THEN <<Config(c.id, c.psize)>> ELSE <<>>) \o <<Data(0, c.len)>> >>)

\* DivX 3: a sequence header, itself a PES packet, once after a reset; a start code unless the
\* frame has one
DIVX3Write(s, c) ==
    Result([s EXCEPT !.first = FALSE],
           << (IF s.first THEN <<[InsertPesHeader(0, TRUE, FALSE) EXCEPT !.x = 52], Config(c.id, 44)>>
               ELSE <<>>) \o Whole(c, IF c.kind = "startcode" THEN 0 ELSE 4)[1] >>)

\* VC-1 and WMV: the codec data goes to the driver, or before the frame when the driver refuses
VC1Write(s, c) ==
    LET taken == box # "dreambox" /\ c.ioctl
        conf  == IF s.first /\ ~taken THEN c.psize + 8 ELSE 0
        mark  == IF c.kind = "startcode" THEN 0 ELSE 4
    IN  Result([s EXCEPT !.first = FALSE],
               (IF s.first /\ taken THEN << <<Config(c.id, 0)>> >> ELSE <<>>)
               \o << <<InsertPesHeader(conf + mark + c.len, c.pts, FALSE)>>
                     \o (IF mark > 0 THEN <<Mark(mark)>> ELSE <<>>)
                     \o (IF conf > 0 THEN <<Config(c.id, conf)>> ELSE <<>>) \o <<Data(0, c.len)>> >>)

\* as VC-1, with 33 bytes made from the size of the picture and four bytes of extradata
WMVWrite(s, c) == VC1Write(s, [c EXCEPT !.psize = 33 - 8])

\* MPEG-2: the sequence header of the first packet of the process that has one is kept for
\* good, and put before the first group of pictures after each reset
MPEG2Write(s, c) ==
    LET id   == IF s.conf # 0 THEN s.conf ELSE c.id
        size == IF s.conf # 0 THEN 12 ELSE c.psize
    IN  IF s.conf = 0 /\ c.psize = 0 /\ c.kind = "sequence"
        THEN Result([s EXCEPT !.conf = c.id, !.first = FALSE],
                    << <<Whole(c, 0)[1][1]>>, <<Data(0, c.len)>> >>)
        ELSE IF (s.conf # 0 \/ c.psize > 0) /\ s.first /\ c.kind \in {"sequence", "gop"}
        THEN Result([s EXCEPT !.first = FALSE],
                    << <<InsertPesHeader(c.len + size, c.pts, FALSE), Data(0, c.gop),
                         Config(id, size), Data(c.gop, c.len - c.gop)>> >>)
        ELSE Result(s, << <<Whole(c, 0)[1][1]>>, <<Data(0, c.len)>> >>)

\* VP6, VP8, Spark: "BCMV" and the size before the frame
VPWrite(s, c, vp6, vp9) ==
    LET pts  == c.pts \/ (vp9 /\ box = "vuplus")
        mark == 4 + 4 + 2 + (IF vp6 THEN 1 ELSE 0)
        hdr  == 9 + HasPts(pts) + mark
        \* the other boxes take VP9 in parts of 32 KiB, and a dummy packet after the frame
        size  == IF c.len + hdr - 6 > 32776 THEN 32776 ELSE c.len + hdr - 6
        bytes == size - 10 - 8
        parts == (c.len - bytes + 32767) \div 32768
        Part(i) == LET from == bytes + (i - 1) * 32768
                       wr   == IF c.len - from < 32768 THEN c.len - from ELSE 32768
                   IN  << <<[InsertPesHeader(0, FALSE, FALSE) EXCEPT !.x = PayloadSize(wr + 3)]>>,
                          <<Data(from, wr)>> >>
        head(n) == <<[InsertPesHeader(0, pts, FALSE) EXCEPT !.x = PayloadSize(n)], Mark(mark)>>
    IN  IF ~vp9 \/ box # "other"
        THEN Result(s, << head(c.len + hdr - 6), <<Data(0, c.len)>> >>)
        ELSE Result(s, << head(size), <<Data(0, bytes)>> >>
                       \o FlattenSeq([i \in 1..parts |-> Part(i)])
                       \o << <<[InsertPesHeader(0, FALSE, FALSE) EXCEPT !.x = 178], Mark(175)>> >>)

(***************************************************************************)
(* H.264 and H.265.  c.kind says how the track comes: "annexb" with start  *)
(* codes, "avcC" with NAL lengths and the parameter sets in the extradata, *)
(* "bare" with NAL lengths and an extradata of seven bytes without them.   *)
(* c.nals are the lengths of the NAL units of the packet, c.sets says      *)
(* whether parameter sets are among them.                                  *)
(***************************************************************************)
\* an extradata made from the parameter sets in the packet: what follows when none are there is
\* an extradata again without them; NAL lengths of four bytes only, sets of up to 255 bytes
UpdateExtraData(c) == IF c.sets = "large" THEN "unchanged" ELSE IF c.sets = "small" THEN "sets" ELSE "empty"

\* the parameter sets of an extradata behind start codes: 0 when there are none
PreparCodecData(c, extra) == IF extra = "sets" THEN c.id ELSE 0

Nals_ofBytes(c) ==
    LET Offset(i) == FoldLeft(LAMBDA a, b : a + b, 0, SubSeq(c.nals, 1, i - 1))
    IN  FlattenSeq([i \in 1..Len(c.nals) |-> <<Mark(4), Data(Offset(i), c.nals[i])>>])

\* start codes for the NAL lengths
Nals(c) ==
    LET Offset(i) == 4 * i + FoldLeft(LAMBDA a, b : a + b, 0, SubSeq(c.nals, 1, i - 1))
    IN  FlattenSeq([i \in 1..Len(c.nals) |-> <<Mark(4), Data(Offset(i), c.nals[i])>>])

H264Write(s, c) ==
    IF c.kind = "annexb"
    THEN LET conf == ~s.inStream /\ c.sets = "none" /\ c.psize > 0
         IN  Result([s EXCEPT !.inStream = @ \/ c.sets # "none"],
                    << <<InsertPesHeader(-1, c.pts, TRUE)>>
                       \o (IF conf THEN <<Config(c.id, c.psize)>> ELSE <<>>) \o <<Data(0, c.len)>> >>)
    ELSE LET given == IF c.kind = "avcC" THEN "sets" ELSE "empty"
             made  == IF given = "sets" THEN "unchanged" ELSE UpdateExtraData(c)
             conf  == IF s.avc3 THEN s.conf
                      ELSE PreparCodecData(c, IF made = "unchanged" THEN given ELSE made)
             s1    == [s EXCEPT !.conf = conf, !.avc3 = @ \/ made # "unchanged"]
         IN  IF conf = 0 THEN Nothing(s1)
             ELSE Result(s1, << <<InsertPesHeader(-1, c.pts, FALSE)>>
                                \o (IF s.avc3 THEN <<>> ELSE <<Config(conf, c.psize)>>) \o Nals(c) >>)

H264Reset(s) == [s EXCEPT !.avc3 = FALSE, !.inStream = FALSE]

\* the parameter sets of the extradata once after a reset
H265Write(s, c) ==
    IF c.kind = "annexb"
    THEN Result([s EXCEPT !.first = FALSE],
                << <<InsertPesHeader(-1, c.pts, TRUE), Mark(1), Data(0, c.len)>> >>)
    ELSE LET conf == IF s.first THEN (IF c.kind = "avcC" THEN c.id ELSE 0) ELSE s.conf
             s1   == [s EXCEPT !.conf = conf, !.first = @ /\ conf = 0]
         IN  IF conf = 0 THEN Nothing(s1)
             ELSE Result(s1, << <<InsertPesHeader(-1, c.pts, FALSE)>>
                                \o (IF s.first THEN <<Config(conf, c.psize)>> ELSE <<>>) \o Nals(c) >>)

(***************************************************************************)
(* What each writer is for: the encoding of the track and the stream type  *)
(* the driver is told.                                                     *)
(***************************************************************************)
Caps(encoding, type) == [encoding |-> encoding, type |-> type]

AACCaps   == {Caps("A_AAC", "AAC_PLUS"), Caps("A_AAC_LATM", "AAC_HE"), Caps("A_AAC_PLUS", "AAC_PLUS")}
AC3Caps   == {Caps("A_AC3", "AC3"), Caps("A_EAC3", "AC3_PLUS")}
MP3Caps   == {Caps("A_MP3", "MP3"), Caps("A_MPEG/L3", "MP3")}
PCMCaps   == {Caps("A_PCM", "RAW"), Caps("A_IPCM", "RAW")}
LPCMCaps  == {Caps("A_LPCM", "LPCM")}
DTSCaps   == {Caps("A_DTS", "DTS")}
WMACaps   == {Caps("A_WMA/PRO", "WMA_PRO"), Caps("A_WMA", "WMA")}
H264Caps  == {Caps("V_MPEG4/ISO/AVC", "MPEG4_H264")}
H265Caps  == {Caps("V_HEVC", "MPEG4_H265")}
MPEG4Caps == {Caps("V_MPEG4", "MPEG4_Part2"), Caps("V_H263", "H263")}
MPEG2Caps == {Caps("V_MPEG2", "MPEG2"), Caps("V_MPEG1", "MPEG1")}
VC1Caps   == {Caps("V_VC1", "VC1")}
DIVX3Caps == {Caps("V_DIVX3", "DIVX311")}
VPCaps    == {Caps("V_VP6", "VB6"), Caps("V_VP8", "VB8"), Caps("V_VP9", "VB9"), Caps("V_FLV", "SPARK")}
WMVCaps   == {Caps("V_WMV", "VC1_SM")}
MJPEGCaps == {Caps("V_MJPEG", "MJPEG")}

AvailableWriter == UNION {AACCaps, AC3Caps, MP3Caps, PCMCaps, LPCMCaps, DTSCaps, WMACaps, H264Caps, H265Caps,
                          MPEG4Caps, MPEG2Caps, VC1Caps, DIVX3Caps, VPCaps, WMVCaps, MJPEGCaps}

\* the writer of an encoding; Write falls back to the default writers
HasWriter(e) == \E w \in AvailableWriter : w.encoding = e
GetWriter(e, video) == IF HasWriter(e) THEN e ELSE IF video THEN "V_MPEG2" ELSE "A_MP3"

WriteData(e, s, c) ==
    CASE e \in {"A_AAC", "A_AAC_PLUS"}         -> AACWrite(s, c)
      [] e = "A_AAC_LATM"                      -> LATMWrite(s, c)
      [] e \in {"A_AC3", "A_EAC3"}             -> AC3Write(s, c)
      [] e \in {"A_MP3", "A_MPEG/L3"}          -> MP3Write(s, c)
      [] e \in {"A_PCM", "A_IPCM"}             -> PCMWrite(s, c)
      [] e = "A_LPCM"                          -> LPCMWrite(s, c)
      [] e = "A_DTS"                           -> DTSWrite(s, c)
      [] e \in {"A_WMA", "A_WMA/PRO"}          -> WMAWrite(s, c)
      [] e = "V_MPEG4/ISO/AVC"                 -> H264Write(s, c)
      [] e = "V_HEVC"                          -> H265Write(s, c)
      [] e \in {"V_MPEG4", "V_H263"}           -> MPEG4Write(s, c)
      [] e \in {"V_MPEG2", "V_MPEG1"}          -> MPEG2Write(s, c)
      [] e = "V_VC1"                           -> VC1Write(s, c)
      [] e = "V_WMV"                           -> WMVWrite(s, c)
      [] e = "V_DIVX3"                         -> DIVX3Write(s, c)
      [] e = "V_MJPEG"                         -> MJPEGWrite(s, c)
      [] e \in {"V_VP6", "V_VP8", "V_VP9", "V_FLV"} -> VPWrite(s, c, e = "V_VP6", e = "V_VP9")

ResetWriter(e, s) ==
    CASE e \in {"A_AAC", "A_AAC_PLUS", "A_AAC_LATM"} -> AACReset(s)
      [] e = "V_MPEG4/ISO/AVC" -> H264Reset(s)
      [] e \in {"V_HEVC", "V_MPEG4", "V_H263", "V_MPEG2", "V_MPEG1", "V_VC1", "V_WMV", "V_DIVX3"} -> FirstReset(s)
      [] OTHER -> s
=============================================================================
