------------------------------ MODULE Writers ------------------------------
(***************************************************************************)
(* The decoder output feeds one track after the other to the writer of its *)
(* encoding (WritersMipsel on the MIPS and ARM boxes, WritersSH4 on the    *)
(* SH4 boxes).  A writer keeps static variables from packet to packet; a   *)
(* seek or the end of a playback resets it, and a second playback of the   *)
(* same process meets what the first one left.                             *)
(***************************************************************************)
EXTENDS Integers, Sequences, SequencesExt, FiniteSetsExt

CONSTANTS Encodings,   \* the encodings of the instance
          Boxes,       \* GetSTBType(), or a build with the writers of the SH4 boxes
          LatmMod      \* frames from one LATM configuration to the next

VARIABLES box,         \* the box of this build
          enc,         \* encoding of the track
          stream,      \* the track: id 1, then 2; size of its private data, kind, driver, format
          restart,     \* restart_audio_resampling of the container
          st,          \* the static variables of the writer
          call,        \* the last packet, or NoCall after a reset
          out,         \* what the writer handed to WriteV for it
          sent,        \* history: streams whose configuration went out since the reset
          old,         \* history: kept samples are from before the last seek
          cut          \* a seek or the end of the playback cut the last write off

vars == <<box, enc, stream, restart, st, call, out, sent, old, cut>>

Mipsel == INSTANCE WritersMipsel
Sh4    == INSTANCE WritersSH4

\* the SH4 build with divx.c or with divx2.c
IsSh4 == box \in {"sh4", "sh4, divx2"}

NoCall == [len |-> 0]

\* the initial values of the static variables; initial_header and the like are first, VC-1's
\* search for a start code is seen, h264's avc3 and inStream
Statics == [first |-> TRUE, seen |-> FALSE, count |-> 0, size |-> 0, kept |-> 0, conf |-> 0,
            avc3 |-> FALSE, inStream |-> FALSE]

Pcm   == {"A_PCM", "A_IPCM", "A_LPCM"}
Audio == Pcm \cup {"A_AAC", "A_AAC_PLUS", "A_AAC_LATM", "A_AC3", "A_EAC3", "A_MP3", "A_MPEG/L3", "A_DTS",
                   "A_WMA", "A_WMA/PRO", "A_VORBIS"}
Nal   == {"V_MPEG4/ISO/AVC", "V_HEVC"}

\* the writer the output takes: the default one for an encoding without a writer
Used == IF IsSh4 THEN Sh4!GetWriter(enc, enc \notin Audio) ELSE Mipsel!GetWriter(enc, enc \notin Audio)

(***************************************************************************)
(* Tracks and packets.                                                     *)
(***************************************************************************)
\* private data: always of WMA, WMV and VC-1, with or without for the others
Privates == IF enc \in {"A_WMA", "A_WMA/PRO", "V_WMV", "V_VC1", "V_DIVX3", "A_AAC_LATM"} THEN {18}
            ELSE IF enc \in Nal THEN {40}
            ELSE IF enc \in {"V_MPEG4", "V_MPEG2", "V_H263", "V_MKV/XVID"} THEN {0, 18} ELSE {0}
Kinds    == IF enc \in Nal THEN {"annexb", "avcC", "bare"}
            ELSE IF enc = "A_AAC_LATM" THEN {"loas", "raw"} ELSE {"any"}
Rates    == IF enc = "A_LPCM" THEN {48000, 22050} ELSE {48000}

\* only the writers of VC-1 and WMV ask the driver to take the codec data
Drivers  == IF enc \in {"V_VC1", "V_WMV"} THEN BOOLEAN ELSE {FALSE}

Streams(id) == [id : {id}, psize : Privates, kind : Kinds, ioctl : Drivers, rate : Rates]

\* small packets, and packets around the size a PES packet can have
Sizes == CASE enc = "A_LPCM"                         -> {160, 480}
           [] enc \in Pcm                            -> {960, 1920, 5760}
           [] enc \in {"A_AAC", "A_AAC_PLUS"}        -> {7, 100}
           [] enc = "A_AAC_LATM"                     -> {7, 300, 8192}
           [] enc = "V_VP9"                          -> {100, 32758, 32759, 70000}
           [] enc \in Nal                            -> {100}
           [] OTHER                                  -> {100, 65522, 65527, 65535, 65536, 131071}

PacketKinds == CASE enc \in {"A_AAC", "A_AAC_PLUS"}      -> {"adts", "broken", "raw"}
                 [] enc \in {"V_DIVX3", "V_VC1", "V_WMV"} -> {"startcode", "plain"}
                 [] enc = "V_MPEG2"                      -> {"sequence", "gop", "plain"}
                 [] OTHER                                -> {stream.kind}

Nals == IF enc \in Nal /\ stream.kind # "annexb" THEN {<<96>>, <<40, 52>>} ELSE {<<>>}
Sets == IF enc \in Nal THEN {"none", "small", "large"} ELSE {"none"}

Packets ==
    {[len |-> n, pts |-> p, kind |-> k, id |-> stream.id, psize |-> stream.psize, gop |-> 20, nals |-> l,
      sets |-> x, clip |-> t, rate |-> stream.rate, channels |-> 2, resampling |-> restart,
      ioctl |-> stream.ioctl] :
        n \in Sizes, p \in BOOLEAN, k \in PacketKinds, l \in Nals, x \in Sets,
        t \in IF Nals = {<<>>} THEN {FALSE} ELSE BOOLEAN}

(***************************************************************************)
(* Actions.                                                                *)
(***************************************************************************)
Init == /\ box \in Boxes
        /\ enc \in Encodings
        /\ stream \in Streams(1)
        /\ restart = FALSE
        /\ st = Statics
        /\ call = NoCall
        /\ out = <<>>
        /\ sent = {}
        /\ old = FALSE
        /\ cut = FALSE

Written(c) == IF IsSh4 THEN Sh4!WriteData(Used, st, c, box = "sh4, divx2") ELSE Mipsel!WriteData(Used, st, c)

Configs(o) == {ch.x : ch \in {d \in UNION {ToSet(o[i]) : i \in 1..Len(o)} : d.what = "config"}}

\* the write of a packet: all of it, or the WriteV calls up to the k-th when a seek or the end of
\* the playback begins meanwhile
Write(c) ==
    /\ ~cut
    /\ LET r == Written(c)
       IN  /\ st' = r.s
           /\ call' = c
           /\ \/ /\ out' = r.out
                 /\ cut' = FALSE
              \/ \E k \in 0..Len(r.out) - 1 : /\ out' = SubSeq(r.out, 1, k)
                                              /\ cut' = TRUE
           /\ sent' = sent \cup Configs(out')
           /\ old' = (old /\ r.s.kept = st.kept + c.len)
    /\ restart' = FALSE
    /\ UNCHANGED <<box, enc, stream>>

\* the output resets its writers
Reset0 == /\ st' = IF IsSh4 THEN Sh4!ResetWriter(Used, st) ELSE Mipsel!ResetWriter(Used, st)
          /\ call' = NoCall
          /\ out' = <<>>
          /\ sent' = {}
          /\ cut' = FALSE
          /\ UNCHANGED <<box, enc>>

Seek_keepResampler == Reset0 /\ old' = (st.kept > 0) /\ UNCHANGED <<stream, restart>>

\* a seek: the container starts its resampler anew
Seek == /\ Reset0
        /\ restart' = TRUE
        /\ old' = (st.kept > 0)
        /\ UNCHANGED stream

\* the playback ends and another begins in the same process
NextStream == /\ stream.id = 1
              /\ stream' \in Streams(2)
              /\ Reset0
              /\ UNCHANGED <<restart, old>>

Next == \/ \E c \in Packets : Write(c)
        \/ Seek
        \/ NextStream

Spec == Init /\ [][Next]_vars

(***************************************************************************)
(* Properties.                                                             *)
(***************************************************************************)
Stream == FlattenSeq(out)
Datas  == SelectSeq(Stream, LAMBDA ch : ch.what = "data")
Bytes(chunks) == FoldLeft(LAMBDA n, ch : n + ch.len, 0, chunks)

\* the bytes from chunk i up to the next PES header
PesBytes(i) ==
    LET later == {j \in i + 1..Len(Stream) : Stream[j].what = "pes"}
    IN  Bytes(SubSeq(Stream, i, IF later = {} THEN Len(Stream) ELSE Min(later) - 1))

\* The length field of a PES header is the number of bytes up to the next header, or zero when
\* it has no room for it, so that a decoder that skips by length finds the next packet.  The
\* parts of VP9 without a time stamp on the other boxes, and the video writers of the SH4
\* boxes except MPEG-2, which do not count what they insert, are left out.
\* Code: InsertPesHeader and every writeData that calls it
LengthFieldExact ==
    \/ cut
    \/ enc = "V_VP9" /\ box = "other"
    \/ IsSh4 /\ Used \notin Audio \cup {"V_MPEG2", "V_MPEG2/H264"}
    \/ \A i \in 1..Len(Stream) :
          (Stream[i].what = "pes" /\ Stream[i].x # 0) => Stream[i].x + 6 = PesBytes(i)

\* What is written is the packet, each byte of it once and in order; of PCM less what is kept
\* for the next packet, of H.264 and H.265 less the NAL lengths; only the first PES packet that
\* carries a part of it has its time stamp.  The code: the loops of every writeData
PacketOnce ==
    LET Gap  == IF Used \in Nal /\ call.nals # <<>> THEN 4 ELSE 0
        Starts(i) == IF i = 1 THEN Gap
                     ELSE Datas[i - 1].x + Datas[i - 1].len + (IF Datas[i - 1].len = call.gop THEN 0 ELSE Gap)
        stamped == {i \in 1..Len(Stream) : Stream[i].what = "pes" /\ Stream[i].pts}
        before(i) == {j \in 1..i : Stream[j].what = "data"}
    IN  (call # NoCall /\ Datas # <<>>) =>
          /\ \A i \in 1..Len(Datas) : Datas[i].x = Starts(i)
          /\ ~cut => Bytes(Datas) = call.len - (IF Used \in Pcm THEN st.kept ELSE 0) - Gap * Len(call.nals)
                                     - (IF call.clip /\ IsSh4 /\ Used \in Nal THEN call.nals[Len(call.nals)] ELSE 0)
          /\ Used \notin Pcm => \A i \in stamped : before(i) = {}

Configured == {"A_AAC_LATM", "A_WMA", "A_WMA/PRO", "A_PCM", "A_IPCM", "A_LPCM", "V_DIVX3", "V_VC1", "V_WMV"} \cup Nal

\* a second playback keeps the format of PCM and the MPEG-2 sequence header of the first; the
\* MPEG-4 writer of the SH4 boxes does not repeat the extradata it sent; its H.264 writer goes
\* on without parameter sets when the first packet has none
KeepsOldConfiguration == \/ stream.id = 2 /\ ~IsSh4 /\ Used \in Pcm \cup {"V_MPEG2"}
                         \/ box = "sh4" /\ Used \in {"V_MPEG4", "V_MKV/XVID"}
                         \/ IsSh4 /\ Used \in Nal /\ stream.kind = "bare"

\* After a seek, and in a second playback, the decoder gets nothing of a track before the
\* configuration of that track, and never the configuration of another one.
\* Code: the statics the resets set and the writers test (initial_header, avc3, latmCtx)
DecodedWithOwnConfiguration ==
    KeepsOldConfiguration \/
    /\ (Datas # <<>> /\ (Used \in Configured \/ (Used = "V_MPEG4" /\ stream.psize > 0))
        /\ stream.kind \notin {"annexb", "loas"}) => stream.id \in sent
    /\ sent \subseteq {stream.id}

\* Samples kept from before a seek are never played after it.
\* Code: bResampling, which the container sets on a seek, makes pcm.c and lpcm.c drop them
SendsNoOldSamples == (old /\ st' # st) => ~\E i \in 1..Len(Stream') : Stream'[i].what = "kept"
NoOldSamples == [][SendsNoOldSamples]_vars

=============================================================================
