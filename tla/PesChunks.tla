----------------------------- MODULE PesChunks -----------------------------
(***************************************************************************)
(* What the writers of libeplayer3 hand to the decoder.  A write is a list *)
(* of WriteV calls; each is a list of chunks, the iovecs.  A chunk is a    *)
(* PES header ("pes", x its length field), a part of the packet ("data",   *)
(* from byte x), bytes kept from an earlier packet ("kept"), the codec's   *)
(* configuration ("config", of stream x), an LPCM frame header ("frame",   *)
(* with number x) or start codes and wrappers ("mark").                    *)
(***************************************************************************)
EXTENDS Integers, Sequences, SequencesExt

MaxPesPacketSize == 65535

HasPts(p) == IF p THEN 5 ELSE 0

\* UpdatePesHeaderPayloadSize: a size that does not fit is written as 0, "unbounded"
PayloadSize(n) == IF n > MaxPesPacketSize \/ n < 0 THEN 0 ELSE n

InsertPesHeader(size, pts, code) ==
    LET extra == HasPts(pts) + (IF code THEN 5 ELSE 0)
    IN  [what |-> "pes", len |-> 9 + extra, pts |-> pts,
         x |-> PayloadSize(IF size > 0 THEN size + 3 + extra ELSE size)]

Chunk(w, n, x) == [what |-> w, len |-> n, pts |-> FALSE, x |-> x]
Data(from, n)  == Chunk("data", n, from)
Config(id, n)  == Chunk("config", n, id)
Mark(n)        == Chunk("mark", n, 0)

\* a PES packet of the header, m bytes of wrapper and the packet as it is
Whole(c, m) == << <<InsertPesHeader(c.len + m, c.pts, FALSE)>>
                  \o (IF m > 0 THEN <<Mark(m)>> ELSE <<>>) \o <<Data(0, c.len)>> >>

Result(s, o) == [s |-> s, out |-> o]
Nothing(s)   == Result(s, <<>>)
=============================================================================
