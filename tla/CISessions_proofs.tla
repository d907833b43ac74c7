--------------------------- MODULE CISessions_proofs ---------------------------
(***************************************************************************)
(* Theorems about CISessions, for any number of sessions, any resources    *)
(* the module opens and closes, and a send queue of up to six messages,    *)
(* as far as Popped says how they come out.  The queue gives back its      *)
(* messages out of order, but each of them once; so what counts is which   *)
(* sessions have an "opened" or a "close" under way.                       *)
(***************************************************************************)
EXTENDS CISessions, SequenceTheorems, WellFoundedInduction, TLAPS

HostNames == {"profileEnq", "profileChange", "profile", "appInfoEnq", "caInfoEnq", "dateTime",
              "displayReply", "hcEnq", "mmiClose", "enterMenu", "menuAnswer", "caPmt"}
ModNames  == {"profile", "appInfo", "caInfo", "profileEnq", "dateTimeEnq", "displayControl",
              "menu", "mmiClose"}

\* An "opened" without a number refuses the session.
HostMsgs == [type : {"opened"}, n : {0}, name : Kinds]
            \cup [type : {"opened"}, n : Numbers, name : Resources]
            \cup [type : {"closed"}, n : Numbers, name : {Nil}]
            \cup [type : {"apdu"}, n : Numbers, name : HostNames]
ModMsgs  == [type : {"open"}, n : {0}, name : Kinds]
            \cup [type : {"close"}, n : Numbers, name : {Nil}]
            \cup [type : {"apdu"}, n : Numbers, name : ModNames]

SessionFields == [kind : Resources \cup {Nil}, state : States, action : BOOLEAN]
HostFields ==
  [camIsReady : BOOLEAN, init : BOOLEAN, hasApp : BOOLEAN, hasCA : BOOLEAN, hasMMI : BOOLEAN,
   app : {0} \cup Numbers, ca : {0} \cup Numbers, mmi : {0} \cup Numbers,
   table : [Numbers -> SessionFields], queue : Seq(HostMsgs)]

Typed(h) == /\ h \in HostFields
            /\ h.hasApp => h.app \in Numbers
            /\ h.hasCA  => h.ca \in Numbers
            /\ h.hasMMI => h.mmi \in Numbers

TypeOK ==
  /\ status \in {"None", "Wait", "Reset"} /\ Typed(host)
  /\ mod \in [Numbers -> Resources \cup {Nil, "closing"}]
  /\ opening \subseteq Kinds /\ owes \subseteq Numbers \X Enquiries
  /\ data \in Seq(ModMsgs)

\* No session of the module's is behind number n ...
Unused(n) == mod[n] \in {Nil, "closing"}

\* ... and none of the host's, or one that is about to go.
Staying(h, n) == h.table[n].kind # Nil /\ h.table[n].state # "InDeletion"

\* The "opened" and the "close" for n that are under way.
OpenedAt(h, i, n) == i \in 1 .. Len(h.queue) /\ h.queue[i].type = "opened" /\ h.queue[i].n = n
CloseAt(d, i, n)  == i \in 1 .. Len(d) /\ d[i].type = "close" /\ d[i].n = n
NoClose(d, n)     == \A i \in 1 .. Len(d) : ~CloseAt(d, i, n)

\* What holds of number n on the host's side h when the module has sent d.
AgreesAt(h, d, n) ==
  /\ ~Unused(n) => h.table[n].kind = mod[n] /\ Staying(h, n) /\ NoClose(d, n)
  /\ \A i : OpenedAt(h, i, n) => /\ h.table[n].kind = h.queue[i].name
                                 /\ Unused(n) /\ Staying(h, n) /\ NoClose(d, n)
                                 /\ \A j : OpenedAt(h, j, n) => i = j
  /\ \A i : CloseAt(d, i, n) => /\ Unused(n) /\ Staying(h, n)
                                /\ \A j : CloseAt(d, j, n) => i = j

Agrees(h, d) == \A n \in Numbers : AgreesAt(h, d, n)

IInv == TypeOK /\ Agrees(host, data)

\* What most operations do to the host's side: they leave every session in its place,
\* mark none for deletion and send one message at most, not an "opened".
Kept(h, g) ==
  /\ Typed(g)
  /\ \A n \in Numbers : /\ g.table[n].kind = h.table[n].kind
                        /\ g.table[n].state = "InDeletion" => h.table[n].state = "InDeletion"
  /\ \/ g.queue = h.queue
     \/ \E m \in HostMsgs : m.type # "opened" /\ g.queue = Append(h.queue, m)

-----------------------------------------------------------------------------

\* A set of session numbers that is not empty has a lowest.
LEMMA LowestProps ==
  ASSUME Assumptions, NEW S \in SUBSET Numbers, S # {}
  PROVE  Lowest(S) \in S
PROOF
<1>1. S \subseteq Nat
  BY DEF Numbers, Assumptions
<1> DEFINE R == {ss \in Nat \X Nat : ss[1] < ss[2]}
<1>2. IsWellFoundedOn(R, Nat)
  BY NatLessThanWellFounded DEF OpToRel
<1>3. PICK n \in S : \A k \in S : <<k, n>> \notin R
  <2> HIDE DEF R
  <2> QED BY <1>1, <1>2, WFMin
<1>4. \A k \in S : ~(k < n)
  BY <1>1, <1>3, Zenon
<1>5. \A k \in S : n <= k
  BY <1>1, <1>4
<1> QED BY <1>5 DEF Lowest

\* Where the message that becomes the i-th of the queue was before.
Source(q, i) == IF Len(q) <= 3 THEN i + 1
                ELSE CASE i = 1 -> 3 [] i = 2 -> 2 [] i = 3 -> Len(q) [] OTHER -> i

\* Taking a message from the queue: the first goes, no other is lost or doubled.
LEMMA PoppedProps ==
  ASSUME NEW S, NEW q \in Seq(S), q # <<>>
  PROVE  /\ Popped(q) \in Seq(S) /\ Len(Popped(q)) = Len(q) - 1
         /\ \A i \in 1 .. Len(q) - 1 : /\ Source(q, i) \in 2 .. Len(q)
                                       /\ Popped(q)[i] = q[Source(q, i)]
         /\ \A i, j \in 1 .. Len(q) - 1 : Source(q, i) = Source(q, j) => i = j
PROOF
<1>1. Len(q) \in Nat \ {0} /\ \A i \in 1 .. Len(q) : q[i] \in S
  BY EmptySeq, ElementOfSeq
<1>2. \A i, j \in 1 .. Len(q) - 1 : /\ Source(q, i) \in 2 .. Len(q)
                                    /\ Source(q, i) = Source(q, j) => i = j
  BY <1>1 DEF Source
<1>3. CASE Len(q) <= 3
  <2>1. Popped(q) = Tail(q)
    BY <1>3 DEF Popped
  <2>2. \A i \in 1 .. Len(q) - 1 : Tail(q)[i] = q[i + 1]
    BY <1>1, HeadTailProperties
  <2> QED BY <1>2, <1>3, <2>1, <2>2, HeadTailProperties DEF Source
<1>4. CASE Len(q) > 3
  <2> DEFINE a == <<q[3], q[2], q[Len(q)]>>
             b == SubSeq(q, 4, Len(q) - 1)
  <2>1. Popped(q) = a \o b
    BY <1>1, <1>4 DEF Popped
  <2>2. a \in Seq(S) /\ Len(a) = 3 /\ a[1] = q[3] /\ a[2] = q[2] /\ a[3] = q[Len(q)]
    BY <1>1, <1>4
  <2>3. /\ b \in Seq(S) /\ Len(b) = Len(q) - 4
        /\ \A i \in 1 .. Len(q) - 4 : b[i] = q[i + 3]
    <3>1. \A i \in 4 .. Len(q) - 1 : q[i] \in S
      BY <1>1
    <3>2. 4 \in Int /\ Len(q) - 1 \in Int
      BY <1>1
    <3>3. /\ b \in Seq(S) /\ Len(b) = IF 4 <= Len(q) - 1 THEN Len(q) - 1 - 4 + 1 ELSE 0
          /\ \A i \in 1 .. Len(q) - 1 - 4 + 1 : b[i] = q[4 + i - 1]
      BY <3>1, <3>2, SubSeqProperties
    <3> HIDE DEF b
    <3>4. \A i \in 1 .. Len(q) - 4 : i \in 1 .. Len(q) - 1 - 4 + 1 /\ 4 + i - 1 = i + 3
      BY <1>1, <1>4
    <3>5. Len(b) = Len(q) - 4
      <4>1. Len(b) = IF 4 <= Len(q) - 1 THEN Len(q) - 1 - 4 + 1 ELSE 0
        BY <3>3
      <4>2. \A k \in Nat : k > 3 => (IF 4 <= k - 1 THEN k - 1 - 4 + 1 ELSE 0) = k - 4
        OBVIOUS
      <4>3. (IF 4 <= Len(q) - 1 THEN Len(q) - 1 - 4 + 1 ELSE 0) = Len(q) - 4
        BY <1>1, <1>4, <4>2
      <4> QED BY <4>1, <4>3
    <3> QED BY <3>3, <3>4, <3>5
  <2> HIDE DEF a, b
  <2>4. /\ a \o b \in Seq(S) /\ Len(a \o b) = Len(q) - 1
        /\ \A i \in 1 .. Len(q) - 1 : (a \o b)[i] = IF i <= 3 THEN a[i] ELSE b[i - 3]
    <3>1. /\ a \o b \in Seq(S) /\ Len(a \o b) = Len(a) + Len(b)
          /\ \A i \in 1 .. Len(a) + Len(b) :
               (a \o b)[i] = IF i <= Len(a) THEN a[i] ELSE b[i - Len(a)]
      <4>1. a \in Seq(S) /\ b \in Seq(S)
        BY <2>2, <2>3
      <4> QED BY <4>1, ConcatProperties
    <3> QED BY <1>1, <1>4, <2>2, <2>3, <3>1
  <2>5. \A i \in 1 .. Len(q) - 1 : (a \o b)[i] = q[Source(q, i)]
    <3> SUFFICES ASSUME NEW i \in 1 .. Len(q) - 1 PROVE (a \o b)[i] = q[Source(q, i)]
      OBVIOUS
    <3>1. CASE i \in 1 .. 3
      BY <1>1, <1>4, <2>2, <2>4, <3>1 DEF Source
    <3>2. CASE i > 3
      <4>1. i - 3 \in 1 .. Len(q) - 4 /\ i - 3 + 3 = i
        BY <1>1, <1>4, <3>2
      <4>2. (a \o b)[i] = q[i]
        BY <1>1, <1>4, <2>3, <2>4, <3>2, <4>1
      <4> QED BY <1>1, <1>4, <3>2, <4>2 DEF Source
    <3>3. i \in 1 .. 3 \/ i > 3
      BY <1>1
    <3> QED BY <3>1, <3>2, <3>3
  <2> QED BY <1>2, <2>1, <2>4, <2>5
<1> QED BY <1>1, <1>3, <1>4

LEMMA MsgProps ==
  /\ \A n \in Numbers : /\ \A name \in HostNames : Msg("apdu", n, name) \in HostMsgs
                        /\ \A kind \in Resources : Msg("opened", n, kind) \in HostMsgs
                        /\ Msg("closed", n, Nil) \in HostMsgs
                        /\ \A name \in ModNames : Msg("apdu", n, name) \in ModMsgs
                        /\ Msg("close", n, Nil) \in ModMsgs
  /\ \A kind \in Kinds : /\ Msg("opened", 0, kind) \in HostMsgs
                         /\ Msg("open", 0, kind) \in ModMsgs
  /\ \A type, n, name : /\ Msg(type, n, name).type = type
                        /\ Msg(type, n, name).n = n /\ Msg(type, n, name).name = name
PROOF BY DEF Msg, HostMsgs, ModMsgs

LEMMA PushProps ==
  ASSUME NEW h, Typed(h), NEW m \in HostMsgs
  PROVE  /\ Typed(Push(h, m)) /\ Push(h, m).table = h.table
         /\ Push(h, m).queue = Append(h.queue, m)
PROOF
<1>1. Append(h.queue, m) \in Seq(HostMsgs)
  BY DEF Typed, HostFields
<1>2. Push(h, m) = [h EXCEPT !.queue = Append(h.queue, m)]
  BY DEF Push
<1> QED BY <1>1, <1>2 DEF Typed, HostFields

\* Another state of the table.
LEMMA TableProps ==
  ASSUME NEW h, Typed(h), NEW n \in Numbers, NEW r \in SessionFields
  PROVE  LET g == [h EXCEPT !.table[n] = r] IN
         Typed(g) /\ g.table = [h.table EXCEPT ![n] = r] /\ g.queue = h.queue
PROOF
<1>1. [h.table EXCEPT ![n] = r] \in [Numbers -> SessionFields]
  BY DEF Typed, HostFields
<1>2. [h EXCEPT !.table[n] = r] = [h EXCEPT !.table = [h.table EXCEPT ![n] = r]]
  BY DEF Typed, HostFields
<1> QED BY <1>1, <1>2 DEF Typed, HostFields

\* The steps of the sessions leave the table in its place.
LEMMA KeptProps ==
  ASSUME NEW h, Typed(h), NEW n \in Numbers
  PROVE  /\ Kept(h, h)
         /\ Kept(h, SetAction(h, n))
         /\ \A s \in States \ {"InDeletion"} : /\ Kept(h, SetState(h, n, s))
                                               /\ Kept(h, SetAction(SetState(h, n, s), n))
         /\ \A name \in HostNames : Kept(h, Push(h, Msg("apdu", n, name)))
         /\ \A b \in BOOLEAN, s \in States, name \in HostNames \cup {Nil} :
              s # "InDeletion" \/ s = h.table[n].state => Kept(h, Act(h, n, b, s, name))
PROOF
<1>1. h.table \in [Numbers -> SessionFields] /\ h.table[n] \in SessionFields
  BY DEF Typed, HostFields
<1>2. Kept(h, h)
  BY DEF Kept
<1>3. \A r \in SessionFields : r.kind = h.table[n].kind /\ (r.state = "InDeletion" => h.table[n].state = "InDeletion")
        => Kept(h, [h EXCEPT !.table[n] = r])
  BY <1>1, TableProps DEF Kept
<1> DEFINE r == h.table[n]
<1>4. \A s \in States, b \in BOOLEAN :
        /\ [r EXCEPT !.state = s] \in SessionFields /\ [r EXCEPT !.action = b] \in SessionFields
        /\ [r EXCEPT !.state = s, !.action = b] \in SessionFields
        /\ [r EXCEPT !.state = s].kind = r.kind /\ [r EXCEPT !.state = s].state = s
        /\ [r EXCEPT !.action = b].kind = r.kind /\ [r EXCEPT !.action = b].state = r.state
        /\ [r EXCEPT !.state = s, !.action = b].kind = r.kind
        /\ [r EXCEPT !.state = s, !.action = b].state = s
  <2> HIDE DEF r
  <2> QED BY <1>1 DEF SessionFields, r
<1>5. \A s \in States, b \in BOOLEAN :
        /\ [h EXCEPT !.table[n].state = s] = [h EXCEPT !.table[n] = [h.table[n] EXCEPT !.state = s]]
        /\ [h EXCEPT !.table[n].action = b] = [h EXCEPT !.table[n] = [h.table[n] EXCEPT !.action = b]]
        /\ [h EXCEPT !.table[n].state = s, !.table[n].action = b]
             = [h EXCEPT !.table[n] = [h.table[n] EXCEPT !.state = s, !.action = b]]
  BY <1>1 DEF Typed, HostFields
<1> HIDE DEF r
<1>6. Kept(h, SetAction(h, n))
  <2>1. r.state \in States
    BY <1>1 DEF SessionFields, r
  <2>2. SetAction(h, n) = [h EXCEPT !.table[n] = [r EXCEPT !.action = TRUE]]
    BY <1>5, <2>1 DEF SetAction, r
  <2>3. /\ [r EXCEPT !.action = TRUE] \in SessionFields
        /\ [r EXCEPT !.action = TRUE].kind = r.kind /\ [r EXCEPT !.action = TRUE].state = r.state
    BY <1>4, <2>1
  <2> QED BY <1>3, <2>2, <2>3 DEF r
<1>7. \A s \in States \ {"InDeletion"} : Kept(h, SetState(h, n, s))
  BY <1>3, <1>4, <1>5 DEF SetState, r
<1>8. \A s \in States \ {"InDeletion"} : Kept(h, SetAction(SetState(h, n, s), n))
  <2> SUFFICES ASSUME NEW s \in States \ {"InDeletion"}
               PROVE  Kept(h, SetAction(SetState(h, n, s), n))
    OBVIOUS
  <2>1. SetAction(SetState(h, n, s), n) = [h EXCEPT !.table[n].state = s, !.table[n].action = TRUE]
    BY <1>1 DEF SetAction, SetState, Typed, HostFields
  <2>2. SetAction(SetState(h, n, s), n)
          = [h EXCEPT !.table[n] = [r EXCEPT !.state = s, !.action = TRUE]]
    BY <1>5, <2>1 DEF r
  <2>3. /\ [r EXCEPT !.state = s, !.action = TRUE] \in SessionFields
        /\ [r EXCEPT !.state = s, !.action = TRUE].kind = r.kind
        /\ [r EXCEPT !.state = s, !.action = TRUE].state = s
    BY <1>4
  <2> QED BY <1>3, <2>2, <2>3 DEF r
<1>9. ASSUME NEW g, Typed(g), Kept(h, g), g.queue = h.queue, NEW name \in HostNames
      PROVE  Kept(h, Push(g, Msg("apdu", n, name)))
  <2> DEFINE m == Msg("apdu", n, name)
  <2>1. m \in HostMsgs /\ m.type # "opened"
    BY MsgProps
  <2> HIDE DEF m
  <2>2. /\ Typed(Push(g, m)) /\ Push(g, m).table = g.table
        /\ Push(g, m).queue = Append(h.queue, m)
    BY <1>9, <2>1, PushProps
  <2>3. \A k \in Numbers :
          /\ Push(g, m).table[k].kind = h.table[k].kind
          /\ Push(g, m).table[k].state = "InDeletion" => h.table[k].state = "InDeletion"
    BY <1>9, <2>2 DEF Kept
  <2> QED BY <2>1, <2>2, <2>3 DEF Kept, m
<1>10. ASSUME NEW b \in BOOLEAN, NEW s \in States, NEW name \in HostNames \cup {Nil},
              s # "InDeletion" \/ s = h.table[n].state
       PROVE  Kept(h, Act(h, n, b, s, name))
  <2> DEFINE g == [h EXCEPT !.table[n].state = s, !.table[n].action = b]
  <2>1. Typed(g) /\ Kept(h, g) /\ g.queue = h.queue
    <3> DEFINE e == [r EXCEPT !.state = s, !.action = b]
    <3>1. g = [h EXCEPT !.table[n] = e]
      BY <1>5 DEF r
    <3>2. e \in SessionFields /\ e.kind = r.kind /\ e.state = s
      BY <1>4
    <3> HIDE DEF e, g
    <3> QED BY <1>3, <1>10, <3>1, <3>2, TableProps DEF r
  <2>2. Act(h, n, b, s, name) = IF name = Nil THEN g ELSE Push(g, Msg("apdu", n, name))
    BY DEF Act
  <2> HIDE DEF g
  <2>3. CASE name \in HostNames
    BY <1>9, <2>1, <2>2, <2>3 DEF Nil, HostNames
  <2>4. CASE name = Nil
    BY <2>1, <2>2, <2>4
  <2> QED BY <2>3, <2>4
<1>11. \A name \in HostNames : Kept(h, Push(h, Msg("apdu", n, name)))
  BY <1>2, <1>9
<1> QED BY <1>2, <1>6, <1>7, <1>8, <1>10, <1>11

\* A number agrees as long as its session stays and no "opened" for it is added.
LEMMA StillAgreesAt ==
  ASSUME NEW h, NEW g, NEW d, NEW n, AgreesAt(h, d, n),
         g.table[n].kind = h.table[n].kind, Staying(h, n) => Staying(g, n),
         \A i : OpenedAt(g, i, n) => OpenedAt(h, i, n) /\ g.queue[i] = h.queue[i]
  PROVE  AgreesAt(g, d, n)
PROOF BY DEF AgreesAt

\* What keeps the table keeps the agreement.
LEMMA KeptAgrees ==
  ASSUME NEW h, Typed(h), NEW g, Kept(h, g), NEW d, Agrees(h, d)
  PROVE  Typed(g) /\ Agrees(g, d)
PROOF
<1>1. \A i, n : OpenedAt(g, i, n) => OpenedAt(h, i, n) /\ g.queue[i] = h.queue[i]
  <2>1. h.queue \in Seq(HostMsgs)
    BY DEF Typed, HostFields
  <2> QED BY <2>1, AppendProperties DEF Kept, OpenedAt
<1>2. \A n \in Numbers : /\ g.table[n].kind = h.table[n].kind
                         /\ Staying(h, n) => Staying(g, n)
  BY DEF Kept, Staying
<1> QED BY <1>1, <1>2, StillAgreesAt DEF Kept, Agrees

\* The messages that wait do not shrink the agreement when one of them is read.
LEMMA TailAgrees ==
  ASSUME NEW h, NEW d \in Seq(ModMsgs), d # <<>>, Agrees(h, d)
  PROVE  /\ Agrees(h, Tail(d)) /\ Tail(d) \in Seq(ModMsgs) /\ Head(d) \in ModMsgs
         /\ \A n \in Numbers : CloseAt(d, 1, n) => NoClose(Tail(d), n)
         /\ Head(d) = d[1] /\ 1 \in 1 .. Len(d)
PROOF
<1>1. /\ Tail(d) \in Seq(ModMsgs) /\ Len(Tail(d)) = Len(d) - 1 /\ Len(d) \in Nat \ {0}
      /\ Head(d) = d[1] /\ d[1] \in ModMsgs
      /\ \A i \in 1 .. Len(Tail(d)) : Tail(d)[i] = d[i + 1]
  BY HeadTailProperties, EmptySeq, ElementOfSeq
<1>2. \A i, n : CloseAt(Tail(d), i, n) => CloseAt(d, i + 1, n) /\ i \in Nat \ {0}
  BY <1>1 DEF CloseAt
<1>3. \A n : NoClose(d, n) => NoClose(Tail(d), n)
  BY <1>1, <1>2 DEF NoClose, CloseAt
<1>4. \A n \in Numbers : \A i, j : CloseAt(Tail(d), i, n) /\ CloseAt(Tail(d), j, n) => i = j
  BY <1>2 DEF Agrees, AgreesAt
<1>5. Agrees(h, Tail(d))
  BY <1>2, <1>3, <1>4 DEF Agrees, AgreesAt
<1>6. \A n \in Numbers : CloseAt(d, 1, n) => NoClose(Tail(d), n)
  BY <1>2 DEF Agrees, AgreesAt, NoClose
<1> QED BY <1>1, <1>5, <1>6

-----------------------------------------------------------------------------
(* One pass of the slot's thread.                                          *)

LEMMA ReceivedKept ==
  ASSUME NEW h, Typed(h), NEW n \in Numbers, InUse(h, n), NEW name \in ModNames
  PROVE  Kept(h, Received(h, n, name))
PROOF
<1>1. h.table[n].kind \in Resources
  BY DEF InUse, Typed, HostFields, SessionFields
<1>2. \A s \in {"ProfileEnquiry", "Final", "SendDateTime", "DisplayReply"} :
        s \in States \ {"InDeletion"}
  BY DEF States
<1>3. Kept(h, ReceivedByRM(h, n, name))
  BY <1>2, KeptProps DEF ReceivedByRM
<1>4. Kept(h, ReceivedByAM(h, n, name))
  BY KeptProps DEF ReceivedByAM
<1>5. Kept(h, ReceivedByCA(h, n, name))
  <2>1. Kept(h, [h EXCEPT !.hasCA = TRUE, !.ca = n])
    BY DEF Kept, Typed, HostFields
  <2> QED BY <2>1, KeptProps DEF ReceivedByCA
<1>6. Kept(h, ReceivedByDT(h, n, name))
  BY <1>2, KeptProps DEF ReceivedByDT
<1>7. Kept(h, ReceivedByMMI(h, n, name))
  <2>1. "mmiClose" \in HostNames
    BY DEF HostNames
  <2> QED BY <1>2, <2>1, KeptProps DEF ReceivedByMMI, MMIClosed
<1> QED BY <1>1, <1>3, <1>4, <1>5, <1>6, <1>7, KeptProps DEF Received, Resources

LEMMA ActedKept ==
  ASSUME NEW h, Typed(h), NEW n \in Numbers, InUse(h, n), h.table[n].state # "InDeletion"
  PROVE  Kept(h, Acted(h, n))
PROOF
<1>1. h.table[n].kind \in Resources /\ h.table[n].state \in States
  BY DEF InUse, Typed, HostFields, SessionFields
<1>2. \A b \in BOOLEAN, s \in States \ {"InDeletion"}, name \in HostNames \cup {Nil} :
        Kept(h, Act(h, n, b, s, name))
  BY KeptProps
<1>3. Kept(h, Nothing(h, n))
  BY <1>1, <1>2 DEF Nothing
<1> HIDE DEF Nothing
<1>4. /\ {"FirstProfileEnquiry", "ProfileChange", "Final", "SendDateTime", "Idle"}
           \subseteq States \ {"InDeletion"}
      /\ {"profileEnq", "profileChange", "profile", "appInfoEnq", "caInfoEnq", "dateTime",
          "displayReply", "hcEnq", Nil} \subseteq HostNames \cup {Nil}
  BY DEF States, HostNames
<1>5. Kept(h, ActedByRM(h, n))
  BY <1>2, <1>3, <1>4 DEF ActedByRM
<1>6. Kept(h, ActedByAM(h, n))
  BY <1>2, <1>3, <1>4 DEF ActedByAM
<1>7. Kept(h, ActedByCA(h, n))
  BY <1>2, <1>3, <1>4 DEF ActedByCA
<1>8. Kept(h, ActedByDT(h, n))
  BY <1>2, <1>3, <1>4 DEF ActedByDT
<1>9. Kept(h, ActedByMMI(h, n))
  BY <1>2, <1>3, <1>4 DEF ActedByMMI
<1>10. Kept(h, ActedByHC(h, n))
  BY <1>2, <1>3, <1>4 DEF ActedByHC
<1> QED BY <1>1, <1>5, <1>6, <1>7, <1>8, <1>9, <1>10 DEF Acted, Resources

\* A new session gets a number behind which there is nothing, on either side or on the way.
LEMMA OpenedAgrees ==
  ASSUME Assumptions, NEW h, Typed(h), NEW d, Agrees(h, d), NEW kind \in Kinds
  PROVE  Typed(Opened(h, kind)) /\ Agrees(Opened(h, kind), d)
PROOF
<1> DEFINE free == {k \in Numbers : ~InUse(h, k)}
           n == Lowest(free)
<1>1. h.queue \in Seq(HostMsgs) /\ 0 \notin Numbers
  BY DEF Typed, HostFields, Numbers, Assumptions
<1>2. CASE free = {} \/ kind \notin Resources
  <2> DEFINE m == Msg("opened", 0, kind)
  <2>1. Opened(h, kind) = Push(h, m) /\ m \in HostMsgs /\ m.n = 0
    BY <1>2, MsgProps DEF Opened
  <2> HIDE DEF m
  <2>2. /\ Typed(Push(h, m)) /\ Push(h, m).table = h.table
        /\ Push(h, m).queue = Append(h.queue, m)
    BY <2>1, PushProps
  <2>3. \A k \in Numbers : \A i : OpenedAt(Push(h, m), i, k) =>
          OpenedAt(h, i, k) /\ Push(h, m).queue[i] = h.queue[i]
    BY <1>1, <2>1, <2>2, AppendProperties DEF OpenedAt
  <2> QED BY <2>1, <2>2, <2>3, StillAgreesAt DEF Agrees, Staying
<1>3. CASE free # {} /\ kind \in Resources
  <2> DEFINE r == [kind |-> kind, state |-> "Started", action |-> TRUE]
             g == [h EXCEPT !.table[n] = r]
             c == Constructed(h, n, kind)
             m == Msg("opened", n, kind)
  <2>1. n \in free
    BY <1>3, LowestProps
  <2> HIDE DEF n
  <2>2. Opened(h, kind) = Push(c, m)
    BY <1>3 DEF Opened, n
  <2>3. r \in SessionFields
    BY <1>3 DEF SessionFields, States
  <2>4. Typed(g) /\ g.table = [h.table EXCEPT ![n] = r] /\ g.queue = h.queue
    BY <2>1, <2>3, TableProps
  <2>5. Typed(c) /\ c.table = g.table /\ c.queue = g.queue
    <3>1. c = CASE kind = "am" -> ConstructedAM(g, n) [] kind = "mmi" -> ConstructedMMI(g, n)
                [] OTHER -> g
      BY DEF Constructed
    <3> HIDE DEF c, g
    <3>2. /\ Typed(ConstructedAM(g, n)) /\ ConstructedAM(g, n).table = g.table
          /\ ConstructedAM(g, n).queue = g.queue
      BY <2>1, <2>4 DEF ConstructedAM, Typed, HostFields
    <3>3. /\ Typed(ConstructedMMI(g, n)) /\ ConstructedMMI(g, n).table = g.table
          /\ ConstructedMMI(g, n).queue = g.queue
      BY <2>1, <2>4 DEF ConstructedMMI, Typed, HostFields
    <3> QED BY <2>4, <3>1, <3>2, <3>3
  <2>6. m \in HostMsgs /\ m.type = "opened" /\ m.n = n /\ m.name = kind
    BY <1>3, <2>1, MsgProps
  <2> HIDE DEF m, c, g
  <2>7. /\ Typed(Push(c, m)) /\ Push(c, m).table = [h.table EXCEPT ![n] = r]
        /\ Push(c, m).queue = Append(h.queue, m)
    BY <2>4, <2>5, <2>6, PushProps
  <2> DEFINE p == Push(c, m)
  <2>8. \A k \in Numbers : /\ k # n => p.table[k] = h.table[k]
                           /\ p.table[n].kind = kind /\ Staying(p, n)
    BY <1>3, <2>1, <2>7 DEF Staying, Typed, HostFields, Resources, Nil
  <2>9. \A k \in Numbers : \A i : OpenedAt(p, i, k) =>
          \/ OpenedAt(h, i, k) /\ p.queue[i] = h.queue[i]
          \/ i = Len(h.queue) + 1 /\ k = n /\ p.queue[i] = m
    BY <1>1, <2>6, <2>7, AppendProperties DEF OpenedAt
  <2>10. /\ ~Staying(h, n) /\ Unused(n) /\ NoClose(d, n)
         /\ \A i : ~OpenedAt(h, i, n)
    BY <2>1 DEF Agrees, AgreesAt, Staying, InUse, NoClose
  <2> HIDE DEF p
  <2>11. Agrees(p, d)
    <3>1. AgreesAt(p, d, n)
      <4>1. \A i : OpenedAt(p, i, n) => i = Len(h.queue) + 1 /\ p.queue[i] = m
        BY <2>1, <2>9, <2>10
      <4>2. \A i : ~CloseAt(d, i, n)
        BY <2>10 DEF NoClose, CloseAt
      <4> QED BY <2>1, <2>6, <2>8, <2>10, <4>1, <4>2 DEF AgreesAt
    <3>2. \A k \in Numbers \ {n} : AgreesAt(p, d, k)
      BY <2>8, <2>9, StillAgreesAt DEF Agrees, Staying
    <3> QED BY <3>1, <3>2 DEF Agrees
  <2> QED BY <2>2, <2>7, <2>11 DEF p
<1> QED BY <1>2, <1>3

\* A "close" that is read was the last word about its number.
LEMMA ClosedAgrees ==
  ASSUME NEW h, Typed(h), NEW d \in Seq(ModMsgs), Agrees(h, d), NEW n \in Numbers,
         d # <<>>, CloseAt(d, 1, n)
  PROVE  LET g == SetAction(SetState(h, n, "InDeletion"), n) IN
         Typed(g) /\ Agrees(g, Tail(d))
PROOF
<1> DEFINE g == SetAction(SetState(h, n, "InDeletion"), n)
<1>1. h.table \in [Numbers -> SessionFields] /\ "InDeletion" \in States
  BY DEF Typed, HostFields, States
<1>2. g = [h EXCEPT !.table[n] = [h.table[n] EXCEPT !.state = "InDeletion", !.action = TRUE]]
  BY <1>1 DEF SetAction, SetState, Typed, HostFields
<1>3. [h.table[n] EXCEPT !.state = "InDeletion", !.action = TRUE] \in SessionFields
  <2> DEFINE r == h.table[n]
  <2>1. r \in SessionFields
    BY <1>1
  <2> HIDE DEF r
  <2> QED BY <1>1, <2>1 DEF SessionFields, r
<1>4. /\ Typed(g) /\ g.queue = h.queue
      /\ \A k \in Numbers : k # n => g.table[k] = h.table[k]
  <2> DEFINE e == [h.table[n] EXCEPT !.state = "InDeletion", !.action = TRUE]
  <2>1. g = [h EXCEPT !.table[n] = e] /\ e \in SessionFields
    BY <1>2, <1>3
  <2> HIDE DEF e, g
  <2>2. Typed(g) /\ g.table = [h.table EXCEPT ![n] = e] /\ g.queue = h.queue
    BY <2>1, TableProps
  <2> QED BY <1>1, <2>2
<1> HIDE DEF g
<1>5. AgreesAt(g, Tail(d), n)
  <2>1. Unused(n) /\ NoClose(Tail(d), n)
    BY TailAgrees DEF Agrees, AgreesAt
  <2>2. \A i : ~OpenedAt(h, i, n)
    <3>1. ~NoClose(d, n)
      BY DEF NoClose, CloseAt
    <3> QED BY <3>1 DEF Agrees, AgreesAt
  <2> QED BY <1>4, <2>1, <2>2 DEF AgreesAt, OpenedAt, NoClose, CloseAt
<1>6. \A k \in Numbers \ {n} : AgreesAt(g, Tail(d), k)
  <2>1. Agrees(h, Tail(d))
    BY TailAgrees
  <2> QED BY <1>4, <2>1, StillAgreesAt DEF Agrees, Staying, OpenedAt
<1> QED BY <1>4, <1>5, <1>6 DEF Agrees, g

\* A session that is marked for deletion is one the module has given up.
LEMMA DeletedAgrees ==
  ASSUME NEW h, Typed(h), NEW d, Agrees(h, d), NEW n \in Numbers,
         h.table[n].state = "InDeletion"
  PROVE  LET g == Push([h EXCEPT !.table[n] = NoSession], Msg("closed", n, Nil)) IN
         Typed(g) /\ Agrees(g, d)
PROOF
<1> DEFINE f == [h EXCEPT !.table[n] = NoSession]
           m == Msg("closed", n, Nil)
           g == Push(f, m)
<1>1. NoSession \in SessionFields
  BY DEF NoSession, SessionFields, States
<1>2. Typed(f) /\ f.table = [h.table EXCEPT ![n] = NoSession] /\ f.queue = h.queue
  BY <1>1, TableProps
<1>3. m \in HostMsgs /\ m.type = "closed"
  BY MsgProps
<1> HIDE DEF f, m
<1>4. Typed(g) /\ g.table = f.table /\ g.queue = Append(h.queue, m)
  BY <1>2, <1>3, PushProps
<1>5. \A i, k : OpenedAt(g, i, k) => OpenedAt(h, i, k) /\ g.queue[i] = h.queue[i]
  <2>1. h.queue \in Seq(HostMsgs)
    BY DEF Typed, HostFields
  <2> QED BY <1>3, <1>4, <2>1, AppendProperties DEF OpenedAt
<1>6. \A k \in Numbers : k # n => g.table[k] = h.table[k]
  BY <1>2, <1>4 DEF Typed, HostFields
<1> HIDE DEF g
<1>7. AgreesAt(g, d, n)
  BY <1>5 DEF Agrees, AgreesAt, Staying
<1>8. \A k \in Numbers \ {n} : AgreesAt(g, d, k)
  BY <1>5, <1>6, StillAgreesAt DEF Agrees, Staying
<1> QED BY <1>4, <1>7, <1>8 DEF Agrees, g, f, m

LEMMA HandledAgrees ==
  ASSUME Assumptions, NEW h, Typed(h), NEW d \in Seq(ModMsgs), d # <<>>, Agrees(h, d)
  PROVE  Typed(Handled(h, Head(d))) /\ Agrees(Handled(h, Head(d)), Tail(d))
PROOF
<1> DEFINE m == Head(d)
<1>1. m \in ModMsgs /\ m = d[1] /\ 1 \in 1 .. Len(d) /\ Agrees(h, Tail(d))
  BY TailAgrees
<1> HIDE DEF m
<1>2. CASE m.type = "open"
  <2>1. m.name \in Kinds
    BY <1>1, <1>2 DEF ModMsgs
  <2>2. Handled(h, m) = Opened(h, m.name)
    BY <1>2 DEF Handled
  <2> QED BY <1>1, <2>1, <2>2, OpenedAgrees DEF m
<1>3. CASE m.type = "close" /\ InUse(h, m.n)
  <2>1. m.n \in Numbers /\ CloseAt(d, 1, m.n)
    BY <1>1, <1>3 DEF ModMsgs, CloseAt
  <2>2. Handled(h, m) = SetAction(SetState(h, m.n, "InDeletion"), m.n)
    BY <1>3 DEF Handled
  <2> QED BY <2>1, <2>2, ClosedAgrees DEF m
<1>4. CASE m.type = "apdu" /\ InUse(h, m.n)
  <2>1. m.n \in Numbers /\ m.name \in ModNames
    BY <1>1, <1>4 DEF ModMsgs
  <2>2. Handled(h, m) = Received(h, m.n, m.name)
    BY <1>4 DEF Handled
  <2>3. Kept(h, Received(h, m.n, m.name))
    BY <1>4, <2>1, ReceivedKept
  <2> QED BY <1>1, <2>2, <2>3, KeptAgrees DEF m
<1>5. CASE ~(m.type = "open" \/ (m.type \in {"close", "apdu"} /\ InUse(h, m.n)))
  <2>1. Handled(h, m) = h
    BY <1>5 DEF Handled
  <2> QED BY <1>1, <2>1 DEF m
<1> QED BY <1>2, <1>3, <1>4, <1>5

LEMMA PolledAgrees ==
  ASSUME Assumptions, NEW h, Typed(h), NEW d, Agrees(h, d)
  PROVE  Typed(Polled(h)) /\ Agrees(Polled(h), d)
PROOF
<1> DEFINE busy == {n \in Numbers : HasWork(h, n)}
           n == Lowest(busy)
<1>1. CASE busy = {}
  BY <1>1 DEF Polled
<1>2. CASE busy # {}
  <2>1. n \in Numbers /\ InUse(h, n)
    BY <1>2, LowestProps DEF HasWork
  <2>2. Polled(h) = IF h.table[n].state = "InDeletion"
                    THEN Push([h EXCEPT !.table[n] = NoSession], Msg("closed", n, Nil))
                    ELSE Acted(h, n)
    BY <1>2 DEF Polled
  <2> HIDE DEF n
  <2>3. CASE h.table[n].state = "InDeletion"
    BY <2>1, <2>2, <2>3, DeletedAgrees
  <2>4. CASE h.table[n].state # "InDeletion"
    <3>1. Kept(h, Acted(h, n))
      BY <2>1, <2>4, ActedKept
    <3> QED BY <2>2, <2>4, <3>1, KeptAgrees
  <2> QED BY <2>3, <2>4
<1> QED BY <1>1, <1>2

\* The flags of the slot do not matter.
LEMMA FlagsKept ==
  ASSUME NEW h, Typed(h)
  PROVE  Kept(h, Announce(h)) /\ Kept(h, Inserted(h))
PROOF BY DEF Kept, Announce, Inserted, Typed, HostFields

LEMMA EmptyAgrees ==
  ASSUME \A n \in Numbers : mod[n] = Nil
  PROVE  Typed(EmptyHost) /\ Agrees(EmptyHost, <<>>) /\ <<>> \in Seq(ModMsgs)
PROOF
<1>1. NoSession \in SessionFields /\ <<>> \in Seq(HostMsgs) /\ <<>> \in Seq(ModMsgs)
  BY EmptySeq DEF NoSession, SessionFields, States
<1>2. Typed(EmptyHost)
  BY <1>1 DEF EmptyHost, Typed, HostFields
<1>3. Agrees(EmptyHost, <<>>)
  BY DEF Agrees, AgreesAt, EmptyHost, OpenedAt, CloseAt, Unused
<1> QED BY <1>1, <1>2, <1>3

\* ... and so is one whose module has gone.
LEMMA EmptyAgain ==
  ASSUME host' = EmptyHost, data' = <<>>, mod' = [n \in Numbers |-> Nil],
         opening' = {}, owes' = {}, status' = "None"
  PROVE  IInv'
PROOF
<1>1. NoSession \in SessionFields /\ <<>> \in Seq(HostMsgs) /\ <<>> \in Seq(ModMsgs)
  BY EmptySeq DEF NoSession, SessionFields, States
<1>2. Typed(host)'
  BY <1>1 DEF EmptyHost, Typed, HostFields
<1>3. Agrees(host, data)'
  BY DEF Agrees, AgreesAt, EmptyHost, OpenedAt, CloseAt, Unused
<1> QED BY <1>1, <1>2, <1>3 DEF IInv, TypeOK

-----------------------------------------------------------------------------
(* The steps.                                                              *)

LEMMA ReadStep == ASSUME Assumptions, IInv, ReadData PROVE IInv'
PROOF
<1> DEFINE h0 == IF status = "None" THEN Inserted(host) ELSE host
           h1 == Handled(h0, Head(data))
           h2 == Polled(h1)
<1>1. Typed(host) /\ Agrees(host, data) /\ data \in Seq(ModMsgs) /\ data # <<>>
  BY DEF IInv, TypeOK, ReadData
<1>2. Typed(h0) /\ Agrees(h0, data)
  BY <1>1, FlagsKept, KeptAgrees
<1> HIDE DEF h0
<1>3. Typed(h1) /\ Agrees(h1, Tail(data))
  BY <1>1, <1>2, HandledAgrees
<1> HIDE DEF h1
<1>4. Typed(h2) /\ Agrees(h2, Tail(data))
  BY <1>3, PolledAgrees
<1> HIDE DEF h2
<1>5. Typed(Announce(h2)) /\ Agrees(Announce(h2), Tail(data))
  BY <1>4, FlagsKept, KeptAgrees
<1>6. host' = Announce(h2) /\ data' = Tail(data) /\ status' = "Wait"
      /\ UNCHANGED <<mod, opening, owes>>
  BY DEF ReadData, h0, h1, h2
<1>7. Tail(data) \in Seq(ModMsgs)
  BY <1>1, HeadTailProperties
<1>8. Agrees(host, data)'
  BY <1>5, <1>6 DEF Agrees, AgreesAt, Unused
<1>9. TypeOK'
  BY <1>5, <1>6, <1>7 DEF IInv, TypeOK
<1> QED BY <1>8, <1>9 DEF IInv

LEMMA WriteStep == ASSUME Assumptions, IInv, WriteData PROVE IInv'
PROOF
<1> DEFINE q == host.queue
           m == Head(q)
<1>1. /\ q \in Seq(HostMsgs) /\ q # <<>> /\ m = q[1] /\ m \in HostMsgs /\ 1 \in 1 .. Len(q)
      /\ host \in HostFields /\ Typed(host) /\ mod \in [Numbers -> Resources \cup {Nil, "closing"}]
  BY EmptySeq, HeadTailProperties DEF IInv, TypeOK, Typed, HostFields, WriteData
<1>2. /\ host' = [host EXCEPT !.queue = Popped(q)] /\ UNCHANGED <<status, data>>
      /\ \/ /\ m.type = "opened" /\ opening' = opening \ {m.name} /\ owes' = owes
            /\ mod' = IF m.n = 0 THEN mod ELSE [mod EXCEPT ![m.n] = m.name]
         \/ /\ m.type = "closed" /\ opening' = opening /\ owes' = owes
            /\ mod' = [mod EXCEPT ![m.n] = Nil]
         \/ /\ m.type = "apdu" /\ opening' = opening /\ mod' = mod
            /\ owes' = IF m.name \in Enquiries THEN owes \cup {<<m.n, m.name>>} ELSE owes
  <2>1. m.type \in {"opened", "closed", "apdu"}
    BY <1>1 DEF HostMsgs
  <2> QED BY <2>1 DEF WriteData
<1> HIDE DEF m, q
<1>3. /\ Typed(host') /\ host'.table = host.table /\ host'.queue = Popped(q)
  BY <1>1, <1>2, PoppedProps DEF Typed, HostFields
<1>4. TypeOK'
  <2>1. /\ m.type = "opened" /\ m.n # 0 => m.n \in Numbers /\ m.name \in Resources
        /\ m.type \in {"closed", "apdu"} => m.n \in Numbers
    BY <1>1 DEF HostMsgs
  <2> QED BY <1>1, <1>2, <1>3, <2>1 DEF IInv, TypeOK
<1>5. \A i, n : OpenedAt(host', i, n) =>
        /\ OpenedAt(host, Source(q, i), n) /\ host'.queue[i] = host.queue[Source(q, i)]
        /\ Source(q, i) # 1 /\ i \in 1 .. Len(q) - 1
  BY <1>1, <1>3, PoppedProps DEF OpenedAt, q
<1>6. \A i, j \in 1 .. Len(q) - 1 : Source(q, i) = Source(q, j) => i = j
  BY <1>1, PoppedProps
<1>7. Agrees(host, data) /\ data' = data
  BY <1>2 DEF IInv
<1>8. \A n \in Numbers : Staying(host, n) <=> Staying(host', n)
  BY <1>3 DEF Staying
<1>9. ASSUME NEW n \in Numbers, mod'[n] = mod[n] \/ mod'[n] = Nil
      PROVE  AgreesAt(host, data, n)'
  <2>1. AgreesAt(host, data, n)
    BY <1>7 DEF Agrees
  <2>2. Unused(n) => Unused(n)'
    BY <1>9 DEF Unused
  <2>3. ~Unused(n)' => mod'[n] = mod[n] /\ ~Unused(n)
    BY <1>9 DEF Unused
  <2>4. \A i : OpenedAt(host', i, n) => \A j : OpenedAt(host', j, n) => i = j
    BY <1>5, <1>6, <2>1 DEF AgreesAt
  <2>5. \A i : OpenedAt(host', i, n) =>
          /\ host'.table[n].kind = host'.queue[i].name
          /\ Unused(n)' /\ Staying(host', n) /\ NoClose(data, n)
    BY <1>3, <1>5, <1>8, <2>1, <2>2 DEF AgreesAt
  <2>6. ~Unused(n)' => host'.table[n].kind = mod'[n] /\ Staying(host', n) /\ NoClose(data, n)
    BY <1>3, <1>8, <2>1, <2>3 DEF AgreesAt
  <2>7. \A i : CloseAt(data, i, n) => /\ Unused(n)' /\ Staying(host', n)
                                      /\ \A j : CloseAt(data, j, n) => i = j
    BY <1>8, <2>1, <2>2 DEF AgreesAt
  <2> QED BY <1>7, <2>4, <2>5, <2>6, <2>7 DEF AgreesAt, NoClose, CloseAt, OpenedAt, Staying
<1>10. ASSUME NEW n \in Numbers, m.type = "opened", m.n = n
       PROVE  AgreesAt(host, data, n)'
  <2>1. n # 0 /\ OpenedAt(host, 1, n)
    BY <1>1, <1>10 DEF HostMsgs, OpenedAt, Numbers, Assumptions, q
  <2>2. /\ host.table[n].kind = m.name /\ Staying(host, n) /\ NoClose(data, n)
        /\ \A i : OpenedAt(host, i, n) => i = 1
    BY <1>1, <1>7, <2>1 DEF Agrees, AgreesAt, q
  <2>3. mod'[n] = m.name
    BY <1>1, <1>2, <1>10, <2>1
  <2>4. \A i : ~OpenedAt(host', i, n)
    BY <1>5, <2>2
  <2>5. host'.table[n].kind = mod'[n] /\ Staying(host', n)
    BY <1>3, <1>8, <2>1, <2>2, <2>3
  <2>6. \A i : ~CloseAt(data, i, n)
    BY <2>2 DEF NoClose, CloseAt
  <2>7. data' = data /\ NoClose(data, n)'
    BY <1>7, <2>2 DEF NoClose, CloseAt
  <2>8. \A i : ~CloseAt(data, i, n)'
    BY <1>7, <2>6 DEF CloseAt
  <2>9. \A i : ~OpenedAt(host, i, n)'
    BY <2>4 DEF OpenedAt
  <2>10. (host.table[n].kind = mod[n])' /\ Staying(host, n)'
    BY <2>5 DEF Staying
  <2> QED BY <2>7, <2>8, <2>9, <2>10 DEF AgreesAt
<1>11. \A n \in Numbers : AgreesAt(host, data, n)'
  <2> SUFFICES ASSUME NEW n \in Numbers PROVE AgreesAt(host, data, n)'
    OBVIOUS
  <2>1. CASE m.type = "opened" /\ m.n = n
    BY <1>10, <2>1
  <2>2. CASE ~(m.type = "opened" /\ m.n = n)
    <3>1. mod'[n] = mod[n] \/ mod'[n] = Nil
      BY <1>1, <1>2, <2>2
    <3> QED BY <1>9, <3>1
  <2> QED BY <2>1, <2>2
<1> QED BY <1>4, <1>11 DEF IInv, Agrees

\* What the module sends is under way, the last of all.
LEMMA SentProps ==
  ASSUME data \in Seq(ModMsgs), NEW m \in ModMsgs, ModSends(m)
  PROVE  /\ data' \in Seq(ModMsgs)
         /\ \A i, n : CloseAt(data, i, n)' =>
              CloseAt(data, i, n) \/ (i = Len(data) + 1 /\ m.type = "close" /\ m.n = n)
PROOF BY AppendProperties DEF ModSends, CloseAt

LEMMA ModuleStep == ASSUME Assumptions, IInv, Module PROVE IInv'
PROOF
<1> USE DEF IInv, TypeOK
<1>1. ASSUME NEW m \in ModMsgs, m.type # "close", ModSends(m), UNCHANGED <<host, mod>>
      PROVE  Agrees(host, data)' /\ data' \in Seq(ModMsgs)
  <2>1. \A i, n : CloseAt(data, i, n)' => CloseAt(data, i, n)
    BY <1>1, SentProps
  <2>2. \A n : NoClose(data, n) => NoClose(data, n)'
    BY <2>1 DEF NoClose, CloseAt
  <2> QED BY <1>1, <2>1, <2>2, SentProps DEF Agrees, AgreesAt, OpenedAt, Staying, Unused
<1>2. ASSUME NEW k \in Kinds, ModOpens(k) PROVE IInv'
  BY <1>1, <1>2, MsgProps DEF ModOpens
<1>3. ASSUME NEW q \in owes, ModReplies(q) PROVE IInv'
  <2>1. q[1] \in Numbers /\ q[2] \in Enquiries /\ Reply[q[2]] \in ModNames
    BY DEF Enquiries, Reply, ModNames
  <2> QED BY <1>1, <1>3, <2>1, MsgProps DEF ModReplies
<1>4. ASSUME NEW n \in Numbers, ModAsks(n) PROVE IInv'
  <2>1. Asks[mod[n]] \in ModNames
    BY <1>4 DEF ModAsks, Asks, ModNames
  <2> QED BY <1>1, <1>4, <2>1, MsgProps DEF ModAsks
<1>5. ASSUME NEW n \in Numbers, NEW name \in {"menu", "mmiClose"}, ModShows(n, name) PROVE IInv'
  BY <1>1, <1>5, MsgProps DEF ModShows, ModNames
<1>6. ASSUME NEW n \in Numbers, ModCloses(n) PROVE IInv'
  <2> DEFINE m == Msg("close", n, Nil)
  <2>1. m \in ModMsgs /\ m.type = "close" /\ m.n = n /\ ModSends(m)
    BY <1>6, MsgProps DEF ModCloses
  <2> HIDE DEF m
  <2>2. /\ mod' = [mod EXCEPT ![n] = "closing"] /\ mod[n] \in Closes
        /\ owes' \subseteq owes /\ UNCHANGED <<status, host, opening>>
    BY <1>6 DEF ModCloses
  <2>3. mod[n] \in Kinds /\ ~Unused(n)
    BY <2>2 DEF Assumptions, Unused, Resources, Nil
  <2>4. /\ Staying(host, n) /\ \A i : ~CloseAt(data, i, n) /\ ~OpenedAt(host, i, n)
    BY <2>3 DEF Agrees, AgreesAt, NoClose, CloseAt
  <2>5. \A i, k : CloseAt(data, i, k)' => CloseAt(data, i, k) \/ (i = Len(data) + 1 /\ k = n)
    BY <2>1, SentProps
  <2>6. Unused(n)' /\ \A k \in Numbers \ {n} : Unused(k)' <=> Unused(k)
    BY <2>2 DEF Unused
  <2>7. AgreesAt(host, data, n)'
    BY <2>2, <2>4, <2>5, <2>6 DEF AgreesAt, OpenedAt, Staying
  <2>8. ASSUME NEW k \in Numbers \ {n} PROVE AgreesAt(host, data, k)'
    <3>1. NoClose(data, k) => NoClose(data, k)'
      BY <2>5 DEF NoClose, CloseAt
    <3>2. mod'[k] = mod[k]
      BY <2>2
    <3> QED BY <2>2, <2>5, <2>6, <3>1, <3>2 DEF Agrees, AgreesAt, OpenedAt, Staying
  <2> QED BY <2>1, <2>2, <2>7, <2>8, SentProps DEF Agrees
<1> QED BY <1>2, <1>3, <1>4, <1>5, <1>6 DEF Module

LEMMA ApplicationStep == ASSUME Assumptions, IInv, Application PROVE IInv'
PROOF
<1>1. ASSUME NEW n \in Numbers, NEW name \in HostNames, Sends(n, name) PROVE IInv'
  <2> DEFINE h == Push(host, Msg("apdu", n, name))
  <2>1. Kept(host, h)
    BY <1>1, KeptProps DEF IInv, TypeOK
  <2>2. Typed(h) /\ Agrees(h, data)
    BY <2>1, KeptAgrees DEF IInv, TypeOK
  <2>3. host' = h /\ UNCHANGED <<status, mod, opening, owes, data>>
    BY <1>1 DEF Sends
  <2> HIDE DEF h
  <2> QED BY <2>2, <2>3 DEF IInv, TypeOK, Agrees, AgreesAt, Unused
<1>2. CASE MenuEnter
  BY <1>1, <1>2 DEF MenuEnter, IInv, TypeOK, Typed, HostNames
<1>3. CASE MenuAnswer
  BY <1>1, <1>3 DEF MenuAnswer, IInv, TypeOK, Typed, HostNames
<1>4. CASE MenuClose
  BY <1>1, <1>4 DEF MenuClose, IInv, TypeOK, Typed, HostNames
<1>5. CASE SendNullPMT
  BY <1>1, <1>5 DEF SendNullPMT, IInv, TypeOK, Typed, HostNames
<1>6. CASE ResetBegins
  BY <1>6 DEF ResetBegins, IInv, TypeOK, Agrees, AgreesAt, Unused
<1>7. CASE ResetEnds
  BY <1>7, EmptyAgain DEF ResetEnds
<1> QED BY <1>2, <1>3, <1>4, <1>5, <1>6, <1>7 DEF Application

-----------------------------------------------------------------------------

\* For every module and any number of sessions: what goes on about a number is one
\* "opened" or one "close" at a time, and both sides mean the same session by it.
THEOREM SessionsAgree == ASSUME Assumptions PROVE Spec => []IInv
PROOF
<1>1. Init => IInv
  BY EmptyAgrees DEF Init, IInv, TypeOK
<1>2. IInv /\ [Next]_vars => IInv'
  <2> SUFFICES ASSUME IInv, [Next]_vars PROVE IInv'
    OBVIOUS
  <2>1. CASE Removed
    BY <2>1, EmptyAgain DEF Removed
  <2>2. CASE UNCHANGED vars
    BY <2>2 DEF vars, IInv, TypeOK, Agrees, AgreesAt, Unused
  <2> QED BY <2>1, <2>2, ReadStep, WriteStep, ModuleStep, ApplicationStep DEF Next, Thread
<1> QED BY <1>1, <1>2, PTL DEF Spec

\* A session that the module works with is in the host's table under its number and
\* for its resource, however the send queue reorders the answers.
THEOREM NumbersAlwaysAgree == ASSUME Assumptions PROVE Spec => []NumbersAgree
PROOF
<1>1. IInv => NumbersAgree
  BY DEF IInv, Agrees, AgreesAt, Unused, NumbersAgree
<1> QED BY <1>1, SessionsAgree, PTL

=============================================================================
