------------------------- MODULE CIAllocation_proofs -------------------------
(***************************************************************************)
(* Theorems about CIAllocation, for one slot or two and any number of      *)
(* services, tuners and places.  A request can do four things to a slot:   *)
(* leave its services, clear them, join one to them (Joined) or put one in *)
(* place of them (Replaced).  The last two happen to the slot that was     *)
(* found only, and only when no slot has the service.                      *)
(***************************************************************************)
EXTENDS CIAllocation, TLAPS

\* A module that is not ready has no service, and no mark.
UnusedIsEmpty(r) == r.cam # "init" => /\ r.tp = 0 /\ r.sid = NoSids
                                      /\ \A j \in Places : ~r.rec[j]

\* No service has two places of a slot.
PlacedOnce(r) == \A i, j \in Places : i # j /\ r.sid[i] # 0 => r.sid[i] # r.sid[j]

\* The places from ci_use_count on are empty.
NoneBeyond(r) == \A j \in Places : j >= r.count => r.sid[j] = 0 /\ ~r.rec[j]

Tidy(r) == UnusedIsEmpty(r) /\ PlacedOnce(r) /\ NoneBeyond(r)

SlotsTidy == \A s \in Slots : Tidy(slot[s])

\* The two parts of SlotsAreAccountedFor, for the slots and places of TypeOK.
ServicesApart ==
  \A s, t \in Slots, i, j \in Places :
    s # t /\ slot[s].sid[i] # 0 /\ slot[s].sid[i] = slot[t].sid[j] =>
      <<slot[s].tp, slot[s].source>> # <<slot[t].tp, slot[t].source>>

Of(s, j) == [tp |-> slot[s].tp, sid |-> slot[s].sid[j], source |-> slot[s].source, mode |-> "record"]

MarksAreTrue ==
  \A s \in Slots, j \in Places :
    slot[s].rec[j] => Of(s, j) \in active \/ (TRUE \in CheckLive /\ slot[s].sid[j] = 0)

IInv == TypeOK /\ SlotsTidy /\ ServicesApart

\* Boxes that never ask for a live check keep the marks apart.
MarksApart == \A s \in Slots, j \in Places : ~(slot[s].rec[j] /\ slot[s].live[j])
RInv == (TRUE \notin CheckLive => ~checkLive /\ MarksApart) /\ MarksAreTrue

-----------------------------------------------------------------------------
(* What a request does to the services of a slot, from r to n.             *)

Left(r, n) == n.tp = r.tp /\ n.sid = r.sid /\ n.source = r.source /\ n.count = r.count

Cleared(r, n) == /\ n.tp = 0 /\ n.sid = NoSids /\ n.source = r.source /\ n.count = r.count
                 /\ \A j \in Places : ~r.rec[j]

Joined(q, r, n) ==
  /\ r.cam = "init" /\ r.multi /\ r.tp = q.tp /\ r.source = q.source /\ r.count < MaxMulti
  /\ \A j \in Places : r.sid[j] # q.sid
  /\ n.tp = q.tp /\ n.source = q.source /\ n.count = r.count + 1
  /\ n.sid = [r.sid EXCEPT ![r.count] = q.sid]

Replaced(q, r, n) ==
  /\ r.cam = "init" /\ \A j \in Places : ~r.rec[j]
  /\ n.tp = q.tp /\ n.source = q.source /\ n.count = 1
  /\ n.sid = [NoSids EXCEPT ![0] = q.sid]

\* What it does to the marks.
NewMarks(q, r, n) ==
  /\ \A j \in Places : r.rec[j] => n.rec[j]
  /\ \A j \in Places : n.live[j] => r.live[j] \/ n.sid[j] = q.sid
  /\ \A j \in Places : n.rec[j] =>
       r.rec[j] \/ (q.mode = "record" /\ n.tp = q.tp /\ n.source = q.source /\ n.sid[j] = q.sid)
  /\ ~checkLive => \A j \in Places : n.rec[j] /\ n.live[j] => r.rec[j] /\ r.live[j]

-----------------------------------------------------------------------------

LEMMA PlacesProps ==
  /\ 0 \in Places /\ NoSids \in [Places -> Sids \cup {0}] /\ NoMarks \in [Places -> BOOLEAN]
  /\ \A j \in Places : NoSids[j] = 0 /\ ~NoMarks[j] /\ j \in Nat
  /\ \A c \in 0 .. MaxMulti : c < MaxMulti => c \in Places /\ c + 1 \in 0 .. MaxMulti
  /\ 1 \in 0 .. MaxMulti
PROOF
<1>1. MaxMulti \in Nat \ {0}
  BY NumbersAssumption
<1> QED BY <1>1 DEF Places, NoSids, NoMarks

\* Among the slots that meet a condition there is a lowest.
LEMMA LowestIn ==
  ASSUME NEW S \in SUBSET Slots, S # {}
  PROVE  Lowest(S) \in S /\ \A r \in S : Lowest(S) <= r
PROOF
<1>1. \A s \in Slots : s = 0 \/ s = 1
  BY SlotsAssumption
<1>2. \E s \in S : \A r \in S : s <= r
  <2>1. CASE 0 \in S
    BY <1>1, <2>1
  <2>2. CASE 0 \notin S
    <3>1. PICK s \in S : TRUE
      OBVIOUS
    <3>2. s = 1 /\ \A r \in S : r = 1
      BY <1>1, <2>2
    <3> QED BY <3>2
  <2> QED BY <2>1, <2>2
<1> QED BY <1>2 DEF Lowest

LEMMA EmptySlotProps == EmptySlot \in SlotFields /\ Tidy(EmptySlot)
PROOF
<1>1. 0 \in Sources /\ MaxMulti \in Nat
  BY NumbersAssumption
<1>2. EmptySlot \in SlotFields
  BY <1>1, PlacesProps DEF EmptySlot, SlotFields
<1>3. /\ EmptySlot.tp = 0 /\ EmptySlot.sid = NoSids /\ EmptySlot.rec = NoMarks
  BY DEF EmptySlot
<1> QED BY <1>2, <1>3, PlacesProps DEF Tidy, UnusedIsEmpty, PlacedOnce, NoneBeyond

\* The fields of a request, and that none of them is the one for none.
LEMMA RequestProps ==
  ASSUME NEW q \in Request
  PROVE  /\ q.tp \in Tps /\ q.tp # 0 /\ q.sid \in Sids /\ q.sid # 0
         /\ q.source \in Sources /\ q.mode \in Modes
         /\ <<q.tp, q.sid>> \in Pmts
PROOF BY NumbersAssumption DEF Request, Pmts

\* What the third loop does to a slot by the way.
LEMMA VisitProps ==
  ASSUME TypeOK, NEW q \in Request, NEW s \in Slots
  PROVE  LET n == Visit(q, s) IN
         /\ n \in SlotFields /\ n.cam = slot[s].cam /\ n.multi = slot[s].multi
         /\ n.rec = slot[s].rec /\ n.live = slot[s].live
         /\ Left(slot[s], n) \/ Cleared(slot[s], n)
         /\ ~Searches(q) \/ q.sid \notin Blacklist => Left(slot[s], n)
         /\ Left(slot[s], n) \/ Blocked(q, s)
PROOF
<1> DEFINE r == slot[s]
<1>1. r \in SlotFields
  BY DEF TypeOK
<1>2. CASE ~Searches(q) \/ (Found(q) # None /\ s > Found(q))
  <2>1. Visit(q, s) = r
    BY <1>2 DEF Visit
  <2> QED BY <1>1, <2>1 DEF Left
<1>3. CASE ~(~Searches(q) \/ (Found(q) # None /\ s > Found(q))) /\ Blocked(q, s)
  <2>1. Visit(q, s) = [r EXCEPT !.black = TRUE, !.sid = NoSids, !.tp = 0, !.scrambled = FALSE]
    BY <1>3 DEF Visit
  <2>2. \A j \in Places : ~r.rec[j]
    BY <1>3 DEF Blocked, Usable, Recording
  <2> HIDE DEF r
  <2>3. Visit(q, s) \in SlotFields
    BY <1>1, <2>1, PlacesProps DEF SlotFields
  <2>4. q.sid \in Blacklist /\ Searches(q)
    BY <1>3 DEF Blocked
  <2>5. Cleared(r, Visit(q, s))
    BY <1>1, <2>1, <2>2 DEF Cleared, SlotFields
  <2>6. /\ Visit(q, s).cam = r.cam /\ Visit(q, s).multi = r.multi
        /\ Visit(q, s).rec = r.rec /\ Visit(q, s).live = r.live
    BY <1>1, <2>1 DEF SlotFields
  <2> QED BY <1>3, <2>3, <2>4, <2>5, <2>6 DEF r
<1>4. CASE ~(~Searches(q) \/ (Found(q) # None /\ s > Found(q))) /\ ~Blocked(q, s)
  <2> DEFINE b == r.black /\ (~Managers(s) \/ Blacklist = {} \/ q.sid \in Blacklist)
             c == r.scrambled /\ ~(/\ Offered(q, s) /\ Ready(s)
                                   /\ s + 1 = Cardinality({t \in Slots : Ready(t)}))
  <2>1. Visit(q, s) = [r EXCEPT !.black = b, !.scrambled = c]
    BY <1>4, Zenon DEF Visit
  <2>2. b \in BOOLEAN /\ c \in BOOLEAN
    OBVIOUS
  <2> HIDE DEF b, c, r
  <2>3. Visit(q, s) \in SlotFields
    BY <1>1, <2>1, <2>2 DEF SlotFields
  <2>4. Left(r, Visit(q, s))
    BY <1>1, <2>1 DEF Left, SlotFields
  <2>5. /\ Visit(q, s).cam = r.cam /\ Visit(q, s).multi = r.multi
        /\ Visit(q, s).rec = r.rec /\ Visit(q, s).live = r.live
    BY <1>1, <2>1 DEF SlotFields
  <2> QED BY <2>3, <2>4, <2>5 DEF r
<1> QED BY <1>2, <1>3, <1>4

\* The slot that is found is one that has the service, one with room on its
\* transponder, or a free one; and it is ready.
LEMMA FoundProps ==
  ASSUME IInv, NEW q \in Request, Found(q) # None
  PROVE  /\ Found(q) \in Slots /\ Ready(Found(q))
         /\ \/ Found(q) \in Same(q) /\ ~Searches(q)
            \/ Same(q) = {} /\ Found(q) \in Room(q) /\ ~Searches(q)
            \/ Same(q) = {} /\ Room(q) = {} /\ Found(q) \in Free(q)
PROOF
<1>1. /\ Same(q) \in SUBSET Slots /\ Room(q) \in SUBSET Slots /\ Free(q) \in SUBSET Slots
  BY DEF Same, Room, Free
<1>2. \A s \in Slots : ~Ready(s) => slot[s].tp = 0 /\ \A j \in Places : slot[s].sid[j] = 0
  BY PlacesProps DEF IInv, SlotsTidy, Tidy, UnusedIsEmpty, Ready
<1>3. \E s \in Slots : Ready(s)
  BY DEF Found
<1>4. CASE Same(q) # {}
  <2>1. Found(q) = Lowest(Same(q)) /\ ~Searches(q)
    BY <1>3, <1>4 DEF Found, Searches
  <2>2. Found(q) \in Same(q)
    BY <1>1, <1>4, <2>1, LowestIn
  <2> QED BY <1>1, <1>2, <2>1, <2>2, RequestProps DEF Same
<1>5. CASE Same(q) = {} /\ Room(q) # {}
  <2>1. Found(q) = Lowest(Room(q)) /\ ~Searches(q)
    BY <1>3, <1>5 DEF Found, Searches
  <2>2. Found(q) \in Room(q)
    BY <1>1, <1>5, <2>1, LowestIn
  <2> QED BY <1>1, <1>2, <1>5, <2>1, <2>2, RequestProps DEF Room
<1>6. CASE Same(q) = {} /\ Room(q) = {}
  <2>1. Free(q) # {} /\ Found(q) = Lowest(Free(q))
    BY <1>3, <1>6 DEF Found
  <2>2. Found(q) \in Free(q)
    BY <1>1, <2>1, LowestIn
  <2> QED BY <1>1, <1>6, <2>2 DEF Free
<1> QED BY <1>4, <1>5, <1>6

\* The service gets into the slot that was found without touching what others have there.
LEMMA EnteredProps ==
  ASSUME IInv, NEW q \in Request, Found(q) # None
  PROVE  LET s == Found(q)
             n == Entered(q, s) IN
         /\ n \in SlotFields /\ n.cam = slot[s].cam
         /\ n.rec = slot[s].rec /\ n.live = slot[s].live
         /\ n.tp = q.tp /\ n.source = q.source /\ n.multi = slot[s].multi
         /\ \/ Left(slot[s], n)
            \/ Same(q) = {} /\ (Joined(q, slot[s], n) \/ Replaced(q, slot[s], n))
PROOF
<1> DEFINE s == Found(q)
           r == slot[s]
           v == Visit(q, s)
           bl == v.black \/ \E o \in Slots : /\ IsOther(o, s) /\ Visit(q, o).source = q.source
                                             /\ Visit(q, o).tp # 0 /\ Recording(o)
                                             /\ slot[s].cc /\ slot[o].cc
           w == [v EXCEPT !.scrambled = TRUE, !.black = bl]
           known == \E j \in Places : w.sid[j] = q.sid
<1>1. s \in Slots /\ r.cam = "init" /\ r \in SlotFields
  BY FoundProps DEF Ready, IInv, TypeOK
<1>2. /\ v \in SlotFields /\ v.cam = r.cam /\ v.multi = r.multi /\ v.rec = r.rec /\ v.live = r.live
      /\ ~Searches(q) \/ q.sid \notin Blacklist => Left(r, v)
  BY <1>1, VisitProps DEF IInv
<1>3. Left(r, v)
  <2>1. s \in Free(q) => q.sid \notin Blacklist
    BY DEF Free, Offered
  <2> QED BY <1>2, <2>1, FoundProps
<1>4. Entered(q, s) =
        IF w.multi /\ w.tp = q.tp /\ w.source = q.source /\ ~known /\ w.count < MaxMulti
        THEN [w EXCEPT !.sid[w.count] = q.sid, !.count = @ + 1,
                       !.pmt = <<q.tp, q.sid>>, !.newCapmt = TRUE]
        ELSE IF w.tp # q.tp \/ ~known \/ w.source # q.source
        THEN [w EXCEPT !.sid = [NoSids EXCEPT ![0] = q.sid], !.count = 1, !.tp = q.tp,
                       !.source = q.source, !.pmt = <<q.tp, q.sid>>, !.newCapmt = TRUE]
        ELSE w
  BY Zenon DEF Entered
<1>5. bl \in BOOLEAN
  BY <1>2 DEF SlotFields
<1> HIDE DEF bl
<1>6. /\ w \in SlotFields /\ w.cam = r.cam /\ w.multi = r.multi /\ w.rec = r.rec
      /\ w.live = r.live /\ Left(r, w)
  BY <1>2, <1>3, <1>5 DEF SlotFields, Left
<1> HIDE DEF w, v, s, r
<1>7. /\ Same(q) = {} => ~(known /\ w.tp = q.tp /\ w.source = q.source)
      /\ Same(q) # {} => known /\ w.tp = q.tp /\ w.source = q.source
  <2>1. known = \E j \in Places : r.sid[j] = q.sid
    BY <1>6 DEF Left
  <2>2. s \in Same(q) <=> known /\ w.tp = q.tp /\ w.source = q.source
    BY <1>1, <1>6, <2>1 DEF Left, Same, r
  <2>3. Same(q) # {} => s \in Same(q)
    BY FoundProps DEF s
  <2> QED BY <2>2, <2>3
<1>8. CASE w.multi /\ w.tp = q.tp /\ w.source = q.source /\ ~known /\ w.count < MaxMulti
  <2> DEFINE n == [w EXCEPT !.sid[w.count] = q.sid, !.count = @ + 1,
                            !.pmt = <<q.tp, q.sid>>, !.newCapmt = TRUE]
  <2>1. Entered(q, s) = n
    BY <1>4, <1>8
  <2>2. w.count \in Places /\ w.count + 1 \in 0 .. MaxMulti
    BY <1>6, <1>8, PlacesProps DEF SlotFields
  <2>3. n \in SlotFields
    BY <1>6, <2>2, RequestProps DEF SlotFields
  <2>4. Joined(q, r, n)
    BY <1>1, <1>6, <1>8, <2>2 DEF Joined, Left, SlotFields
  <2>5. /\ n.cam = w.cam /\ n.multi = w.multi /\ n.rec = w.rec /\ n.live = w.live
        /\ n.tp = q.tp /\ n.source = q.source
    BY <1>6, <1>8 DEF SlotFields
  <2> QED BY <1>6, <1>7, <1>8, <2>1, <2>3, <2>4, <2>5 DEF s, r
<1>9. CASE /\ ~(w.multi /\ w.tp = q.tp /\ w.source = q.source /\ ~known /\ w.count < MaxMulti)
           /\ w.tp # q.tp \/ ~known \/ w.source # q.source
  <2> DEFINE n == [w EXCEPT !.sid = [NoSids EXCEPT ![0] = q.sid], !.count = 1, !.tp = q.tp,
                            !.source = q.source, !.pmt = <<q.tp, q.sid>>, !.newCapmt = TRUE]
  <2>1. Entered(q, s) = n
    BY <1>4, <1>9
  <2>2. Same(q) = {}
    BY <1>7, <1>9
  <2>3. n \in SlotFields
    BY <1>6, PlacesProps, RequestProps DEF SlotFields
  <2>4. s \notin Room(q)
    <3>1. s \in Room(q) => w.multi /\ w.tp = q.tp /\ w.source = q.source /\ w.count < MaxMulti
      BY <1>6 DEF Room, Left, r
    <3> QED BY <1>7, <1>9, <2>2, <3>1
  <2>5. \A j \in Places : ~r.rec[j]
    BY <2>2, <2>4, FoundProps DEF Free, Offered, Usable, Recording, r, s
  <2>6. Replaced(q, r, n)
    BY <1>1, <1>6, <2>5 DEF Replaced, SlotFields
  <2>7. /\ n.cam = w.cam /\ n.multi = w.multi /\ n.rec = w.rec /\ n.live = w.live
        /\ n.tp = q.tp /\ n.source = q.source
    BY <1>6 DEF SlotFields
  <2> QED BY <1>6, <2>1, <2>2, <2>3, <2>6, <2>7 DEF s, r
<1>10. CASE ~(w.tp # q.tp \/ ~known \/ w.source # q.source)
  <2>1. Entered(q, s) = w
    BY <1>4, <1>10
  <2> QED BY <1>6, <1>10, <2>1 DEF s, r
<1> QED BY <1>8, <1>9, <1>10

\* The marks of a request name its service, and leave the services alone.
LEMMA MarkedProps ==
  ASSUME NEW q \in Request, NEW r \in SlotFields, r.tp = q.tp, r.source = q.source
  PROVE  LET n == Marked(q, r) IN
         /\ n \in SlotFields /\ n.cam = r.cam /\ n.multi = r.multi
         /\ Left(r, n) /\ NewMarks(q, r, n)
PROOF
<1> DEFINE mine == {j \in Places : ~r.black /\ r.sid[j] = q.sid}
           recs == [j \in Places |-> r.rec[j] \/ j \in mine]
           lives == [j \in Places |-> r.live[j] /\ (checkLive \/ j \notin mine)]
           watch == [j \in Places |-> r.live[j] \/ (j \in mine /\ ~r.rec[j])]
<1>1. Marked(q, r) = IF q.mode = "record" THEN [r EXCEPT !.rec = recs, !.live = lives]
                                          ELSE [r EXCEPT !.live = watch]
  BY DEF Marked, SlotFields
<1>2. recs \in [Places -> BOOLEAN] /\ lives \in [Places -> BOOLEAN] /\ watch \in [Places -> BOOLEAN]
  OBVIOUS
<1>3. CASE q.mode = "record"
  <2> HIDE DEF recs, lives
  <2>1. Marked(q, r) = [r EXCEPT !.rec = recs, !.live = lives]
    BY <1>1, <1>3
  <2>2. Marked(q, r) \in SlotFields /\ Marked(q, r).cam = r.cam /\ Left(r, Marked(q, r))
        /\ Marked(q, r).multi = r.multi
    BY <1>2, <2>1 DEF SlotFields, Left
  <2>3. Marked(q, r).rec = recs /\ Marked(q, r).live = lives
    BY <2>1 DEF SlotFields
  <2>4. NewMarks(q, r, Marked(q, r))
    <3>1. \A j \in Places : recs[j] => r.rec[j] \/ r.sid[j] = q.sid
      BY DEF recs
    <3>2. ~checkLive => \A j \in Places : recs[j] /\ lives[j] => r.rec[j] /\ r.live[j]
      BY DEF recs, lives
    <3>3. \A j \in Places : (r.rec[j] => recs[j]) /\ (lives[j] => r.live[j])
      BY DEF recs, lives
    <3> QED BY <1>3, <2>2, <2>3, <3>1, <3>2, <3>3 DEF NewMarks, Left
  <2> QED BY <2>2, <2>4
<1>4. CASE q.mode # "record"
  <2> HIDE DEF watch
  <2>1. Marked(q, r) = [r EXCEPT !.live = watch]
    BY <1>1, <1>4
  <2>2. Marked(q, r) \in SlotFields /\ Marked(q, r).cam = r.cam /\ Left(r, Marked(q, r))
        /\ Marked(q, r).multi = r.multi
    BY <1>2, <2>1 DEF SlotFields, Left
  <2>3. Marked(q, r).rec = r.rec /\ Marked(q, r).live = watch
    BY <2>1 DEF SlotFields
  <2>4. NewMarks(q, r, Marked(q, r))
    <3>1. \A j \in Places : /\ r.rec[j] /\ watch[j] => r.live[j]
                            /\ watch[j] => r.live[j] \/ r.sid[j] = q.sid
      BY DEF watch
    <3> QED BY <2>2, <2>3, <3>1 DEF NewMarks, Left
  <2> QED BY <2>2, <2>4
<1> QED BY <1>3, <1>4

-----------------------------------------------------------------------------
(* Requests.                                                               *)

\* What a request q does to the slots; t is the slot that gets the service.
Serves(q, t) ==
  \A s \in Slots :
    /\ slot'[s] \in SlotFields /\ slot'[s].cam = slot[s].cam /\ slot'[s].multi = slot[s].multi
    /\ NewMarks(q, slot[s], slot'[s])
    /\ \/ Left(slot[s], slot'[s]) \/ Cleared(slot[s], slot'[s])
       \/ s = t /\ Same(q) = {} /\ (Joined(q, slot[s], slot'[s]) \/ Replaced(q, slot[s], slot'[s]))

LEMMA TakesServes ==
  ASSUME IInv, NEW q \in Request, StartTakes(q)
  PROVE  Serves(q, Found(q))
PROOF
<1> DEFINE t == Found(q)
           e == Entered(q, t)
           m == Marked(q, e)
<1>1. t # None /\ t \in Slots
  BY FoundProps DEF StartTakes
<1>2. /\ e \in SlotFields /\ e.cam = slot[t].cam /\ e.multi = slot[t].multi /\ e.rec = slot[t].rec /\ e.live = slot[t].live
      /\ e.tp = q.tp /\ e.source = q.source
      /\ \/ Left(slot[t], e)
         \/ Same(q) = {} /\ (Joined(q, slot[t], e) \/ Replaced(q, slot[t], e))
  BY <1>1, EnteredProps
<1> HIDE DEF e
<1>3. m \in SlotFields /\ m.cam = e.cam /\ m.multi = e.multi /\ Left(e, m) /\ NewMarks(q, e, m)
  BY <1>2, MarkedProps
<1> SUFFICES ASSUME NEW s \in Slots
             PROVE  /\ slot'[s] \in SlotFields /\ slot'[s].cam = slot[s].cam
                    /\ slot'[s].multi = slot[s].multi
                    /\ NewMarks(q, slot[s], slot'[s])
                    /\ \/ Left(slot[s], slot'[s]) \/ Cleared(slot[s], slot'[s])
                       \/ /\ s = t /\ Same(q) = {}
                          /\ Joined(q, slot[s], slot'[s]) \/ Replaced(q, slot[s], slot'[s])
  BY DEF Serves
<1>4. slot'[s] = IF s = t THEN m
                 ELSE IF Displaced(q, s, t)
                      THEN [Visit(q, s) EXCEPT !.scrambled = FALSE, !.tp = 0, !.sid = NoSids]
                      ELSE Visit(q, s)
  BY DEF StartTakes, e
<1> HIDE DEF m, t
<1>5. CASE s = t
  <2>1. slot'[s] = m
    BY <1>4, <1>5
  <2>2. NewMarks(q, slot[s], m)
    BY <1>2, <1>3, <1>5 DEF NewMarks
  <2>3. Left(slot[s], e) => Left(slot[s], m)
    BY <1>3 DEF Left
  <2>4. /\ Joined(q, slot[s], e) => Joined(q, slot[s], m)
        /\ Replaced(q, slot[s], e) => Replaced(q, slot[s], m)
    BY <1>3 DEF Left, Joined, Replaced
  <2> QED BY <1>2, <1>3, <1>5, <2>1, <2>2, <2>3, <2>4
<1>6. CASE s # t
  <2> DEFINE v == Visit(q, s)
             n == [v EXCEPT !.scrambled = FALSE, !.tp = 0, !.sid = NoSids]
  <2>1. /\ v \in SlotFields /\ v.cam = slot[s].cam /\ v.multi = slot[s].multi /\ v.rec = slot[s].rec /\ v.live = slot[s].live
        /\ Left(slot[s], v) \/ Cleared(slot[s], v)
    BY VisitProps DEF IInv
  <2>2. slot'[s] = v \/ (Displaced(q, s, t) /\ slot'[s] = n)
    BY <1>4, <1>6
  <2> HIDE DEF v
  <2>3. CASE slot'[s] = v
    BY <2>1, <2>3 DEF NewMarks
  <2>4. CASE Displaced(q, s, t) /\ slot'[s] = n
    <3>1. n \in SlotFields
      BY <2>1, PlacesProps DEF SlotFields
    <3>2. /\ n.cam = v.cam /\ n.multi = v.multi /\ n.rec = v.rec /\ n.live = v.live /\ n.tp = 0 /\ n.sid = NoSids
          /\ n.source = v.source /\ n.count = v.count
      BY <2>1 DEF SlotFields
    <3>3. \A j \in Places : ~slot[s].rec[j]
      BY <2>4 DEF Displaced, Recording
    <3>4. Cleared(slot[s], n)
      BY <2>1, <3>2, <3>3 DEF Cleared, Left
    <3>5. NewMarks(q, slot[s], n)
      BY <2>1, <3>2 DEF NewMarks
    <3> QED BY <2>1, <2>4, <3>1, <3>2, <3>4, <3>5
  <2> QED BY <2>2, <2>3, <2>4
<1> QED BY <1>5, <1>6

LEMMA RefusedServes ==
  ASSUME IInv, NEW q \in Request, StartRefused(q)
  PROVE  Serves(q, None)
PROOF
<1> SUFFICES ASSUME NEW s \in Slots
             PROVE  /\ slot'[s] \in SlotFields /\ slot'[s].cam = slot[s].cam
                    /\ slot'[s].multi = slot[s].multi
                    /\ NewMarks(q, slot[s], slot'[s])
                    /\ Left(slot[s], slot'[s]) \/ Cleared(slot[s], slot'[s])
  BY DEF Serves
<1>1. slot'[s] = Visit(q, s)
  BY DEF StartRefused
<1> QED BY <1>1, VisitProps DEF IInv, NewMarks

\* None of the four leaves a slot untidy.
LEMMA StaysTidy ==
  ASSUME NEW q \in Request, NEW r \in SlotFields, NEW n \in SlotFields,
         Tidy(r), n.cam = r.cam, NewMarks(q, r, n),
         Left(r, n) \/ Cleared(r, n) \/ Joined(q, r, n) \/ Replaced(q, r, n)
  PROVE  Tidy(n)
PROOF
<1>1. /\ q.sid # 0 /\ \A j \in Places : n.rec[j] => r.rec[j] \/ n.sid[j] = q.sid
  BY RequestProps DEF NewMarks
<1>2. /\ r.sid \in [Places -> Sids \cup {0}] /\ n.sid \in [Places -> Sids \cup {0}]
      /\ r.count \in Nat /\ n.count \in Nat /\ NumbersAssumption
  BY NumbersAssumption DEF SlotFields
<1>3. CASE Left(r, n)
  BY <1>1, <1>3, PlacesProps DEF Left, Tidy, UnusedIsEmpty, PlacedOnce, NoneBeyond
<1>4. CASE Cleared(r, n)
  BY <1>1, <1>4, PlacesProps DEF Cleared, Tidy, UnusedIsEmpty, PlacedOnce, NoneBeyond
<1>5. CASE Joined(q, r, n)
  <2>1. /\ r.count \in Places /\ n.sid[r.count] = q.sid
        /\ \A j \in Places : j # r.count => n.sid[j] = r.sid[j]
        /\ \A j \in Places : r.sid[j] # q.sid
        /\ n.count = r.count + 1 /\ n.cam = "init"
    BY <1>2, <1>5, PlacesProps DEF Joined, SlotFields
  <2>2. UnusedIsEmpty(n)
    BY <2>1 DEF UnusedIsEmpty
  <2>3. PlacedOnce(n)
    BY <2>1 DEF PlacedOnce, Tidy
  <2>4. NoneBeyond(n)
    <3> SUFFICES ASSUME NEW j \in Places, j >= n.count PROVE n.sid[j] = 0 /\ ~n.rec[j]
      BY DEF NoneBeyond
    <3>1. j \in Nat /\ j >= r.count /\ j # r.count
      BY <1>2, <2>1, PlacesProps
    <3> QED BY <1>1, <2>1, <3>1 DEF Tidy, NoneBeyond
  <2> QED BY <2>2, <2>3, <2>4 DEF Tidy
<1>6. CASE Replaced(q, r, n)
  <2>1. /\ n.sid[0] = q.sid /\ \A j \in Places : j # 0 => n.sid[j] = 0
        /\ \A j \in Places : ~r.rec[j]
        /\ n.count = 1 /\ n.cam = "init"
    BY <1>6, PlacesProps DEF Replaced
  <2>2. UnusedIsEmpty(n)
    BY <2>1 DEF UnusedIsEmpty
  <2>3. PlacedOnce(n)
    BY <1>1, <2>1 DEF PlacedOnce
  <2>4. NoneBeyond(n)
    BY <1>1, <2>1, PlacesProps DEF NoneBeyond
  <2> QED BY <2>2, <2>3, <2>4 DEF Tidy
<1> QED BY <1>3, <1>4, <1>5, <1>6

\* What a slot has is what it had, or the service of a request no slot had.
LEMMA HadOrRequested ==
  ASSUME IInv, NEW q \in Request, NEW t, Serves(q, t), NEW s \in Slots, NEW j \in Places,
         slot'[s].sid[j] # 0
  PROVE  \/ /\ slot'[s].sid[j] = slot[s].sid[j]
            /\ slot'[s].tp = slot[s].tp /\ slot'[s].source = slot[s].source
         \/ /\ s = t /\ Same(q) = {}
            /\ slot'[s].sid[j] = q.sid /\ slot'[s].tp = q.tp /\ slot'[s].source = q.source
PROOF
<1> DEFINE r == slot[s]
           n == slot'[s]
<1>1. r \in SlotFields /\ n \in SlotFields
  BY DEF IInv, TypeOK, Serves
<1>2. r.sid \in [Places -> Sids \cup {0}] /\ r.count \in 0 .. MaxMulti
  BY <1>1 DEF SlotFields
<1>3. \/ Left(r, n) \/ Cleared(r, n)
      \/ s = t /\ Same(q) = {} /\ (Joined(q, r, n) \/ Replaced(q, r, n))
  BY DEF Serves
<1> HIDE DEF r, n
<1>4. CASE Left(r, n)
  BY <1>4 DEF Left, r, n
<1>5. CASE Cleared(r, n)
  BY <1>5, PlacesProps DEF Cleared, n
<1>6. CASE s = t /\ Same(q) = {} /\ Joined(q, r, n)
  <2>1. r.count \in Places
    BY <1>2, <1>6, PlacesProps DEF Joined
  <2>2. n.sid[j] = IF j = r.count THEN q.sid ELSE r.sid[j]
    BY <1>2, <1>6, <2>1 DEF Joined
  <2> QED BY <1>6, <2>2 DEF Joined, r, n
<1>7. CASE s = t /\ Same(q) = {} /\ Replaced(q, r, n)
  <2>1. n.sid[j] = IF j = 0 THEN q.sid ELSE 0
    BY <1>7, PlacesProps DEF Replaced
  <2> QED BY <1>7, <2>1 DEF Replaced, n
<1> QED BY <1>3, <1>4, <1>5, <1>6, <1>7

LEMMA ServesKeeps ==
  ASSUME IInv, NEW q \in Request, NEW t, Serves(q, t)
  PROVE  SlotsTidy' /\ ServicesApart'
PROOF
<1>1. SlotsTidy'
  <2> SUFFICES ASSUME NEW s \in Slots PROVE Tidy(slot'[s])
    BY DEF SlotsTidy
  <2>1. slot[s] \in SlotFields /\ Tidy(slot[s])
    BY DEF IInv, TypeOK, SlotsTidy
  <2>2. /\ slot'[s] \in SlotFields /\ slot'[s].cam = slot[s].cam /\ NewMarks(q, slot[s], slot'[s])
        /\ \/ Left(slot[s], slot'[s]) \/ Cleared(slot[s], slot'[s])
           \/ Joined(q, slot[s], slot'[s]) \/ Replaced(q, slot[s], slot'[s])
    BY DEF Serves
  <2> QED BY <2>1, <2>2, StaysTidy
<1>2. ServicesApart'
  <2> SUFFICES ASSUME NEW s \in Slots, NEW u \in Slots, NEW i \in Places, NEW j \in Places,
                      s # u, slot'[s].sid[i] # 0, slot'[s].sid[i] = slot'[u].sid[j],
                      slot'[s].tp = slot'[u].tp, slot'[s].source = slot'[u].source
               PROVE  FALSE
    BY DEF ServicesApart
  <2>1. slot'[u].sid[j] # 0
    OBVIOUS
  <2>2. \A x \in Slots, k \in Places :
          ~(slot[x].sid[k] = q.sid /\ slot[x].tp = q.tp /\ slot[x].source = q.source) \/ Same(q) # {}
    BY DEF Same
  <2>3. CASE /\ slot'[s].sid[i] = slot[s].sid[i]
             /\ slot'[s].tp = slot[s].tp /\ slot'[s].source = slot[s].source
    <3>1. CASE /\ slot'[u].sid[j] = slot[u].sid[j]
               /\ slot'[u].tp = slot[u].tp /\ slot'[u].source = slot[u].source
      BY <2>3, <3>1 DEF IInv, ServicesApart
    <3>2. CASE /\ Same(q) = {} /\ slot'[u].sid[j] = q.sid
               /\ slot'[u].tp = q.tp /\ slot'[u].source = q.source
      BY <2>2, <2>3, <3>2
    <3> QED BY <2>1, <3>1, <3>2, HadOrRequested
  <2>4. CASE /\ s = t /\ Same(q) = {} /\ slot'[s].sid[i] = q.sid
             /\ slot'[s].tp = q.tp /\ slot'[s].source = q.source
    <3>1. /\ slot'[u].sid[j] = slot[u].sid[j]
          /\ slot'[u].tp = slot[u].tp /\ slot'[u].source = slot[u].source
      BY <2>1, <2>4, HadOrRequested
    <3> QED BY <2>2, <2>4, <3>1
  <2> QED BY <2>3, <2>4, HadOrRequested
<1> QED BY <1>1, <1>2

-----------------------------------------------------------------------------
(* The other steps.                                                        *)

\* A slot that changes alone, and only gives up services, breaks nothing.
LEMMA OneChanges ==
  ASSUME IInv, NEW s \in Slots, NEW n \in SlotFields, Tidy(n), SetSlot(s, n),
         \/ n.sid = NoSids
         \/ /\ n.tp = slot[s].tp /\ n.source = slot[s].source
            /\ \A j \in Places : n.sid[j] # 0 => n.sid[j] = slot[s].sid[j]
  PROVE  slot' \in [Slots -> SlotFields] /\ SlotsTidy' /\ ServicesApart'
PROOF
<1>1. slot \in [Slots -> SlotFields] /\ slot' = [slot EXCEPT ![s] = n]
  BY DEF IInv, TypeOK, SetSlot
<1>2. slot' \in [Slots -> SlotFields] /\ \A t \in Slots : slot'[t] = IF t = s THEN n ELSE slot[t]
  BY <1>1
<1>3. SlotsTidy'
  BY <1>2 DEF IInv, SlotsTidy
<1>4. \A t \in Slots, j \in Places : slot'[t].sid[j] # 0 =>
         /\ slot'[t].sid[j] = slot[t].sid[j]
         /\ slot'[t].tp = slot[t].tp /\ slot'[t].source = slot[t].source
  BY <1>2, PlacesProps
<1>5. ServicesApart'
  <2> SUFFICES ASSUME NEW t \in Slots, NEW u \in Slots, NEW i \in Places, NEW j \in Places,
                      t # u, slot'[t].sid[i] # 0, slot'[t].sid[i] = slot'[u].sid[j],
                      slot'[t].tp = slot'[u].tp, slot'[t].source = slot'[u].source
               PROVE  FALSE
    BY DEF ServicesApart
  <2> QED BY <1>4 DEF IInv, ServicesApart
<1> QED BY <1>2, <1>3, <1>5

\* What a step of the slot's thread leaves of its slot: services, marks and places,
\* unless the module has none.
LEMMA ThreadChanges ==
  ASSUME IInv, NEW s \in Slots, SlotThread(s)
  PROVE  \E n \in SlotFields :
           /\ Tidy(n) /\ SetSlot(s, n)
           /\ \/ n.sid = NoSids /\ \A j \in Places : ~n.rec[j]
              \/ /\ n.tp = slot[s].tp /\ n.source = slot[s].source /\ n.sid = slot[s].sid
                 /\ n.rec = slot[s].rec /\ n.live = slot[s].live
PROOF
<1> DEFINE r == slot[s]
           Answers(n) == /\ n \in SlotFields /\ Tidy(n) /\ SetSlot(s, n)
                         /\ \/ n.sid = NoSids /\ \A j \in Places : ~n.rec[j]
                            \/ /\ n.tp = r.tp /\ n.source = r.source /\ n.sid = r.sid
                               /\ n.rec = r.rec /\ n.live = r.live
<1>1. r \in SlotFields /\ Tidy(r) /\ slot \in [Slots -> SlotFields]
  BY DEF IInv, TypeOK, SlotsTidy
<1>2. slot = [slot EXCEPT ![s] = r]
  BY <1>1
<1> SUFFICES \E n : Answers(n)
  OBVIOUS
<1>3. CASE Inserted(s) \/ InitDone(s)
  <2> DEFINE c == IF r.cam = "out" THEN "in" ELSE "init"
             n == [r EXCEPT !.cam = c]
  <2>1. SetSlot(s, n) /\ r.cam # "init"
    BY <1>3 DEF Inserted, InitDone
  <2> HIDE DEF r
  <2>2. n \in SlotFields /\ Tidy(n) /\ n.sid = NoSids /\ \A j \in Places : ~n.rec[j]
    BY <1>1, <2>1 DEF SlotFields, Tidy, UnusedIsEmpty, PlacedOnce, NoneBeyond
  <2> QED BY <2>1, <2>2
<1>4. CASE RestoreInput(s)
  <2> DEFINE n == [r EXCEPT !.source = lastSource]
  <2>1. SetSlot(s, n) /\ r.cam # "init" /\ lastSource \in Sources
    BY <1>4 DEF RestoreInput, IInv, TypeOK
  <2> HIDE DEF r
  <2>2. n \in SlotFields /\ Tidy(n) /\ n.sid = NoSids /\ \A j \in Places : ~n.rec[j]
    BY <1>1, <2>1 DEF SlotFields, Tidy, UnusedIsEmpty, PlacedOnce, NoneBeyond
  <2> QED BY <2>1, <2>2
<1>5. CASE ManagersUp(s)
  <2>1. PICK multi \in Multi, cc \in BOOLEAN :
          SetSlot(s, [r EXCEPT !.cam = "managers", !.multi = multi, !.cc = cc])
    BY <1>5 DEF ManagersUp
  <2> DEFINE n == [r EXCEPT !.cam = "managers", !.multi = multi, !.cc = cc]
  <2>2. multi \in BOOLEAN /\ r.cam # "init"
    BY <1>5, SetsAssumption DEF ManagersUp
  <2>3. SetSlot(s, n)
    BY <2>1
  <2> HIDE DEF r
  <2>4. n \in SlotFields /\ Tidy(n) /\ n.sid = NoSids /\ \A j \in Places : ~n.rec[j]
    BY <1>1, <2>2 DEF SlotFields, Tidy, UnusedIsEmpty, PlacedOnce, NoneBeyond
  <2> QED BY <2>3, <2>4
<1>6. CASE SendCaPMT(s)
  <2>1. SetSlot(s, r)
    BY <1>2, <1>6 DEF SendCaPMT, SetSlot
  <2> QED BY <1>1, <2>1
<1>7. CASE CapmtSent(s)
  <2> DEFINE n == [r EXCEPT !.newCapmt = FALSE]
  <2>1. SetSlot(s, n)
    BY <1>7 DEF CapmtSent
  <2> HIDE DEF r
  <2>2. /\ n \in SlotFields /\ Tidy(n) /\ n.tp = r.tp /\ n.source = r.source /\ n.sid = r.sid
        /\ n.rec = r.rec /\ n.live = r.live
    BY <1>1 DEF SlotFields, Tidy, UnusedIsEmpty, PlacedOnce, NoneBeyond
  <2> QED BY <2>1, <2>2
<1>8. CASE Removed(s)
  <2>1. SetSlot(s, EmptySlot) /\ EmptySlot.sid = NoSids /\ EmptySlot.rec = NoMarks
    BY <1>8 DEF Removed, EmptySlot
  <2> QED BY <2>1, EmptySlotProps, PlacesProps
<1> QED BY <1>3, <1>4, <1>5, <1>6, <1>7, <1>8 DEF SlotThread

\* Stop clears one place, whichever is found first.
StopAt(q, s, j) ==
  SetSlot(s, IF q.mode = "record" THEN [slot[s] EXCEPT !.sid[j] = 0, !.rec[j] = FALSE]
                                  ELSE [slot[s] EXCEPT !.sid[j] = 0, !.live[j] = FALSE])

LEMMA StopChanges ==
  ASSUME IInv, NEW q \in Request, Stop(q)
  PROVE  \/ /\ UNCHANGED slot
            /\ \A s \in Slots, j \in Places : ~Uses(q, s, j)
         \/ \E s \in Slots, j \in Places :
              Uses(q, s, j) /\ StopAt(q, s, j) /\ \A i \in Places : Uses(q, s, i) => i = j
PROOF
<1> DEFINE users == {s \in Slots : \E j \in Places : Uses(q, s, j)}
<1>1. CASE users = {}
  BY <1>1 DEF Stop
<1>2. CASE users # {}
  <2> DEFINE s == Lowest(users)
             places == {i \in Places : Uses(q, s, i)}
             j == Lowest(places)
  <2>1. s \in users
    BY <1>2, LowestIn
  <2>2. slot' = [slot EXCEPT ![s] = IF q.mode = "record"
                                    THEN [slot[s] EXCEPT !.sid[j] = 0, !.rec[j] = FALSE]
                                    ELSE [slot[s] EXCEPT !.sid[j] = 0, !.live[j] = FALSE]]
    BY <1>2, <2>1 DEF Stop, IInv, TypeOK
  <2> HIDE DEF s
  <2>3. PICK k \in Places : Uses(q, s, k)
    BY <2>1
  <2>4. \A i \in Places : Uses(q, s, i) => i = k
    BY <2>1, <2>3, RequestProps DEF Uses, IInv, SlotsTidy, Tidy, PlacedOnce
  <2>5. places = {k}
    BY <2>3, <2>4
  <2>6. j = k
    <3>1. k \in Nat
      BY PlacesProps
    <3> QED BY <2>5, <3>1 DEF Lowest
  <2> QED BY <2>1, <2>2, <2>3, <2>4, <2>6 DEF StopAt, SetSlot
<1> QED BY <1>1, <1>2

LEMMA StopKeeps ==
  ASSUME IInv, NEW q \in Request, NEW s \in Slots, NEW j \in Places, StopAt(q, s, j)
  PROVE  slot' \in [Slots -> SlotFields] /\ SlotsTidy' /\ ServicesApart'
PROOF
<1> DEFINE r == slot[s]
           n == IF q.mode = "record" THEN [r EXCEPT !.sid[j] = 0, !.rec[j] = FALSE]
                                     ELSE [r EXCEPT !.sid[j] = 0, !.live[j] = FALSE]
<1>1. r \in SlotFields /\ Tidy(r)
  BY DEF IInv, TypeOK, SlotsTidy
<1>2. SetSlot(s, n)
  BY DEF StopAt
<1> HIDE DEF r
<1>3. n \in SlotFields
  BY <1>1 DEF SlotFields
<1>4. /\ n.cam = r.cam /\ n.tp = r.tp /\ n.source = r.source /\ n.count = r.count
      /\ \A i \in Places : n.sid[i] = IF i = j THEN 0 ELSE r.sid[i]
      /\ \A i \in Places : n.rec[i] => r.rec[i]
  BY <1>1 DEF SlotFields
<1> HIDE DEF n
<1>5. UnusedIsEmpty(n)
  <2> SUFFICES ASSUME n.cam # "init"
               PROVE  n.tp = 0 /\ n.sid = NoSids /\ \A i \in Places : ~n.rec[i]
    BY DEF UnusedIsEmpty
  <2>1. r.tp = 0 /\ r.sid = NoSids /\ \A i \in Places : ~r.rec[i]
    BY <1>1, <1>4 DEF Tidy, UnusedIsEmpty
  <2>2. n.sid \in [Places -> Sids \cup {0}] /\ \A i \in Places : n.sid[i] = NoSids[i]
    BY <1>3, <1>4, <2>1, PlacesProps DEF SlotFields
  <2>3. n.sid = NoSids
    BY <2>2, PlacesProps
  <2> QED BY <1>4, <2>1, <2>3
<1>6. PlacedOnce(n) /\ NoneBeyond(n)
  BY <1>1, <1>4 DEF Tidy, PlacedOnce, NoneBeyond
<1> QED BY <1>2, <1>3, <1>4, <1>5, <1>6, OneChanges DEF Tidy, r

-----------------------------------------------------------------------------
(* The invariant.                                                          *)

LEMMA InitInv == Init => IInv
PROOF
<1> SUFFICES ASSUME Init PROVE IInv
  OBVIOUS
<1>1. \A s \in Slots : slot[s] = EmptySlot
  BY DEF Init
<1>2. TypeOK
  BY EmptySlotProps DEF Init, TypeOK
<1>3. SlotsTidy
  BY <1>1, EmptySlotProps DEF SlotsTidy
<1>4. ServicesApart
  <2>1. EmptySlot.sid = NoSids
    BY DEF EmptySlot
  <2> QED BY <1>1, <2>1, PlacesProps DEF ServicesApart
<1> QED BY <1>2, <1>3, <1>4 DEF IInv

\* The variables besides the slots keep their types in a request.
LEMMA UnroutedTyped ==
  ASSUME TypeOK, NEW source \in Sources, Unrouted(source)
  PROVE  route' \in [Sources -> Slots \cup {None}] /\ lastSource' \in Sources \cup {None}
PROOF BY DEF TypeOK, Unrouted

LEMMA StepInv == IInv /\ [Next]_vars => IInv'
PROOF
<1> SUFFICES ASSUME IInv, [Next]_vars PROVE IInv'
  OBVIOUS
<1>0. TypeOK
  BY DEF IInv
<1>1. ASSUME NEW q \in Request, StartTakes(q) PROVE IInv'
  <2>1. SlotsTidy' /\ ServicesApart'
    BY <1>1, TakesServes, ServesKeeps
  <2>2. slot' \in [Slots -> SlotFields]
    <3>1. \A s \in Slots : slot'[s] \in SlotFields
      BY <1>1, TakesServes DEF Serves
    <3> DEFINE f(s) == IF s = Found(q) THEN Marked(q, Entered(q, s))
                       ELSE IF Displaced(q, s, Found(q))
                       THEN [Visit(q, s) EXCEPT !.scrambled = FALSE, !.tp = 0, !.sid = NoSids]
                       ELSE Visit(q, s)
    <3>2. slot' = [s \in Slots |-> f(s)]
      BY <1>1 DEF StartTakes
    <3> HIDE DEF f
    <3> QED BY <3>1, <3>2
  <2>3. Found(q) \in Slots /\ slot[Found(q)].source \in Sources
    BY <1>0, <1>1, FoundProps DEF StartTakes, TypeOK, SlotFields
  <2>4. route' \in [Sources -> Slots \cup {None}]
    BY <1>0, <1>1, <2>3 DEF StartTakes, TypeOK
  <2>5. sent' \in [Slots -> Pmts \cup {None, NullPmt}]
    BY <1>0, <1>1 DEF StartTakes, TypeOK
  <2>6. /\ lastSource' \in Sources \cup {None} /\ checkLive' \in BOOLEAN
        /\ active' \subseteq Request /\ sending' \subseteq Slots
    BY <1>0, <1>1 DEF StartTakes, TypeOK
  <2> QED BY <2>1, <2>2, <2>4, <2>5, <2>6 DEF IInv, TypeOK
<1>2. ASSUME NEW q \in Request, StartRefused(q) PROVE IInv'
  <2>1. SlotsTidy' /\ ServicesApart'
    BY <1>2, RefusedServes, ServesKeeps
  <2>2. slot' \in [Slots -> SlotFields]
    BY <1>0, <1>2, VisitProps DEF StartRefused
  <2>3. route' \in [Sources -> Slots \cup {None}] /\ lastSource' \in Sources \cup {None}
    BY <1>0, <1>2, RequestProps, UnroutedTyped DEF StartRefused
  <2>4. sent' \in [Slots -> Pmts \cup {None, NullPmt}]
    BY <1>0, <1>2 DEF StartRefused, TypeOK
  <2>5. /\ checkLive' \in BOOLEAN /\ active' \subseteq Request /\ sending' \subseteq Slots
    BY <1>0, <1>2 DEF StartRefused, TypeOK
  <2> QED BY <2>1, <2>2, <2>3, <2>4, <2>5 DEF IInv, TypeOK
<1>3. ASSUME NEW q \in Request, Stop(q) PROVE IInv'
  <2>1. slot' \in [Slots -> SlotFields] /\ SlotsTidy' /\ ServicesApart'
    <3>1. CASE UNCHANGED slot
      BY <3>1 DEF IInv, TypeOK, SlotsTidy, ServicesApart
    <3>2. CASE \E s \in Slots, j \in Places : StopAt(q, s, j)
      BY <3>2, StopKeeps
    <3> QED BY <1>3, <3>1, <3>2, StopChanges
  <2> QED BY <1>0, <1>3, <2>1 DEF Stop, IInv, TypeOK
<1>4. ASSUME NEW t \in Sources, StartClear(t) PROVE IInv'
  <2>1. route' \in [Sources -> Slots \cup {None}] /\ lastSource' \in Sources \cup {None}
    BY <1>0, <1>4, UnroutedTyped DEF StartClear
  <2> QED BY <1>4, <2>1 DEF StartClear, IInv, TypeOK, SlotsTidy, ServicesApart
<1>5. ASSUME NEW check \in CheckLive, SetCheckLiveSlot(check) PROVE IInv'
  BY <1>5, SetsAssumption DEF SetCheckLiveSlot, IInv, TypeOK, SlotsTidy, ServicesApart
<1>6. ASSUME NEW s \in Slots, SlotThread(s) PROVE IInv'
  <2>1. slot' \in [Slots -> SlotFields] /\ SlotsTidy' /\ ServicesApart'
    <3>1. PICK n \in SlotFields :
            /\ Tidy(n) /\ SetSlot(s, n)
            /\ \/ n.sid = NoSids
               \/ n.tp = slot[s].tp /\ n.source = slot[s].source /\ n.sid = slot[s].sid
      BY <1>6, ThreadChanges
    <3> QED BY <3>1, OneChanges
  <2>2. slot[s].source \in Sources /\ slot[s].pmt \in Pmts \cup {None}
    BY <1>0 DEF TypeOK, SlotFields
  <2>3. /\ route' \in [Sources -> Slots \cup {None}] /\ lastSource' \in Sources \cup {None}
        /\ checkLive' \in BOOLEAN /\ active' \subseteq Request /\ sending' \subseteq Slots
        /\ sent' \in [Slots -> Pmts \cup {None, NullPmt}]
    BY <1>0, <1>6, <2>2 DEF TypeOK, SlotThread, Inserted, RestoreInput, ManagersUp, InitDone,
       SendCaPMT, CapmtSent, Removed
  <2> QED BY <2>1, <2>3 DEF IInv, TypeOK
<1>7. CASE UNCHANGED vars
  BY <1>7 DEF vars, IInv, TypeOK, SlotsTidy, ServicesApart
<1> QED BY <1>1, <1>2, <1>3, <1>4, <1>5, <1>6, <1>7 DEF Next

\* The fields of a slot, the routes and what the modules were given keep their types.
THEOREM AllocationTypeOK == Spec => []TypeOK
PROOF
<1>1. IInv => TypeOK
  BY DEF IInv
<1> QED BY <1>1, InitInv, StepInv, PTL DEF Spec

-----------------------------------------------------------------------------
(* Recordings.                                                             *)

\* A request leaves every mark with its recording.
LEMMA ServesMarks ==
  ASSUME IInv, RInv, NEW q \in Request, NEW t, Serves(q, t), active' = active \cup {q},
         checkLive' = checkLive
  PROVE  RInv'
PROOF
<1>1. ASSUME TRUE \notin CheckLive PROVE MarksApart'
  <2> SUFFICES ASSUME NEW s \in Slots, NEW j \in Places, slot'[s].rec[j], slot'[s].live[j]
               PROVE  FALSE
    BY DEF MarksApart
  <2>1. slot[s].rec[j] /\ slot[s].live[j]
    BY <1>1 DEF Serves, NewMarks, RInv
  <2> QED BY <1>1, <2>1 DEF RInv, MarksApart
<1>2. MarksAreTrue'
  <2> SUFFICES ASSUME NEW s \in Slots, NEW j \in Places, slot'[s].rec[j]
               PROVE  \/ [tp |-> slot'[s].tp, sid |-> slot'[s].sid[j],
                          source |-> slot'[s].source, mode |-> "record"] \in active'
                      \/ TRUE \in CheckLive /\ slot'[s].sid[j] = 0
    BY DEF MarksAreTrue, Of
  <2> DEFINE r == slot[s]
             n == slot'[s]
  <2>1. /\ r \in SlotFields /\ Tidy(r)
        /\ n.rec[j] => \/ r.rec[j]
                       \/ /\ q.mode = "record" /\ n.tp = q.tp /\ n.source = q.source
                          /\ n.sid[j] = q.sid
    BY DEF IInv, TypeOK, SlotsTidy, Serves, NewMarks
  <2>2. \/ Left(r, n) \/ Cleared(r, n) \/ Joined(q, r, n) \/ Replaced(q, r, n)
    BY DEF Serves
  <2>3. r.rec[j] => \/ [tp |-> r.tp, sid |-> r.sid[j], source |-> r.source, mode |-> "record"] \in active
                    \/ TRUE \in CheckLive /\ r.sid[j] = 0
    BY DEF RInv, MarksAreTrue, Of
  <2>4. n.rec[j]
    OBVIOUS
  <2> HIDE DEF r, n
  <2>5. CASE ~r.rec[j]
    <3>1. [tp |-> n.tp, sid |-> n.sid[j], source |-> n.source, mode |-> "record"] = q
      BY <2>1, <2>4, <2>5 DEF Request
    <3> QED BY <3>1 DEF n
  <2>6. CASE r.rec[j]
    <3>1. Left(r, n) \/ Joined(q, r, n)
      BY <2>2, <2>6 DEF Cleared, Replaced
    <3>2. n.tp = r.tp /\ n.source = r.source
      BY <3>1 DEF Left, Joined
    <3>3. n.sid[j] = r.sid[j]
      <4>1. CASE Left(r, n)
        BY <4>1 DEF Left
      <4>2. CASE Joined(q, r, n)
        <5>1. ~(j >= r.count) /\ r.count \in Nat
          BY <2>1, <2>6, NumbersAssumption DEF Tidy, NoneBeyond, SlotFields
        <5>2. j # r.count
          BY <5>1
        <5>3. r.sid \in [Places -> Sids \cup {0}] /\ n.sid = [r.sid EXCEPT ![r.count] = q.sid]
          BY <2>1, <4>2 DEF SlotFields, Joined
        <5> QED BY <5>2, <5>3
      <4> QED BY <3>1, <4>1, <4>2
    <3> QED BY <2>3, <2>6, <3>2, <3>3 DEF n
  <2> QED BY <2>5, <2>6
<1> QED BY <1>1, <1>2 DEF RInv

\* Stop takes the mark of the recording that ends, and no other.
LEMMA StopMarks ==
  ASSUME IInv, RInv, NEW q \in Request, Stop(q)
  PROVE  RInv'
PROOF
<1>0. active' = active \ {q} /\ checkLive' = checkLive
  BY DEF Stop
<1>1. \A s \in Slots, j \in Places :
        slot[s].rec[j] => Of(s, j) \in active \/ (TRUE \in CheckLive /\ slot[s].sid[j] = 0)
  BY DEF RInv, MarksAreTrue
<1>2. \A s \in Slots, j \in Places : slot[s].rec[j] /\ Of(s, j) = q => Uses(q, s, j)
  BY DEF Uses, Of
<1>3. CASE UNCHANGED slot /\ \A s \in Slots, j \in Places : ~Uses(q, s, j)
  <2>1. \A s \in Slots, j \in Places :
          slot[s].rec[j] => Of(s, j) \in active' \/ (TRUE \in CheckLive /\ slot[s].sid[j] = 0)
    BY <1>0, <1>1, <1>2, <1>3
  <2> QED BY <1>0, <1>3, <2>1 DEF RInv, MarksApart, MarksAreTrue, Of
<1>4. ASSUME NEW s \in Slots, NEW j \in Places, Uses(q, s, j), StopAt(q, s, j),
             \A i \in Places : Uses(q, s, i) => i = j
      PROVE  RInv'
  <2> DEFINE r == slot[s]
             n == IF q.mode = "record" THEN [r EXCEPT !.sid[j] = 0, !.rec[j] = FALSE]
                                       ELSE [r EXCEPT !.sid[j] = 0, !.live[j] = FALSE]
  <2>1. r \in SlotFields /\ slot \in [Slots -> SlotFields]
    BY DEF IInv, TypeOK
  <2>2. slot' = [slot EXCEPT ![s] = n]
    BY <1>4 DEF StopAt, SetSlot
  <2> HIDE DEF r
  <2>3. /\ n.tp = r.tp /\ n.source = r.source
        /\ \A i \in Places : n.sid[i] = IF i = j THEN 0 ELSE r.sid[i]
        /\ \A i \in Places : n.rec[i] => r.rec[i] /\ (i = j => q.mode # "record")
        /\ \A i \in Places : n.live[i] => r.live[i]
    BY <2>1 DEF SlotFields
  <2> HIDE DEF n
  <2>4. \A t \in Slots : slot'[t] = IF t = s THEN n ELSE slot[t]
    BY <2>1, <2>2
  <2>5. ASSUME TRUE \notin CheckLive PROVE MarksApart'
    BY <2>3, <2>4, <2>5 DEF RInv, MarksApart, r
  <2>6. MarksAreTrue'
    <3> SUFFICES ASSUME NEW t \in Slots, NEW i \in Places, slot'[t].rec[i]
                 PROVE  \/ [tp |-> slot'[t].tp, sid |-> slot'[t].sid[i],
                            source |-> slot'[t].source, mode |-> "record"] \in active'
                        \/ TRUE \in CheckLive /\ slot'[t].sid[i] = 0
      BY DEF MarksAreTrue, Of
    <3>1. slot[t].rec[i]
      BY <2>3, <2>4 DEF r
    <3>2. CASE t = s /\ i = j
      <4>1. q.mode # "record" /\ r.rec[j] /\ slot'[t].sid[i] = 0
        BY <2>3, <2>4, <3>2
      <4>2. r.live[j]
        BY <1>4, <4>1 DEF Uses, r
      <4>3. TRUE \in CheckLive
        BY <4>1, <4>2 DEF RInv, MarksApart, r
      <4> QED BY <4>1, <4>3
    <3>3. CASE ~(t = s /\ i = j)
      <4>1. /\ slot'[t].tp = slot[t].tp /\ slot'[t].source = slot[t].source
            /\ slot'[t].sid[i] = slot[t].sid[i]
        BY <2>3, <2>4, <3>3 DEF r
      <4>2. Of(t, i) # q
        <5> SUFFICES ASSUME Of(t, i) = q PROVE FALSE
          OBVIOUS
        <5>1. Uses(q, t, i)
          BY <1>2, <3>1
        <5>2. t # s
          BY <1>4, <3>3, <5>1
        <5>3. /\ slot[t].sid[i] = q.sid /\ slot[s].sid[j] = q.sid /\ q.sid # 0
              /\ slot[t].tp = slot[s].tp /\ slot[t].source = slot[s].source
          BY <1>4, <5>1, RequestProps DEF Uses
        <5> QED BY <5>2, <5>3 DEF IInv, ServicesApart
      <4>3. Of(t, i) \in active' \/ (TRUE \in CheckLive /\ slot[t].sid[i] = 0)
        BY <1>0, <1>1, <3>1, <4>2
      <4> QED BY <4>1, <4>3 DEF Of
    <3> QED BY <3>2, <3>3
  <2> QED BY <1>0, <2>5, <2>6 DEF RInv
<1> QED BY <1>3, <1>4, StopChanges

\* Every step leaves the marks with their recordings.
LEMMA StepMarks == IInv /\ RInv /\ [Next]_vars => RInv'
PROOF
<1> SUFFICES ASSUME IInv, RInv, [Next]_vars PROVE RInv'
  OBVIOUS
<1>1. ASSUME NEW q \in Request, StartTakes(q) PROVE RInv'
  BY <1>1, TakesServes, ServesMarks DEF StartTakes
<1>2. ASSUME NEW q \in Request, StartRefused(q) PROVE RInv'
  BY <1>2, RefusedServes, ServesMarks DEF StartRefused
<1>3. ASSUME NEW q \in Request, Stop(q) PROVE RInv'
  BY <1>3, StopMarks
<1>4. ASSUME NEW t \in Sources, StartClear(t) PROVE RInv'
  BY <1>4 DEF StartClear, RInv, MarksApart, MarksAreTrue, Of
<1>5. ASSUME NEW check \in CheckLive, SetCheckLiveSlot(check) PROVE RInv'
  <2>1. TRUE \notin CheckLive => check = FALSE
    BY SetsAssumption
  <2> QED BY <1>5, <2>1 DEF SetCheckLiveSlot, RInv, MarksApart, MarksAreTrue, Of
<1>6. ASSUME NEW s \in Slots, SlotThread(s) PROVE RInv'
  <2>1. active' = active /\ checkLive' = checkLive
    BY <1>6 DEF SlotThread, Inserted, RestoreInput, ManagersUp, InitDone, SendCaPMT, CapmtSent,
       Removed
  <2>2. PICK n \in SlotFields :
          /\ SetSlot(s, n)
          /\ \/ \A j \in Places : ~n.rec[j]
             \/ /\ n.tp = slot[s].tp /\ n.source = slot[s].source /\ n.sid = slot[s].sid
                /\ n.rec = slot[s].rec /\ n.live = slot[s].live
    BY <1>6, ThreadChanges
  <2>3. \A t \in Slots : slot'[t] = IF t = s THEN n ELSE slot[t]
    BY <2>2 DEF SetSlot, IInv, TypeOK
  <2>4. \A t \in Slots, j \in Places : slot'[t].rec[j] =>
          /\ slot[t].rec[j] /\ slot'[t].live[j] = slot[t].live[j]
          /\ slot'[t].tp = slot[t].tp /\ slot'[t].source = slot[t].source
          /\ slot'[t].sid[j] = slot[t].sid[j]
    BY <2>2, <2>3
  <2>5. MarksAreTrue'
    <3> SUFFICES ASSUME NEW t \in Slots, NEW j \in Places, slot'[t].rec[j]
                 PROVE  \/ [tp |-> slot'[t].tp, sid |-> slot'[t].sid[j],
                            source |-> slot'[t].source, mode |-> "record"] \in active'
                        \/ TRUE \in CheckLive /\ slot'[t].sid[j] = 0
      BY DEF MarksAreTrue, Of
    <3>1. Of(t, j) \in active \/ (TRUE \in CheckLive /\ slot[t].sid[j] = 0)
      BY <2>4 DEF RInv, MarksAreTrue
    <3> QED BY <2>1, <2>4, <3>1 DEF Of
  <2>6. TRUE \notin CheckLive => MarksApart'
    BY <2>4 DEF RInv, MarksApart
  <2> QED BY <2>1, <2>5, <2>6 DEF RInv
<1>7. CASE UNCHANGED vars
  BY <1>7 DEF vars, RInv, MarksApart, MarksAreTrue, Of
<1> QED BY <1>1, <1>2, <1>3, <1>4, <1>5, <1>6, <1>7 DEF Next

\* For one slot or two, whatever modules come and go and whatever is started and
\* stopped: no service of a tuner is in two slots, and a mark of a recording has its
\* recording, so that Stop finds it and no slot is lost.  Only the end of a live use
\* that shares a place with a recording leaves a mark behind, and only on boxes that
\* call setCheckLiveSlot with true.
THEOREM SlotsAlwaysAccountedFor == Spec => []SlotsAreAccountedFor
PROOF
<1>1. Init => RInv
  <2> SUFFICES ASSUME Init PROVE RInv
    OBVIOUS
  <2>1. EmptySlot.rec = NoMarks
    BY DEF EmptySlot
  <2> QED BY <2>1, PlacesProps DEF Init, RInv, MarksApart, MarksAreTrue
<1>2. IInv /\ RInv => SlotsAreAccountedFor
  <2> SUFFICES ASSUME IInv, RInv PROVE SlotsAreAccountedFor
    OBVIOUS
  <2>1. /\ DOMAIN slot = Slots
        /\ \A s \in Slots : DOMAIN slot[s].rec = Places /\ DOMAIN slot[s].sid = Places
    BY DEF IInv, TypeOK, SlotFields
  <2>2. OneSlotPerService
    BY <2>1 DEF IInv, ServicesApart, OneSlotPerService
  <2>3. RecordMarkHasRecording
    BY <2>1 DEF RInv, MarksAreTrue, Of, RecordMarkHasRecording
  <2> QED BY <2>2, <2>3 DEF SlotsAreAccountedFor
<1>3. IInv /\ RInv /\ [Next]_vars => RInv'
  BY StepMarks
<1> QED BY <1>1, <1>2, <1>3, InitInv, StepInv, PTL DEF Spec

-----------------------------------------------------------------------------
(* What a recording, and a service that is watched, keep.                  *)

\* The service that is in a place with a mark stays there when others are served.
LEMMA ServesLeavesMarked ==
  ASSUME IInv, NEW q \in Request, NEW t, Serves(q, t), NEW s \in Slots, NEW j \in Places,
         slot[s].rec[j]
  PROVE  /\ slot'[s].rec[j] /\ slot'[s].sid[j] = slot[s].sid[j]
         /\ slot'[s].tp = slot[s].tp /\ slot'[s].source = slot[s].source
PROOF
<1> DEFINE r == slot[s]
           n == slot'[s]
<1>1. r \in SlotFields /\ Tidy(r) /\ n.rec[j]
  BY DEF IInv, TypeOK, SlotsTidy, Serves, NewMarks
<1>2. Left(r, n) \/ Joined(q, r, n)
  BY DEF Serves, Cleared, Replaced
<1> HIDE DEF r, n
<1>3. CASE Left(r, n)
  BY <1>1, <1>3 DEF Left, r, n
<1>4. CASE Joined(q, r, n)
  <2>1. r.rec[j]
    BY DEF r
  <2>2. ~(j >= r.count) /\ r.count \in Nat
    BY <1>1, <2>1, NumbersAssumption DEF Tidy, NoneBeyond, SlotFields
  <2>3. j # r.count
    BY <2>2
  <2>4. r.sid \in [Places -> Sids \cup {0}] /\ n.sid = [r.sid EXCEPT ![r.count] = q.sid]
    BY <1>1, <1>4 DEF SlotFields, Joined
  <2>5. n.sid[j] = r.sid[j]
    BY <2>3, <2>4
  <2> QED BY <1>1, <1>4, <2>5 DEF Joined, r, n
<1> QED BY <1>2, <1>3, <1>4

\* The slot of a step of its thread has no mark and no service before the step if the
\* module is not ready, and else keeps what it has.
LEMMA ThreadLeavesMarked ==
  ASSUME IInv, NEW u \in Slots, SlotThread(u), NEW s \in Slots, NEW j \in Places,
         slot[s].rec[j], slot'[s].cam # "out"
  PROVE  /\ slot'[s] = slot[s] \/ (s = u /\ slot'[s] = [slot[s] EXCEPT !.newCapmt = FALSE])
         /\ sent'[s] = NullPmt => sent[s] = NullPmt
PROOF
<1>1. slot \in [Slots -> SlotFields] /\ sent \in [Slots -> Pmts \cup {None, NullPmt}]
  BY DEF IInv, TypeOK
<1>2. slot[s].cam = "init"
  BY DEF IInv, SlotsTidy, Tidy, UnusedIsEmpty
<1>3. CASE Inserted(u) \/ RestoreInput(u) \/ ManagersUp(u) \/ InitDone(u)
  <2>1. u # s /\ sent' = sent /\ \E n : SetSlot(u, n)
    BY <1>2, <1>3 DEF Inserted, RestoreInput, ManagersUp, InitDone
  <2> QED BY <1>1, <2>1 DEF SetSlot
<1>4. CASE SendCaPMT(u)
  <2>1. slot' = slot /\ sent' = [sent EXCEPT ![u] = slot[u].pmt]
    BY <1>4 DEF SendCaPMT
  <2>2. slot[u].pmt \in Pmts \cup {None}
    BY <1>1 DEF SlotFields
  <2>3. slot[u].pmt # NullPmt
    BY <2>2, NoneAssumption DEF Pmts
  <2> QED BY <1>1, <2>1, <2>3
<1>5. CASE CapmtSent(u)
  <2>1. slot' = [slot EXCEPT ![u] = [slot[u] EXCEPT !.newCapmt = FALSE]] /\ sent' = sent
    BY <1>5 DEF CapmtSent, SetSlot
  <2> QED BY <1>1, <2>1
<1>6. CASE Removed(u)
  <2>1. slot' = [slot EXCEPT ![u] = EmptySlot] /\ sent' = [sent EXCEPT ![u] = None]
    BY <1>6 DEF Removed, SetSlot
  <2>2. EmptySlot.cam = "out"
    BY DEF EmptySlot
  <2>3. u # s
    BY <1>1, <2>1, <2>2
  <2> QED BY <1>1, <2>1, <2>3
<1> QED BY <1>3, <1>4, <1>5, <1>6 DEF SlotThread

LEMMA StepLeavesRecordings == IInv /\ [Next]_vars => LeavesRecordings
PROOF
<1> SUFFICES ASSUME IInv, [Next]_vars, NEW s \in Slots, NEW j \in Places,
                    slot[s].rec[j], slot'[s].cam # "out"
             PROVE  \/ /\ slot'[s].rec[j] /\ slot'[s].sid[j] = slot[s].sid[j]
                       /\ slot'[s].tp = slot[s].tp /\ slot'[s].source = slot[s].source
                       /\ (sent'[s] = NullPmt => sent[s] = NullPmt)
                    \/ \E q \in active \ active' : q.sid = slot[s].sid[j]
  BY DEF LeavesRecordings, IInv, TypeOK, SlotFields
<1>0. slot \in [Slots -> SlotFields] /\ Recording(s)
  BY DEF IInv, TypeOK, Recording
<1>1. ASSUME NEW q \in Request, StartTakes(q)
      PROVE  /\ slot'[s].rec[j] /\ slot'[s].sid[j] = slot[s].sid[j]
             /\ slot'[s].tp = slot[s].tp /\ slot'[s].source = slot[s].source
             /\ sent'[s] = sent[s]
  <2>1. ~Displaced(q, s, Found(q)) /\ ~Blocked(q, s)
    BY <1>0 DEF Displaced, Blocked, Usable
  <2>2. sent'[s] = sent[s]
    BY <1>1, <2>1 DEF StartTakes
  <2> QED BY <1>1, <2>2, TakesServes, ServesLeavesMarked
<1>2. ASSUME NEW q \in Request, StartRefused(q)
      PROVE  /\ slot'[s].rec[j] /\ slot'[s].sid[j] = slot[s].sid[j]
             /\ slot'[s].tp = slot[s].tp /\ slot'[s].source = slot[s].source
             /\ sent'[s] = sent[s]
  <2>1. ~Blocked(q, s)
    BY <1>0 DEF Blocked, Usable
  <2>2. sent'[s] = sent[s]
    BY <1>2, <2>1 DEF StartRefused
  <2> QED BY <1>2, <2>2, RefusedServes, ServesLeavesMarked
<1>3. ASSUME NEW q \in Request, Stop(q)
      PROVE  \/ /\ slot'[s].rec[j] /\ slot'[s].sid[j] = slot[s].sid[j]
                /\ slot'[s].tp = slot[s].tp /\ slot'[s].source = slot[s].source
                /\ sent'[s] = sent[s]
             \/ q \in active \ active' /\ q.sid = slot[s].sid[j]
  <2>1. sent' = sent /\ q \in active \ active'
    BY <1>3 DEF Stop
  <2>2. CASE UNCHANGED slot
    BY <2>1, <2>2
  <2>3. ASSUME NEW u \in Slots, NEW i \in Places, Uses(q, u, i), StopAt(q, u, i)
        PROVE  \/ /\ slot'[s].rec[j] /\ slot'[s].sid[j] = slot[s].sid[j]
                  /\ slot'[s].tp = slot[s].tp /\ slot'[s].source = slot[s].source
               \/ q.sid = slot[s].sid[j]
    <3>1. CASE u = s /\ i = j
      BY <2>3, <3>1 DEF Uses
    <3>2. CASE u # s
      BY <1>0, <2>3, <3>2 DEF StopAt, SetSlot
    <3>3. CASE u = s /\ i # j
      BY <1>0, <2>3, <3>3 DEF StopAt, SetSlot, SlotFields
    <3> QED BY <3>1, <3>2, <3>3
  <2> QED BY <1>3, <2>1, <2>2, <2>3, StopChanges
<1>4. ASSUME NEW u \in Slots, SlotThread(u)
      PROVE  /\ slot'[s].rec[j] /\ slot'[s].sid[j] = slot[s].sid[j]
             /\ slot'[s].tp = slot[s].tp /\ slot'[s].source = slot[s].source
             /\ (sent'[s] = NullPmt => sent[s] = NullPmt)
  <2>1. slot[s] \in SlotFields
    BY <1>0
  <2>2. /\ slot'[s] = slot[s] \/ slot'[s] = [slot[s] EXCEPT !.newCapmt = FALSE]
        /\ sent'[s] = NullPmt => sent[s] = NullPmt
    BY <1>4, ThreadLeavesMarked
  <2> QED BY <2>1, <2>2 DEF SlotFields
<1>5. ASSUME NEW t \in Sources, StartClear(t) PROVE slot' = slot /\ sent' = sent
  BY <1>5 DEF StartClear
<1>6. ASSUME NEW check \in CheckLive, SetCheckLiveSlot(check) PROVE slot' = slot /\ sent' = sent
  BY <1>6 DEF SetCheckLiveSlot
<1>7. CASE UNCHANGED vars
  BY <1>7 DEF vars
<1> QED BY <1>1, <1>2, <1>3, <1>4, <1>5, <1>6, <1>7 DEF Next

\* With one slot, whose module records, the input of its tuner stays the module's.
LEMMA UnroutedLeavesInput ==
  ASSUME TypeOK, NEW s \in Slots, Slots = {s}, Recording(s), NEW source \in Sources,
         Unrouted(source), route[slot[s].source] = s
  PROVE  route'[slot[s].source] = s
PROOF
<1>1. slot[s].source \in Sources /\ route \in [Sources -> Slots \cup {None}] /\ s \in Nat
  BY SlotsAssumption DEF TypeOK, SlotFields
<1>2. CASE slot[s].source = source
  <2>1. ~\E u \in Slots : /\ slot[u].source = source /\ Ready(u)
                          /\ \A r \in Slots : r <= u /\ slot[r].source = source => ~Recording(r)
    BY <1>1, <1>2
  <2> QED BY <1>1, <2>1 DEF Unrouted
<1>3. CASE slot[s].source # source
  BY <1>1, <1>3 DEF Unrouted
<1> QED BY <1>2, <1>3

LEMMA StepLeavesInputs == IInv /\ [Next]_vars => LeavesInputs
PROOF
<1> SUFFICES ASSUME IInv, [Next]_vars, NEW s \in Slots, Slots = {s}, Recording(s),
                    \E j \in Places : slot'[s].rec[j], route[slot[s].source] = s
             PROVE  route'[slot[s].source] = s
  BY DEF LeavesInputs, IInv, TypeOK, Recording
<1>0. /\ TypeOK /\ slot \in [Slots -> SlotFields] /\ slot[s].source \in Sources
      /\ route \in [Sources -> Slots \cup {None}] /\ slot[s].cam = "init"
  BY DEF IInv, TypeOK, SlotFields, SlotsTidy, Tidy, UnusedIsEmpty, Recording
<1>1. ASSUME NEW q \in Request, StartTakes(q) PROVE route' = route
  <2>1. Found(q) = s
    BY <1>1, FoundProps DEF StartTakes
  <2>2. slot[s].source = q.source
    BY <1>1, <2>1, FoundProps DEF StartTakes, Same, Room, Free, Offered, Usable
  <2> QED BY <1>1, <2>1, <2>2 DEF StartTakes
<1>2. ASSUME NEW q \in Request, StartRefused(q) PROVE route'[slot[s].source] = s
  BY <1>0, <1>2, RequestProps, UnroutedLeavesInput DEF StartRefused
<1>3. ASSUME NEW t \in Sources, StartClear(t) PROVE route'[slot[s].source] = s
  BY <1>0, <1>3, UnroutedLeavesInput DEF StartClear
<1>4. ASSUME NEW u \in Slots, SlotThread(u) PROVE route'[slot[s].source] = s
  <2>1. u = s
    OBVIOUS
  <2>2. CASE Removed(s)
    <3>1. slot'[s] = EmptySlot /\ EmptySlot.rec = NoMarks
      BY <1>0, <2>2 DEF Removed, SetSlot, EmptySlot
    <3> QED BY <3>1, PlacesProps
  <2>3. CASE SendCaPMT(s)
    BY <1>0, <2>3 DEF SendCaPMT
  <2>4. CASE Inserted(s) \/ ManagersUp(s) \/ InitDone(s) \/ CapmtSent(s) \/ RestoreInput(s)
    BY <1>0, <2>4 DEF Inserted, ManagersUp, InitDone, CapmtSent, RestoreInput
  <2> QED BY <1>4, <2>1, <2>2, <2>3, <2>4 DEF SlotThread
<1>5. ASSUME NEW q \in Request, Stop(q) PROVE route' = route
  BY <1>5 DEF Stop
<1>6. ASSUME NEW check \in CheckLive, SetCheckLiveSlot(check) PROVE route' = route
  BY <1>6 DEF SetCheckLiveSlot
<1>7. CASE UNCHANGED vars
  BY <1>7 DEF vars
<1> QED BY <1>1, <1>2, <1>3, <1>4, <1>5, <1>6, <1>7 DEF Next

\* Nothing the application starts or stops takes a slot from a recording, nor, with one
\* slot, the input of its tuner.
THEOREM RecordingIsUndisturbed == Spec => RecordingUndisturbed
PROOF
<1>1. IInv /\ [Next]_vars => [LeavesRecordings /\ LeavesInputs]_vars
  BY StepLeavesRecordings, StepLeavesInputs
<1> QED BY <1>1, InitInv, StepInv, PTL DEF Spec, RecordingUndisturbed
-----------------------------------------------------------------------------
(* A service that is watched, where live use counts.                       *)

\* A module that is not ready is not in use, and one for one service at a time has
\* only its first place in use.
OnePlace(r) == /\ r.cam # "init" => r.count = 0 /\ \A j \in Places : ~r.live[j]
               /\ ~r.multi => r.count <= 1 /\ \A j \in Places : r.live[j] => j = 0

LInv == IInv /\ \A s \in Slots : OnePlace(slot[s])

LEMMA ServesKeepsPlace ==
  ASSUME NEW q \in Request, NEW r \in SlotFields, NEW n \in SlotFields,
         Tidy(r), OnePlace(r), n.cam = r.cam, n.multi = r.multi, NewMarks(q, r, n),
         Left(r, n) \/ Cleared(r, n) \/ Joined(q, r, n) \/ Replaced(q, r, n)
  PROVE  OnePlace(n)
PROOF
<1>1. Tidy(n) /\ q.sid # 0
  BY StaysTidy, RequestProps
<1>2. \A j \in Places : n.live[j] => r.live[j] \/ n.sid[j] # 0
  BY <1>1 DEF NewMarks
<1>3. \A j \in Places : n.sid[j] # 0 => ~(j >= n.count) /\ j \in Nat
  BY <1>1, PlacesProps DEF Tidy, NoneBeyond
<1>4. n.count \in Nat /\ r.count \in Nat /\ \A j \in Places : j \in Nat
  BY NumbersAssumption, PlacesProps DEF SlotFields
<1>5. CASE n.cam # "init"
  <2>1. n.count = 0
    BY <1>5 DEF OnePlace, Left, Cleared, Joined, Replaced
  <2>2. \A j \in Places : ~n.live[j]
    BY <1>2, <1>3, <1>4, <1>5, <2>1 DEF OnePlace
  <2> QED BY <1>4, <2>1, <2>2 DEF OnePlace
<1>6. CASE n.cam = "init" /\ ~n.multi
  <2>1. n.count <= 1
    BY <1>6, <1>4 DEF OnePlace, Left, Cleared, Joined, Replaced
  <2>2. \A j \in Places : n.live[j] => j = 0
    BY <1>2, <1>3, <1>4, <1>6, <2>1 DEF OnePlace
  <2> QED BY <1>6, <2>1, <2>2 DEF OnePlace
<1>7. CASE n.cam = "init" /\ n.multi
  BY <1>7 DEF OnePlace
<1> QED BY <1>5, <1>6, <1>7

LEMMA InitLInv == Init => LInv
PROOF
<1> SUFFICES ASSUME Init PROVE LInv
  OBVIOUS
<1>1. /\ EmptySlot.count = 0 /\ EmptySlot.live = NoMarks
      /\ \A s \in Slots : slot[s] = EmptySlot
  BY DEF EmptySlot, Init
<1>2. OnePlace(EmptySlot)
  BY <1>1, PlacesProps DEF OnePlace
<1> QED BY <1>1, <1>2, InitInv DEF LInv

LEMMA StepLInv == LInv /\ [Next]_vars => LInv'
PROOF
<1> SUFFICES ASSUME LInv, [Next]_vars, NEW s \in Slots PROVE OnePlace(slot'[s])
  BY StepInv DEF LInv
<1>0. /\ IInv /\ slot \in [Slots -> SlotFields] /\ slot[s] \in SlotFields
      /\ Tidy(slot[s]) /\ OnePlace(slot[s])
  BY DEF LInv, IInv, TypeOK, SlotsTidy
<1>1. ASSUME NEW q \in Request, NEW t, Serves(q, t) PROVE OnePlace(slot'[s])
  <2>1. /\ slot'[s] \in SlotFields /\ slot'[s].cam = slot[s].cam /\ slot'[s].multi = slot[s].multi
        /\ NewMarks(q, slot[s], slot'[s])
        /\ \/ Left(slot[s], slot'[s]) \/ Cleared(slot[s], slot'[s])
           \/ Joined(q, slot[s], slot'[s]) \/ Replaced(q, slot[s], slot'[s])
    BY <1>1 DEF Serves
  <2> QED BY <1>0, <2>1, ServesKeepsPlace
<1>2. ASSUME NEW q \in Request, StartTakes(q) \/ StartRefused(q) PROVE OnePlace(slot'[s])
  BY <1>0, <1>1, <1>2, TakesServes, RefusedServes
<1>3. ASSUME NEW q \in Request, Stop(q) PROVE OnePlace(slot'[s])
  <2>1. ASSUME NEW u \in Slots, NEW j \in Places, StopAt(q, u, j)
        PROVE  OnePlace(slot'[s])
    <3>1. CASE u = s
      <4> DEFINE r == slot[s]
                 n == IF q.mode = "record" THEN [r EXCEPT !.sid[j] = 0, !.rec[j] = FALSE]
                                           ELSE [r EXCEPT !.sid[j] = 0, !.live[j] = FALSE]
      <4>1. slot'[s] = n
        BY <1>0, <2>1, <3>1 DEF StopAt, SetSlot
      <4> HIDE DEF r
      <4>2. /\ n.cam = r.cam /\ n.multi = r.multi /\ n.count = r.count
            /\ \A i \in Places : n.live[i] => r.live[i]
        BY <1>0 DEF SlotFields, r
      <4> HIDE DEF n
      <4> QED BY <1>0, <4>1, <4>2 DEF OnePlace, r
    <3>2. CASE u # s
      BY <1>0, <2>1, <3>2 DEF StopAt, SetSlot
    <3> QED BY <3>1, <3>2
  <2> QED BY <1>0, <1>3, <2>1, StopChanges
<1>4. ASSUME NEW u \in Slots, SlotThread(u) PROVE OnePlace(slot'[s])
  <2>1. CASE u # s
    <3>1. slot'[s] = slot[s]
      BY <1>0, <1>4, <2>1 DEF SlotThread, Inserted, RestoreInput, ManagersUp, InitDone,
         SendCaPMT, CapmtSent, Removed, SetSlot
    <3> QED BY <1>0, <3>1
  <2>2. CASE u = s /\ (Inserted(s) \/ RestoreInput(s) \/ ManagersUp(s) \/ InitDone(s))
    <3>1. slot[s].cam # "init"
      BY <2>2 DEF Inserted, RestoreInput, ManagersUp, InitDone
    <3>2. slot'[s].count = slot[s].count /\ slot'[s].live = slot[s].live
      <4>1. CASE Inserted(s) \/ InitDone(s) \/ RestoreInput(s)
        BY <1>0, <4>1 DEF Inserted, RestoreInput, InitDone, SetSlot, SlotFields
      <4>2. CASE ManagersUp(s)
        <5>1. PICK multi \in Multi, cc \in BOOLEAN :
                SetSlot(s, [slot[s] EXCEPT !.cam = "managers", !.multi = multi, !.cc = cc])
          BY <4>2 DEF ManagersUp
        <5> QED BY <1>0, <5>1 DEF SetSlot, SlotFields
      <4> QED BY <2>2, <4>1, <4>2
    <3> QED BY <1>0, <3>1, <3>2 DEF OnePlace
  <2>3. CASE u = s /\ (SendCaPMT(s) \/ CapmtSent(s))
    <3>1. /\ slot'[s].cam = slot[s].cam /\ slot'[s].multi = slot[s].multi
          /\ slot'[s].count = slot[s].count /\ slot'[s].live = slot[s].live
      BY <1>0, <2>3 DEF SendCaPMT, CapmtSent, SetSlot, SlotFields
    <3> QED BY <1>0, <3>1 DEF OnePlace
  <2>4. CASE u = s /\ Removed(s)
    <3>1. slot'[s] = EmptySlot /\ EmptySlot.count = 0 /\ EmptySlot.live = NoMarks
      BY <1>0, <2>4 DEF Removed, SetSlot, EmptySlot
    <3> QED BY <3>1, PlacesProps DEF OnePlace
  <2> QED BY <1>4, <2>1, <2>2, <2>3, <2>4 DEF SlotThread
<1>5. ASSUME NEW t \in Sources, StartClear(t) PROVE slot' = slot
  BY <1>5 DEF StartClear
<1>6. ASSUME NEW check \in CheckLive, SetCheckLiveSlot(check) PROVE slot' = slot
  BY <1>6 DEF SetCheckLiveSlot
<1>7. CASE UNCHANGED vars
  BY <1>0, <1>7 DEF vars
<1> QED BY <1>0, <1>2, <1>3, <1>4, <1>5, <1>6, <1>7 DEF Next

LEMMA StepLeavesLive == LInv /\ [Next]_vars => LeavesLive
PROOF
<1> SUFFICES ASSUME LInv, [Next]_vars, NEW s \in Slots, NEW j \in Places, Slots = {s},
                    checkLive, slot[s].live[j], ~slot[s].multi,
                    slot'[s].cam # "out", active \subseteq active'
             PROVE  slot'[s].tp = slot[s].tp /\ slot'[s].sid[j] = slot[s].sid[j]
  BY DEF LeavesLive, LInv, IInv, TypeOK, SlotFields
<1>0. /\ IInv /\ TypeOK /\ slot \in [Slots -> SlotFields] /\ slot[s] \in SlotFields
      /\ InLiveUse(s) /\ slot[s].cam = "init"
      /\ \A i \in Places : slot[s].live[i] => i = 0
  BY DEF LInv, IInv, TypeOK, OnePlace, InLiveUse
<1>a. j = 0 /\ LastLive(s) = 0
  <2>1. j = 0 /\ slot[s].live[0] /\ 0 \in Places /\ 0 <= 0
    BY <1>0
  <2>2. LastLive(s) \in Places /\ slot[s].live[LastLive(s)]
    BY <1>0, <2>1 DEF LastLive
  <2> QED BY <1>0, <2>1, <2>2
<1>b. \A q \in Request : ~Blocked(q, s)
  BY <1>0 DEF Blocked
<1>c. ASSUME NEW q \in Request
      PROVE  Left(slot[s], Visit(q, s)) /\ Visit(q, s) \in SlotFields
  BY <1>0, <1>b, VisitProps
<1>1. ASSUME NEW q \in Request, StartTakes(q)
      PROVE  slot'[s].tp = slot[s].tp /\ slot'[s].sid[j] = slot[s].sid[j]
  <2> DEFINE e == Entered(q, s)
  <2>1. Found(q) = s /\ Found(q) # None
    BY <1>0, <1>1, FoundProps DEF StartTakes
  <2>2. slot'[s] = Marked(q, e)
    BY <1>1, <2>1 DEF StartTakes
  <2>3. /\ e \in SlotFields /\ e.tp = q.tp /\ e.source = q.source
        /\ \/ Left(slot[s], e)
           \/ Same(q) = {} /\ (Joined(q, slot[s], e) \/ Replaced(q, slot[s], e))
    BY <1>0, <2>1, EnteredProps
  <2> HIDE DEF e
  <2>4. Left(e, Marked(q, e))
    BY <2>3, MarkedProps
  <2>5. e.tp = slot[s].tp /\ e.sid[j] = slot[s].sid[j]
    <3>1. CASE Left(slot[s], e)
      BY <3>1 DEF Left
    <3>2. CASE Same(q) = {} /\ Replaced(q, slot[s], e)
      <4>1. s \notin Room(q)
        BY DEF Room
      <4>2. s \in Free(q)
        BY <1>0, <2>1, <3>2, <4>1, FoundProps
      <4>3. slot[s].tp = q.tp /\ slot[s].sid[0] = q.sid
        BY <1>0, <1>a, <4>2 DEF Free, Offered
      <4>4. e.sid[0] = q.sid
        BY <3>2, PlacesProps DEF Replaced
      <4> QED BY <1>a, <2>3, <4>3, <4>4
    <3>3. CASE Joined(q, slot[s], e)
      BY <3>3 DEF Joined
    <3> QED BY <2>3, <3>1, <3>2, <3>3
  <2> QED BY <2>2, <2>4, <2>5 DEF Left
<1>2. ASSUME NEW q \in Request, StartRefused(q)
      PROVE  slot'[s].tp = slot[s].tp /\ slot'[s].sid[j] = slot[s].sid[j]
  <2>1. slot'[s] = Visit(q, s)
    BY <1>2 DEF StartRefused
  <2> QED BY <1>c, <2>1 DEF Left
<1>3. ASSUME NEW q \in Request, Stop(q) PROVE FALSE
  BY <1>3 DEF Stop
<1>4. ASSUME NEW u \in Slots, SlotThread(u)
      PROVE  slot'[s].tp = slot[s].tp /\ slot'[s].sid[j] = slot[s].sid[j]
  <2>1. u = s
    OBVIOUS
  <2>2. CASE Removed(s)
    <3>1. slot'[s] = EmptySlot /\ EmptySlot.cam = "out"
      BY <1>0, <2>2 DEF Removed, SetSlot, EmptySlot
    <3> QED BY <3>1
  <2>3. CASE SendCaPMT(s)
    BY <2>3 DEF SendCaPMT
  <2>4. CASE CapmtSent(s)
    BY <1>0, <2>4 DEF CapmtSent, SetSlot, SlotFields
  <2>5. ~(Inserted(s) \/ ManagersUp(s) \/ InitDone(s) \/ RestoreInput(s))
    BY <1>0 DEF Inserted, ManagersUp, InitDone, RestoreInput
  <2> QED BY <1>4, <2>1, <2>2, <2>3, <2>4, <2>5 DEF SlotThread
<1>5. ASSUME NEW t \in Sources, StartClear(t) PROVE slot' = slot
  BY <1>5 DEF StartClear
<1>6. ASSUME NEW check \in CheckLive, SetCheckLiveSlot(check) PROVE slot' = slot
  BY <1>6 DEF SetCheckLiveSlot
<1>7. CASE UNCHANGED vars
  BY <1>7 DEF vars
<1> QED BY <1>1, <1>2, <1>3, <1>4, <1>5, <1>6, <1>7 DEF Next

\* Once live use counts, a service that is watched keeps the only slot of a box, if its
\* module is for one service at a time.
THEOREM WatchedKeepsSlot == Spec => LiveSlotIsKept
PROOF
<1>1. LInv /\ [Next]_vars => [LeavesLive]_vars
  BY StepLeavesLive
<1> QED BY <1>1, InitLInv, StepLInv, PTL DEF Spec, LiveSlotIsKept
=============================================================================
