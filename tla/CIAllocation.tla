---------------------------- MODULE CIAllocation ----------------------------
(***************************************************************************)
(* How the CI slots of a box are given to scrambled services               *)
(* (common/ca_ci.cpp): SendCAPMT as the application calls it to start and  *)
(* to stop a service, the choice of a slot, the marks that say what a slot *)
(* is used for, the tuner inputs (/proc/stb/tsmux/input<n>), and the part  *)
(* of each slot's thread that hands the buffered CAPMT to the module.      *)
(*                                                                         *)
(* A call of SendCAPMT is one step, but the slot's thread takes two for a  *)
(* CAPMT: it sends what is in the buffer, then clears newCapmt.            *)
(* What happens inside a module is in CISessions; resendKey and the pids   *)
(* of a CAPMT are left out.                                                *)
(***************************************************************************)
EXTENDS Naturals, FiniteSets

CONSTANTS Slots,        \* slot numbers, 0 or 0 and 1
          Tps, Sids,    \* transponders and service ids; 0 stands for none
          Sources,      \* tuners; 0 is TUNER_A
          MaxMulti,     \* CI_MAX_MULTI
          CamMatches,   \* the pairs <<slot, sid>> a module has a CA id for
          Blacklist,    \* service ids in /etc/blacklist_slot_<n>
          Multi,        \* may a module be a multi-service one? (set of answers)
          CheckLive,    \* what setCheckLiveSlot is called with
          MaxActive,    \* bound: services running at once
          None,         \* no slot, no tuner, no CAPMT
          NullPmt       \* the CAPMT that ends the work of a module

ASSUME SlotsAssumption   == Slots \in {{0}, {0, 1}}
ASSUME NumbersAssumption ==
  /\ Tps \subseteq Nat \ {0} /\ Sids \subseteq Nat \ {0}
  /\ Sources \subseteq Nat /\ 0 \in Sources
  /\ MaxMulti \in Nat \ {0} /\ MaxActive \in Nat
ASSUME SetsAssumption ==
  /\ Blacklist \subseteq Sids
  /\ Multi \subseteq BOOLEAN /\ Multi # {} /\ CheckLive \subseteq BOOLEAN
ASSUME NoneAssumption ==
  /\ None \notin Slots \cup Sources \cup (Tps \X Sids)
  /\ NullPmt \notin (Tps \X Sids) \cup {None}

VARIABLES
  slot,        \* slot[s]: the fields of eDVBCISlot that matter here
  route,       \* route[t]: the slot whose module tuner t goes through, or None
  lastSource,  \* last_source; None is -1
  checkLive,   \* checkLiveSlot
  active,      \* what the application has started and not stopped
  sending,     \* slots whose thread is between SendCaPMT and newCapmt = false
  sent         \* the last CAPMT each module was given

vars == <<slot, route, lastSource, checkLive, active, sending, sent>>

Places   == 0 .. MaxMulti - 1
Modes    == {"live", "record"}
Request  == [tp : Tps, sid : Sids, source : Sources, mode : Modes]
Pmts     == Tps \X Sids

NoSids  == [j \in Places |-> 0]
NoMarks == [j \in Places |-> FALSE]

\* A slot as the constructor, ci_removed and ModuleReset leave it.
EmptySlot == [cam |-> "out", multi |-> FALSE, cc |-> FALSE, tp |-> 0, sid |-> NoSids,
              source |-> 0, live |-> NoMarks, rec |-> NoMarks, count |-> 0,
              scrambled |-> FALSE, black |-> FALSE, newCapmt |-> FALSE, pmt |-> None]

Init ==
  /\ slot = [s \in Slots |-> EmptySlot]
  /\ route = [t \in Sources |-> None]
  /\ lastSource = None
  /\ checkLive = FALSE
  /\ active = {} /\ sending = {}
  /\ sent = [s \in Slots |-> None]

-----------------------------------------------------------------------------
(* The choice of a slot for a request q: FindFreeSlot.                     *)

Managers(s)  == slot[s].cam \in {"managers", "init"}   \* hasCAManager and hasAppManager
Ready(s)     == slot[s].cam = "init"                   \* slot->init
Recording(s) == \E j \in Places : slot[s].rec[j]
InLiveUse(s) == \E j \in Places : slot[s].live[j]
LastLive(s)  == CHOOSE j \in Places : slot[s].live[j] /\ \A i \in Places : slot[s].live[i] => i <= j
Lowest(S)    == CHOOSE s \in S : \A r \in S : s <= r

\* First loop: a slot that has the service already.
Same(q) == {s \in Slots : /\ slot[s].tp = q.tp /\ slot[s].source = q.source
                          /\ \E j \in Places : slot[s].sid[j] = q.sid}

\* Second loop: a multi-service module on the transponder, with places left.
Room(q) == {s \in Slots : /\ slot[s].multi /\ slot[s].tp = q.tp
                          /\ slot[s].source = q.source /\ slot[s].count < MaxMulti}

\* Slip: the mark of a recording is forgotten.
Usable_recordingToo(s) == Managers(s)

\* Third loop: a module that no recording uses, nor, if that is asked for,
\* another live service.
Usable(s) == Managers(s) /\ ~Recording(s)
\* Slip: checkLiveSlot is not looked at.
Offered_noLiveTest(q, s) == Usable(s) /\ q.sid \notin Blacklist
Offered(q, s) ==
  /\ Usable(s) /\ q.sid \notin Blacklist
  /\ \/ ~checkLive \/ ~InLiveUse(s)
     \/ slot[s].tp = q.tp /\ slot[s].sid[LastLive(s)] = q.sid
Free(q) == {s \in Slots : Offered(q, s) /\ Ready(s) /\ <<s, q.sid>> \in CamMatches}

Searches(q) == (\E s \in Slots : Ready(s)) /\ Same(q) = {} /\ Room(q) = {}
\* Slip: a free module is taken before the one that has the service is looked for.
Found_freeFirst(q) ==
  IF \A s \in Slots : ~Ready(s) THEN None
  ELSE IF Free(q) # {} THEN Lowest(Free(q))
  ELSE IF Same(q) # {} THEN Lowest(Same(q))
  ELSE IF Room(q) # {} THEN Lowest(Room(q))
  ELSE None
Found(q) ==
  IF \A s \in Slots : ~Ready(s) THEN None
  ELSE IF Same(q) # {} THEN Lowest(Same(q))
  ELSE IF Room(q) # {} THEN Lowest(Room(q))
  ELSE IF Free(q) # {} THEN Lowest(Free(q))
  ELSE None

\* What the third loop does to the slots it comes by.
Blocked(q, s) == /\ Searches(q) /\ (Found(q) = None \/ s <= Found(q))
                 /\ Usable(s) /\ q.sid \in Blacklist
                 /\ slot[s].source = q.source /\ (~checkLive \/ ~InLiveUse(s))

Visit(q, s) ==
  IF ~Searches(q) \/ (Found(q) # None /\ s > Found(q)) THEN slot[s]
  ELSE IF Blocked(q, s)
    THEN [slot[s] EXCEPT !.black = TRUE, !.sid = NoSids, !.tp = 0, !.scrambled = FALSE]
    ELSE [slot[s] EXCEPT
            !.black = @ /\ (~Managers(s) \/ Blacklist = {} \/ q.sid \in Blacklist),
            !.scrambled = @ /\ ~(/\ Offered(q, s) /\ Ready(s)
                                 /\ s + 1 = Cardinality({r \in Slots : Ready(r)}))]

-----------------------------------------------------------------------------
(* SendCAPMT.                                                              *)

\* The slot It2: the only other one, if its module is ready.
IsOther(s, t) == s # t /\ Ready(s)

\* The service that another slot has on the same tuner gives way to q in t,
\* unless it is a recording.
Displaced(q, s, t) == IsOther(s, t) /\ Visit(q, s).source = q.source
                                    /\ Visit(q, s).tp # 0 /\ ~Recording(s)

\* The slot that was chosen, with the service in a place of its own ...
Entered(q, s) ==
  LET r == [Visit(q, s) EXCEPT
              !.scrambled = TRUE,
              !.black = @ \/ \E o \in Slots : /\ IsOther(o, s) /\ Visit(q, o).source = q.source
                                              /\ Visit(q, o).tp # 0 /\ Recording(o)
                                              /\ slot[s].cc /\ slot[o].cc]
      known == \E j \in Places : r.sid[j] = q.sid
  IN  IF r.multi /\ r.tp = q.tp /\ r.source = q.source /\ ~known /\ r.count < MaxMulti
      THEN [r EXCEPT !.sid[r.count] = q.sid, !.count = @ + 1,
                     !.pmt = <<q.tp, q.sid>>, !.newCapmt = TRUE]
      ELSE IF r.tp # q.tp \/ ~known \/ r.source # q.source
      THEN [r EXCEPT !.sid = [NoSids EXCEPT ![0] = q.sid], !.count = 1, !.tp = q.tp,
                     !.source = q.source, !.pmt = <<q.tp, q.sid>>, !.newCapmt = TRUE]
      ELSE r

\* ... and the mark that says what for.
Marked(q, r) ==
  LET mine == {j \in Places : ~r.black /\ r.sid[j] = q.sid}
  IN  IF q.mode = "record"
      THEN [r EXCEPT !.rec  = [j \in Places |-> @[j] \/ j \in mine],
                     !.live = [j \in Places |-> @[j] /\ (checkLive \/ j \notin mine)]]
      ELSE [r EXCEPT !.live = [j \in Places |-> @[j] \/ (j \in mine /\ ~r.rec[j])]]

\* No slot for the service: its tuner goes past the modules, unless one records.
Unrouted(source) ==
  /\ route' = [route EXCEPT ![source] =
                 IF \E s \in Slots :
                      /\ slot[s].source = source /\ Ready(s)
                      /\ \A r \in Slots : r <= s /\ slot[r].source = source => ~Recording(r)
                 THEN None ELSE @]
  /\ lastSource' = IF \E s \in Slots : ~Ready(s) THEN source ELSE lastSource

CanStart(q) == Cardinality(active \cup {q}) <= MaxActive

StartTakes(q) ==
  LET t == Found(q) IN
  /\ t # None /\ CanStart(q)
  /\ slot' = [s \in Slots |->
                IF s = t THEN Marked(q, Entered(q, s))
                ELSE IF Displaced(q, s, t)
                     THEN [Visit(q, s) EXCEPT !.scrambled = FALSE, !.tp = 0, !.sid = NoSids]
                     ELSE Visit(q, s)]
  /\ sent' = [s \in Slots |-> IF Displaced(q, s, t) \/ Blocked(q, s) THEN NullPmt ELSE sent[s]]
  /\ route' = IF ~checkLive /\ q.mode = "record" /\ slot[t].source # q.source
              THEN [route EXCEPT ![slot[t].source] = None] ELSE route
  /\ active' = active \cup {q}
  /\ UNCHANGED <<lastSource, checkLive, sending>>

StartRefused(q) ==
  /\ Found(q) = None /\ CanStart(q)
  /\ slot' = [s \in Slots |-> Visit(q, s)]
  /\ sent' = [s \in Slots |-> IF Blocked(q, s) THEN NullPmt ELSE sent[s]]
  /\ Unrouted(q.source)
  /\ active' = active \cup {q}
  /\ UNCHANGED <<checkLive, sending>>

\* A service that is not scrambled: no slot is looked for.
StartClear(source) ==
  /\ Unrouted(source)
  /\ UNCHANGED <<slot, checkLive, active, sending, sent>>

\* StopLiveCI and StopRecordCI: the first place with the mark and the service.
Uses(q, s, j) ==
  /\ slot[s].tp = q.tp /\ slot[s].source = q.source /\ slot[s].sid[j] = q.sid
  /\ IF q.mode = "record" THEN slot[s].rec[j] ELSE slot[s].live[j]

Stop(q) ==
  /\ q \in active /\ active' = active \ {q}
  /\ LET users == {s \in Slots : \E j \in Places : Uses(q, s, j)} IN
     IF users = {} THEN UNCHANGED slot
     ELSE LET s == Lowest(users)
              j == Lowest({i \in Places : Uses(q, s, i)})
          IN  slot' = [slot EXCEPT ![s] =
                         IF q.mode = "record" THEN [@ EXCEPT !.sid[j] = 0, !.rec[j] = FALSE]
                         ELSE [@ EXCEPT !.sid[j] = 0, !.live[j] = FALSE]]
  /\ UNCHANGED <<route, lastSource, checkLive, sending, sent>>

SetCheckLiveSlot(check) ==
  /\ checkLive' = check
  /\ UNCHANGED <<slot, route, lastSource, active, sending, sent>>

-----------------------------------------------------------------------------
(* The thread of a slot: slot_pollthread.                                  *)

SetSlot(s, r) == slot' = [slot EXCEPT ![s] = r]

\* ci_inserted: camIsReady.
Inserted(s) ==
  /\ slot[s].cam = "out" /\ SetSlot(s, [slot[s] EXCEPT !.cam = "in"])
  /\ UNCHANGED <<route, lastSource, checkLive, active, sending, sent>>

\* A module comes back: its tuner goes through it again.
RestoreInput(s) ==
  /\ slot[s].cam \in {"in", "managers"} /\ lastSource # None
  /\ SetSlot(s, [slot[s] EXCEPT !.source = lastSource])
  /\ route' = [route EXCEPT ![lastSource] = s]
  /\ lastSource' = None
  /\ UNCHANGED <<checkLive, active, sending, sent>>

\* The sessions of the application and the CA manager are there.
ManagersUp(s) ==
  /\ slot[s].cam = "in"
  /\ \E multi \in Multi, cc \in BOOLEAN :
       SetSlot(s, [slot[s] EXCEPT !.cam = "managers", !.multi = multi, !.cc = cc])
  /\ UNCHANGED <<route, lastSource, checkLive, active, sending, sent>>

\* The thread looks at lastSource before it comes here.
InitDone(s) ==
  /\ slot[s].cam = "managers" /\ lastSource = None
  /\ SetSlot(s, [slot[s] EXCEPT !.cam = "init"])
  /\ UNCHANGED <<route, lastSource, checkLive, active, sending, sent>>

SendCaPMT(s) ==
  /\ Managers(s) /\ slot[s].newCapmt /\ s \notin sending
  /\ route' = [route EXCEPT ![slot[s].source] = s]
  /\ sent' = [sent EXCEPT ![s] = slot[s].pmt]
  /\ sending' = sending \cup {s}
  /\ UNCHANGED <<slot, lastSource, checkLive, active>>

CapmtSent(s) ==
  /\ s \in sending /\ sending' = sending \ {s}
  /\ SetSlot(s, [slot[s] EXCEPT !.newCapmt = FALSE])
  /\ UNCHANGED <<route, lastSource, checkLive, active, sent>>

\* ci_removed
Removed(s) ==
  /\ slot[s].cam # "out" /\ s \notin sending
  /\ SetSlot(s, EmptySlot)
  /\ route' = [route EXCEPT ![slot[s].source] = None]
  /\ lastSource' = slot[s].source
  /\ sent' = [sent EXCEPT ![s] = None]
  /\ UNCHANGED <<checkLive, active, sending>>

SlotThread(s) == \/ Inserted(s) \/ RestoreInput(s) \/ ManagersUp(s) \/ InitDone(s)
                 \/ SendCaPMT(s) \/ CapmtSent(s) \/ Removed(s)

Next ==
  \/ \E q \in Request : StartTakes(q) \/ StartRefused(q) \/ Stop(q)
  \/ \E t \in Sources : StartClear(t)
  \/ \E check \in CheckLive : SetCheckLiveSlot(check)
  \/ \E s \in Slots : SlotThread(s)

\* A slot's thread never blocks for ever: its waits have time limits.
Fairness == \A s \in Slots : WF_vars(SendCaPMT(s) \/ CapmtSent(s))

Spec     == Init /\ [][Next]_vars
FairSpec == Spec /\ Fairness

-----------------------------------------------------------------------------
(* Properties.                                                             *)

\* The fields of a slot, with the places of a service within CI_MAX_MULTI.
SlotFields ==
  [cam : {"out", "in", "managers", "init"}, multi : BOOLEAN, cc : BOOLEAN,
   tp : Tps \cup {0}, sid : [Places -> Sids \cup {0}], source : Sources,
   live : [Places -> BOOLEAN], rec : [Places -> BOOLEAN], count : 0 .. MaxMulti,
   scrambled : BOOLEAN, black : BOOLEAN, newCapmt : BOOLEAN, pmt : Pmts \cup {None}]

\* A tuner goes through a slot or through none, and a module has been given the
\* CAPMT of a service, the empty one, or nothing.
TypeOK ==
  /\ slot \in [Slots -> SlotFields]
  /\ route \in [Sources -> Slots \cup {None}]
  /\ lastSource \in Sources \cup {None}
  /\ checkLive \in BOOLEAN
  /\ active \subseteq Request /\ sending \subseteq Slots
  /\ sent \in [Slots -> Pmts \cup {None, NullPmt}]

\* A slot is marked as used by a recording only while that recording runs:
\* the mark names its service, and StopRecordCI will find it.  (It keeps the
\* slot from everybody else, so a mark that stays is a slot that is lost.)  One
\* case is left out: with setCheckLiveSlot a place can have both marks, and the
\* end of the live use then clears the service and leaves the other mark.
RecordMarkHasRecording ==
  \A s \in DOMAIN slot : \A j \in DOMAIN slot[s].rec :
    slot[s].rec[j] =>
      \/ [tp |-> slot[s].tp, sid |-> slot[s].sid[j],
          source |-> slot[s].source, mode |-> "record"] \in active
      \/ TRUE \in CheckLive /\ slot[s].sid[j] = 0

\* Nothing the application starts or stops takes a slot from a recording: until
\* the recording, or the watching of the same service, is stopped or the module
\* is pulled, its service, transponder and tuner stay as they are and no empty
\* CAPMT is sent to the module.
LeavesRecordings ==
  \A s \in DOMAIN slot : \A j \in DOMAIN slot[s].rec :
    slot[s].rec[j] /\ slot[s].sid[j] # 0 /\ slot'[s].cam # "out" =>
      \/ /\ slot'[s].rec[j] /\ slot'[s].sid[j] = slot[s].sid[j]
         /\ slot'[s].tp = slot[s].tp /\ slot'[s].source = slot[s].source
         /\ (sent'[s] = NullPmt => sent[s] = NullPmt)
      \/ \E q \in active \ active' : q.sid = slot[s].sid[j]

\* No service of a tuner has two slots: SendCAPMT called again finds the first.
OneSlotPerService ==
  \A s, t \in DOMAIN slot : \A i \in DOMAIN slot[s].sid, j \in DOMAIN slot[t].sid :
    s # t /\ slot[s].sid[i] # 0 /\ slot[s].sid[i] = slot[t].sid[j] =>
      <<slot[s].tp, slot[s].source>> # <<slot[t].tp, slot[t].source>>

\* Both: what Stop finds is what was started, and all of it.
SlotsAreAccountedFor == OneSlotPerService /\ RecordMarkHasRecording

\* With one slot, nothing takes the tuner's input from the module of a running
\* recording: not a clear service, not a request that finds no slot.
LeavesInputs ==
  \A s \in DOMAIN slot :
    DOMAIN slot = {s} /\ Recording(s) /\ Recording(s)' /\ route[slot[s].source] = s
    => route'[slot[s].source] = s

\* Both: a recording keeps what it was given.
RecordingUndisturbed == [][LeavesRecordings /\ LeavesInputs]_vars

\* Once live use counts (setCheckLiveSlot), a service that is watched keeps the
\* only slot of a box, if its module is for one service at a time: no other start
\* takes it, for watching or recording.
LeavesLive ==
  \A s \in DOMAIN slot : \A j \in DOMAIN slot[s].live :
    /\ DOMAIN slot = {s} /\ checkLive /\ slot[s].live[j] /\ ~slot[s].multi
    /\ slot'[s].cam # "out" /\ active \subseteq active'
    => slot'[s].tp = slot[s].tp /\ slot'[s].sid[j] = slot[s].sid[j]
LiveSlotIsKept == [][LeavesLive]_vars

\* A CAPMT that has arrived in a slot is sent to the module, unless another
\* takes its place or the module is pulled.
ArrivedCapmtIsSent ==
  \A s \in Slots, p \in Pmts :
    (slot[s].pmt = p) ~> (sent[s] \in {p, NullPmt} \/ slot[s].pmt # p)
=============================================================================
