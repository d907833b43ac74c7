----------------------------- MODULE CISessions -----------------------------
(***************************************************************************)
(* One CI slot of an ARM or MIPS box and the module in it: the session     *)
(* layer (dvbci_session.cpp), the resources a module opens sessions to     *)
(* (resource, application and CA manager, date-time, MMI), the slot's      *)
(* thread (slot_pollthread) and the application's menu calls.              *)
(*                                                                         *)
(* The thread of the slot is the only one that touches the session table   *)
(* here, so one pass of its loop is one step; the application only looks   *)
(* at flags and pushes to the send queue.  ModuleReset sleeps until the    *)
(* thread has seen eStatusReset; that it sleeps long enough is assumed.    *)
(* APDUs are known by their names; CAPMT contents are in CIAllocation,     *)
(* content control is in CCAuthentication.  mmiOpened only slows the loop  *)
(* down and is left out.                                                   *)
(***************************************************************************)
EXTENDS Naturals, Sequences, FiniteSets

CONSTANTS MaxSessions,  \* SLMS - 1
          Kinds,        \* the resources the module opens sessions to
          Closes,       \* the kinds of session it may close
          MaxQueue,     \* bound: messages the module lets the host queue up
          MaxCommands   \* bound: messages with which the application adds its own

Resources == {"rm", "am", "ca", "dt", "mmi", "hc"}

Assumptions ==
  /\ MaxSessions \in Nat \ {0}
  /\ Kinds \subseteq Resources \cup {"unknown"} /\ Closes \subseteq Kinds
  /\ MaxQueue \in 2 .. 6 /\ MaxCommands \in 0 .. MaxQueue

VARIABLES
  status,   \* slot->status
  host,     \* the slot's fields, its sessions and its send queue
  mod,      \* mod[n]: the kind of the module's session n, Nil, or "closing"
  opening,  \* the kinds the module has asked a session for
  owes,     \* the enquiries <<n, name>> of the host the module has to answer
  asked,    \* the enquiries <<n, name>> of the module the host has to answer
  data      \* what the module has sent and the host has not read

vars == <<status, host, mod, opening, owes, asked, data>>

Nil    == "none"
Numbers == 1 .. MaxSessions
States  == {"InCreation", "InDeletion", "Started", "Final", "FirstProfileEnquiry",
            "ProfileEnquiry", "ProfileChange", "SendDateTime", "DisplayReply", "Idle"}

\* A message: open, close and apdu from the module; opened, closed and apdu from the host.
Msg(type, n, name) == [type |-> type, n |-> n, name |-> name]

NoSession == [kind |-> Nil, state |-> "Final", action |-> FALSE]

\* The flags and pointers of a slot without module.  A pointer to a session is
\* the number it sends under: sessions are taken from the table, never freed.
EmptyHost ==
  [camIsReady |-> FALSE, init |-> FALSE, hasApp |-> FALSE, hasCA |-> FALSE, hasMMI |-> FALSE,
   app |-> 0, ca |-> 0, mmi |-> 0,
   table |-> [n \in Numbers |-> NoSession], queue |-> <<>>]

Init ==
  /\ status = "None" /\ host = EmptyHost
  /\ mod = [n \in Numbers |-> Nil] /\ opening = {} /\ owes = {} /\ asked = {} /\ data = <<>>

-----------------------------------------------------------------------------
(* The send queue is a std::priority_queue whose messages all have the     *)
(* same priority: up to three leave it in order; of four, the third        *)
(* overtakes the second.                                                   *)

Push(h, m) == [h EXCEPT !.queue = Append(@, m)]

\* Mutant: the third overtakes the second as soon as there are three.
Popped_early(q) == IF Len(q) <= 2 THEN Tail(q) ELSE <<q[3], q[2]>> \o SubSeq(q, 4, Len(q))

Popped(q) ==
  IF Len(q) <= 3 THEN Tail(q)
  ELSE <<q[3], q[2], q[Len(q)]>> \o SubSeq(q, 4, Len(q) - 1)

-----------------------------------------------------------------------------
(* Sessions: receiveData and pollAll.                                      *)

InUse(h, n)       == h.table[n].kind # Nil
SetState(h, n, s) == [h EXCEPT !.table[n].state = s]
SetAction(h, n)   == [h EXCEPT !.table[n].action = TRUE]
Lowest(S)         == CHOOSE n \in S : \A k \in S : n <= k

\* Mutant: the search takes a session that is in use when it has nothing to do.
Opened_idle(h, kind) ==
  LET n == Lowest({k \in Numbers : ~h.table[k].action} \cup {MaxSessions})
  IN  Push([h EXCEPT !.table[n] = [kind |-> kind, state |-> "Started", action |-> TRUE]],
           Msg("opened", n, kind))

\* The constructors of the application manager and of MMI leave a pointer to the
\* session in the slot.
ConstructedAM(h, n)  == [h EXCEPT !.hasApp = TRUE, !.app = n]
ConstructedMMI(h, n) == [h EXCEPT !.hasMMI = TRUE, !.mmi = n]

Constructed(h, n, kind) ==
  LET g == [h EXCEPT !.table[n] = [kind |-> kind, state |-> "Started", action |-> TRUE]]
  IN  CASE kind = "am" -> ConstructedAM(g, n) [] kind = "mmi" -> ConstructedMMI(g, n) [] OTHER -> g

\* createSession and the response.
Opened(h, kind) ==
  LET free == {n \in Numbers : ~InUse(h, n)}
      n    == Lowest(free)
  IN  IF free = {} \/ kind \notin Resources
      THEN Push(h, Msg("opened", 0, kind))
      ELSE Push(Constructed(h, n, kind), Msg("opened", n, kind))

\* receivedAPDU of each kind of session; the application manager only reads the
\* module's name from its information, host control reads nothing.
ReceivedByRM(h, n, name) ==
  CASE name = "profileEnq" -> SetAction(SetState(h, n, "ProfileEnquiry"), n)
    [] name = "profile" /\ h.table[n].state = "FirstProfileEnquiry" -> SetAction(h, n)
    [] name = "profile" /\ h.table[n].state # "FirstProfileEnquiry" -> SetState(h, n, "Final")
    [] OTHER -> h

ReceivedByAM(h, n, name) == h

ReceivedByCA(h, n, name) ==
  IF name = "caInfo" THEN [h EXCEPT !.hasCA = TRUE, !.ca = n] ELSE h

ReceivedByDT(h, n, name) ==
  IF name = "dateTimeEnq" THEN SetAction(SetState(h, n, "SendDateTime"), n) ELSE h

\* stopMMI, when the module closes the dialogue.
MMIClosed(h, n) == Push(h, Msg("apdu", n, "mmiClose"))

ReceivedByMMI(h, n, name) ==
  CASE name = "displayControl" -> SetAction(SetState(h, n, "DisplayReply"), n)
    [] name = "mmiClose"       -> MMIClosed(h, n)
    [] OTHER                   -> h

Received(h, n, name) ==
  LET kind == h.table[n].kind IN
  CASE kind = "rm"  -> ReceivedByRM(h, n, name)
    [] kind = "am"  -> ReceivedByAM(h, n, name)
    [] kind = "ca"  -> ReceivedByCA(h, n, name)
    [] kind = "dt"  -> ReceivedByDT(h, n, name)
    [] kind = "mmi" -> ReceivedByMMI(h, n, name)
    [] kind = "hc"  -> h

\* The session layer's part of receiveData.
Handled(h, m) ==
  CASE m.type = "open" -> Opened(h, m.name)
    [] m.type = "close" /\ InUse(h, m.n) -> SetAction(SetState(h, m.n, "InDeletion"), m.n)
    [] m.type = "apdu"  /\ InUse(h, m.n) -> Received(h, m.n, m.name)
    [] OTHER -> h

\* A doAction that sends an APDU (or Nil), sets the state and returns `again'.
Act(h, n, again, state, name) ==
  LET g == [h EXCEPT !.table[n].state = state, !.table[n].action = again]
  IN  IF name = Nil THEN g ELSE Push(g, Msg("apdu", n, name))

Nothing(h, n) == Act(h, n, FALSE, h.table[n].state, Nil)

\* doAction of each kind of session.
ActedByRM(h, n) ==
  CASE h.table[n].state = "Started"             -> Act(h, n, FALSE, "FirstProfileEnquiry", "profileEnq")
    [] h.table[n].state = "FirstProfileEnquiry" -> Act(h, n, FALSE, "ProfileChange", "profileChange")
    [] h.table[n].state = "ProfileEnquiry"      -> Act(h, n, FALSE, "Final", "profile")
    [] OTHER                                    -> Nothing(h, n)

ActedByAM(h, n) ==
  IF h.table[n].state = "Started" THEN Act(h, n, TRUE, "Final", "appInfoEnq") ELSE Nothing(h, n)

ActedByCA(h, n) ==
  IF h.table[n].state = "Started" THEN Act(h, n, FALSE, "Final", "caInfoEnq") ELSE Nothing(h, n)

\* sendDateTime leaves the state as it is.
ActedByDT(h, n) ==
  IF h.table[n].state = "SendDateTime" THEN Act(h, n, FALSE, "SendDateTime", "dateTime")
  ELSE Nothing(h, n)

ActedByMMI(h, n) ==
  CASE h.table[n].state = "Started"      -> Act(h, n, FALSE, "Idle", Nil)
    [] h.table[n].state = "DisplayReply" -> Act(h, n, FALSE, "Idle", "displayReply")
    [] OTHER                             -> Nothing(h, n)

ActedByHC(h, n) ==
  IF h.table[n].state = "Started" THEN Act(h, n, TRUE, "Final", "hcEnq") ELSE Nothing(h, n)

Acted(h, n) ==
  LET kind == h.table[n].kind IN
  CASE kind = "rm"  -> ActedByRM(h, n)
    [] kind = "am"  -> ActedByAM(h, n)
    [] kind = "ca"  -> ActedByCA(h, n)
    [] kind = "dt"  -> ActedByDT(h, n)
    [] kind = "mmi" -> ActedByMMI(h, n)
    [] kind = "hc"  -> ActedByHC(h, n)

\* pollAll: the first session that has something to do, and no other.
HasWork(h, n) == InUse(h, n) /\ (h.table[n].state = "InDeletion" \/ h.table[n].action)

\* Mutant: the search ends at the first session in use.
Polled_firstOnly(h) ==
  LET used == {n \in Numbers : InUse(h, n)}
  IN  IF used = {} \/ ~HasWork(h, Lowest(used)) THEN h ELSE Acted(h, Lowest(used))

Polled(h) ==
  LET busy == {n \in Numbers : HasWork(h, n)}
      n    == Lowest(busy)
  IN  IF busy = {} THEN h
      ELSE IF h.table[n].state = "InDeletion"
      THEN Push([h EXCEPT !.table[n] = NoSession], Msg("closed", n, Nil))
      ELSE Acted(h, n)

-----------------------------------------------------------------------------
(* The slot's thread: one pass of the loop in slot_pollthread.             *)

\* The end of each pass: the module is ready when both managers are there.
Announce(h) == [h EXCEPT !.init = @ \/ (h.hasCA /\ h.hasApp)]

\* ci_inserted leaves the session table and the queue as they are.
Inserted(h) == [h EXCEPT !.hasMMI = FALSE, !.mmi = 0, !.hasCA = FALSE, !.hasApp = FALSE,
                         !.init = FALSE, !.camIsReady = TRUE]

\* What the answer in m does to the enquiries the module waits for.
Answers == {<<"profile", "profileEnq">>, <<"dateTime", "dateTimeEnq">>,
            <<"displayReply", "displayControl">>}
Enquiries == {"profileEnq", "appInfoEnq", "caInfoEnq"}

ReadData ==
  /\ data # <<>>
  /\ \/ status = "None" /\ ~host.camIsReady
     \/ status = "Wait"
  /\ \E h \in {Handled(IF status = "None" THEN Inserted(host) ELSE host, Head(data))} :
       host' = Announce(Polled(h))
  /\ status' = "Wait"
  /\ data' = Tail(data)
  /\ UNCHANGED <<mod, opening, owes, asked>>

\* Written when there is nothing to read; the module takes the message in.
WriteData ==
  /\ status = "Wait" /\ data = <<>> /\ host.queue # <<>>
  /\ host' = [host EXCEPT !.queue = Popped(@)]
  /\ LET m == Head(host.queue) IN
     CASE m.type = "opened" ->
            /\ opening' = opening \ {m.name}
            /\ mod' = IF m.n = 0 THEN mod ELSE [mod EXCEPT ![m.n] = m.name]
            /\ UNCHANGED <<owes, asked>>
       [] m.type = "closed" ->
            /\ mod' = [mod EXCEPT ![m.n] = Nil]
            /\ UNCHANGED <<opening, owes, asked>>
       [] m.type = "apdu" ->
            /\ owes' = IF m.name \in Enquiries THEN owes \cup {<<m.n, m.name>>} ELSE owes
            /\ asked' = {q \in asked : ~(q[1] = m.n /\ <<m.name, q[2]>> \in Answers)}
            /\ UNCHANGED <<mod, opening>>
  /\ UNCHANGED <<status, data>>

\* The module is out of the slot: ci_removed.
Removed ==
  /\ status = "Wait" /\ host.camIsReady
  /\ host' = EmptyHost /\ status' = "None"
  /\ mod' = [n \in Numbers |-> Nil] /\ opening' = {} /\ owes' = {} /\ asked' = {} /\ data' = <<>>

-----------------------------------------------------------------------------
(* The module.                                                             *)

\* Each message of the module makes the host queue two at most.
Pending == Len(host.queue) + 2 * Len(data)

ModSends(m) == Pending + 2 <= MaxQueue /\ data' = Append(data, m)
ModHas(k)   == \E n \in Numbers : mod[n] = k

ModOpens(k) ==
  /\ k \in Kinds \ opening /\ ~ModHas(k)
  /\ k = "rm" \/ ModHas("rm")
  /\ ModSends(Msg("open", 0, k)) /\ opening' = opening \cup {k}
  /\ UNCHANGED <<status, host, mod, owes, asked>>

Reply == [profileEnq |-> "profile", appInfoEnq |-> "appInfo", caInfoEnq |-> "caInfo"]

ModReplies(q) ==
  /\ q \in owes /\ owes' = owes \ {q}
  /\ ModSends(Msg("apdu", q[1], Reply[q[2]]))
  /\ UNCHANGED <<status, host, mod, opening, asked>>

Asks == [rm |-> "profileEnq", dt |-> "dateTimeEnq", mmi |-> "displayControl"]

Waits(n) == \E q \in asked : q[1] = n

\* An enquiry of the module; one at a time for each session.
ModAsks(n) ==
  /\ mod[n] \in DOMAIN Asks /\ ~Waits(n)
  /\ ModSends(Msg("apdu", n, Asks[mod[n]]))
  /\ asked' = asked \cup {<<n, Asks[mod[n]]>>}
  /\ UNCHANGED <<status, host, mod, opening, owes>>

\* A menu to show, or the end of the dialogue.
ModShows(n, name) ==
  /\ mod[n] = "mmi" /\ ModSends(Msg("apdu", n, name))
  /\ UNCHANGED <<status, host, mod, opening, owes, asked>>

ModCloses(n) ==
  /\ mod[n] \in Closes
  /\ ModSends(Msg("close", n, Nil)) /\ mod' = [mod EXCEPT ![n] = "closing"]
  /\ owes' = {q \in owes : q[1] # n} /\ asked' = {q \in asked : q[1] # n}
  /\ UNCHANGED <<status, host, opening>>

-----------------------------------------------------------------------------
(* The application.                                                        *)

Sends(n, name) ==
  /\ Pending < MaxCommands /\ host' = Push(host, Msg("apdu", n, name))
  /\ UNCHANGED <<status, mod, opening, owes, asked, data>>

Working == status # "Reset"
MenuEnter  == Working /\ host.hasApp /\ Sends(host.app, "enterMenu")
MenuAnswer == Working /\ host.hasMMI /\ Sends(host.mmi, "menuAnswer")
MenuClose  == Working /\ host.hasMMI /\ Sends(host.mmi, "mmiClose")
SendNullPMT == Working /\ host.camIsReady /\ host.hasCA /\ Sends(host.ca, "caPmt")

\* ModuleReset, until its first sleep is over ...
ResetBegins ==
  /\ status \in {"None", "Wait"} /\ status' = "Reset"
  /\ UNCHANGED <<host, mod, opening, owes, asked, data>>

\* ... and the rest; the module starts anew.
ResetEnds ==
  /\ status = "Reset" /\ status' = "None" /\ host' = EmptyHost
  /\ mod' = [n \in Numbers |-> Nil] /\ opening' = {} /\ owes' = {} /\ asked' = {} /\ data' = <<>>

Thread == ReadData \/ WriteData
Module ==
  \/ \E k \in Kinds : ModOpens(k)
  \/ \E q \in owes : ModReplies(q)
  \/ \E n \in Numbers : ModAsks(n) \/ ModCloses(n)
  \/ \E n \in Numbers, name \in {"menu", "mmiClose"} : ModShows(n, name)
Application == MenuEnter \/ MenuAnswer \/ MenuClose \/ SendNullPMT \/ ResetBegins \/ ResetEnds

Next == Thread \/ Removed \/ Module \/ Application

\* The thread runs, ModuleReset comes to its end, and a module answers what it
\* is asked and opens the sessions it needs.
Fairness ==
  /\ WF_vars(Thread \/ ResetEnds)
  /\ SF_vars(\E q \in owes : ModReplies(q))
  /\ SF_vars(\E k \in Kinds \cap {"rm", "am", "ca"} : ModOpens(k))

Spec     == Init /\ [][Next]_vars
FairSpec == Spec /\ Fairness

-----------------------------------------------------------------------------
(* Properties.                                                             *)

\* A session that the module works with is in the host's table under the same
\* number and for the same resource: no other session is given its number, and
\* it stays until the module closes it or goes.
NumbersAgree ==
  \A n \in Numbers : mod[n] \notin {Nil, "closing"} => host.table[n].kind = mod[n]

\* What the host sends on a session, from the slot's thread or from a menu call,
\* arrives while the session is open, and is for its resource.
ResourceOf(name) ==
  CASE name \in {"profileEnq", "profileChange", "profile"} -> "rm"
    [] name \in {"appInfoEnq", "enterMenu"} -> "am"
    [] name \in {"caInfoEnq", "caPmt"} -> "ca"
    [] name = "dateTime" -> "dt"
    [] name = "hcEnq" -> "hc"
    [] OTHER -> "mmi"
SendsToItsSession ==
  Len(host'.queue) < Len(host.queue) /\ host'.camIsReady =>
    LET m == Head(host.queue) IN
    m.type = "apdu" => mod[m.n] \in {ResourceOf(m.name), "closing"}
CommandReachesItsSession == [][SendsToItsSession]_vars

\* An enquiry of the module is answered, unless it closes the session, although
\* pollAll serves one session for each message and the application manager asks to
\* be served twice.
Asking(k) == \E n \in Numbers : mod[n] = k /\ Waits(n)
EnquiryIsAnswered == \A k \in DOMAIN Asks : Asking(k) ~> ~Asking(k)

\* So is a request to close a session.
CloseIsAnswered == ModHas("closing") ~> ~ModHas("closing")

\* A module that has come into the slot is announced as ready.
Arrived     == host.camIsReady
ReadyOrGone == host.init \/ ~host.camIsReady
ModuleGetsReady == Arrived ~> ReadyOrGone
=============================================================================
