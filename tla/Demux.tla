--------------------------------- MODULE Demux ---------------------------------
(***************************************************************************)
(* cDemux of the four ports (dmx.cpp) and the calls cRecord makes of it.   *)
(*                                                                         *)
(* The boxes (libarmbox and libspark, whose files differ in the number of  *)
(* devices and in one flag) open the device late: Open only stores the     *)
(* channel type, and every filter call goes through _open, which reopens   *)
(* the device when the source of the unit has changed.  The PC and the     *)
(* Raspberry Pi open it in Open, and their Read has no lock.               *)
(*                                                                         *)
(* Two objects: "rec", the transport stream of a recording, and "tap", a   *)
(* section or PES filter.  Each is used by the thread that owns it and by  *)
(* one that calls Read.  A file number is the least one that is free, so a *)
(* number that was closed comes back with the next open.                   *)
(***************************************************************************)
EXTENDS Integers, Sequences, FiniteSets, SequencesExt

CONSTANTS Ports,       \* subset of {"arm", "spark", "pc"}
          Devices,     \* demux devices, which are also the sources
          Audio,       \* audio pids
          FdLimit,     \* bound: file numbers
          MaxCalls     \* bound: calls of the owners

Video == "v"

Assumptions ==
  /\ Ports \subseteq {"arm", "spark", "pc"} /\ Devices \subseteq Nat /\ Devices # {}
  /\ FdLimit \in Nat /\ FdLimit >= 2 /\ MaxCalls \in Nat
  /\ Video \notin Audio

VARIABLES
  port,        \* the library that is used
  dmx_source,  \* the source of each unit
  init,        \* devices that had DMX_SET_SOURCE
  dmx,         \* the objects
  file,        \* what is open under a file number
  reader,      \* the thread in Read: where it is, and ufds.fd
  got,         \* the filter whose data the last Read returned, or "none"
  calls,
  shut,        \* history: objects whose Read has the number of a file that was closed
  moved,       \* history: the transport stream was reopened, which drops its filter
  doubled      \* history: a pid was added that the object had already

tables  == <<dmx_source, init>>
history == <<shut, moved, doubled>>
vars == <<port, tables, dmx, file, reader, got, calls, history>>

Objects == {"rec", "tap"}
unit == [rec |-> 1, tap |-> 0]
Fds  == 1 .. FdLimit
NoFile == [owner |-> "none", dev |-> -1, filter |-> "none", pids |-> {}, on |-> FALSE]

Box == port \in {"arm", "spark"}         \* the ports that open late and lock Read

Fresh == [state |-> "none", type |-> "INVALID", fd |-> -1, last_source |-> -1,
          pesfds |-> <<>>, todo |-> <<>>]

Init ==
  /\ port \in Ports
  /\ dmx_source \in [{0, 1} -> {CHOOSE d \in Devices : \A e \in Devices : d <= e}]
  /\ init = {} /\ dmx = [o \in Objects |-> Fresh]
  /\ file = [n \in Fds |-> NoFile]
  /\ reader = [o \in Objects |-> [at |-> "out", fd |-> -1]]
  /\ got = [o \in Objects |-> "none"]
  /\ calls = 0 /\ shut = {} /\ moved = FALSE /\ doubled = FALSE

-----------------------------------------------------------------------------
(* The kernel's files *)

Free == {n \in Fds : file[n].owner = "none"}
Least(S) == CHOOSE n \in S : \A m \in S : n <= m

\* DMX_SET_FILTER starts at once; DMX_SET_PES_FILTER does so with DMX_IMMEDIATE_START.
WithFilter(f, what, pids, atOnce) == [f EXCEPT !.filter = what, !.pids = pids, !.on = atOnce]

\* DMX_ADD_PID wants a filter; DMX_REMOVE_PID takes every feed of the pid out.
WithPids(f, ps)    == IF f.filter = "none" THEN f ELSE [f EXCEPT !.pids = @ \cup ps]
WithoutPids(f, ps) == [f EXCEPT !.pids = @ \ ps]

-----------------------------------------------------------------------------
(* The calls of an owner *)

May(o) == calls < MaxCalls /\ dmx[o].state = "live" /\ dmx[o].todo = <<>>
Calls(n) == calls' = calls + n

\* cDemux::cDemux
New(o) ==
  /\ calls < MaxCalls /\ dmx[o].state \in {"none", "gone"} /\ reader[o].at = "out"
  /\ dmx' = [dmx EXCEPT ![o] = [Fresh EXCEPT !.state = "live"]]
  /\ IF o = "rec" THEN moved' = FALSE /\ doubled' = FALSE ELSE UNCHANGED <<moved, doubled>>
  /\ Calls(1)
  /\ UNCHANGED <<port, tables, file, reader, got, shut>>

TypesOf(o) == IF o = "rec" THEN {"TP"} ELSE {"PSI", "PES"}

\* cDemux::Open of the boxes
Open(o) ==
  /\ Box /\ May(o)
  /\ \E t \in TypesOf(o) : dmx' = [dmx EXCEPT ![o].type = t]
  /\ Calls(1)
  /\ UNCHANGED <<port, tables, file, reader, got, history>>

\* cDemux::Open of the PC: a device that is open already is forgotten, not closed.  A
\* recording starts once for each object.
OpenDevice(o) ==
  /\ ~Box /\ May(o) /\ Free # {} /\ (o = "rec" => dmx[o].fd = -1)
  /\ \E t \in TypesOf(o), opens \in BOOLEAN :
       LET n == Least(Free)
       IN  /\ dmx' = [dmx EXCEPT ![o].type = t, ![o].fd = IF opens THEN n ELSE -1]
           /\ file' = IF opens THEN [file EXCEPT ![n] = [NoFile EXCEPT !.owner = o, !.dev = 0]]
                               ELSE file
  /\ Calls(1)
  /\ UNCHANGED <<port, tables, reader, got, history>>

\* What the ioctls of the filter calls whats do to the file of number n (-1: they fail).  The
\* calls of one list are of one kind.
ApplyAll(o, whats, n, files) ==
  LET f    == files[n]
      what == whats[1]
      pids == {w[2] : w \in ToSet(whats)}
  IN  IF whats = <<>> \/ n \notin Fds THEN files
      ELSE [files EXCEPT ![n] =
             CASE what[1] = "section" -> WithFilter(f, "section", {}, TRUE)
               [] what[1] = "pes"     -> IF dmx[o].type \in {"PES", "TP"}
                                           THEN WithFilter(f, "pes", pids, port = "spark")
                                           ELSE f
               [] OTHER               -> WithPids(f, pids)]   \* "add"

\* _open of the boxes, for the filter calls whats of an object that is d (no call, no _open):
\* the device is kept when the source is the same, else closed and opened in a later step; until then fd has the
\* number that was closed.
_open(o, whats, d, files) ==
  IF whats = <<>> \/ (d.fd > -1 /\ d.last_source = dmx_source[unit[o]])
    THEN /\ file' = ApplyAll(o, whats, d.fd, files) /\ dmx' = [dmx EXCEPT ![o] = d]
         /\ UNCHANGED moved
    ELSE /\ dmx' = [dmx EXCEPT ![o] = [d EXCEPT !.todo = whats]]
         /\ file' = [n \in Fds |-> IF n = d.fd THEN NoFile ELSE files[n]]
         /\ moved' = (moved \/ (o = "rec" /\ d.fd > -1))

\* The rest of _open: open, DMX_SET_SOURCE the first time, and the filter calls.  When the
\* open fails the next call tries again.
_opened(o) ==
  LET d == dmx[o]
      src == dmx_source[unit[o]]
  IN  /\ d.todo # <<>>
      /\ \/ /\ Free # {}
            /\ LET n == Least(Free)
               IN  /\ file' = ApplyAll(o, d.todo, n,
                                [file EXCEPT ![n] = [NoFile EXCEPT !.owner = o, !.dev = src]])
                   /\ dmx' = [dmx EXCEPT ![o] = [d EXCEPT !.fd = n, !.todo = <<>>,
                                                           !.last_source = src]]
            /\ init' = init \cup {src}
         \/ /\ dmx' = [dmx EXCEPT ![o] = [d EXCEPT !.fd = -1, !.todo = Tail(@)]]
            /\ UNCHANGED <<file, init>>
      /\ UNCHANGED <<port, dmx_source, reader, got, calls, history>>

\* The file goes when read has its number.
Lost(o) == IF reader[o].at = "syscall" THEN shut \cup {o} ELSE shut

\* A filter call: through _open on the boxes, straight to the device on the PC.
Filter(o, whats, d, files) ==
  /\ IF Box THEN _open(o, whats, d, files)
            ELSE /\ file' = ApplyAll(o, whats, d.fd, files) /\ dmx' = [dmx EXCEPT ![o] = d]
                 /\ UNCHANGED moved
  /\ shut' = IF dmx'[o].todo # <<>> THEN Lost(o) ELSE shut
  /\ Calls(1)
  /\ UNCHANGED <<port, tables, reader, got>>

Section == /\ May("tap") /\ dmx["tap"].type = "PSI"
           /\ Filter("tap", <<<<"section", "section">>>>, dmx["tap"], file)
           /\ UNCHANGED doubled

\* cDemux::sectionFilter: DMX_STOP, then DMX_SET_FILTER; of the PC: whether it is open or not.
sectionFilter    == Box  /\ Section
sectionFilter_pc == ~Box /\ Section

Pes(o) == /\ May(o) /\ dmx[o].type # "PSI" /\ dmx[o].pesfds = <<>>
          /\ Filter(o, <<<<"pes", Video>>>>, dmx[o], file)
          /\ UNCHANGED doubled

\* cDemux::pesFilter: a channel type it does not know has opened the device all the same.
pesFilter(o)    == Box  /\ Pes(o)
pesFilter_pc(o) == ~Box /\ Pes(o)

-----------------------------------------------------------------------------
(* The pids of the transport stream *)

Recording == May("rec") /\ dmx["rec"].type = "TP" /\ dmx["rec"].fd > -1
List == dmx["rec"].pesfds

Adds(ps) == [i \in DOMAIN ps |-> <<"add", ps[i]>>]

\* cDemux::addPid for each of ps: the pid is listed before the ioctl, and stays when it fails.
addPid(list, ps, files) ==
  /\ Filter("rec", Adds(ps), [dmx["rec"] EXCEPT !.pesfds = list \o ps], files)
  /\ doubled' = (doubled \/ ~IsInjective(list \o ps))

\* Slip: the pid is taken from the device and left on the list.
removePid_keep(list, p) == list

\* cDemux::removePid takes the first of the pid off the list.
removePid(list, p) == RemoveAt(list, SelectInSeq(list, LAMBDA q : q = p))

\* cRecord::Start, after Open and pesFilter.
StartAdds(apids) ==
  /\ Recording /\ List = <<>> /\ file[dmx["rec"].fd].filter # "none"
  /\ addPid(<<>>, apids, file)

\* cRecord::AddPid
AddPid(p) ==
  /\ Recording /\ List # <<>> /\ p \notin ToSet(List)
  /\ addPid(List, <<p>>, file)

\* The loops of cRecord::ChangePids over the pids that were listed and over those that are
\* wanted.  The first of the list is taken for the video pid and left out of both.
Others == Tail(List)

removeOthers(apids) ==
  LET left[i \in 0 .. Len(Others)] ==
        IF i = 0 THEN List
        ELSE IF Others[i] \in ToSet(apids) THEN left[i - 1] ELSE removePid(left[i - 1], Others[i])
  IN  left[Len(Others)]

toAdd(apids) ==
  LET new[i \in 0 .. Len(apids)] ==
        IF i = 0 THEN <<>>
        ELSE IF apids[i] \in ToSet(Others) THEN new[i - 1] ELSE Append(new[i - 1], apids[i])
  IN  new[Len(apids)]

\* cRecord::ChangePids.  (An empty list would be read past its end.)  DMX_REMOVE_PID is given the
\* pid and not its address: a driver that wants the address refuses it, and that is only logged.
ChangePids(apids) ==
  /\ Recording /\ List # <<>>
  /\ \E removes \in {{}, ToSet(Others) \ ToSet(apids)} :
       addPid(removeOthers(apids), toAdd(apids),
              [file EXCEPT ![dmx["rec"].fd] = WithoutPids(@, removes)])

-----------------------------------------------------------------------------
(* Source, start, stop and the end of an object *)

\* cDemux::SetSource stores the source; the next filter call finds it.
SetSource(u, src) ==
  /\ Box /\ calls < MaxCalls /\ dmx_source[u] # src
  /\ dmx_source' = [dmx_source EXCEPT ![u] = src]
  /\ Calls(1)
  /\ UNCHANGED <<port, init, dmx, file, reader, got, history>>

\* cDemux::Start
Start(o) ==
  /\ May(o) /\ dmx[o].fd > -1 /\ ~file[dmx[o].fd].on
  /\ file' = [file EXCEPT ![dmx[o].fd].on = (@ \/ file[dmx[o].fd].filter # "none")]
  /\ Calls(1)
  /\ UNCHANGED <<port, tables, dmx, reader, got, history>>

\* cDemux::Stop
Stop(o) ==
  /\ May(o) /\ dmx[o].fd > -1 /\ file[dmx[o].fd].on
  /\ file' = [file EXCEPT ![dmx[o].fd].on = FALSE]
  /\ Calls(1)
  /\ UNCHANGED <<port, tables, dmx, reader, got, history>>

\* Slip: Close leaves the number of the closed file in fd.
Close_keep(o, state) ==
  /\ dmx' = [dmx EXCEPT ![o].pesfds = <<>>, ![o].state = state]
  /\ file' = [n \in Fds |-> IF n = dmx[o].fd THEN NoFile ELSE file[n]]
  /\ shut' = IF dmx[o].fd > -1 THEN Lost(o) ELSE shut

\* cDemux::Close; the object goes on to state.
Close(o, state) ==
  /\ dmx' = [dmx EXCEPT ![o].pesfds = IF dmx[o].fd < 0 THEN @ ELSE <<>>, ![o].fd = -1,
                        ![o].state = state]
  /\ file' = [n \in Fds |-> IF n = dmx[o].fd THEN NoFile ELSE file[n]]
  /\ shut' = IF dmx[o].fd > -1 THEN Lost(o) ELSE shut

\* The owner of the tap calls Close, from whatever thread it is in.
OwnerCloses ==
  /\ May("tap") /\ dmx["tap"].fd > -1
  /\ Close("tap", "live") /\ Calls(1)
  /\ UNCHANGED <<port, tables, reader, got, moved, doubled>>

\* cDemux::~cDemux begins with Close.  cRecord::Stop has joined the thread that reads.
Delete(o) ==
  /\ May(o) /\ (o = "rec" => reader[o].at = "out")
  /\ Close(o, "closing")
  /\ Calls(1)
  /\ UNCHANGED <<port, tables, reader, got, moved, doubled>>

Locked(o) == reader[o].at \in {"poll", "load", "syscall"}

\* The boxes wait for the lock that Read holds, then free it; the PC has none.
Deleted(o) ==
  /\ dmx[o].state = "closing" /\ (Box => ~Locked(o))
  /\ dmx' = [dmx EXCEPT ![o].state = "gone"]
  /\ UNCHANGED <<port, tables, file, reader, got, calls, history>>

-----------------------------------------------------------------------------
(* Read *)

Reads(o, at, n) == reader' = [reader EXCEPT ![o] = [at |-> at, fd |-> n]]
Returns(o, what) == Reads(o, "out", -1) /\ got' = [got EXCEPT ![o] = what]
ReadOnly == UNCHANGED <<port, tables, dmx, file, calls, moved, doubled>>

Begins(o, at, n) ==
  /\ reader[o].at = "out" /\ dmx[o].state = "live"
  /\ Reads(o, at, n)
  /\ got' = [got EXCEPT ![o] = "none"] /\ shut' = shut \ {o}
  /\ ReadOnly

\* Read of the boxes fails when nothing is open; the lock comes after this test.
ReadBegin(o) == Box /\ dmx[o].fd > -1 /\ Begins(o, "tested", -1)

\* Read of the PC has neither a test nor a lock.
ReadBegin_pc(o) == ~Box /\ Begins(o, "poll", dmx[o].fd)

\* The lock of a deleted object is freed memory: nothing is said of what follows.
Lock(o) ==
  /\ reader[o].at = "tested"
  /\ IF dmx[o].state = "gone" THEN Returns(o, "none")
     ELSE /\ \E timeout \in {0, 1} :
               Reads(o, IF timeout > 0 \/ dmx[o].type = "PSI" THEN "poll" ELSE "load", dmx[o].fd)
          /\ UNCHANGED got
  /\ UNCHANGED shut
  /\ ReadOnly

\* poll ends: without data, or ready.  The boxes look whether fd is still the number.
PollEnds(o) ==
  /\ reader[o].at = "poll"
  /\ \/ Returns(o, "none")
     \/ /\ reader[o].fd > -1 /\ (Box => reader[o].fd = dmx[o].fd)
        /\ Reads(o, "load", reader[o].fd) /\ UNCHANGED got
  /\ UNCHANGED shut
  /\ ReadOnly

\* Slip: read is given the number that was polled, which is not compared again.
Load_polled(o) ==
  /\ reader[o].at = "load"
  /\ IF reader[o].fd = -1 THEN Returns(o, "none")
     ELSE Reads(o, "syscall", reader[o].fd) /\ UNCHANGED got
  /\ UNCHANGED shut
  /\ ReadOnly

\* The argument of read is fd; the boxes have looked at it once more.
Load(o) ==
  /\ reader[o].at = "load"
  /\ IF dmx[o].fd = -1 \/ (Box /\ reader[o].fd # dmx[o].fd)
       THEN Returns(o, "none")
       ELSE Reads(o, "syscall", dmx[o].fd) /\ UNCHANGED got
  /\ shut' = IF dmx[o].todo # <<>> THEN shut \cup {o} ELSE shut
  /\ ReadOnly

\* read of the number: an error, or data of whatever file has it.
Syscall(o) ==
  /\ reader[o].at = "syscall"
  /\ \/ Returns(o, "none")
     \/ file[reader[o].fd].on /\ Returns(o, file[reader[o].fd].owner)
  /\ UNCHANGED shut
  /\ ReadOnly

-----------------------------------------------------------------------------
OwnerStep(o) ==
  \/ New(o) \/ Open(o) \/ OpenDevice(o) \/ _opened(o) \/ pesFilter(o) \/ pesFilter_pc(o)
  \/ Start(o) \/ Stop(o) \/ Delete(o) \/ Deleted(o)

\* The audio pids of a call: one or two
PidLists == UNION {Injection(1 .. n, Audio) : n \in 1 .. 2}

RecordStep ==
  \/ \E s \in PidLists : StartAdds(s) \/ ChangePids(s)
  \/ \E p \in Audio : AddPid(p)

ReadStep(o) == ReadBegin(o) \/ ReadBegin_pc(o) \/ Lock(o) \/ PollEnds(o) \/ Load(o) \/ Syscall(o)

Next ==
  \/ \E o \in Objects : OwnerStep(o) \/ ReadStep(o)
  \/ sectionFilter \/ sectionFilter_pc \/ OwnerCloses \/ RecordStep
  \/ \E u \in {0, 1}, src \in Devices : SetSource(u, src)

Spec == Init /\ [][Next]_vars

-----------------------------------------------------------------------------
(* A Read returns data of the object it was called on, whatever is closed, *)
(* reopened or opened under the same number while it waits in poll (Read   *)
(* and Close of dmx.cpp).  Not covered: a file closed between the load of  *)
(* fd and the system call, and a load of fd inside _open, where fd keeps a *)
(* number that is free.                                                    *)
ReadGivesOwnData == \A o \in Objects \ shut : got[o] \in {"none", o}

(* A Read that holds the lock has its object: the destructor waits for it  *)
(* (~cDemux of the boxes).                                                 *)
DestructorWaitsForRead ==
  Box => \A o \in Objects : Locked(o) => dmx[o].state # "gone"

(* Every pid of the recording's list and its video pid are in the stream   *)
(* of the device, as long as it was not moved to another device and no pid *)
(* was added twice (addPid, removePid, ChangePids).                        *)
PidsAreFiltered ==
  LET d == dmx["rec"]
  IN  d.state = "live" /\ d.fd > -1 /\ d.todo = <<>> /\ d.pesfds # <<>> /\ ~moved /\ ~doubled
        => ToSet(d.pesfds) \cup {Video} \subseteq file[d.fd].pids

(* What ChangePids goes by: the first pid of the list is the video pid     *)
(* (the comment at record.cpp:159).                                        *)
FirstPidIsVideo == List # <<>> => List[1] = Video
===============================================================================
