--------------------------- MODULE CCAuthentication ---------------------------
(***************************************************************************)
(* Content control of one CI slot (libdvbci/dvbci_ccmgr.cpp): the          *)
(* credentials of a session, the authentication of the module, the file of *)
(* authentication data, and the session keys that follow from them.        *)
(*                                                                         *)
(* The host answers, so a step is a request of the module and what the     *)
(* slot's thread does with it, until it waits for the next one; only the   *)
(* items of the proof, which write the file, are steps of their own.  The  *)
(* AKH is a hash of the three things a pair consists of, and stands for    *)
(* the pair.  A DHSK is known by the two secrets it comes from: the        *)
(* exponent of the host and the one of the module, each known by the       *)
(* number of its challenge.                                                *)
(***************************************************************************)
EXTENDS Naturals, Sequences, SequencesExt

CONSTANTS Modules,        \* CI modules that are put into the slot
          Tries,          \* tries a module has for its AKH (5), and pairs read from the file
          MaxChallenges,  \* bound: challenges made
          MaxCuts,        \* bound: writings of the file that fail or are cut off by a crash
          None

ASSUME TriesAssumption   == Tries \in Nat \ {0, 1}
ASSUME BoundsAssumption  == MaxChallenges \in Nat /\ MaxCuts \in Nat

VARIABLES
  cam,         \* the module in the slot
  phase,       \* how far the module is
  tries,       \* AKHs it has been offered
  camKey,      \* the DHSK the module uses
  remembers,   \* the DHSK each module keeps for this host
  opened,      \* hasCCManager
  private,     \* private_data, None before data_initialize
  todo,        \* items of the proof that data_get_loop has not handled
  file,        \* the pairs in /etc/ci_auth_slot_<n>.bin
  buf, left,   \* write_authdata: the pairs it has read, the ones still to be written
  challenges,  \* number of the last challenge
  cuts,        \* history: writings that failed or were cut off
  reused       \* history: did cc_open find credentials of an earlier session?

module == <<cam, phase, tries, camKey, remembers>>
store  == <<file, buf, left, cuts>>
vars   == <<module, opened, private, todo, store, challenges, reused>>

Secrets == 0 .. MaxChallenges           \* 0: none yet
Key     == Secrets \X Secrets
NoKey   == <<0, 0>>
Akh     == [cicam : Modules, host : {"host", "junk"}, key : Key]

\* "junk": get_authdata found nothing and left host_id as it was on the stack.
ZeroAkh == [cicam |-> None, host |-> "zero", key |-> NoKey]
NoAkh   == [cicam |-> None, host |-> "none", key |-> NoKey]

Items == {"brand", "dev", "dhpm", "sigB"}       \* 8, 16, 14, 18

\* The module sends each item once, in an order of its own.
Orders == {s \in [1 .. 4 -> Items] : \A i, j \in 1 .. 4 : s[i] = s[j] => i = j}

\* The elements (5, 6, 8, 16, 14, 18, 19, 22) and the rest of cc_ctrl_data.
Credentials ==
  [host : {"host", "junk"}, cicam : Modules \cup {None}, valid : SUBSET Items,
   nonce : BOOLEAN, dhpm : Secrets, akh : Akh \cup {ZeroAkh, NoAkh},
   akh_index : 0 .. Tries, dhsk : Key, dh_exp : Secrets,
   ks_host : [key : Key, akh : Akh \cup {ZeroAkh, NoAkh}]]

ASSUME NoneAssumption == None \notin Modules /\ None \notin Credentials

NoCredentials ==
  [host |-> "junk", cicam |-> None, valid |-> {}, nonce |-> FALSE, dhpm |-> 0, akh |-> NoAkh,
   akh_index |-> 0, dhsk |-> NoKey, dh_exp |-> 0, ks_host |-> [key |-> NoKey, akh |-> NoAkh]]

Min2(a, b) == IF a < b THEN a ELSE b

\* get_authdata: the pair at an index of the file, if the file has one.
HasPair(f, i) == i < Len(f) /\ i < Tries

\* Slip: the pair's AKH is offered, and the DHSK of the pair before stays.
Loaded_akhOnly(d, f, i) ==
  IF HasPair(f, i)
    THEN [d EXCEPT !.host = f[i + 1].host, !.akh = f[i + 1]]
    ELSE [d EXCEPT !.host = "junk", !.akh = ZeroAkh, !.akh_index = Tries]

\* The credentials with the pair at index i on offer: its host id, DHSK and AKH.
\* Without one the AKH is zero and no further one is tried.
Loaded(d, f, i) ==
  IF HasPair(f, i)
    THEN [d EXCEPT !.host = f[i + 1].host, !.dhsk = f[i + 1].key, !.akh = f[i + 1]]
    ELSE [d EXCEPT !.host = "junk", !.akh = ZeroAkh, !.akh_index = Tries]

Init ==
  /\ cam = None /\ phase = "out" /\ tries = 0 /\ camKey = NoKey
  /\ remembers = [m \in Modules |-> NoKey]
  /\ opened = FALSE /\ private = None /\ todo = <<>>
  /\ file = <<>> /\ buf = <<>> /\ left = <<>>
  /\ challenges = 0 /\ cuts = 0 /\ reused = FALSE

\* The AKH the module expects of the host with which it shares the key k.
Expected(k) == [cicam |-> cam, host |-> "host", key |-> k]

-----------------------------------------------------------------------------
(* The session *)

Inserted ==
  /\ phase = "out"
  /\ cam' \in Modules /\ phase' = "in"
  /\ UNCHANGED <<tries, camKey, remembers, opened, private, todo, store, challenges, reused>>

SessionCreated ==
  /\ phase = "in"
  /\ opened' = TRUE /\ phase' = "session"
  /\ UNCHANGED <<cam, tries, camKey, remembers, private, todo, store, challenges, reused>>

\* Slip: the pair that is loaded first counts as tried.
Initialized_nextIndex(f) == Loaded([NoCredentials EXCEPT !.akh_index = 1], f, 0)

Initialized(f) == Loaded(NoCredentials, f, 0)

\* cc_open: credentials of a session the module has closed are kept.
CcOpen ==
  /\ phase = "session"
  /\ private' = IF private = None THEN Initialized(file) ELSE private
  /\ reused' = (private # None)
  /\ phase' = "verify" /\ tries' = 0
  /\ UNCHANGED <<cam, camKey, remembers, opened, todo, store, challenges>>

\* The module closes its session: the host forgets the session and nothing else.
SessionClosed ==
  /\ phase \notin {"out", "in", "proving"}
  /\ phase' = "in" /\ tries' = 0
  /\ UNCHANGED <<cam, camKey, remembers, opened, private, todo, store, challenges, reused>>

Forgotten(p) ==
  /\ phase' = p
  /\ cam' = IF p = "out" THEN None ELSE cam
  /\ tries' = 0 /\ camKey' = NoKey
  /\ opened' = FALSE /\ private' = None /\ todo' = <<>> /\ reused' = FALSE
  /\ UNCHANGED <<remembers, challenges>>

\* ci_removed and ModuleReset, between two requests.
Removed ==
  /\ phase \notin {"out", "proving"}
  /\ opened => private # None
  /\ \E p \in {"out", "in"} : Forgotten(p)
  /\ UNCHANGED store

\* The process dies at any moment, in ci_ccmgr_doClose too when the module is taken
\* out between createSession and cc_open: there are no elements to be freed.
Crash ==
  /\ Forgotten(IF cam = None THEN "out" ELSE "in")
  /\ buf' = <<>> /\ left' = <<>>
  /\ IF left = <<>> THEN UNCHANGED cuts ELSE cuts < MaxCuts /\ cuts' = cuts + 1
  /\ UNCHANGED file

-----------------------------------------------------------------------------
(* Requests *)

\* data_req_handle_new for the AKH: the next pair, as long as there are any.
Offered(d, f) ==
  IF d.akh_index # Tries
    THEN Loaded([d EXCEPT !.akh_index = d.akh_index + 1], f, d.akh_index)
    ELSE d

\* The module asks for the AKH and compares it with the one it remembers.  There is
\* no answer when the element is not valid.
AkhRequested ==
  /\ phase = "verify"
  /\ LET d == Offered(private, file) IN
       /\ private' = d
       /\ tries' = tries + 1
       /\ IF d.akh = NoAkh THEN phase' = "silent" /\ UNCHANGED camKey
          ELSE IF d.akh = Expected(remembers[cam])
                 THEN phase' = "keys" /\ camKey' = remembers[cam]
          ELSE phase' = (IF tries' = Tries THEN "challenge" ELSE "verify") /\ UNCHANGED camKey
  /\ UNCHANGED <<cam, remembers, opened, todo, store, challenges, reused>>

\* Slip: the DHPM and the signature of an earlier challenge stay valid.
Restarted_keepsProof(d, n) ==
  [d EXCEPT !.nonce = TRUE, !.host = "host", !.cicam = None, !.akh = NoAkh, !.dh_exp = n]

\* auth_nonce, restart_dh_challenge: a new exponent, and what belongs to the last
\* challenge is invalidated.  The module's certificates stay.
Restarted(d, n) ==
  [d EXCEPT !.nonce = TRUE, !.host = "host", !.cicam = None, !.valid = @ \ {"dhpm", "sigB"},
            !.dhpm = 0, !.akh = NoAkh, !.dh_exp = n]

\* The challenge of a module that remembers nothing, or whose tries are used up.
\* Without its certificates, or with them and without their key, the host has no
\* answer.
AuthNonce ==
  /\ phase = "challenge" \/ (phase = "verify" /\ remembers[cam] = NoKey)
  /\ challenges < MaxChallenges
  /\ challenges' = challenges + 1
  /\ \/ private' = Restarted(private, challenges') /\ phase' = "prove"
     \/ /\ \E h \in {private.host, "host"} :
             private' = [private EXCEPT !.nonce = TRUE, !.host = h]
        /\ phase' = "silent"
  /\ UNCHANGED <<cam, tries, camKey, remembers, opened, todo, store, reused>>

\* The module answers with its certificates, DHPM and signature, in any order.
Proof ==
  /\ phase = "prove"
  /\ phase' = "proving"
  /\ todo' \in Orders
  /\ camKey' = <<private.dh_exp, challenges>>
  /\ UNCHANGED <<cam, tries, remembers, opened, private, store, challenges, reused>>

\* element_set of one item.
Taken(d, i) ==
  [d EXCEPT !.valid = @ \cup {i}, !.dhpm = IF i = "dhpm" THEN challenges ELSE @]

CertsValid(d) == {"brand", "dev"} \subseteq d.valid

\* check_ci_certificates, with its result in cicam
Checked(d) == IF CertsValid(d) THEN [d EXCEPT !.cicam = cam] ELSE d

Complete(d) == d.nonce /\ d.cicam # None /\ {"dhpm", "sigB"} \subseteq d.valid

\* Slip: the AKHs of the file are still offered.
Agreed_keepsIndex(d) ==
  LET k == <<d.dh_exp, d.dhpm>>
  IN  [d EXCEPT !.dhsk = k, !.akh = [cicam |-> d.cicam, host |-> d.host, key |-> k]]

\* check_dh_challenge: DHSK and AKH
Agreed(d) ==
  LET k == <<d.dh_exp, d.dhpm>>
  IN  [d EXCEPT !.dhsk = k, !.akh = [cicam |-> d.cicam, host |-> d.host, key |-> k],
                !.akh_index = Tries]

\* The new pair first, and of the old ones all but the last when there is no room.
ToWrite(p, f) == <<p>> \o SubSeq(f, 1, Min2(Len(f), Tries - 2))

\* Slip: nobody asks whether the file has the pair already.
Stored_again(p) ==
  \/ UNCHANGED store
  \/ /\ buf' = file /\ left' = ToWrite(p, file) /\ file' = <<>>
     /\ UNCHANGED cuts

\* write_authdata, up to the truncation of the file
Stored(p) ==
  IF p \in ToSet(file)
    THEN UNCHANGED store
    ELSE \/ UNCHANGED store             \* the file cannot be opened for writing
         \/ /\ buf' = file /\ left' = ToWrite(p, file) /\ file' = <<>>
            /\ UNCHANGED cuts

\* data_get_handle_new for one item of the proof
HandleItem ==
  /\ phase = "proving" /\ todo # <<>> /\ left = <<>>
  /\ LET d == Checked(Taken(private, Head(todo))) IN
       IF CertsValid(d) /\ Complete(d)
         THEN private' = Agreed(d) /\ Stored(Agreed(d).akh)
         ELSE private' = d /\ UNCHANGED store
  /\ todo' = Tail(todo)
  /\ UNCHANGED <<module, opened, challenges, reused>>

WritePair ==
  /\ left # <<>>
  /\ file' = Append(file, Head(left)) /\ left' = Tail(left)
  /\ buf' = IF left' = <<>> THEN <<>> ELSE buf
  /\ UNCHANGED <<module, opened, private, todo, cuts, challenges, reused>>

WriteFails ==
  /\ left # <<>> /\ cuts < MaxCuts
  /\ cuts' = cuts + 1
  /\ buf' = <<>> /\ left' = <<>>
  /\ UNCHANGED <<module, opened, private, todo, file, challenges, reused>>

\* The status is sent, and the module asks for the AKH once more.
ProofHandled ==
  /\ phase = "proving" /\ todo = <<>> /\ left = <<>>
  /\ phase' = "confirm"
  /\ UNCHANGED <<cam, tries, camKey, remembers, opened, private, todo, store, challenges, reused>>

Confirmed ==
  /\ phase = "confirm"
  /\ LET d == Offered(private, file) IN
       /\ private' = d
       /\ IF d.akh = Expected(camKey)
            THEN phase' = "keys" /\ remembers' = [remembers EXCEPT ![cam] = camKey]
            ELSE phase' = "rejected" /\ UNCHANGED remembers
  /\ UNCHANGED <<cam, tries, camKey, opened, todo, store, challenges, reused>>

\* Ns_module: the key seed, from which SAK and SEK are derived.
NsModule ==
  /\ phase = "keys"
  /\ private' = [private EXCEPT !.ks_host = [key |-> private.dhsk, akh |-> private.akh]]
  /\ phase' = "ready"
  /\ UNCHANGED <<cam, tries, camKey, remembers, opened, todo, store, challenges, reused>>

Next ==
  \/ Inserted \/ SessionCreated \/ CcOpen \/ SessionClosed \/ Removed \/ Crash
  \/ AkhRequested \/ AuthNonce \/ Proof \/ HandleItem \/ WritePair \/ WriteFails
  \/ ProofHandled \/ Confirmed \/ NsModule

Spec == Init /\ [][Next]_vars

-----------------------------------------------------------------------------
(* Properties *)

TypeOK ==
  /\ cam \in Modules \cup {None}
  /\ phase \in {"out", "in", "session", "verify", "challenge", "prove", "proving",
                "confirm", "keys", "ready", "silent", "rejected"}
  /\ (cam = None) <=> (phase = "out")
  /\ tries \in 0 .. Tries /\ camKey \in Key /\ remembers \in [Modules -> Key]
  /\ opened \in BOOLEAN /\ reused \in BOOLEAN
  /\ private \in Credentials \cup {None}
  /\ todo \in Seq(Items)
  /\ file \in Seq(Akh) /\ buf \in Seq(Akh) /\ left \in Seq(Akh)
  /\ Len(file) + Len(left) <= Tries - 1
  /\ challenges \in 0 .. MaxChallenges /\ cuts \in 0 .. MaxCuts

\* When the module has made its session keys the host has made the same ones,
\* whether the module was recognised or has proved itself.
SidesShareKeys ==
  phase = "ready" => private.ks_host = [key |-> camKey, akh |-> Expected(camKey)]

\* "Module performs 5 tries to get correct AKH": one whose pair is in the file is
\* recognised within them, unless the session goes on with the credentials of one
\* the module has closed.
KnownModuleIsRecognised ==
  (phase = "challenge" /\ ~reused) => Expected(remembers[cam]) \notin ToSet(file)

\* A module that has proved itself is offered the new AKH, whatever has become of
\* the file.
ProofIsAccepted == phase # "rejected"

\* What is stored is an AKH of this host from one challenge: never the exponent
\* of one with the answer to another.
StoredPairsAreOfOneChallenge ==
  \A i \in 1 .. Len(file) : file[i].host = "host" /\ file[i].key[1] = file[i].key[2]

\* The file as its readers have it: while it is written, what it was before.
StoredPairs == IF left = <<>> THEN file ELSE buf
AbstractStore ==
  INSTANCE PairStore WITH Pair <- Akh, Capacity <- Tries - 1,
                          pairs <- StoredPairs

\* Read as one store, the file is always the newest pairs, newest first, none
\* twice; only a writing that is cut off loses more than the oldest.
StoreSpec == AbstractStore!Spec
=============================================================================
