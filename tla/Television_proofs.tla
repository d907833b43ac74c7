--------------------------- MODULE Television_proofs ---------------------------
(***************************************************************************)
(* What is proved of the parts of live television, for every value of the  *)
(* constants: content control (CCAuthentication), the video decoder and    *)
(* the HDMI CEC link (LiveVideo), the demultiplexer (Demux).  Each part    *)
(* has its lemmas over its own state, one for each operation; the last     *)
(* section carries the results over to MCSpec, where the parts stand side  *)
(* by side, together with those of CISessions_proofs and PcDecoder_proofs. *)
(*                                                                         *)
(* KInv, PInv, RInv and SInv are the invariants of content control, LInv   *)
(* that of LiveVideo, DmxInv and RecInv those of Demux.                    *)
(***************************************************************************)
EXTENDS MCTelevision, SequenceTheorems, WellFoundedInduction, TLAPS

\* A session that was opened has credentials.
HasCredentials == phase \notin {"out", "in", "session"} => private # None

KeyGoesWithAkh(d) == d.akh \in Akh => d.dhsk = d.akh.key

\* The DHSK is the one of the AKH on offer.
OfferIsWhole == private # None => KeyGoesWithAkh(private)

\* Before it makes its session keys the module has accepted the AKH on offer.
AkhIsAccepted == phase = "keys" => private.akh = Expected(camKey)

\* A module that is still asking has a try left.
TryIsLeft == phase = "verify" => tries < Tries

KInv == TypeOK /\ TryIsLeft /\ HasCredentials /\ OfferIsWhole /\ AkhIsAccepted /\ SidesShareKeys

\* The two values that stand for no AKH are none.
LEMMA NoneIsNoAkh == ZeroAkh \notin Akh /\ NoAkh \notin Akh
BY NoneAssumption DEF Akh, ZeroAkh, NoAkh

\* The pair that a module without a session has is one of the credentials.
LEMMA NoCredentialsTyped == NoCredentials \in Credentials
<1>1. NoKey \in Key
  BY BoundsAssumption DEF NoKey, Key, Secrets
<1>2. 0 \in Secrets /\ 0 \in 0 .. Tries
  BY BoundsAssumption, TriesAssumption DEF Secrets
<1> QED
  BY <1>1, <1>2 DEF NoCredentials, Credentials

\* Loading a pair keeps the credentials typed, and the DHSK that of the AKH.
LEMMA LoadedWhole ==
  ASSUME NEW d \in Credentials, NEW f \in Seq(Akh), NEW i \in Nat
  PROVE  Loaded(d, f, i) \in Credentials /\ KeyGoesWithAkh(Loaded(d, f, i))
<1>1. CASE HasPair(f, i)
  <2> DEFINE p == f[i + 1]
  <2>1. p \in Akh
    BY <1>1 DEF HasPair
  <2>2. p.host \in {"host", "junk"} /\ p.key \in Key
    BY <2>1 DEF Akh
  <2>3. Loaded(d, f, i) = [d EXCEPT !.host = p.host, !.dhsk = p.key, !.akh = p]
    BY <1>1 DEF Loaded
  <2> HIDE DEF p
  <2>4. Loaded(d, f, i) \in Credentials
    BY <2>1, <2>2, <2>3 DEF Credentials
  <2>5. Loaded(d, f, i).akh = p /\ Loaded(d, f, i).dhsk = p.key
    BY <2>3 DEF Credentials
  <2> QED BY <2>4, <2>5 DEF KeyGoesWithAkh
<1>2. CASE ~HasPair(f, i)
  <2>1. Loaded(d, f, i) = [d EXCEPT !.host = "junk", !.akh = ZeroAkh, !.akh_index = Tries]
    BY <1>2 DEF Loaded
  <2>2. Tries \in 0 .. Tries
    BY TriesAssumption
  <2>3. Loaded(d, f, i) \in Credentials
    BY <2>1, <2>2 DEF Credentials
  <2>4. Loaded(d, f, i).akh = ZeroAkh
    BY <2>1 DEF Credentials
  <2> QED BY <2>3, <2>4, NoneIsNoAkh DEF KeyGoesWithAkh
<1> QED BY <1>1, <1>2

\* So does a request for the AKH.
LEMMA OfferedWhole ==
  ASSUME NEW d \in Credentials, NEW f \in Seq(Akh), KeyGoesWithAkh(d)
  PROVE  Offered(d, f) \in Credentials /\ KeyGoesWithAkh(Offered(d, f))
<1>1. CASE d.akh_index # Tries
  <2> DEFINE e == [d EXCEPT !.akh_index = d.akh_index + 1]
  <2>1. d.akh_index \in 0 .. Tries
    BY DEF Credentials
  <2>2. d.akh_index \in Nat /\ d.akh_index + 1 \in 0 .. Tries
    BY <1>1, <2>1, TriesAssumption
  <2>3. e \in Credentials
    BY <2>2 DEF Credentials
  <2> QED BY <1>1, <2>2, <2>3, LoadedWhole DEF Offered
<1>2. CASE d.akh_index = Tries
  BY <1>2 DEF Offered
<1> QED BY <1>1, <1>2

\* One item of the proof keeps the credentials typed, and touches neither DHSK nor AKH.
LEMMA CheckedTyped ==
  ASSUME NEW d \in Credentials, NEW i \in Items, cam \in Modules \cup {None},
         challenges \in Secrets
  PROVE  LET c == Checked(Taken(d, i)) IN
           /\ c \in Credentials
           /\ c.dhsk = d.dhsk /\ c.akh = d.akh
<1> DEFINE t == Taken(d, i)
<1>1. d.valid \cup {i} \in SUBSET Items /\ d.dhpm \in Secrets
  BY DEF Credentials
<1>2. t \in Credentials /\ t.dhsk = d.dhsk /\ t.akh = d.akh
  BY <1>1 DEF Taken, Credentials
<1> HIDE DEF t
<1>3. Checked(t) \in Credentials /\ Checked(t).dhsk = t.dhsk /\ Checked(t).akh = t.akh
  <2>1. CASE CertsValid(t)
    <3>1. Checked(t) = [t EXCEPT !.cicam = cam]
      BY <2>1 DEF Checked
    <3> QED BY <3>1, <1>2 DEF Credentials
  <2>2. CASE ~CertsValid(t)
    BY <2>2, <1>2 DEF Checked
  <2> QED BY <2>1, <2>2
<1> QED BY <1>2, <1>3 DEF t

\* Agreed makes a whole pair of what was agreed.
LEMMA AgreedWhole ==
  ASSUME NEW d \in Credentials, d.cicam \in Modules
  PROVE  /\ Agreed(d) \in Credentials /\ KeyGoesWithAkh(Agreed(d))
         /\ Agreed(d).akh \in Akh
<1> DEFINE k == <<d.dh_exp, d.dhpm>>
           a == [cicam |-> d.cicam, host |-> d.host, key |-> k]
<1>1. k \in Key /\ d.host \in {"host", "junk"}
  BY DEF Credentials, Key
<1>2. a \in Akh /\ a.key = k
  BY <1>1 DEF Akh
<1>3. Agreed(d) = [d EXCEPT !.dhsk = k, !.akh = a, !.akh_index = Tries]
  BY DEF Agreed
<1>4. Tries \in 0 .. Tries
  BY TriesAssumption
<1> HIDE DEF k, a
<1>5. Agreed(d) \in Credentials
  BY <1>1, <1>2, <1>3, <1>4 DEF Credentials
<1>6. Agreed(d).akh = a /\ Agreed(d).dhsk = k
  BY <1>3 DEF Credentials
<1> QED BY <1>2, <1>5, <1>6 DEF KeyGoesWithAkh

\* What is to be written is typed and fits the file.
LEMMA ToWriteFits ==
  ASSUME NEW p \in Akh, NEW f \in Seq(Akh)
  PROVE  ToWrite(p, f) \in Seq(Akh) /\ Len(ToWrite(p, f)) <= Tries - 1
<1> DEFINE n == Min2(Len(f), Tries - 2)
           s == SubSeq(f, 1, n)
<1>1. n \in Nat /\ n <= Len(f) /\ n <= Tries - 2
  BY TriesAssumption DEF Min2
<1>2. s \in Seq(Akh) /\ Len(s) = n
  BY <1>1
<1>3. <<p>> \in Seq(Akh) /\ Len(<<p>>) = 1
  OBVIOUS
<1> HIDE DEF s, n
<1>4. <<p>> \o s \in Seq(Akh) /\ Len(<<p>> \o s) = 1 + n
  BY <1>2, <1>3
<1>5. ToWrite(p, f) = <<p>> \o s
  BY DEF ToWrite, s, n
<1> QED BY <1>1, <1>4, <1>5, TriesAssumption

\* Storing a pair keeps the file typed.
StoreTyped ==
  /\ file \in Seq(Akh) /\ buf \in Seq(Akh) /\ left \in Seq(Akh)
  /\ Len(file) + Len(left) <= Tries - 1
  /\ cuts \in 0 .. MaxCuts

\* Storing a pair keeps the types of the store.
LEMMA StoredTyped ==
  ASSUME NEW p \in Akh, StoreTyped, Stored(p)
  PROVE  StoreTyped'
<1>1. CASE UNCHANGED store
  BY <1>1 DEF StoreTyped, store
<1>2. CASE /\ buf' = file /\ left' = ToWrite(p, file) /\ file' = <<>>
           /\ UNCHANGED cuts
  <2>1. left' \in Seq(Akh) /\ Len(left') <= Tries - 1
    BY <1>2, ToWriteFits DEF StoreTyped
  <2>2. file' \in Seq(Akh) /\ Len(file') = 0
    BY <1>2
  <2>3. Len(file') + Len(left') <= Tries - 1
    BY <2>1, <2>2, TriesAssumption
  <2> QED BY <1>2, <2>1, <2>2, <2>3 DEF StoreTyped
<1> QED BY <1>1, <1>2 DEF Stored

\* The first state has the key invariant.
LEMMA InitKInv == Init => KInv
<1> SUFFICES ASSUME Init PROVE KInv
  OBVIOUS
<1>1. NoKey \in Key /\ 0 \in Secrets
  BY BoundsAssumption DEF NoKey, Key, Secrets
<1>2. /\ cam = None /\ phase = "out" /\ private = None
      /\ opened = FALSE /\ reused = FALSE
      /\ tries = 0 /\ challenges = 0 /\ cuts = 0
      /\ camKey = NoKey /\ remembers = [m \in Modules |-> NoKey]
      /\ todo = <<>> /\ file = <<>> /\ buf = <<>> /\ left = <<>>
  BY DEF Init
<1>3. tries \in 0 .. Tries /\ challenges \in 0 .. MaxChallenges /\ cuts \in 0 .. MaxCuts
  BY <1>2, TriesAssumption, BoundsAssumption
<1>4. camKey \in Key /\ remembers \in [Modules -> Key]
  BY <1>1, <1>2
<1>5. /\ file \in Seq(Akh) /\ buf \in Seq(Akh) /\ left \in Seq(Akh) /\ todo \in Seq(Items)
      /\ Len(file) + Len(left) <= Tries - 1
  BY <1>2, TriesAssumption
<1>6. TypeOK
  BY <1>2, <1>3, <1>4, <1>5 DEF TypeOK
<1> QED BY <1>2, <1>6, TriesAssumption DEF KInv, TryIsLeft, HasCredentials, OfferIsWhole, AkhIsAccepted, SidesShareKeys

Quiet == UNCHANGED <<todo, store, challenges>>

\* The parts of KInv that speak of the module and its credentials are all that a
\* step has to keep when it leaves the file, the proof and the challenges alone.
ModuleTyped ==
  /\ cam \in Modules \cup {None}
  /\ phase \in {"out", "in", "session", "verify", "challenge", "prove", "proving",
                "confirm", "keys", "ready", "silent", "rejected"}
  /\ (cam = None) <=> (phase = "out")
  /\ tries \in 0 .. Tries /\ camKey \in Key /\ remembers \in [Modules -> Key]
  /\ opened \in BOOLEAN /\ reused \in BOOLEAN
  /\ private \in Credentials \cup {None}

\* A step that leaves the store alone keeps the types.
LEMMA QuietTyped == TypeOK /\ Quiet /\ ModuleTyped' => TypeOK'
BY DEF TypeOK, Quiet, ModuleTyped, store

\* Forgetting the session keeps the invariant, whatever has become of the file.
LEMMA ForgottenKInv ==
  ASSUME KInv, NEW p \in {"out", "in"}, p = "in" => cam # None, Forgotten(p),
         file' \in Seq(Akh), buf' \in Seq(Akh), left' \in Seq(Akh),
         Len(file') + Len(left') <= Tries - 1, cuts' \in 0 .. MaxCuts
  PROVE  KInv'
<1>1. NoKey \in Key /\ 0 \in 0 .. Tries
  BY BoundsAssumption, TriesAssumption DEF NoKey, Key, Secrets
<1>2. /\ phase' = p /\ cam' = (IF p = "out" THEN None ELSE cam)
      /\ tries' = 0 /\ camKey' = NoKey /\ private' = None /\ todo' = <<>>
      /\ opened' = FALSE /\ reused' = FALSE
      /\ remembers' = remembers /\ challenges' = challenges
  BY DEF Forgotten
<1>3. todo' \in Seq(Items)
  BY <1>2
<1>4. TypeOK'
  BY <1>1, <1>2, <1>3, NoneAssumption DEF KInv, TypeOK
<1> QED BY <1>2, <1>4 DEF KInv, TryIsLeft, HasCredentials, OfferIsWhole, AkhIsAccepted, SidesShareKeys

\* Every step keeps the invariant.
LEMMA NextKInv == KInv /\ [Next]_vars => KInv'
<1> SUFFICES ASSUME KInv, [Next]_vars PROVE KInv'
  OBVIOUS
<1>0. TypeOK /\ TryIsLeft /\ HasCredentials /\ OfferIsWhole /\ AkhIsAccepted /\ SidesShareKeys
  BY DEF KInv
<1>a. /\ cam \in Modules \cup {None} /\ (cam = None <=> phase = "out")
      /\ private \in Credentials \cup {None}
      /\ file \in Seq(Akh) /\ remembers \in [Modules -> Key]
      /\ None \notin Modules
  BY <1>0, NoneAssumption DEF TypeOK
<1>1. CASE Inserted
  <2>1. ModuleTyped'
    BY <1>0, <1>a, <1>1 DEF Inserted, TypeOK, ModuleTyped
  <2> QED BY <1>0, <1>1, <2>1, QuietTyped
          DEF Inserted, Quiet, store, KInv, TryIsLeft, HasCredentials, OfferIsWhole, AkhIsAccepted, SidesShareKeys
<1>2. CASE SessionCreated
  <2>1. ModuleTyped'
    BY <1>0, <1>a, <1>2 DEF SessionCreated, TypeOK, ModuleTyped
  <2> QED BY <1>0, <1>2, <2>1, QuietTyped
          DEF SessionCreated, Quiet, store, KInv, TryIsLeft, HasCredentials, OfferIsWhole, AkhIsAccepted,
              SidesShareKeys
<1>3. CASE CcOpen
  <2>1. private' \in Credentials /\ KeyGoesWithAkh(private')
    <3>1. Initialized(file) \in Credentials /\ KeyGoesWithAkh(Initialized(file))
      BY <1>a, NoCredentialsTyped, LoadedWhole DEF Initialized
    <3> QED BY <1>0, <1>a, <1>3, <3>1 DEF CcOpen, OfferIsWhole
  <2>2. private' # None
    BY <2>1, NoneAssumption
  <2>3. ModuleTyped'
    BY <1>0, <1>a, <1>3, <2>1, TriesAssumption DEF CcOpen, TypeOK, ModuleTyped
  <2> QED BY <1>0, <1>3, <2>1, <2>2, <2>3, QuietTyped, TriesAssumption
          DEF CcOpen, Quiet, store, KInv, TryIsLeft, HasCredentials, OfferIsWhole, AkhIsAccepted, SidesShareKeys
<1>4. CASE SessionClosed
  <2>1. ModuleTyped'
    BY <1>0, <1>a, <1>4, TriesAssumption DEF SessionClosed, TypeOK, ModuleTyped
  <2> QED BY <1>0, <1>4, <2>1, QuietTyped
          DEF SessionClosed, Quiet, store, KInv, TryIsLeft, HasCredentials, OfferIsWhole, AkhIsAccepted,
              SidesShareKeys
<1>5. CASE Removed
  <2>1. PICK p \in {"out", "in"} : Forgotten(p)
    BY <1>5 DEF Removed
  <2> QED BY <1>0, <1>5, <1>a, <2>1, ForgottenKInv DEF Removed, TypeOK, store
<1>6. CASE Crash
  <2> DEFINE p == IF cam = None THEN "out" ELSE "in"
  <2>1. Forgotten(p) /\ buf' = <<>> /\ left' = <<>> /\ file' = file /\ cuts' \in 0 .. MaxCuts
    BY <1>0, <1>6, BoundsAssumption DEF Crash, TypeOK
  <2>2. Len(file') + Len(left') <= Tries - 1
    BY <1>0, <2>1, TriesAssumption DEF TypeOK
  <2>3. file' \in Seq(Akh) /\ buf' \in Seq(Akh) /\ left' \in Seq(Akh)
    BY <1>a, <2>1
  <2>4. p \in {"out", "in"} /\ (p = "in" => cam # None)
    OBVIOUS
  <2> HIDE DEF p
  <2> QED BY <2>1, <2>2, <2>3, <2>4, ForgottenKInv
<1>7. CASE AkhRequested
  <2> DEFINE d == Offered(private, file)
  <2>1. private \in Credentials /\ cam \in Modules
    BY <1>0, <1>7, <1>a DEF AkhRequested, HasCredentials
  <2>2. d \in Credentials /\ KeyGoesWithAkh(d)
    BY <1>0, <1>a, <2>1, OfferedWhole, NoneAssumption DEF OfferIsWhole
  <2> HIDE DEF d
  <2>3. /\ private' = d /\ tries' = tries + 1 /\ phase = "verify"
        /\ \/ phase' \in {"silent", "challenge"} /\ camKey' = camKey
           \/ phase' = "verify" /\ tries' # Tries /\ camKey' = camKey
           \/ phase' = "keys" /\ camKey' = remembers[cam] /\ d.akh = Expected(remembers[cam])
        /\ UNCHANGED <<cam, remembers, opened, reused, todo, store, challenges>>
    BY <1>7 DEF AkhRequested, d
  <2>4. tries' \in 0 .. Tries /\ (phase' = "verify" => tries' < Tries)
    BY <1>0, <2>3, TriesAssumption DEF TypeOK, TryIsLeft
  <2>5. camKey' \in Key
    BY <1>0, <2>1, <2>3 DEF TypeOK
  <2>6. phase' = "keys" => private'.akh = Expected(camKey)'
    BY <2>3 DEF Expected
  <2>7. ModuleTyped'
    BY <1>0, <1>a, <2>2, <2>3, <2>4, <2>5 DEF TypeOK, ModuleTyped
  <2> QED BY <1>0, <2>2, <2>3, <2>4, <2>6, <2>7, QuietTyped, NoneAssumption
          DEF Quiet, KInv, TryIsLeft, HasCredentials, OfferIsWhole, AkhIsAccepted, SidesShareKeys
<1>8. CASE AuthNonce
  <2>1. private \in Credentials /\ KeyGoesWithAkh(private)
    BY <1>0, <1>8, <1>a, NoneAssumption DEF AuthNonce, HasCredentials, OfferIsWhole
  <2>2. challenges' = challenges + 1 /\ challenges' \in Secrets
    BY <1>0, <1>8, BoundsAssumption DEF AuthNonce, TypeOK, Secrets
  <2>3. private' \in Credentials /\ KeyGoesWithAkh(private')
    <3>1. CASE private' = Restarted(private, challenges')
      <4> DEFINE n == challenges'
      <4>1. private.valid \ {"dhpm", "sigB"} \in SUBSET Items /\ 0 \in Secrets
        BY <2>1, BoundsAssumption DEF Credentials, Secrets
      <4>2. n \in Secrets
        BY <2>2
      <4> HIDE DEF n
      <4>3. private' = [private EXCEPT !.nonce = TRUE, !.host = "host", !.cicam = None,
                                       !.valid = private.valid \ {"dhpm", "sigB"},
                                       !.dhpm = 0, !.akh = NoAkh, !.dh_exp = n]
        BY <3>1 DEF Restarted, n
      <4>4. private' \in Credentials
        BY <2>1, <4>1, <4>2, <4>3 DEF Credentials
      <4>5. private'.akh = NoAkh
        BY <2>1, <4>3 DEF Credentials
      <4> QED BY <4>4, <4>5, NoneIsNoAkh DEF KeyGoesWithAkh
    <3>2. CASE \E h \in {private.host, "host"} :
                 private' = [private EXCEPT !.nonce = TRUE, !.host = h]
      BY <2>1, <3>2 DEF Credentials, KeyGoesWithAkh
    <3> QED BY <1>8, <3>1, <3>2 DEF AuthNonce
  <2>4. /\ phase' \in {"prove", "silent"} /\ phase # "out"
        /\ UNCHANGED <<cam, tries, camKey, remembers, opened, todo, store, reused>>
    BY <1>8 DEF AuthNonce
  <2>5. TypeOK'
    BY <1>0, <1>8, <2>2, <2>3, <2>4 DEF AuthNonce, TypeOK, store, Secrets
  <2> QED BY <2>3, <2>4, <2>5, NoneAssumption
          DEF KInv, TryIsLeft, HasCredentials, OfferIsWhole, AkhIsAccepted, SidesShareKeys
<1>9. CASE Proof
  <2>1. private \in Credentials /\ KeyGoesWithAkh(private)
    BY <1>0, <1>9, <1>a, NoneAssumption DEF Proof, HasCredentials, OfferIsWhole
  <2>2. camKey' \in Key
    BY <1>0, <1>9, <2>1 DEF Proof, TypeOK, Credentials, Key, Secrets
  <2>3. todo' \in Seq(Items)
    <3>1. todo' \in [1 .. 4 -> Items]
      BY <1>9 DEF Proof, Orders
    <3> QED BY <3>1, SeqDef
  <2>4. TypeOK'
    BY <1>0, <1>9, <2>2, <2>3 DEF Proof, TypeOK, store
  <2> QED BY <1>9, <2>1, <2>4, NoneAssumption
          DEF Proof, KInv, TryIsLeft, HasCredentials, OfferIsWhole, AkhIsAccepted, SidesShareKeys
<1>10. CASE HandleItem
  <2> DEFINE d == Checked(Taken(private, Head(todo)))
  <2>1. private \in Credentials /\ KeyGoesWithAkh(private) /\ phase = "proving"
    BY <1>0, <1>10, <1>a, NoneAssumption DEF HandleItem, HasCredentials, OfferIsWhole
  <2>2. /\ Head(todo) \in Items /\ Tail(todo) \in Seq(Items)
        /\ challenges \in Secrets /\ cam \in Modules \cup {None}
    BY <1>0, <1>10 DEF HandleItem, TypeOK, Secrets
  <2>3. d \in Credentials /\ d.dhsk = private.dhsk /\ d.akh = private.akh
    BY <2>1, <2>2, CheckedTyped
  <2>4. StoreTyped
    BY <1>0 DEF TypeOK, StoreTyped
  <2> HIDE DEF d
  <2>5. private' \in Credentials /\ KeyGoesWithAkh(private') /\ StoreTyped'
    <3>1. CASE CertsValid(d) /\ Complete(d)
      <4>1. d.cicam \in Modules
        BY <2>3, <3>1 DEF Complete, Credentials
      <4>2. private' = Agreed(d) /\ Stored(Agreed(d).akh)
        BY <1>10, <3>1 DEF HandleItem, d
      <4> QED BY <2>3, <2>4, <4>1, <4>2, AgreedWhole, StoredTyped
    <3>2. CASE ~(CertsValid(d) /\ Complete(d))
      <4>1. private' = d /\ UNCHANGED store
        BY <1>10, <3>2 DEF HandleItem, d
      <4> QED BY <2>1, <2>3, <2>4, <4>1 DEF StoreTyped, store, KeyGoesWithAkh
    <3> QED BY <3>1, <3>2
  <2>6. todo' = Tail(todo) /\ UNCHANGED <<module, opened, challenges, reused>>
    BY <1>10 DEF HandleItem
  <2>7. TypeOK'
    BY <1>0, <2>2, <2>5, <2>6 DEF TypeOK, StoreTyped, module
  <2> QED BY <2>1, <2>5, <2>6, <2>7, NoneAssumption
          DEF module, KInv, TryIsLeft, HasCredentials, OfferIsWhole, AkhIsAccepted, SidesShareKeys
<1>11. CASE WritePair
  <2>1. /\ file' \in Seq(Akh) /\ left' \in Seq(Akh)
        /\ Len(file') = Len(file) + 1 /\ Len(left') = Len(left) - 1
    BY <1>0, <1>11 DEF WritePair, TypeOK
  <2>2. Len(file) \in Nat /\ Len(left) \in Nat /\ Len(file) + Len(left) <= Tries - 1
    BY <1>0 DEF TypeOK
  <2>3. Len(file') + Len(left') <= Tries - 1
    BY <2>1, <2>2, TriesAssumption
  <2>4. buf' \in Seq(Akh)
    BY <1>0, <1>11 DEF WritePair, TypeOK
  <2>5. TypeOK'
    BY <1>0, <1>11, <2>1, <2>3, <2>4 DEF WritePair, TypeOK, module
  <2> QED BY <1>0, <1>11, <2>5
          DEF WritePair, module, KInv, TryIsLeft, HasCredentials, OfferIsWhole, AkhIsAccepted,
              SidesShareKeys, Expected
<1>12. CASE WriteFails
  <2>1. /\ buf' \in Seq(Akh) /\ left' \in Seq(Akh) /\ Len(left') = 0
        /\ cuts' \in 0 .. MaxCuts
    BY <1>0, <1>12, BoundsAssumption DEF WriteFails, TypeOK
  <2>2. Len(file') + Len(left') <= Tries - 1
    <3>1. file' = file /\ Len(file) \in Nat /\ Len(left) \in Nat
          /\ Len(file) + Len(left) <= Tries - 1
      BY <1>0, <1>12 DEF WriteFails, TypeOK
    <3> QED BY <2>1, <3>1, TriesAssumption
  <2>3. TypeOK'
    BY <1>0, <1>12, <2>1, <2>2 DEF WriteFails, TypeOK, module
  <2> QED BY <1>0, <1>12, <2>3
          DEF WriteFails, module, KInv, TryIsLeft, HasCredentials, OfferIsWhole, AkhIsAccepted,
              SidesShareKeys, Expected
<1>13. CASE ProofHandled
  <2>1. ModuleTyped'
    BY <1>0, <1>a, <1>13 DEF ProofHandled, TypeOK, ModuleTyped
  <2> QED BY <1>0, <1>13, <2>1, QuietTyped
          DEF ProofHandled, Quiet, store, KInv, TryIsLeft, HasCredentials, OfferIsWhole,
              AkhIsAccepted, SidesShareKeys
<1>14. CASE Confirmed
  <2> DEFINE d == Offered(private, file)
  <2>1. private \in Credentials /\ KeyGoesWithAkh(private) /\ cam \in Modules
    BY <1>0, <1>14, <1>a, NoneAssumption DEF Confirmed, HasCredentials, OfferIsWhole
  <2>2. d \in Credentials /\ KeyGoesWithAkh(d)
    BY <1>a, <2>1, OfferedWhole
  <2> HIDE DEF d
  <2>3. /\ private' = d /\ phase = "confirm"
        /\ \/ phase' = "keys" /\ d.akh = Expected(camKey)
              /\ remembers' = [remembers EXCEPT ![cam] = camKey]
           \/ phase' = "rejected" /\ remembers' = remembers
        /\ UNCHANGED <<cam, tries, camKey, opened, todo, store, challenges, reused>>
    BY <1>14 DEF Confirmed, d
  <2>4. remembers' \in [Modules -> Key]
    BY <1>0, <1>a, <2>1, <2>3 DEF TypeOK
  <2>5. phase' = "keys" => private'.akh = Expected(camKey)'
    BY <2>3 DEF Expected
  <2>6. ModuleTyped'
    BY <1>0, <1>a, <2>2, <2>3, <2>4 DEF TypeOK, ModuleTyped
  <2> QED BY <1>0, <2>2, <2>3, <2>5, <2>6, QuietTyped, NoneAssumption
          DEF Quiet, KInv, TryIsLeft, HasCredentials, OfferIsWhole, AkhIsAccepted, SidesShareKeys
<1>15. CASE NsModule
  <2> DEFINE s == [key |-> private.dhsk, akh |-> private.akh]
  <2>1. private \in Credentials /\ KeyGoesWithAkh(private) /\ cam \in Modules
    BY <1>0, <1>15, <1>a, NoneAssumption DEF NsModule, HasCredentials, OfferIsWhole
  <2>2. private.akh = Expected(camKey) /\ Expected(camKey) \in Akh /\ Expected(camKey).key = camKey
    BY <1>0, <1>15, <2>1 DEF NsModule, AkhIsAccepted, Expected, Akh, TypeOK
  <2>3. private.dhsk = camKey
    BY <2>1, <2>2 DEF KeyGoesWithAkh
  <2>4. s \in [key : Key, akh : Akh \cup {ZeroAkh, NoAkh}]
    BY <2>1 DEF Credentials
  <2> HIDE DEF s
  <2>5. private' = [private EXCEPT !.ks_host = s] /\ phase' = "ready"
        /\ UNCHANGED <<cam, tries, camKey, remembers, opened, todo, store, challenges, reused>>
    BY <1>15 DEF NsModule, s
  <2>6. /\ private' \in Credentials /\ private'.ks_host = s
        /\ private'.akh = private.akh /\ private'.dhsk = private.dhsk
    BY <2>1, <2>4, <2>5 DEF Credentials
  <2>7. SidesShareKeys'
    BY <2>2, <2>3, <2>5, <2>6 DEF SidesShareKeys, Expected, s
  <2>8. ModuleTyped'
    BY <1>0, <1>a, <2>1, <2>5, <2>6 DEF TypeOK, ModuleTyped
  <2> QED BY <1>0, <2>1, <2>5, <2>6, <2>7, <2>8, QuietTyped, NoneAssumption
          DEF Quiet, KInv, TryIsLeft, HasCredentials, OfferIsWhole, AkhIsAccepted, KeyGoesWithAkh
<1>16. CASE UNCHANGED vars
  BY <1>0, <1>16 DEF vars, module, store, TypeOK, KInv, TryIsLeft, HasCredentials, OfferIsWhole,
                     AkhIsAccepted, SidesShareKeys, Expected
<1> QED
  BY <1>1, <1>2, <1>3, <1>4, <1>5, <1>6, <1>7, <1>8, <1>9, <1>10, <1>11, <1>12, <1>13, <1>14,
     <1>15, <1>16 DEF Next

-----------------------------------------------------------------------------

\* Every state is typed: in particular the file, with what is still to be written
\* to it, never holds more pairs than its reader's index reaches.
THEOREM CredentialsTyped == Spec => []TypeOK
<1>1. KInv => TypeOK
  BY DEF KInv
<1> QED BY InitKInv, NextKInv, <1>1, PTL DEF Spec

\* A module that has made its session keys, recognised by a stored pair or after a
\* challenge, has made the same keys as the host.
THEOREM SidesAlwaysShareKeys == Spec => []SidesShareKeys
<1>1. KInv => SidesShareKeys
  BY DEF KInv
<1> QED BY InitKInv, NextKInv, <1>1, PTL DEF Spec

-----------------------------------------------------------------------------

\* A DHPM that is valid belongs to the exponent of the host; once its proof is
\* handled no stored pair is offered any more.
ProofIsCurrent ==
  (private # None /\ "dhpm" \in private.valid) =>
    /\ private.dhpm = private.dh_exp /\ private.host = "host"
    /\ phase # "proving" => private.akh_index = Tries

\* While a module proves itself every item is valid or still to come, and with the
\* last of them the AKH is the one the module expects.
ProofGoesOn ==
  /\ phase \in {"prove", "proving"} =>
       /\ private.nonce /\ private.host = "host" /\ private.dh_exp = challenges
  /\ phase = "prove" => "dhpm" \notin private.valid
  /\ phase = "proving" =>
       /\ camKey = <<challenges, challenges>>
       /\ \A i \in Items : i \in private.valid \/ \E j \in 1 .. Len(todo) : todo[j] = i
       /\ private.valid = Items => private.akh_index = Tries /\ private.akh = Expected(camKey)
  /\ phase = "confirm" => private.akh_index = Tries /\ private.akh = Expected(camKey)

OfOneChallenge(s) ==
  \A i \in 1 .. Len(s) : s[i].host = "host" /\ s[i].key[1] = s[i].key[2]

StoreOfOneChallenge == OfOneChallenge(file) /\ OfOneChallenge(left)

PInv == KInv /\ ProofIsCurrent /\ ProofGoesOn /\ StoreOfOneChallenge /\ ProofIsAccepted

\* A request for the AKH changes nothing once the index is at its end.
LEMMA NothingToOffer ==
  ASSUME NEW d, NEW f, d.akh_index = Tries PROVE Offered(d, f) = d
BY DEF Offered

\* It never touches the proof.
LEMMA OfferedSparesProof ==
  ASSUME NEW d \in Credentials, NEW f \in Seq(Akh)
  PROVE  LET e == Offered(d, f) IN e.valid = d.valid
<1>1. CASE d.akh_index # Tries
  <2> DEFINE c == [d EXCEPT !.akh_index = d.akh_index + 1]
  <2>1. c.valid = d.valid /\ Offered(d, f) = Loaded(c, f, d.akh_index)
    BY <1>1 DEF Offered, Credentials
  <2>2. c = [d EXCEPT !.akh_index = d.akh_index + 1]
    OBVIOUS
  <2> HIDE DEF c
  <2>3. Loaded(c, f, d.akh_index).valid = c.valid
    BY <2>2 DEF Loaded, Credentials
  <2> QED BY <2>1, <2>3
<1>2. CASE d.akh_index = Tries
  BY <1>2 DEF Offered
<1> QED BY <1>1, <1>2

\* Of credentials that were just initialised nothing is valid yet.
LEMMA FreshProof ==
  ASSUME NEW f
  PROVE  Initialized(f).valid = {}
BY DEF Initialized, Loaded, NoCredentials

\* What is written after the file was truncated is of one challenge if the file and
\* the new pair were.
LEMMA ToWriteOfOneChallenge ==
  ASSUME NEW p \in Akh, NEW f \in Seq(Akh), OfOneChallenge(f),
         p.host = "host", p.key[1] = p.key[2]
  PROVE  OfOneChallenge(ToWrite(p, f))
<1> DEFINE n == Min2(Len(f), Tries - 2)
           s == SubSeq(f, 1, n)
           w == <<p>> \o s
<1>1. n \in Nat /\ n <= Len(f)
  BY TriesAssumption DEF Min2
<1>2. s \in Seq(Akh) /\ Len(s) = n /\ \A i \in 1 .. n : s[i] = f[i]
  BY <1>1
<1>3. w \in Seq(Akh) /\ Len(w) = n + 1 /\ w[1] = p /\ \A i \in 1 .. n : w[i + 1] = s[i]
  <2>1. <<p>> \in Seq(Akh) /\ Len(<<p>>) = 1 /\ <<p>>[1] = p
    OBVIOUS
  <2> HIDE DEF s
  <2> QED BY <1>1, <1>2, <2>1
<1>4. \A i \in 1 .. n + 1 : i # 1 => i - 1 \in 1 .. n /\ w[i] = s[i - 1]
  BY <1>1, <1>3
<1>5. ToWrite(p, f) = w
  BY DEF ToWrite
<1> HIDE DEF n, s, w
<1>6. \A i \in 1 .. Len(w) : w[i] = p \/ \E k \in 1 .. Len(f) : w[i] = f[k]
  <2> TAKE i \in 1 .. Len(w)
  <2>1. CASE i = 1
    BY <2>1, <1>3
  <2>2. CASE i # 1
    <3>1. i \in 1 .. n + 1
      BY <1>3
    <3>2. i - 1 \in 1 .. n /\ w[i] = s[i - 1]
      BY <2>2, <3>1, <1>4
    <3>3. w[i] = f[i - 1] /\ i - 1 \in 1 .. Len(f)
      BY <3>2, <1>1, <1>2
    <3> QED BY <3>3
  <2> QED BY <2>1, <2>2
<1>7. OfOneChallenge(w)
  <2> SUFFICES ASSUME NEW i \in 1 .. Len(w)
               PROVE  w[i].host = "host" /\ w[i].key[1] = w[i].key[2]
    BY DEF OfOneChallenge
  <2> QED BY <1>6 DEF OfOneChallenge
<1> QED BY <1>5, <1>7

\* The first state has the proof invariant.
LEMMA InitPInv == Init => PInv
<1> SUFFICES ASSUME Init PROVE PInv
  OBVIOUS
<1>1. private = None /\ phase = "out" /\ file = <<>> /\ left = <<>>
  BY DEF Init
<1>2. OfOneChallenge(<<>>)
  BY DEF OfOneChallenge
<1> QED BY <1>1, <1>2, InitKInv
        DEF PInv, ProofIsCurrent, ProofGoesOn, StoreOfOneChallenge, ProofIsAccepted

\* One item of the proof, field by field.
LEMMA CheckedFields ==
  ASSUME NEW d \in Credentials, NEW i \in Items
  PROVE  LET c == Checked(Taken(d, i)) IN
           /\ c.valid = d.valid \cup {i} /\ c.nonce = d.nonce /\ c.host = d.host
           /\ c.dh_exp = d.dh_exp /\ c.akh_index = d.akh_index
           /\ c.dhpm = (IF i = "dhpm" THEN challenges ELSE d.dhpm)
           /\ CertsValid(c) => c.cicam = cam
<1> DEFINE t == Taken(d, i)
<1>1. /\ t.valid = d.valid \cup {i} /\ t.nonce = d.nonce /\ t.host = d.host
      /\ t.dh_exp = d.dh_exp /\ t.akh_index = d.akh_index
      /\ t.dhpm = (IF i = "dhpm" THEN challenges ELSE d.dhpm)
  BY DEF Taken, Credentials
<1>2. t = [t EXCEPT !.cicam = t.cicam]
  BY DEF Taken, Credentials
<1>3. \A x : LET c == [t EXCEPT !.cicam = x] IN
        /\ c.valid = t.valid /\ c.nonce = t.nonce /\ c.host = t.host
        /\ c.dh_exp = t.dh_exp /\ c.akh_index = t.akh_index /\ c.dhpm = t.dhpm /\ c.cicam = x
  BY DEF Taken, Credentials
<1> HIDE DEF t
<1>4. CASE CertsValid(t)
  <2>1. Checked(t) = [t EXCEPT !.cicam = cam]
    BY <1>4 DEF Checked
  <2> QED BY <1>1, <1>3, <2>1 DEF t
<1>5. CASE ~CertsValid(t)
  <2>1. Checked(t) = t
    BY <1>5 DEF Checked
  <2> QED BY <1>1, <1>5, <2>1 DEF t
<1> QED BY <1>4, <1>5

\* Every order of the items has all of them.
LEMMA OrdersAreWhole ==
  ASSUME NEW s \in Orders, NEW i \in Items PROVE \E j \in 1 .. 4 : s[j] = i
<1>1. /\ s[1] \in Items /\ s[2] \in Items /\ s[3] \in Items /\ s[4] \in Items
      /\ s[1] # s[2] /\ s[1] # s[3] /\ s[1] # s[4]
      /\ s[2] # s[3] /\ s[2] # s[4] /\ s[3] # s[4]
  BY DEF Orders
<1>2. i = s[1] \/ i = s[2] \/ i = s[3] \/ i = s[4]
  BY <1>1 DEF Items
<1> QED BY <1>2

\* The steps of a module that is neither proving itself nor about to.
LEMMA QuietPInv ==
  ASSUME PInv, KInv', UNCHANGED <<private, file, left>>, phase # "proving",
         phase' \notin {"prove", "proving", "confirm", "rejected"}
  PROVE  PInv'
BY DEF PInv, ProofIsCurrent, ProofGoesOn, StoreOfOneChallenge, ProofIsAccepted, OfOneChallenge

\* Every step keeps the proof invariant.
LEMMA NextPInv == PInv /\ [Next]_vars => PInv'
<1> SUFFICES ASSUME PInv, [Next]_vars PROVE PInv'
  OBVIOUS
<1>0. /\ KInv /\ KInv' /\ TypeOK /\ HasCredentials /\ NoneAssumption
      /\ ProofIsCurrent /\ ProofGoesOn /\ StoreOfOneChallenge /\ ProofIsAccepted
  BY NextKInv, NoneAssumption DEF PInv, KInv
<1>a. /\ private \in Credentials \cup {None} /\ file \in Seq(Akh) /\ left \in Seq(Akh)
      /\ cam \in Modules \cup {None}
  BY <1>0 DEF TypeOK
<1>1. CASE Inserted
  BY <1>0, <1>1, QuietPInv DEF Inserted, store
<1>2. CASE SessionCreated
  BY <1>0, <1>2, QuietPInv DEF SessionCreated, store
<1>3. CASE CcOpen
  <2>1. CASE private = None
    <3>1. private'.valid = {} /\ phase' = "verify" /\ file' = file /\ left' = left
      BY <1>3, <2>1, FreshProof DEF CcOpen, store
    <3> QED BY <1>0, <3>1
            DEF PInv, ProofIsCurrent, ProofGoesOn, StoreOfOneChallenge, ProofIsAccepted,
                OfOneChallenge
  <2>2. CASE private # None
    BY <1>0, <1>3, <2>2, QuietPInv DEF CcOpen, store
  <2> QED BY <2>1, <2>2
<1>4. CASE SessionClosed
  BY <1>0, <1>4, QuietPInv DEF SessionClosed, store
<1>5. CASE Removed
  <2>1. private' = None /\ phase' \in {"out", "in"} /\ file' = file /\ left' = left
    BY <1>5 DEF Removed, Forgotten, store
  <2> QED BY <1>0, <2>1
          DEF PInv, ProofIsCurrent, ProofGoesOn, StoreOfOneChallenge, ProofIsAccepted, OfOneChallenge
<1>6. CASE Crash
  <2>1. private' = None /\ phase' \in {"out", "in"} /\ file' = file /\ left' = <<>>
    BY <1>6 DEF Crash, Forgotten
  <2>2. OfOneChallenge(<<>>)
    BY DEF OfOneChallenge
  <2> QED BY <1>0, <2>1, <2>2
          DEF PInv, ProofIsCurrent, ProofGoesOn, StoreOfOneChallenge, ProofIsAccepted, OfOneChallenge
<1>7. CASE AkhRequested
  <2>1. private \in Credentials /\ private # None
    BY <1>0, <1>7, <1>a DEF AkhRequested, HasCredentials
  <2>2. /\ private' = Offered(private, file) /\ phase = "verify"
        /\ phase' \in {"silent", "keys", "challenge", "verify"}
        /\ file' = file /\ left' = left
    BY <1>7 DEF AkhRequested, store
  <2>3. "dhpm" \in private'.valid => private' = private
    <3>1. private'.valid = private.valid
      BY <1>a, <2>1, <2>2, OfferedSparesProof
    <3>2. "dhpm" \in private.valid => private.akh_index = Tries
      BY <1>0, <2>1, <2>2 DEF ProofIsCurrent
    <3> QED BY <2>2, <3>1, <3>2, NothingToOffer
  <2> QED BY <1>0, <2>1, <2>2, <2>3
          DEF PInv, ProofIsCurrent, ProofGoesOn, StoreOfOneChallenge, ProofIsAccepted, OfOneChallenge
<1>8. CASE AuthNonce
  <2>1. private \in Credentials /\ private # None /\ phase # "proving"
    BY <1>0, <1>8, <1>a DEF AuthNonce, HasCredentials
  <2>2. file' = file /\ left' = left /\ challenges' = challenges + 1
    BY <1>8 DEF AuthNonce, store
  <2>3. CASE private' = Restarted(private, challenges') /\ phase' = "prove"
    <3>1. /\ private'.nonce = TRUE /\ private'.host = "host"
          /\ private'.dh_exp = challenges' /\ "dhpm" \notin private'.valid
      <4> DEFINE n == challenges'
      <4>1. private' = Restarted(private, n)
        BY <2>3
      <4> HIDE DEF n
      <4>2. /\ private'.nonce = TRUE /\ private'.host = "host" /\ private'.dh_exp = n
            /\ private'.valid = private.valid \ {"dhpm", "sigB"}
        BY <2>1, <4>1 DEF Restarted, Credentials
      <4> QED BY <4>2 DEF n
    <3> QED BY <1>0, <2>2, <2>3, <3>1
            DEF PInv, ProofIsCurrent, ProofGoesOn, StoreOfOneChallenge, ProofIsAccepted,
                OfOneChallenge
  <2>4. CASE /\ \E h \in {private.host, "host"} :
                  private' = [private EXCEPT !.nonce = TRUE, !.host = h]
             /\ phase' = "silent"
    <3>1. /\ private'.valid = private.valid /\ private'.dhpm = private.dhpm
          /\ private'.dh_exp = private.dh_exp /\ private'.akh_index = private.akh_index
          /\ private'.host \in {private.host, "host"}
      BY <2>1, <2>4 DEF Credentials
    <3> QED BY <1>0, <2>1, <2>2, <2>4, <3>1
            DEF PInv, ProofIsCurrent, ProofGoesOn, StoreOfOneChallenge, ProofIsAccepted,
                OfOneChallenge
  <2> QED BY <1>8, <2>3, <2>4 DEF AuthNonce
<1>9. CASE Proof
  <2>1. /\ private' = private /\ challenges' = challenges /\ phase = "prove" /\ phase' = "proving"
        /\ file' = file /\ left' = left /\ todo' \in Orders
        /\ camKey' = <<private.dh_exp, challenges>>
    BY <1>9 DEF Proof, store
  <2>2. \A i \in Items : \E j \in 1 .. Len(todo') : todo'[j] = i
    <3>1. todo' \in [1 .. 4 -> Items] /\ Len(todo') = 4
      BY <1>0, <2>1 DEF Orders, KInv, TypeOK
    <3>2. \A i \in Items : \E j \in 1 .. 4 : todo'[j] = i
      BY <2>1, OrdersAreWhole
    <3> QED BY <3>1, <3>2
  <2>3. private # None /\ private.valid # Items /\ "dhpm" \notin private.valid
    BY <1>0, <2>1 DEF ProofGoesOn, HasCredentials, Items
  <2> QED BY <1>0, <2>1, <2>2, <2>3
          DEF PInv, ProofIsCurrent, ProofGoesOn, StoreOfOneChallenge, ProofIsAccepted, OfOneChallenge
<1>10. CASE HandleItem
  <2> DEFINE h == Head(todo)
             d == Checked(Taken(private, h))
  <2>1. private \in Credentials /\ private # None /\ phase = "proving" /\ cam \in Modules
    BY <1>0, <1>10, <1>a DEF HandleItem, HasCredentials, TypeOK
  <2>2. /\ h \in Items /\ todo \in Seq(Items) /\ todo # <<>> /\ h = todo[1]
        /\ challenges \in Secrets
    BY <1>0, <1>10 DEF HandleItem, TypeOK, Secrets
  <2>3. d \in Credentials
    BY <2>1, <2>2, CheckedTyped
  <2>4. /\ d.valid = private.valid \cup {h} /\ d.nonce = private.nonce /\ d.host = private.host
        /\ d.dh_exp = private.dh_exp /\ d.akh_index = private.akh_index
        /\ d.dhpm = (IF h = "dhpm" THEN challenges ELSE private.dhpm)
        /\ (CertsValid(d) => d.cicam = cam)
    BY <2>1, <2>2, CheckedFields
  <2>5. /\ todo' = Tail(todo)
        /\ phase' = phase /\ camKey' = camKey /\ cam' = cam /\ challenges' = challenges
    BY <1>10 DEF HandleItem, module
  <2>6. IF CertsValid(d) /\ Complete(d)
          THEN private' = Agreed(d) /\ Stored(Agreed(d).akh)
          ELSE private' = d /\ UNCHANGED store
    BY <1>10 DEF HandleItem
  <2> HIDE DEF d
  <2>7. /\ private.nonce /\ private.host = "host" /\ private.dh_exp = challenges
        /\ camKey = <<challenges, challenges>>
        /\ \A i \in Items : i \in private.valid \/ \E j \in 1 .. Len(todo) : todo[j] = i
        /\ "dhpm" \in private.valid => private.dhpm = private.dh_exp
    BY <1>0, <2>1 DEF ProofGoesOn, ProofIsCurrent
  <2>8. \A i \in Items : i \in d.valid \/ \E j \in 1 .. Len(todo') : todo'[j] = i
    <3> SUFFICES ASSUME NEW i \in Items, i \notin d.valid
                 PROVE  \E j \in 1 .. Len(todo') : todo'[j] = i
      OBVIOUS
    <3>1. PICK j \in 1 .. Len(todo) : todo[j] = i
      BY <2>4, <2>7
    <3>2. j # 1
      BY <2>2, <2>4, <3>1
    <3>3. j - 1 \in 1 .. Len(todo') /\ todo'[j - 1] = todo[j]
      BY <2>2, <2>5, <3>1, <3>2
    <3> QED BY <3>1, <3>3
  <2>9. "dhpm" \in d.valid => d.dhpm = challenges
    BY <2>4, <2>7
  <2>10. d.nonce /\ d.host = "host" /\ d.dh_exp = challenges
    BY <2>4, <2>7
  <2>11. CASE CertsValid(d) /\ Complete(d)
    <3>1. "dhpm" \in d.valid /\ d.cicam = cam /\ d.dhpm = challenges
      BY <2>4, <2>9, <2>11 DEF Complete
    <3> DEFINE k == <<d.dh_exp, d.dhpm>>
               a == [cicam |-> d.cicam, host |-> d.host, key |-> k]
    <3>2. k = <<challenges, challenges>> /\ a = Expected(camKey)
      BY <2>7, <2>10, <3>1 DEF Expected
    <3>3. private' = [d EXCEPT !.dhsk = k, !.akh = a, !.akh_index = Tries]
      BY <2>6, <2>11 DEF Agreed
    <3> HIDE DEF k, a
    <3>4. /\ private'.akh_index = Tries /\ private'.akh = a /\ private'.valid = d.valid
          /\ private'.nonce = d.nonce /\ private'.host = d.host /\ private'.dh_exp = d.dh_exp
          /\ private'.dhpm = d.dhpm
      BY <2>3, <3>3 DEF Credentials
    <3>5. a \in Akh /\ a.host = "host" /\ a.key[1] = a.key[2]
      <4>1. a \in Akh
        BY <2>1, <2>3, <2>6, <2>11, <3>1, <3>4, AgreedWhole
      <4> QED BY <4>1, <2>7, <3>2 DEF Expected
    <3>6. Stored(a)
      BY <2>6, <2>11, <3>4
    <3>7. StoreOfOneChallenge'
      <4>1. CASE UNCHANGED store
        BY <1>0, <4>1 DEF StoreOfOneChallenge, OfOneChallenge, store
      <4>2. CASE left' = ToWrite(a, file) /\ file' = <<>>
        <5>1. OfOneChallenge(ToWrite(a, file))
          BY <1>0, <1>a, <3>5, ToWriteOfOneChallenge DEF StoreOfOneChallenge
        <5>2. OfOneChallenge(<<>>)
          BY DEF OfOneChallenge
        <5> QED BY <4>2, <5>1, <5>2 DEF StoreOfOneChallenge, OfOneChallenge
      <4> QED BY <3>6, <4>1, <4>2 DEF Stored
    <3>8. ProofIsCurrent'
      BY <2>1, <2>5, <2>9, <2>10, <3>4 DEF ProofIsCurrent
    <3>9. Expected(camKey)' = Expected(camKey)
      BY <2>5 DEF Expected
    <3>10. ProofGoesOn'
      BY <2>1, <2>5, <2>7, <2>8, <2>10, <3>2, <3>4, <3>9 DEF ProofGoesOn
    <3> QED BY <1>0, <2>1, <2>5, <3>7, <3>8, <3>10 DEF PInv, ProofIsAccepted
  <2>12. CASE ~(CertsValid(d) /\ Complete(d))
    <3>1. private' = d /\ UNCHANGED store
      BY <2>6, <2>12
    <3>2. d.valid # Items
      BY <2>1, <2>4, <2>10, <2>12, NoneAssumption DEF CertsValid, Complete, Items
    <3>3. StoreOfOneChallenge'
      BY <1>0, <3>1 DEF StoreOfOneChallenge, OfOneChallenge, store
    <3>4. ProofIsCurrent' /\ ProofGoesOn'
      BY <2>1, <2>5, <2>7, <2>8, <2>9, <2>10, <3>1, <3>2 DEF ProofIsCurrent, ProofGoesOn
    <3> QED BY <1>0, <2>1, <2>5, <3>3, <3>4 DEF PInv, ProofIsAccepted
  <2> QED BY <2>11, <2>12
<1>11. CASE WritePair
  <2>1. /\ file' = Append(file, left[1]) /\ left' = Tail(left) /\ left # <<>>
        /\ UNCHANGED <<phase, cam, camKey, private, todo, challenges>>
    BY <1>a, <1>11 DEF WritePair, module
  <2>2. OfOneChallenge(file) /\ OfOneChallenge(left) /\ 1 \in 1 .. Len(left)
    BY <1>0, <1>a, <2>1 DEF StoreOfOneChallenge
  <2>3. OfOneChallenge(left')
    <3>1. \A i \in 1 .. Len(left') : i + 1 \in 1 .. Len(left) /\ left'[i] = left[i + 1]
      BY <1>a, <2>1
    <3> QED BY <2>2, <3>1 DEF OfOneChallenge
  <2>4. OfOneChallenge(file')
    <3>1. \A i \in 1 .. Len(file') :
            \/ i \in 1 .. Len(file) /\ file'[i] = file[i]
            \/ file'[i] = left[1]
      BY <1>a, <2>1, <2>2
    <3> QED BY <2>2, <3>1 DEF OfOneChallenge
  <2> QED BY <1>0, <2>1, <2>3, <2>4
          DEF PInv, ProofIsCurrent, ProofGoesOn, StoreOfOneChallenge, ProofIsAccepted, Expected,
              OfOneChallenge
<1>12. CASE WriteFails
  <2>1. OfOneChallenge(<<>>)
    BY DEF OfOneChallenge
  <2> QED BY <1>0, <1>12, <2>1
          DEF WriteFails, module, PInv, ProofIsCurrent, ProofGoesOn, StoreOfOneChallenge,
              ProofIsAccepted, Expected, OfOneChallenge
<1>13. CASE ProofHandled
  <2>1. /\ phase = "proving" /\ todo = <<>> /\ phase' = "confirm"
        /\ UNCHANGED <<cam, camKey, private, file, left, challenges>>
    BY <1>13 DEF ProofHandled, store
  <2>2. private \in Credentials
    BY <1>0, <1>a, <2>1 DEF HasCredentials
  <2>3. private.valid = Items
    <3>1. \A i \in Items : i \in private.valid
      BY <1>0, <2>1 DEF ProofGoesOn
    <3> QED BY <2>2, <3>1 DEF Credentials
  <2>4. Expected(camKey)' = Expected(camKey)
    BY <2>1 DEF Expected
  <2> QED BY <1>0, <2>1, <2>3, <2>4
          DEF PInv, ProofIsCurrent, ProofGoesOn, StoreOfOneChallenge, ProofIsAccepted, OfOneChallenge
<1>14. CASE Confirmed
  <2>1. phase = "confirm" /\ private.akh_index = Tries /\ private.akh = Expected(camKey)
    BY <1>0, <1>14 DEF Confirmed, ProofGoesOn
  <2>2. Offered(private, file) = private
    BY <2>1, NothingToOffer
  <2>3. private' = private /\ phase' = "keys" /\ file' = file /\ left' = left
    BY <1>14, <2>1, <2>2 DEF Confirmed, store
  <2> QED BY <1>0, <2>1, <2>3, QuietPInv
<1>15. CASE NsModule
  <2>1. private \in Credentials /\ private # None /\ phase = "keys"
    BY <1>0, <1>15, <1>a DEF NsModule, HasCredentials
  <2>2. /\ private'.valid = private.valid /\ private'.dhpm = private.dhpm
        /\ private'.dh_exp = private.dh_exp /\ private'.akh_index = private.akh_index
        /\ private'.host = private.host
        /\ phase' = "ready" /\ file' = file /\ left' = left
    BY <1>15, <2>1 DEF NsModule, Credentials, store
  <2> QED BY <1>0, <2>1, <2>2
          DEF PInv, ProofIsCurrent, ProofGoesOn, StoreOfOneChallenge, ProofIsAccepted, OfOneChallenge
<1>16. CASE UNCHANGED vars
  BY <1>0, <1>16 DEF vars, module, store, PInv, ProofIsCurrent, ProofGoesOn, StoreOfOneChallenge,
                     ProofIsAccepted, Expected, OfOneChallenge
<1> QED
  BY <1>1, <1>2, <1>3, <1>4, <1>5, <1>6, <1>7, <1>8, <1>9, <1>10, <1>11, <1>12, <1>13, <1>14,
     <1>15, <1>16 DEF Next

\* What is stored is an AKH of this host from one challenge: the exponent of one
\* challenge and the answer to another never make a pair.
THEOREM PairsAreOfOneChallenge == Spec => []StoredPairsAreOfOneChallenge
<1>1. PInv => StoredPairsAreOfOneChallenge
  BY DEF PInv, StoreOfOneChallenge, OfOneChallenge, StoredPairsAreOfOneChallenge
<1> QED BY InitPInv, NextPInv, <1>1, PTL DEF Spec

\* A module that has proved itself is never refused: it is offered the new AKH,
\* whatever has become of the file.
THEOREM ProofIsAlwaysAccepted == Spec => []ProofIsAccepted
<1>1. PInv => ProofIsAccepted
  BY DEF PInv
<1> QED BY InitPInv, NextPInv, <1>1, PTL DEF Spec

-----------------------------------------------------------------------------
(***************************************************************************)
(* A module whose pair is in the file is recognised: the file does not     *)
(* change while it is asked for, and the index of the next offer has gone  *)
(* by no pair that was not on offer and refused.                           *)
(***************************************************************************)

\* A module that was not recognised yet, with credentials of its own session.
Unrecognised == phase \in {"verify", "challenge"} /\ ~reused

\* The pairs before the index have been refused, and it is behind the last pair when
\* the tries are.
RefusedSoFar ==
  Unrecognised =>
    /\ private.akh_index \in {tries, Tries}
    /\ \A i \in 1 .. Len(file) : i <= private.akh_index => file[i] # Expected(remembers[cam])
    /\ phase = "challenge" => tries = Tries

\* The file is written only while a module proves itself.
WritesInProof == left # <<>> => phase = "proving"

RInv == KInv /\ RefusedSoFar /\ WritesInProof

\* One more AKH that is not the expected one.
LEMMA OfferRefused ==
  ASSUME NEW d \in Credentials, NEW f \in Seq(Akh), Len(f) < Tries, NEW x, NEW n \in Nat,
         n < Tries, d.akh_index \in {n, Tries}, Offered(d, f).akh # x,
         \A i \in 1 .. Len(f) : i <= d.akh_index => f[i] # x
  PROVE  /\ Offered(d, f).akh_index \in {n + 1, Tries}
         /\ \A i \in 1 .. Len(f) : i <= Offered(d, f).akh_index => f[i] # x
<1>0. Len(f) \in Nat /\ Tries \in Nat
  BY TriesAssumption
<1>1. CASE d.akh_index = Tries
  BY <1>1 DEF Offered
<1>2. CASE d.akh_index # Tries
  <2> DEFINE c == [d EXCEPT !.akh_index = n + 1]
  <2>1. d.akh_index = n /\ Offered(d, f) = Loaded(c, f, n)
    BY <1>2 DEF Offered
  <2>2. CASE HasPair(f, n)
    <3>1. Offered(d, f) = [c EXCEPT !.host = f[n + 1].host, !.dhsk = f[n + 1].key, !.akh = f[n + 1]]
      BY <2>1, <2>2 DEF Loaded
    <3>2. Offered(d, f).akh_index = n + 1 /\ Offered(d, f).akh = f[n + 1]
      BY <3>1 DEF Credentials
    <3>3. \A i \in 1 .. Len(f) : i <= n + 1 => i <= n \/ i = n + 1
      BY <1>0
    <3> QED BY <2>1, <3>2, <3>3
  <2>3. CASE ~HasPair(f, n)
    <3>1. Offered(d, f) = [c EXCEPT !.host = "junk", !.akh = ZeroAkh, !.akh_index = Tries]
      BY <2>1, <2>3 DEF Loaded
    <3>2. Offered(d, f).akh_index = Tries
      BY <3>1 DEF Credentials
    <3>3. \A i \in 1 .. Len(f) : i <= n
      BY <1>0, <2>3 DEF HasPair
    <3> QED BY <2>1, <3>2, <3>3
  <2> QED BY <2>2, <2>3
<1> QED BY <1>1, <1>2

\* The first state has the invariant of what was refused.
LEMMA InitRInv == Init => RInv
BY InitKInv DEF Init, RInv, RefusedSoFar, Unrecognised, WritesInProof

\* Every step keeps the invariant of what was refused.
LEMMA NextRInv == RInv /\ [Next]_vars => RInv'
<1> SUFFICES ASSUME RInv, [Next]_vars PROVE RefusedSoFar' /\ WritesInProof'
  BY NextKInv DEF RInv
<1>0. TypeOK /\ TryIsLeft /\ HasCredentials /\ RefusedSoFar /\ WritesInProof
  BY DEF RInv, KInv
<1>a. file \in Seq(Akh) /\ Tries \in Nat \ {0, 1} /\ Len(file) \in Nat /\ Len(left) \in Nat
      /\ Len(file) < Tries
  <2>1. file \in Seq(Akh) /\ left \in Seq(Akh) /\ Len(file) + Len(left) <= Tries - 1
    BY <1>0 DEF TypeOK
  <2> QED BY <2>1, TriesAssumption
<1>1. CASE CcOpen
  <2>1. /\ file' = file /\ left' = left /\ phase = "session" /\ tries' = 0
        /\ private' = (IF private = None THEN Initialized(file) ELSE private)
        /\ reused' = (private # None)
    BY <1>1 DEF CcOpen, store
  <2>2. WritesInProof'
    BY <1>0, <2>1 DEF WritesInProof
  <2>3. CASE HasPair(file, 0)
    <3>1. Initialized(file).akh_index = 0
      BY <2>3 DEF Initialized, Loaded, NoCredentials
    <3>2. \A i \in 1 .. Len(file) : ~(i <= 0)
      BY <1>a
    <3>3. ~reused' => private' = Initialized(file)
      BY <2>1
    <3> QED BY <1>1, <2>1, <2>2, <3>1, <3>2, <3>3 DEF CcOpen, RefusedSoFar, Unrecognised
  <2>4. CASE ~HasPair(file, 0)
    <3>1. Initialized(file).akh_index = Tries
      BY <2>4 DEF Initialized, Loaded, NoCredentials
    <3>2. 1 .. Len(file) = {}
      BY <1>a, <2>4 DEF HasPair
    <3>3. ~reused' => private' = Initialized(file)
      BY <2>1
    <3> QED BY <1>1, <2>1, <2>2, <3>1, <3>2, <3>3 DEF CcOpen, RefusedSoFar, Unrecognised
  <2> QED BY <2>3, <2>4
<1>2. CASE AkhRequested
  <2> DEFINE d == Offered(private, file)
             x == Expected(remembers[cam])
  <2>1. /\ private' = d /\ tries' = tries + 1 /\ phase = "verify"
        /\ \/ phase' \notin {"verify", "challenge"}
           \/ d.akh # x /\ phase' = (IF tries' = Tries THEN "challenge" ELSE "verify")
        /\ UNCHANGED <<cam, remembers, reused, file, left>>
    BY <1>2 DEF AkhRequested, store
  <2>2. private \in Credentials
    BY <1>0, <2>1 DEF HasCredentials, TypeOK
  <2>3. tries \in Nat /\ tries < Tries
    BY <1>0, <2>1 DEF TypeOK, TryIsLeft
  <2>4. x' = x
    BY <2>1 DEF Expected
  <2>5. WritesInProof'
    BY <1>0, <2>1 DEF WritesInProof
  <2>6. CASE Unrecognised /\ d.akh # x
    <3>1. /\ private.akh_index \in {tries, Tries}
          /\ \A i \in 1 .. Len(file) : i <= private.akh_index => file[i] # x
      BY <1>0, <2>6 DEF RefusedSoFar
    <3>2. /\ d.akh_index \in {tries + 1, Tries}
          /\ \A i \in 1 .. Len(file) : i <= d.akh_index => file[i] # x
      BY <1>a, <2>2, <2>3, <2>6, <3>1, OfferRefused
    <3> HIDE DEF d, x
    <3>3. RefusedSoFar' <=>
            (Unrecognised' =>
               /\ private'.akh_index \in {tries', Tries}
               /\ \A i \in 1 .. Len(file') : i <= private'.akh_index => file'[i] # x'
               /\ phase' = "challenge" => tries' = Tries)
      BY DEF RefusedSoFar, x
    <3>4. phase' = "challenge" => tries' = Tries
      BY <2>1, <2>6
    <3> QED BY <2>1, <2>4, <2>5, <3>2, <3>3, <3>4
  <2>7. CASE ~(Unrecognised /\ d.akh # x)
    <3> HIDE DEF d, x
    <3> QED BY <2>1, <2>5, <2>7 DEF RefusedSoFar, Unrecognised
  <2> QED BY <2>6, <2>7
<1>3. CASE HandleItem
  BY <1>3 DEF HandleItem, module, RefusedSoFar, Unrecognised, WritesInProof
<1>4. CASE WritePair \/ WriteFails
  BY <1>0, <1>4 DEF WritePair, WriteFails, module, RefusedSoFar, Unrecognised, WritesInProof
<1>5. CASE Removed \/ Crash
  BY <1>0, <1>5 DEF Removed, Crash, Forgotten, store, RefusedSoFar, Unrecognised, WritesInProof
<1>6. CASE Inserted \/ SessionCreated \/ SessionClosed \/ AuthNonce \/ Proof \/ ProofHandled
           \/ Confirmed \/ NsModule
  BY <1>0, <1>6 DEF Inserted, SessionCreated, SessionClosed, AuthNonce, Proof, ProofHandled,
     Confirmed, NsModule, store, RefusedSoFar, Unrecognised, WritesInProof
<1>7. CASE UNCHANGED vars
  BY <1>0, <1>7 DEF vars, module, store, RefusedSoFar, Unrecognised, WritesInProof, Expected
<1> QED BY <1>1, <1>2, <1>3, <1>4, <1>5, <1>6, <1>7 DEF Next

\* A module whose tries are used up, and that has a session of its own, has no pair in
\* the file.
THEOREM KnownIsAlwaysRecognised == Spec => []KnownModuleIsRecognised
<1>1. ASSUME RInv, phase = "challenge", ~reused
      PROVE  Expected(remembers[cam]) \notin ToSet(file)
  <2>1. /\ private.akh_index = Tries
        /\ \A i \in 1 .. Len(file) : i <= Tries => file[i] # Expected(remembers[cam])
    BY <1>1 DEF RInv, RefusedSoFar, Unrecognised
  <2>2. Len(file) \in Nat /\ Len(file) <= Tries /\ Tries \in Nat
    <3>1. file \in Seq(Akh) /\ left \in Seq(Akh) /\ Len(file) + Len(left) <= Tries - 1
      BY <1>1 DEF RInv, KInv, TypeOK
    <3> QED BY <3>1, TriesAssumption
  <2>3. \A i \in 1 .. Len(file) : file[i] # Expected(remembers[cam])
    BY <2>1, <2>2
  <2> QED BY <2>3 DEF ToSet
<1>2. RInv => KnownModuleIsRecognised
  BY <1>1 DEF KnownModuleIsRecognised
<1> QED BY InitRInv, NextRInv, <1>2, PTL DEF Spec

-----------------------------------------------------------------------------
(***************************************************************************)
(* The file of authentication data implements PairStore, for any modules   *)
(* and any number of tries: read as what it was before while it is being   *)
(* written, it only ever takes a new pair in front, or, when the writing   *)
(* is cut off, keeps the front of what was to be written.                  *)
(***************************************************************************)

\* What is in the file and what is still to be written are together what was to
\* be written: one new pair before those that were there.
WritesOnePair ==
  left # <<>> => \E p \in Akh \ ToSet(buf) : file \o left = ToWrite(p, buf)

SInv == KInv /\ WritesOnePair

-----------------------------------------------------------------------------
(* Sequences *)

\* A sequence is a prefix of itself with something behind it.
LEMMA ConcatPrefix ==
  ASSUME NEW a \in Seq(Akh), NEW b \in Seq(Akh)
  PROVE  IsPrefix(a, a \o b)
PROOF
<1> DEFINE ab == a \o b
<1>1. /\ Len(a) \in Nat /\ Len(b) \in Nat /\ ab \in Seq(Akh) /\ Len(ab) = Len(a) + Len(b)
      /\ \A i \in 1 .. Len(a) + Len(b) : ab[i] = IF i <= Len(a) THEN a[i] ELSE b[i - Len(a)]
  BY ConcatProperties
<1> HIDE DEF ab
<1>2. /\ SubSeq(a, 1, Len(a)) \in Seq(Akh) /\ Len(SubSeq(a, 1, Len(a))) = Len(a)
      /\ \A i \in 1 .. Len(a) : SubSeq(a, 1, Len(a))[i] = a[i]
  BY <1>1
<1>3. /\ SubSeq(ab, 1, Len(a)) \in Seq(Akh) /\ Len(SubSeq(ab, 1, Len(a))) = Len(a)
      /\ \A i \in 1 .. Len(a) : SubSeq(ab, 1, Len(a))[i] = ab[i]
  BY <1>1
<1>4. \A i \in 1 .. Len(a) : ab[i] = a[i]
  BY <1>1
<1>5. SubSeq(a, 1, Len(a)) = SubSeq(ab, 1, Len(a))
  <2>1. \A i \in 1 .. Len(a) : SubSeq(a, 1, Len(a))[i] = SubSeq(ab, 1, Len(a))[i]
    BY <1>2, <1>3, <1>4
  <2> QED BY <1>2, <1>3, <2>1, SeqEqual
<1> QED BY <1>1, <1>5 DEF IsPrefix, ab

\* Moving the first element of one sequence to the end of another.
LEMMA MoveFirst ==
  ASSUME NEW f \in Seq(Akh), NEW l \in Seq(Akh), l # <<>>
  PROVE  /\ Append(f, Head(l)) \o Tail(l) = f \o l
         /\ Tail(l) = <<>> => Append(f, Head(l)) = f \o l
PROOF
<1>1. /\ Len(f) \in Nat /\ Len(l) \in Nat \ {0} /\ Head(l) = l[1] /\ Head(l) \in Akh
      /\ Tail(l) \in Seq(Akh) /\ Len(Tail(l)) = Len(l) - 1
      /\ \A i \in 1 .. Len(l) - 1 : Tail(l)[i] = l[i + 1]
  OBVIOUS
<1> DEFINE h  == Head(l)
           t  == Tail(l)
           fh == Append(f, h)
           fl == f \o l
           m  == fh \o t
<1>2. /\ fl \in Seq(Akh) /\ Len(fl) = Len(f) + Len(l)
      /\ \A i \in 1 .. Len(f) + Len(l) : fl[i] = IF i <= Len(f) THEN f[i] ELSE l[i - Len(f)]
  BY ConcatProperties
<1>3. /\ h \in Akh /\ h = l[1] /\ t \in Seq(Akh) /\ Len(t) = Len(l) - 1
      /\ \A i \in 1 .. Len(l) - 1 : t[i] = l[i + 1]
  BY <1>1
<1> HIDE DEF h, t, fl
<1>4. /\ fh \in Seq(Akh) /\ Len(fh) = Len(f) + 1
      /\ \A i \in 1 .. Len(f) : fh[i] = f[i]
      /\ fh[Len(f) + 1] = h
  BY <1>3, AppendProperties
<1> HIDE DEF fh
<1>5. /\ m \in Seq(Akh) /\ Len(m) = Len(fh) + Len(t)
      /\ \A i \in 1 .. Len(fh) + Len(t) : m[i] = IF i <= Len(fh) THEN fh[i] ELSE t[i - Len(fh)]
  BY <1>3, <1>4, ConcatProperties
<1> HIDE DEF m
<1>6. Len(m) = Len(fl) /\ Len(fh) + Len(t) = Len(f) + Len(l)
  BY <1>1, <1>2, <1>3, <1>4, <1>5
<1>7. ASSUME NEW i \in 1 .. Len(f) + Len(l) PROVE m[i] = fl[i]
  <2>0. i \in Int /\ i >= 1 /\ i <= Len(f) + Len(l)
    BY <1>1
  <2>1. CASE i <= Len(f)
    <3>1. i \in 1 .. Len(f) /\ i <= Len(fh)
      BY <2>0, <2>1, <1>1, <1>4
    <3> QED BY <3>1, <2>1, <1>2, <1>4, <1>5, <1>6
  <2>2. CASE i = Len(f) + 1
    <3>1. ~(i <= Len(f)) /\ i <= Len(fh) /\ i - Len(f) = 1
      BY <2>2, <1>1, <1>4
    <3>2. m[i] = h
      BY <3>1, <2>2, <1>4, <1>5, <1>6
    <3>3. fl[i] = l[1]
      BY <3>1, <1>2
    <3> QED BY <3>2, <3>3, <1>3
  <2>3. CASE i > Len(f) + 1
    <3>1. /\ ~(i <= Len(f)) /\ ~(i <= Len(fh)) /\ i - Len(fh) \in 1 .. Len(l) - 1
          /\ (i - Len(fh)) + 1 = i - Len(f)
      BY <2>0, <2>3, <1>1, <1>4
    <3>2. m[i] = t[i - Len(fh)] /\ fl[i] = l[i - Len(f)]
      BY <3>1, <1>2, <1>5, <1>6
    <3> QED BY <3>1, <3>2, <1>3
  <2>4. i <= Len(f) \/ i = Len(f) + 1 \/ i > Len(f) + 1
    BY <2>0, <1>1
  <2> QED BY <2>1, <2>2, <2>3, <2>4
<1>8. m = fl
  BY <1>2, <1>5, <1>6, <1>7, SeqEqual
<1>9. t = <<>> => fh = m
  BY <1>4, ConcatEmptySeq DEF m
<1> QED BY <1>8, <1>9 DEF m, fh, fl, h, t

\* What write_authdata writes is what the store keeps once the pair is stored.
LEMMA ToWriteIsWith ==
  ASSUME NEW p \in Akh, NEW f \in Seq(Akh)
  PROVE  ToWrite(p, f) = SubSeq(<<p>> \o f, 1, IF Len(<<p>> \o f) > Tries - 1
                                               THEN Tries - 1 ELSE Len(<<p>> \o f))
PROOF
<1> DEFINE joined == <<p>> \o f
           n   == Min2(Len(f), Tries - 2)
           s   == SubSeq(f, 1, n)
           k   == IF Len(joined) > Tries - 1 THEN Tries - 1 ELSE Len(joined)
           w   == <<p>> \o s
           v   == SubSeq(joined, 1, k)
<1>1. <<p>> \in Seq(Akh) /\ Len(<<p>>) = 1 /\ <<p>>[1] = p /\ Len(f) \in Nat /\ Tries - 2 \in Nat
  BY TriesAssumption
<1>2. /\ joined \in Seq(Akh) /\ Len(joined) = 1 + Len(f)
      /\ \A i \in 1 .. 1 + Len(f) : joined[i] = IF i <= 1 THEN <<p>>[i] ELSE f[i - 1]
  BY <1>1, ConcatProperties
<1>3. n \in Nat /\ n <= Len(f) /\ n <= Tries - 2 /\ (n = Len(f) \/ n = Tries - 2)
  BY <1>1 DEF Min2
<1>4. s \in Seq(Akh) /\ Len(s) = n /\ \A i \in 1 .. n : s[i] = f[i]
  <2> HIDE DEF n
  <2> QED BY <1>1, <1>3
<1> HIDE DEF joined, s
<1>5. k = 1 + n
  BY <1>1, <1>2, TriesAssumption DEF Min2
<1> HIDE DEF n, k
<1>6. /\ w \in Seq(Akh) /\ Len(w) = 1 + n
      /\ \A i \in 1 .. 1 + n : w[i] = IF i <= 1 THEN <<p>>[i] ELSE s[i - 1]
  BY <1>1, <1>4, ConcatProperties
<1>7. /\ v \in Seq(Akh) /\ Len(v) = 1 + n
      /\ \A i \in 1 .. 1 + n : v[i] = joined[i]
  <2>1. k \in Nat /\ k <= Len(joined) /\ Len(joined) \in Nat
    BY <1>1, <1>2, <1>3, <1>5
  <2>2. /\ v \in Seq(Akh) /\ Len(v) = k
        /\ \A i \in 1 .. k : v[i] = joined[i]
    BY <1>2, <2>1
  <2> QED BY <1>5, <2>2
<1> HIDE DEF w, v
<1>8. \A i \in 1 .. 1 + n : w[i] = v[i]
  <2> TAKE i \in 1 .. 1 + n
  <2>1. i \in 1 .. 1 + Len(f) /\ (i <= 1 \/ (~(i <= 1) /\ i - 1 \in 1 .. n))
    BY <1>1, <1>3
  <2>2. v[i] = IF i <= 1 THEN <<p>>[i] ELSE f[i - 1]
    BY <2>1, <1>2, <1>7
  <2>3. w[i] = IF i <= 1 THEN <<p>>[i] ELSE s[i - 1]
    BY <1>6
  <2>4. ~(i <= 1) => s[i - 1] = f[i - 1]
    BY <2>1, <1>4
  <2> QED BY <2>2, <2>3, <2>4
<1>9. w = v
  BY <1>6, <1>7, <1>8, SeqEqual
<1> QED BY <1>9 DEF ToWrite, w, v, s, n, k, joined

-----------------------------------------------------------------------------
(* The steps *)

\* The writing of a pair begins, with the file as it was in the buffer.
LEMMA StoredBegins ==
  ASSUME NEW p \in Akh, file \in Seq(Akh), left = <<>>, Stored(p)
  PROVE  \/ UNCHANGED store
         \/ /\ left' # <<>> /\ buf' = file /\ UNCHANGED cuts
            /\ p \in Akh \ ToSet(buf') /\ file' \o left' = ToWrite(p, buf')
PROOF
<1>1. CASE UNCHANGED store
  BY <1>1
<1>2. CASE /\ buf' = file /\ left' = ToWrite(p, file) /\ file' = <<>> /\ UNCHANGED cuts
           /\ p \notin ToSet(file)
  <2>1. ToWrite(p, file) \in Seq(Akh)
    BY ToWriteFits
  <2>2. file' \o left' = ToWrite(p, buf')
    BY <1>2, <2>1, ConcatEmptySeq
  <2>3. left' # <<>>
    <3> DEFINE r == SubSeq(file, 1, Min2(Len(file), Tries - 2))
    <3>1. r \in Seq(Akh)
      <4>1. Min2(Len(file), Tries - 2) \in Nat /\ Min2(Len(file), Tries - 2) <= Len(file)
        BY TriesAssumption DEF Min2
      <4> QED BY <4>1
    <3>2. <<p>> \in Seq(Akh) /\ Len(<<p>>) = 1
      OBVIOUS
    <3> HIDE DEF r
    <3>3. Len(<<p>> \o r) = 1 + Len(r) /\ Len(r) \in Nat
      BY <3>1, <3>2, ConcatProperties
    <3>4. left' = <<p>> \o r
      BY <1>2 DEF ToWrite, r
    <3>5. Len(left') # 0
      BY <3>3, <3>4
    <3> QED BY <3>5, EmptySeq
  <2> QED BY <1>2, <2>2, <2>3
<1> QED BY <1>1, <1>2 DEF Stored

\* While a pair is written the store is the buffer; what is in the file is a prefix of
\* what the store becomes when the pair is in it.
LEMMA Writing ==
  ASSUME SInv, left # <<>>
  PROVE  /\ StoredPairs = buf /\ file \in Seq(Akh) /\ left \in Seq(Akh)
         /\ \E p \in Akh \ ToSet(StoredPairs) : /\ file \o left = AbstractStore!With(p)
                                                /\ IsPrefix(file, AbstractStore!With(p))
PROOF
<1>1. file \in Seq(Akh) /\ left \in Seq(Akh) /\ buf \in Seq(Akh) /\ StoredPairs = buf
  BY DEF SInv, KInv, TypeOK, StoredPairs
<1>2. PICK p \in Akh \ ToSet(buf) : file \o left = ToWrite(p, buf)
  BY DEF SInv, WritesOnePair
<1>3. AbstractStore!With(p) = ToWrite(p, buf)
  BY <1>1, ToWriteIsWith DEF AbstractStore!With
<1>4. IsPrefix(file, file \o left)
  BY <1>1, ConcatPrefix
<1> QED BY <1>1, <1>2, <1>3, <1>4

\* The writing is cut off, by a failure or a crash.
LEMMA CutsOff ==
  ASSUME SInv, left # <<>>, left' = <<>>, file' = file, cuts' = cuts + 1
  PROVE  AbstractStore!Next
PROOF
<1>1. PICK p \in Akh \ ToSet(StoredPairs) : IsPrefix(file, AbstractStore!With(p))
  BY Writing
<1>2. StoredPairs' = file
  BY DEF StoredPairs
<1>3. AbstractStore!CutOff(p)
  BY <1>1, <1>2 DEF AbstractStore!CutOff, AbstractStore!IsPrefix, IsPrefix
<1> QED BY <1>1, <1>3 DEF AbstractStore!Next, AbstractStore!ToSet, ToSet

\* A step that leaves the file and its writing alone.
LEMMA LeavesStore ==
  ASSUME SInv, UNCHANGED store
  PROVE  WritesOnePair' /\ UNCHANGED <<StoredPairs, cuts>>
PROOF BY DEF SInv, WritesOnePair, StoredPairs, store

\* Every step of the session is one of the store, or changes nothing of it, and
\* goes on with the one pair that is being written.
LEMMA StepStore ==
  SInv /\ [Next]_vars => WritesOnePair' /\ [AbstractStore!Next]_<<StoredPairs, cuts>>
PROOF
<1> SUFFICES ASSUME SInv, [Next]_vars
             PROVE  WritesOnePair' /\ [AbstractStore!Next]_<<StoredPairs, cuts>>
  OBVIOUS
<1>1. CASE UNCHANGED store
  BY <1>1, LeavesStore
<1>2. CASE HandleItem
  <2> DEFINE d == Checked(Taken(private, Head(todo)))
  <2>1. /\ private \in Credentials /\ Head(todo) \in Items /\ challenges \in Secrets
        /\ cam \in Modules \cup {None} /\ file \in Seq(Akh) /\ left = <<>>
    <3>1. private \in Credentials \cup {None} /\ private # None
      BY <1>2 DEF HandleItem, SInv, KInv, TypeOK, HasCredentials
    <3>2. todo \in Seq(Items) /\ todo # <<>>
      BY <1>2 DEF HandleItem, SInv, KInv, TypeOK
    <3> QED BY <1>2, <3>1, <3>2 DEF HandleItem, SInv, KInv, TypeOK, Secrets
  <2>2. d \in Credentials
    BY <2>1, CheckedTyped
  <2> HIDE DEF d
  <2>3. CASE ~(CertsValid(d) /\ Complete(d))
    <3>1. UNCHANGED store
      BY <1>2, <2>3 DEF HandleItem, d
    <3> QED BY <3>1, LeavesStore
  <2>4. CASE CertsValid(d) /\ Complete(d)
    <3>1. Stored(Agreed(d).akh)
      BY <1>2, <2>4 DEF HandleItem, d
    <3>2. d.cicam \in Modules
      BY <2>2, <2>4 DEF Complete, Credentials
    <3>3. Agreed(d).akh \in Akh
      BY <2>2, <3>2, AgreedWhole
    <3> DEFINE p == Agreed(d).akh
    <3>4. p \in Akh /\ Stored(p)
      BY <3>1, <3>3
    <3> HIDE DEF p
    <3>5. \/ UNCHANGED store
          \/ /\ left' # <<>> /\ buf' = file /\ UNCHANGED cuts
             /\ p \in Akh \ ToSet(buf') /\ file' \o left' = ToWrite(p, buf')
      BY <2>1, <3>4, StoredBegins
    <3>6. CASE /\ left' # <<>> /\ buf' = file /\ UNCHANGED cuts
               /\ p \in Akh \ ToSet(buf') /\ file' \o left' = ToWrite(p, buf')
      <4>1. StoredPairs' = StoredPairs
        BY <2>1, <3>6 DEF StoredPairs
      <4>2. WritesOnePair'
        BY <3>6 DEF WritesOnePair
      <4> QED BY <3>6, <4>1, <4>2
    <3> QED BY <3>5, <3>6, LeavesStore
  <2> QED BY <2>3, <2>4
<1>3. CASE WritePair
  <2>1. /\ left # <<>> /\ file' = Append(file, Head(left)) /\ left' = Tail(left)
        /\ buf' = (IF left' = <<>> THEN <<>> ELSE buf) /\ UNCHANGED cuts
    BY <1>3 DEF WritePair
  <2>2. file \in Seq(Akh) /\ left \in Seq(Akh) /\ StoredPairs = buf
    BY <2>1, Writing
  <2>3. CASE left' # <<>>
    <3>1. buf' = buf /\ StoredPairs' = StoredPairs
      BY <2>1, <2>2, <2>3 DEF StoredPairs
    <3>2. file' \o left' = file \o left
      BY <2>1, <2>2, MoveFirst
    <3>3. WritesOnePair'
      BY <2>1, <3>1, <3>2 DEF SInv, WritesOnePair
    <3> QED BY <2>1, <3>1, <3>3
  <2>4. CASE left' = <<>>
    <3>1. file' = file \o left
      BY <2>1, <2>2, <2>4, MoveFirst
    <3>2. PICK p \in Akh \ ToSet(StoredPairs) : file \o left = AbstractStore!With(p)
      BY <2>1, Writing
    <3>3. StoredPairs' = AbstractStore!With(p)
      BY <2>4, <3>1, <3>2 DEF StoredPairs
    <3>4. AbstractStore!Store(p)
      BY <2>1, <3>3 DEF AbstractStore!Store
    <3>5. AbstractStore!Next
      BY <3>4 DEF AbstractStore!Next, AbstractStore!ToSet, ToSet
    <3>6. WritesOnePair'
      BY <2>4 DEF WritesOnePair
    <3> QED BY <3>5, <3>6
  <2> QED BY <2>3, <2>4
<1>4. CASE WriteFails
  <2>1. left # <<>> /\ left' = <<>> /\ file' = file /\ cuts' = cuts + 1
    BY <1>4 DEF WriteFails
  <2>2. AbstractStore!Next
    BY <2>1, CutsOff
  <2>3. WritesOnePair'
    BY <2>1 DEF WritesOnePair
  <2> QED BY <2>2, <2>3
<1>5. CASE Crash
  <2>1. WritesOnePair' /\ left' = <<>> /\ file' = file
    BY <1>5 DEF Crash, WritesOnePair
  <2>2. CASE left = <<>>
    <3>1. UNCHANGED <<StoredPairs, cuts>>
      BY <1>5, <2>1, <2>2 DEF Crash, StoredPairs
    <3> QED BY <2>1, <3>1
  <2>3. CASE left # <<>>
    <3>1. cuts' = cuts + 1
      BY <1>5, <2>3 DEF Crash
    <3> QED BY <2>1, <2>3, <3>1, CutsOff
  <2> QED BY <2>2, <2>3
<1>6. \/ UNCHANGED store \/ HandleItem \/ WritePair \/ WriteFails \/ Crash
  BY DEF Next, vars, Inserted, SessionCreated, CcOpen, SessionClosed, Removed, AkhRequested,
         AuthNonce, Proof, ProofHandled, Confirmed, NsModule
<1> QED BY <1>1, <1>2, <1>3, <1>4, <1>5, <1>6

\* At the start there is no pair and nothing to be written.
LEMMA InitStore == Init => SInv /\ AbstractStore!Init
PROOF
<1> SUFFICES ASSUME Init PROVE SInv /\ AbstractStore!Init
  OBVIOUS
<1>1. SInv
  BY InitKInv DEF Init, SInv, WritesOnePair
<1>2. AbstractStore!Init
  BY DEF Init, AbstractStore!Init, StoredPairs
<1> QED BY <1>1, <1>2

\* The file is the newest pairs, newest first and none of them twice, whatever write
\* of it fails and whenever the process dies: only the writing that is cut off loses
\* more than the oldest pair.
THEOREM FileIsStore == Spec => StoreSpec
PROOF
<1>1. SInv /\ [Next]_vars => SInv'
  BY NextKInv, StepStore DEF SInv
<1> QED BY <1>1, InitStore, StepStore, PTL DEF Spec, StoreSpec, AbstractStore!Spec

-----------------------------------------------------------------------------
(* LiveVideo: the units *)

Unit == [fd : BOOLEAN, fdd : BOOLEAN, playstate : {"STOPPED", "PLAYING", "FREEZED"},
         blank_mode : BOOLEAN, standby : BOOLEAN, source : {"demux", "hdmi"},
         run : BOOLEAN, picture : BOOLEAN]
Rec == [still : BOOLEAN, v : Unit]

\* What no call but Sleep changes, what only a call for the AV input changes
Keeps(r, s) == s.v.standby = r.v.standby /\ s.v.fdd = r.v.fdd

\* VIDEO_SELECT_SOURCE: of a unit, only the source of an open decoder changes.
LEMMA SelectFields ==
  ASSUME NEW r \in Rec, NEW s \in {"demux", "hdmi"}
  PROVE  LET t == Live!Select(r, s)
         IN  /\ t \in Rec /\ t.still = r.still /\ Keeps(r, t)
             /\ t.v.fd = r.v.fd /\ t.v.playstate = r.v.playstate /\ t.v.run = r.v.run
             /\ t.v.picture = r.v.picture
             /\ r.v.fd => t.v.source = s
             /\ ~r.v.fd => t.v.source = r.v.source
BY DEF Live!Select, Rec, Unit, Keeps

\* VIDEO_PLAY and VIDEO_STOP: what runs, and what of a picture is left.
LEMMA RunFields ==
  ASSUME NEW r \in Rec, NEW on \in BOOLEAN
  PROVE  LET t == Live!Run(r, on)
         IN  /\ t \in Rec /\ t.still = r.still /\ Keeps(r, t)
             /\ t.v.fd = r.v.fd /\ t.v.playstate = r.v.playstate /\ t.v.source = r.v.source
             /\ r.v.fd /\ on => t.v.run
             /\ r.v.fd /\ ~on => ~t.v.run /\ ~t.v.picture
             /\ t.v.picture => r.v.picture
             /\ ~r.v.fd => t = r
BY DEF Live!Run, Rec, Unit, Keeps

\* openDevice: a device that was closed is opened, and nothing runs on it yet.
LEMMA OpenFields ==
  ASSUME NEW r \in Rec, NEW opens \in BOOLEAN
  PROVE  LET t == Live!openDevice(r, opens)
         IN  /\ t \in Rec /\ t.still = r.still /\ Keeps(r, t)
             /\ t.v.source = r.v.source /\ t.v.run = r.v.run /\ t.v.picture = r.v.picture
             /\ r.v.fd => t = r
             /\ ~r.v.fd => t.v.playstate = "STOPPED"
BY DEF Live!openDevice, Rec, Unit, Keeps

\* cVideo::Stop: nothing of a unit with a still picture, else the decoder stops.
LEMMA StopFields ==
  ASSUME NEW r \in Rec, NEW blank \in BOOLEAN
  PROVE  LET t == Live!Stop(r, blank)
         IN  /\ t \in Rec /\ t.still = r.still /\ Keeps(r, t)
             /\ t.v.fd = r.v.fd /\ t.v.source = r.v.source
             /\ r.still => t = r
             /\ ~r.still => t.v.playstate # "PLAYING"
             /\ ~r.still /\ r.v.fd => ~t.v.run /\ ~t.v.picture
             /\ t.v.picture => r.v.picture
             /\ ~r.v.fd /\ ~r.v.run => ~t.v.run
<1> DEFINE s == [r EXCEPT !.v.playstate = IF blank THEN "STOPPED" ELSE "FREEZED", !.v.blank_mode = blank]
           t == Live!Run(s, FALSE)
<1>1. /\ s \in Rec /\ s.still = r.still /\ Keeps(r, s) /\ s.v.fd = r.v.fd /\ s.v.source = r.v.source
      /\ s.v.playstate # "PLAYING" /\ s.v.run = r.v.run /\ s.v.picture = r.v.picture
  BY DEF Rec, Unit, Keeps
<1>2. Live!Stop(r, blank) = IF r.still THEN r ELSE t
  BY DEF Live!Stop
<1> HIDE DEF s
<1>3. /\ t \in Rec /\ t.still = r.still /\ Keeps(r, t) /\ t.v.fd = r.v.fd /\ t.v.source = r.v.source
      /\ t.v.playstate # "PLAYING"
      /\ r.v.fd => ~t.v.run /\ ~t.v.picture
      /\ t.v.picture => r.v.picture
      /\ ~r.v.fd => t = s
  BY <1>1, RunFields DEF Keeps
<1> HIDE DEF t
<1>4. CASE r.still
  BY <1>2, <1>4 DEF Keeps
<1>5. CASE ~r.still
  BY <1>1, <1>2, <1>3, <1>5
<1> QED BY <1>4, <1>5

\* cVideo::Start: the unit plays if the device is open.
LEMMA StartFields ==
  ASSUME NEW r \in Rec
  PROVE  LET t == Live!Start(r)
         IN  /\ t \in Rec /\ ~t.still /\ Keeps(r, t)
             /\ t.v.fd = r.v.fd /\ t.v.playstate = "PLAYING" /\ ~t.v.picture
             /\ r.v.fd => t.v.run /\ t.v.source = "demux"
             /\ ~r.v.fd => t.v.source = r.v.source
             /\ ~r.v.fd /\ ~r.v.run => ~t.v.run
<1> DEFINE a == [r EXCEPT !.still = FALSE]
           s == IF r.still THEN Live!Stop(a, TRUE) ELSE r
           p == [s EXCEPT !.v.playstate = "PLAYING"]
           q == Live!Select(p, "demux")
           t == Live!Run(q, TRUE)
<1>1. a \in Rec /\ ~a.still /\ a.v = r.v
  BY DEF Rec
<1> HIDE DEF a
<1>2. /\ s \in Rec /\ ~s.still /\ Keeps(r, s) /\ s.v.fd = r.v.fd /\ s.v.source = r.v.source
      /\ ~r.v.fd /\ ~r.v.run => ~s.v.run
  <2>1. CASE r.still
    <3>1. /\ s \in Rec /\ s.still = a.still /\ Keeps(a, s) /\ s.v.fd = a.v.fd /\ s.v.source = a.v.source
          /\ ~a.v.fd /\ ~a.v.run => ~s.v.run
      BY <2>1, <1>1, StopFields DEF s
    <3> QED BY <3>1, <1>1 DEF Keeps
  <2>2. CASE ~r.still
    BY <2>2 DEF Keeps
  <2> QED BY <2>1, <2>2
<1> HIDE DEF s
<1>3. /\ p \in Rec /\ ~p.still /\ Keeps(r, p) /\ p.v.fd = r.v.fd /\ p.v.source = r.v.source
      /\ p.v.playstate = "PLAYING" /\ p.v.run = s.v.run
  BY <1>2 DEF Rec, Unit, Keeps
<1> HIDE DEF p
<1>4. /\ q \in Rec /\ ~q.still /\ Keeps(r, q) /\ q.v.fd = r.v.fd /\ q.v.playstate = "PLAYING"
      /\ q.v.run = s.v.run
      /\ r.v.fd => q.v.source = "demux"
      /\ ~r.v.fd => q.v.source = r.v.source
  BY <1>3, SelectFields DEF Keeps
<1> HIDE DEF q
<1>5. /\ t \in Rec /\ ~t.still /\ Keeps(r, t) /\ t.v.fd = r.v.fd /\ t.v.playstate = "PLAYING"
      /\ r.v.fd => t.v.run /\ t.v.source = "demux"
      /\ ~r.v.fd => t.v.source = r.v.source
      /\ ~r.v.fd /\ ~r.v.run => ~t.v.run
  <2>1. /\ t \in Rec /\ t.still = q.still /\ Keeps(q, t) /\ t.v.fd = q.v.fd
        /\ t.v.playstate = q.v.playstate /\ t.v.source = q.v.source
        /\ q.v.fd => t.v.run
        /\ ~q.v.fd => t = q
    BY <1>4, RunFields
  <2> HIDE DEF t
  <2>2. Keeps(r, t)
    BY <1>4, <2>1 DEF Keeps
  <2>3. ~r.v.fd /\ ~r.v.run => ~t.v.run
    BY <1>2, <1>4, <2>1
  <2> QED BY <1>4, <2>1, <2>2, <2>3
<1> DEFINE u == Live!Start(r)
<1>6. u = [t EXCEPT !.v.blank_mode = FALSE, !.v.picture = FALSE]
  BY DEF Live!Start, a, s, p, q, t
<1> HIDE DEF t, u
<1>7. /\ u \in Rec /\ u.still = t.still /\ Keeps(t, u) /\ u.v.fd = t.v.fd
      /\ u.v.playstate = t.v.playstate /\ ~u.v.picture /\ u.v.run = t.v.run
      /\ u.v.source = t.v.source
  BY <1>5, <1>6 DEF Rec, Unit, Keeps
<1>8. Keeps(r, u)
  BY <1>5, <1>7 DEF Keeps
<1> QED BY <1>5, <1>7, <1>8 DEF u

\* closeDevice: the device is closed and the unit stopped.
LEMMA CloseFields ==
  ASSUME NEW r \in Rec
  PROVE  LET t == Live!closeDevice(r)
         IN  /\ t \in Rec /\ (t.still => r.still) /\ Keeps(r, t)
             /\ ~t.v.fd /\ t.v.playstate = "STOPPED" /\ t.v.source = "demux" /\ ~t.v.run
             /\ ~t.v.picture
<1> DEFINE s == IF port = "spark" THEN Live!Start(r) ELSE r
           t == Live!closeDevice(r)
<1>1. s \in Rec /\ (s.still => r.still) /\ Keeps(r, s)
  BY StartFields DEF Keeps
<1>2. t = [s EXCEPT !.v.fd = FALSE, !.v.playstate = "STOPPED", !.v.source = "demux",
                    !.v.run = FALSE, !.v.picture = FALSE]
  BY DEF Live!closeDevice
<1> HIDE DEF s, t
<1>3. /\ t \in Rec /\ t.still = s.still /\ Keeps(s, t)
      /\ ~t.v.fd /\ t.v.playstate = "STOPPED" /\ t.v.source = "demux" /\ ~t.v.run
      /\ ~t.v.picture
  BY <1>1, <1>2 DEF Rec, Unit, Keeps
<1> QED BY <1>1, <1>3 DEF Keeps, t

\* A decoder that is closed stands still, and the picture of the AV input has its device.
AtPeace(r) ==
  /\ r \in Rec
  /\ ~r.v.fd => ~r.v.run /\ ~r.v.picture /\ r.v.source = "demux"
  /\ r.v.source = "hdmi" => r.v.fdd

Plays(r) == r.v.playstate = "PLAYING" /\ r.v.fd

\* The main unit plays the demultiplexer, and not while a still picture is marked; the other
\* one may be on the AV input.
Sound(u, r) ==
  /\ AtPeace(r)
  /\ Plays(r) => r.v.run
  /\ u = 0 => /\ Plays(r) => r.v.source = "demux"
              /\ r.still => r.v.playstate # "PLAYING"

\* What a call may do: the other unit only resets the flag; the main one keeps its standby, and
\* has a picture that it did not have only with the flag.
Fits(u, r, t) ==
  /\ Sound(u, t)
  /\ u = 0 => t.v.standby = r.v.standby /\ (t.v.picture => t.still \/ r.v.picture)
  /\ u = 1 => (t.still => r.still)

\* Start keeps a unit sound.
LEMMA StartFits ==
  ASSUME NEW u \in Live!Units, NEW r, AtPeace(r)
  PROVE  Fits(u, r, Live!Start(r))
BY StartFields DEF AtPeace, Plays, Sound, Fits, Keeps, Live!Units

\* Stop keeps a unit sound.
LEMMA StopFits ==
  ASSUME NEW u \in Live!Units, NEW r, Sound(u, r), NEW blank \in BOOLEAN
  PROVE  Fits(u, r, Live!Stop(r, blank))
BY StopFields DEF AtPeace, Plays, Sound, Fits, Keeps, Live!Units

\* The decoder of a unit that does not play may be run or stopped.
LEMMA RunFits ==
  ASSUME NEW u \in Live!Units, NEW r, Sound(u, r)
  PROVE  Fits(u, r, Live!Run(r, TRUE))
<1> DEFINE t == Live!Run(r, TRUE)
<1>1. r \in Rec
  BY DEF Sound, AtPeace
<1>2. /\ t \in Rec /\ t.still = r.still /\ Keeps(r, t)
      /\ t.v.fd = r.v.fd /\ t.v.playstate = r.v.playstate /\ t.v.source = r.v.source
      /\ r.v.fd => t.v.run
      /\ t.v.picture => r.v.picture
      /\ ~r.v.fd => t = r
  BY <1>1, RunFields
<1> HIDE DEF t
<1>3. AtPeace(t)
  BY <1>2 DEF Sound, AtPeace, Keeps
<1>4. Sound(u, t)
  BY <1>2, <1>3 DEF Sound, Plays
<1> QED BY <1>2, <1>4 DEF Fits, Keeps, t

\* Running or stopping the decoder leaves a unit at peace.
LEMMA RunsAtPeace ==
  ASSUME NEW r, AtPeace(r), NEW on \in BOOLEAN
  PROVE  AtPeace(Live!Run(r, on)) /\ Live!Run(r, on).still = r.still /\ Keeps(r, Live!Run(r, on))
BY RunFields DEF AtPeace, Keeps

\* closeDevice keeps a unit sound.
LEMMA CloseFits ==
  ASSUME NEW u \in Live!Units, NEW r, AtPeace(r)
  PROVE  Fits(u, r, Live!closeDevice(r))
BY CloseFields DEF AtPeace, Plays, Sound, Fits, Keeps, Live!Units

\* openDevice keeps a unit sound.
LEMMA OpenFits ==
  ASSUME NEW u \in Live!Units, NEW r, Sound(u, r), NEW opens \in BOOLEAN
  PROVE  Fits(u, r, Live!openDevice(r, opens))
BY OpenFields DEF AtPeace, Plays, Sound, Fits, Keeps, Live!Units

\* A call after a call.
LEMMA FitsAfter ==
  ASSUME NEW u \in Live!Units, NEW r, NEW s, NEW t, Fits(u, r, s), Fits(u, s, t),
         s.v.picture => r.v.picture
  PROVE  Fits(u, r, t)
BY DEF Fits, Live!Units
\* AV input, still pictures, standby
LEMMA setBlankFits ==
  ASSUME NEW u \in Live!Units, NEW r, Sound(u, r), NEW on \in BOOLEAN
  PROVE  Fits(u, r, Live!setBlank(r, on)) /\ Fits(u, r, Live!setBlank_spark(r))
<1> DEFINE s == Live!Run(r, TRUE)
<1>1. r \in Rec /\ AtPeace(r)
  BY DEF Sound, AtPeace
<1>2. Fits(u, r, s) /\ (s.v.picture => r.v.picture)
  BY <1>1, RunFits, RunFields
<1> HIDE DEF s
<1>3. Sound(u, s) /\ AtPeace(s)
  BY <1>2 DEF Fits, Sound
<1>4. Fits(u, s, Live!Stop(s, TRUE)) /\ Fits(u, s, Live!Start(s))
  BY <1>3, StopFits, StartFits
<1>5. Fits(u, r, Live!Stop(s, TRUE)) /\ Fits(u, r, Live!Start(s))
  BY <1>2, <1>4, FitsAfter
<1> QED BY <1>5 DEF Live!setBlank, Live!setBlank_spark, s

\* The picture of the AV input is taken off before its device is closed.
LEMMA InputClosedAtPeace ==
  ASSUME NEW r, AtPeace(r)
  PROVE  LET t == Live!close_AVInput_Device(r)
         IN  AtPeace(t) /\ t.still = r.still /\ t.v.standby = r.v.standby /\ (t.v.picture => r.v.picture)
<1> DEFINE a == Live!Run(r, FALSE)
           b == Live!Select(a, "demux")
           s == IF r.v.fdd THEN b ELSE r
           t == Live!close_AVInput_Device(r)
<1>1. r \in Rec
  BY DEF AtPeace
<1>2. /\ AtPeace(a) /\ a \in Rec /\ a.still = r.still /\ a.v.standby = r.v.standby
      /\ (a.v.picture => r.v.picture)
  BY <1>1, RunsAtPeace, RunFields DEF Keeps, AtPeace
<1> HIDE DEF a
<1>3. /\ b \in Rec /\ b.still = r.still /\ b.v.standby = r.v.standby /\ (b.v.picture => r.v.picture)
      /\ b.v.source = "demux" /\ (~b.v.fd => ~b.v.run /\ ~b.v.picture)
  BY <1>2, SelectFields DEF Keeps, AtPeace
<1> HIDE DEF b
<1>4. /\ s \in Rec /\ s.still = r.still /\ s.v.standby = r.v.standby /\ (s.v.picture => r.v.picture)
      /\ s.v.source = "demux" /\ (~s.v.fd => ~s.v.run /\ ~s.v.picture)
  <2>1. CASE r.v.fdd
    BY <1>3, <2>1
  <2>2. CASE ~r.v.fdd
    BY <1>1, <2>2 DEF AtPeace, Rec, Unit
  <2> QED BY <2>1, <2>2
<1>5. t = [s EXCEPT !.v.fdd = FALSE]
  BY DEF Live!close_AVInput_Device, s, b, a
<1> HIDE DEF s, t
<1>6. /\ t \in Rec /\ t.still = s.still /\ t.v.standby = s.v.standby /\ t.v.picture = s.v.picture
      /\ t.v.source = s.v.source /\ t.v.fd = s.v.fd /\ t.v.run = s.v.run
  BY <1>4, <1>5 DEF Rec, Unit
<1> QED BY <1>4, <1>6 DEF AtPeace, t

\* The AV input comes on with the picture of the main unit stopped or under a still picture.
LEMMA InputOpenedFits ==
  ASSUME NEW u \in Live!Units, NEW r, Sound(u, r), u = 0 => r.v.playstate # "PLAYING"
  PROVE  Fits(u, r, Live!open_AVInput_Device(r))
<1> DEFINE a == Live!Select(r, "hdmi")
           b == Live!Run(a, TRUE)
           t == Live!open_AVInput_Device(r)
<1>1. r \in Rec /\ AtPeace(r)
  BY DEF Sound, AtPeace
<1>2. CASE r.v.fdd
  BY <1>1, <1>2 DEF Live!open_AVInput_Device, Fits, Live!Units
<1>3. CASE ~r.v.fdd
  <2>1. /\ a \in Rec /\ a.still = r.still /\ a.v.standby = r.v.standby
        /\ a.v.fd = r.v.fd /\ a.v.playstate = r.v.playstate /\ a.v.run = r.v.run
        /\ a.v.picture = r.v.picture
        /\ ~r.v.fd => a.v.source = r.v.source
    BY <1>1, SelectFields DEF Keeps
  <2> HIDE DEF a
  <2>2. /\ b \in Rec /\ b.still = r.still /\ b.v.standby = r.v.standby
        /\ b.v.fd = r.v.fd /\ b.v.playstate = r.v.playstate
        /\ (b.v.picture => r.v.picture)
        /\ (r.v.fd => b.v.run)
        /\ (~r.v.fd => b = a)
    BY <2>1, RunFields DEF Keeps
  <2> HIDE DEF b
  <2>3. t = [b EXCEPT !.v.fdd = TRUE]
    BY <1>3 DEF Live!open_AVInput_Device, b, a
  <2> HIDE DEF t
  <2>4. /\ t \in Rec /\ t.still = b.still /\ t.v.standby = b.v.standby /\ t.v.picture = b.v.picture
        /\ t.v.source = b.v.source /\ t.v.fd = b.v.fd /\ t.v.run = b.v.run /\ t.v.fdd
        /\ t.v.playstate = b.v.playstate
    BY <2>2, <2>3 DEF Rec, Unit
  <2>5. AtPeace(t)
    BY <1>1, <2>1, <2>2, <2>4 DEF AtPeace
  <2>6. Plays(t) => t.v.run
    BY <2>2, <2>4 DEF Plays
  <2>7. u = 0 => t.v.playstate # "PLAYING"
    BY <2>2, <2>4
  <2> QED BY <2>2, <2>4, <2>5, <2>6, <2>7 DEF Fits, Sound, Plays, t
<1> QED BY <1>2, <1>3

\* setAVInput keeps a unit sound, whichever input is chosen.
LEMMA setAVInputFits ==
  ASSUME NEW u \in Live!Units, NEW r, Sound(u, r), NEW aux \in BOOLEAN
  PROVE  Fits(u, r, Live!setAVInput(r, aux))
<1>1. r \in Rec /\ AtPeace(r)
  BY DEF Sound, AtPeace
<1>2. CASE aux
  <2> DEFINE a == Live!Run(r, TRUE)
             s == Live!Stop(a, TRUE)
  <2>1. s = Live!setBlank(r, TRUE)
    BY DEF Live!setBlank
  <2>2. Fits(u, r, s)
    BY <2>1, setBlankFits
  <2>3. a \in Rec /\ a.still = r.still /\ a.v.playstate = r.v.playstate /\ (a.v.picture => r.v.picture)
    BY <1>1, RunFields
  <2> HIDE DEF a
  <2>4. (s.v.picture => r.v.picture) /\ (u = 0 => s.v.playstate # "PLAYING")
    <3>1. /\ s.v.picture => a.v.picture
          /\ a.still => s = a
          /\ ~a.still => s.v.playstate # "PLAYING"
      BY <2>3, StopFields
    <3> QED BY <2>3, <3>1 DEF Sound
  <2> HIDE DEF s
  <2>5. Fits(u, s, Live!open_AVInput_Device(s))
    BY <2>2, <2>4, InputOpenedFits DEF Fits
  <2>6. Fits(u, r, Live!open_AVInput_Device(s))
    BY <2>2, <2>4, <2>5, FitsAfter
  <2> QED BY <1>2, <2>1, <2>6 DEF Live!setAVInput
<1>3. CASE ~aux /\ r.v.fdd
  <2> DEFINE s == Live!close_AVInput_Device(r)
             t == Live!Start(Live!Run(s, TRUE))
  <2>1. /\ AtPeace(s) /\ s.still = r.still /\ s.v.standby = r.v.standby
        /\ (s.v.picture => r.v.picture)
    BY <1>1, InputClosedAtPeace
  <2> HIDE DEF s
  <2>2. AtPeace(Live!Run(s, TRUE)) /\ Live!Run(s, TRUE).v.standby = r.v.standby
    BY <2>1, RunsAtPeace DEF Keeps
  <2>3. Fits(u, Live!Run(s, TRUE), t) /\ ~t.still /\ ~t.v.picture
    BY <2>2, StartFits, StartFields DEF AtPeace
  <2>4. Fits(u, r, t)
    BY <2>2, <2>3 DEF Fits
  <2> QED BY <1>3, <2>4 DEF Live!setAVInput, Live!setBlank, s
<1>4. CASE ~aux /\ ~r.v.fdd
  BY <1>1, <1>4 DEF Live!setAVInput, Fits, Live!Units
<1> QED BY <1>2, <1>3, <1>4

\* SetVideoSystem stops and starts a decoder that runs.
LEMMA SystemFits ==
  ASSUME NEW u \in Live!Units, NEW r, Sound(u, r)
  PROVE  Fits(u, r, Live!SetVideoSystem(r)) /\ Fits(u, r, Live!SetVideoSystem_spark(r))
<1>1. r \in Rec /\ AtPeace(r)
  BY DEF Sound, AtPeace
<1> DEFINE s == Live!Stop(r, TRUE)
<1>2. Fits(u, r, s) /\ (s.v.picture => r.v.picture)
  BY <1>1, StopFits, StopFields
<1> HIDE DEF s
<1>3. Fits(u, s, Live!Start(s))
  BY <1>2, StartFits DEF Fits, Sound
<1>4. Fits(u, r, Live!Start(s)) /\ Fits(u, r, r)
  BY <1>2, <1>3, FitsAfter DEF Fits
<1> QED BY <1>4 DEF Live!SetVideoSystem, Live!SetVideoSystem_spark, s

\* A decoder that was closed and opened again has stopped, without a picture.
LEMMA ReopenedFields ==
  ASSUME NEW r \in Rec, NEW opens \in BOOLEAN
  PROVE  LET t == Live!openDevice(Live!closeDevice(r), opens)
         IN  /\ AtPeace(t) /\ (t.still => r.still) /\ Keeps(r, t)
             /\ t.v.playstate = "STOPPED" /\ ~t.v.picture
<1> DEFINE c == Live!closeDevice(r)
           t == Live!openDevice(c, opens)
<1>1. /\ c \in Rec /\ (c.still => r.still) /\ Keeps(r, c)
      /\ ~c.v.fd /\ c.v.playstate = "STOPPED" /\ c.v.source = "demux" /\ ~c.v.run /\ ~c.v.picture
  BY CloseFields
<1> HIDE DEF c
<1>2. /\ t \in Rec /\ t.still = c.still /\ Keeps(c, t) /\ t.v.source = c.v.source /\ t.v.run = c.v.run
      /\ t.v.picture = c.v.picture /\ t.v.playstate = "STOPPED"
  BY <1>1, OpenFields
<1> HIDE DEF t
<1>3. AtPeace(t)
  BY <1>1, <1>2 DEF AtPeace
<1> QED BY <1>1, <1>2, <1>3 DEF Keeps, t, c

\* A picture that was written to the decoder
LEMMA PaintedFits ==
  ASSUME NEW r, AtPeace(r), r.v.playstate = "STOPPED", r.v.fd, NEW on \in BOOLEAN, NEW p \in BOOLEAN
  PROVE  LET t == [r EXCEPT !.still = TRUE, !.v.source = "demux", !.v.run = on, !.v.picture = p]
         IN  Sound(0, t) /\ t.still /\ t.v.standby = r.v.standby
<1> DEFINE t == [r EXCEPT !.still = TRUE, !.v.source = "demux", !.v.run = on, !.v.picture = p]
<1>1. /\ t \in Rec /\ t.still /\ t.v.source = "demux" /\ t.v.fd /\ t.v.playstate = "STOPPED"
      /\ t.v.standby = r.v.standby
  BY DEF AtPeace, Rec, Unit
<1> HIDE DEF t
<1> QED BY <1>1 DEF Sound, AtPeace, Plays, t

\* ShowPicture of the boxes leaves the flag with the picture.
LEMMA ShowPictureFits ==
  ASSUME NEW r, Sound(0, r), NEW opens \in BOOLEAN, NEW fails
  PROVE  Fits(0, r, Live!ShowPicture(r, opens, fails))
<1> DEFINE s == Live!openDevice(Live!closeDevice(r), opens)
           p == Live!HasFrame(Live!image_to_mpeg2(fails))
           t == [s EXCEPT !.still = TRUE, !.v.source = "demux", !.v.run = FALSE, !.v.picture = p]
<1>1. r \in Rec
  BY DEF Sound, AtPeace
<1>2. AtPeace(s) /\ s.v.playstate = "STOPPED" /\ ~s.v.picture /\ s.v.standby = r.v.standby
  BY <1>1, ReopenedFields DEF Keeps
<1>3. p \in BOOLEAN
  BY DEF Live!HasFrame
<1>4. Live!ShowPicture(r, opens, fails) = IF r.v.standby \/ ~r.v.fd THEN r ELSE IF ~s.v.fd THEN s ELSE t
  BY DEF Live!ShowPicture
<1> HIDE DEF s, p
<1>5. Fits(0, r, s)
  BY <1>2 DEF Fits, Sound, Plays
<1>6. s.v.fd => Fits(0, r, t)
  <2>1. s.v.fd => Sound(0, t) /\ t.still /\ t.v.standby = s.v.standby
    BY <1>2, <1>3, PaintedFits
  <2> HIDE DEF t
  <2> QED BY <1>2, <2>1 DEF Fits
<1>7. Fits(0, r, r)
  BY DEF Fits
<1> HIDE DEF t
<1> QED BY <1>4, <1>5, <1>6, <1>7

\* ShowPicture of the spark boxes leaves the flag with the picture.
LEMMA ShowPictureSparkFits ==
  ASSUME NEW r, Sound(0, r), NEW opens \in BOOLEAN, NEW fails, NEW memory \in BOOLEAN
  PROVE  Fits(0, r, Live!ShowPicture_spark(r, opens, fails, memory))
<1> DEFINE s == Live!openDevice(Live!closeDevice(r), opens)
           p == Live!HasFrame(Live!image_to_mpeg2(fails))
           f == [s EXCEPT !.still = TRUE]
           t == [s EXCEPT !.still = TRUE, !.v.source = "demux", !.v.run = TRUE, !.v.picture = p]
<1>1. r \in Rec
  BY DEF Sound, AtPeace
<1>2. AtPeace(s) /\ s.v.playstate = "STOPPED" /\ ~s.v.picture /\ s.v.standby = r.v.standby
  BY <1>1, ReopenedFields DEF Keeps
<1>3. p \in BOOLEAN
  BY DEF Live!HasFrame
<1>4. Live!ShowPicture_spark(r, opens, fails, memory) =
        IF r.v.standby \/ ~r.v.fd \/ Live!image_to_mpeg2(fails) = <<>> THEN r
        ELSE IF ~s.v.fd THEN s ELSE IF ~memory THEN f ELSE t
  BY DEF Live!ShowPicture_spark
<1> HIDE DEF s, p
<1>5. Fits(0, r, s)
  BY <1>2 DEF Fits, Sound, Plays
<1>6. Fits(0, r, f)
  <2>1. f \in Rec /\ f.still /\ f.v = s.v
    BY <1>2 DEF AtPeace, Rec
  <2> HIDE DEF f
  <2> QED BY <1>2, <2>1 DEF Fits, Sound, Plays, AtPeace
<1>7. s.v.fd => Fits(0, r, t)
  <2>1. s.v.fd => Sound(0, t) /\ t.still /\ t.v.standby = s.v.standby
    BY <1>2, <1>3, PaintedFits
  <2> HIDE DEF t
  <2> QED BY <1>2, <2>1 DEF Fits
<1>8. Fits(0, r, r)
  BY DEF Fits
<1> HIDE DEF f, t
<1> QED BY <1>4, <1>5, <1>6, <1>7, <1>8

\* StopPicture takes the picture and the flag away together.
LEMMA StopPictureFits ==
  ASSUME NEW r, Sound(0, r), NEW opens \in BOOLEAN
  PROVE  Fits(0, r, Live!StopPicture(r, opens)) /\ Fits(0, r, Live!StopPicture_spark(r))
<1> DEFINE a == [r EXCEPT !.still = FALSE]
           s == Live!Stop(a, TRUE)
           t == Live!openDevice(Live!closeDevice(s), opens)
<1>1. r \in Rec
  BY DEF Sound, AtPeace
<1>2. a \in Rec /\ ~a.still /\ a.v = r.v
  BY <1>1 DEF Rec
<1>3. Sound(0, a)
  BY <1>2 DEF Sound, AtPeace, Plays
<1> HIDE DEF a
<1>4. Fits(0, a, s) /\ s \in Rec /\ (s.v.picture => a.v.picture)
  BY <1>2, <1>3, StopFits, StopFields DEF Live!Units
<1> HIDE DEF s
<1>5. Fits(0, r, s)
  BY <1>2, <1>4 DEF Fits
<1>6. AtPeace(t) /\ t.v.playstate = "STOPPED" /\ ~t.v.picture /\ t.v.standby = s.v.standby
  BY <1>4, ReopenedFields DEF Keeps
<1> HIDE DEF t
<1>7. Fits(0, r, t)
  BY <1>5, <1>6 DEF Fits, Sound, Plays
<1> QED BY <1>5, <1>7 DEF Live!StopPicture, Live!StopPicture_spark, t, s, a

\* Sleep sets the standby flag and no other that Fits speaks of.
LEMMA SleepFits ==
  ASSUME NEW r, Sound(0, r), NEW on \in BOOLEAN, NEW opens \in BOOLEAN
  PROVE  LET t == Live!Sleep(r, on, opens)
         IN  Sound(0, t) /\ t.v.standby = on /\ (t.v.picture => t.still \/ r.v.picture)
<1> DEFINE s == IF on THEN Live!closeDevice(r) ELSE Live!openDevice(r, opens)
           t == Live!Sleep(r, on, opens)
<1>1. Fits(0, r, s)
  BY CloseFits, OpenFits DEF Sound, Live!Units
<1>2. t = [s EXCEPT !.v.standby = on]
  BY DEF Live!Sleep
<1> HIDE DEF s, t
<1>3. /\ t \in Rec /\ t.still = s.still /\ t.v.standby = on /\ t.v.picture = s.v.picture
      /\ t.v.source = s.v.source /\ t.v.fd = s.v.fd /\ t.v.run = s.v.run /\ t.v.fdd = s.v.fdd
      /\ t.v.playstate = s.v.playstate
  BY <1>1, <1>2 DEF Fits, Sound, AtPeace, Rec, Unit
<1> QED BY <1>1, <1>3 DEF Fits, Sound, AtPeace, Plays, t

\* A message names a key where it is about one.
Ops == {"gone", "waits", "PRESSED", "RELEASE", "REPORT_POWER_STATUS", "STANDBY",
        "GIVE_DEVICE_POWER_STATUS"}
Msg == {m \in [op : Ops, on : BOOLEAN, key : Keys \cup {"none"}] : m.op = "PRESSED" => m.key \in Keys}

IsKey(m) == m.op \in {"PRESSED", "RELEASE"}

\* The messages from the one in hand on: s[0] is the one the thread has read, if it has.
NoneBetween(s, i, j) == \A k \in DOMAIN s : i < k /\ k < j => ~IsKey(s[k])
Alternates(s) ==
  \A i, j \in DOMAIN s : i < j /\ IsKey(s[i]) /\ IsKey(s[j]) /\ NoneBetween(s, i, j) => s[i].op # s[j].op

\* The next event is a press with no key down, or the release of the key that is.
FirstFits(s, down, last) ==
  \A i \in DOMAIN s : IsKey(s[i]) /\ (\A k \in DOMAIN s : k < i => ~IsKey(s[k]))
                        => IF s[i].op = "PRESSED" THEN down = {} ELSE down = {last}

\* The last one left the remote control as it is.
LastFits(s, held) ==
  \A i \in DOMAIN s : IsKey(s[i]) /\ (\A k \in DOMAIN s : i < k => ~IsKey(s[k]))
                        => IF s[i].op = "PRESSED" THEN held = s[i].key ELSE held = "none"

NoneFits(s, down, last, held) ==
  (\A i \in DOMAIN s : ~IsKey(s[i]))
    => (held = "none" => down = {}) /\ (held # "none" => down = {held} /\ last = held)

Follows(s, down, last, held) ==
  Alternates(s) /\ FirstFits(s, down, last) /\ LastFits(s, held) /\ NoneFits(s, down, last, held)

\* Messages that are about no key may come and go.
LEMMA OthersDoNotCount ==
  ASSUME NEW n \in Nat, NEW s, NEW t, NEW down, NEW last, NEW held, Follows(s, down, last, held),
         DOMAIN s = 0 .. n, DOMAIN t = 0 .. n,
         \A i \in 0 .. n : (IsKey(s[i]) \/ IsKey(t[i])) => t[i] = s[i]
  PROVE  Follows(t, down, last, held)
<1>1. \A i \in 0 .. n : IsKey(t[i]) <=> IsKey(s[i])
  OBVIOUS
<1>2. Alternates(t)
  BY <1>1 DEF Follows, Alternates, NoneBetween
<1>3. FirstFits(t, down, last)
  BY <1>1 DEF Follows, FirstFits
<1>4. LastFits(t, held)
  BY <1>1 DEF Follows, LastFits
<1>5. NoneFits(t, down, last, held)
  BY <1>1 DEF Follows, NoneFits
<1> QED BY <1>2, <1>3, <1>4, <1>5 DEF Follows

\* The thread that waits takes the first message of the bus.
LEMMA TakenFollows ==
  ASSUME NEW n \in Nat, NEW s, NEW t, NEW down, NEW last, NEW held, Follows(s, down, last, held),
         DOMAIN s = 0 .. n + 1, DOMAIN t = 0 .. n, ~IsKey(s[0]),
         \A i \in 0 .. n : t[i] = s[i + 1]
  PROVE  Follows(t, down, last, held)
<1>1. \A i \in 0 .. n : i + 1 \in 0 .. n + 1 /\ t[i] = s[i + 1]
  OBVIOUS
<1>2. \A k \in 0 .. n + 1 : k # 0 => k - 1 \in 0 .. n /\ (k - 1) + 1 = k
  OBVIOUS
<1>3. \A k \in 0 .. n + 1 : k # 0 => s[k] = t[k - 1]
  BY <1>1, <1>2
<1>4. Alternates(t)
  <2> SUFFICES ASSUME NEW i \in 0 .. n, NEW j \in 0 .. n, i < j, IsKey(t[i]), IsKey(t[j]),
                      NoneBetween(t, i, j)
               PROVE  t[i].op # t[j].op
    BY DEF Alternates
  <2>1. i + 1 \in 0 .. n + 1 /\ j + 1 \in 0 .. n + 1 /\ i + 1 < j + 1
    OBVIOUS
  <2>2. ASSUME NEW k \in 0 .. n + 1, i + 1 < k, k < j + 1 PROVE ~IsKey(s[k])
    <3>1. k - 1 \in 0 .. n /\ i < k - 1 /\ k - 1 < j /\ k # 0
      BY <2>2
    <3> QED BY <3>1, <1>3 DEF NoneBetween
  <2> QED BY <1>1, <2>1, <2>2 DEF Follows, Alternates, NoneBetween
<1>5. FirstFits(t, down, last)
  <2> SUFFICES ASSUME NEW i \in 0 .. n, IsKey(t[i]), \A k \in 0 .. n : k < i => ~IsKey(t[k])
               PROVE  IF t[i].op = "PRESSED" THEN down = {} ELSE down = {last}
    BY DEF FirstFits
  <2>1. ASSUME NEW k \in 0 .. n + 1, k < i + 1 PROVE ~IsKey(s[k])
    <3>1. CASE k = 0
      BY <3>1
    <3>2. CASE k # 0
      <4>1. k - 1 \in 0 .. n /\ k - 1 < i
        BY <2>1, <3>2
      <4> QED BY <4>1, <1>3, <3>2
    <3> QED BY <3>1, <3>2
  <2> QED BY <1>1, <2>1 DEF Follows, FirstFits
<1>6. LastFits(t, held)
  <2> SUFFICES ASSUME NEW i \in 0 .. n, IsKey(t[i]), \A k \in 0 .. n : i < k => ~IsKey(t[k])
               PROVE  IF t[i].op = "PRESSED" THEN held = t[i].key ELSE held = "none"
    BY DEF LastFits
  <2>1. ASSUME NEW k \in 0 .. n + 1, i + 1 < k PROVE ~IsKey(s[k])
    <3>1. k - 1 \in 0 .. n /\ i < k - 1 /\ k # 0
      BY <2>1
    <3> QED BY <3>1, <1>3
  <2> QED BY <1>1, <2>1 DEF Follows, LastFits
<1>7. NoneFits(t, down, last, held)
  <2>1. (\A i \in 0 .. n : ~IsKey(t[i])) => \A k \in 0 .. n + 1 : ~IsKey(s[k])
    BY <1>2, <1>3
  <2> QED BY <2>1 DEF Follows, NoneFits
<1> QED BY <1>4, <1>5, <1>6, <1>7 DEF Follows

\* A message comes on the bus.
LEMMA PostedFollows ==
  ASSUME NEW n \in Nat, NEW s, NEW t, NEW down, NEW last, NEW held, NEW new,
         Follows(s, down, last, held), "none" \notin Keys,
         DOMAIN s = 0 .. n, DOMAIN t = 0 .. n + 1,
         \A i \in 0 .. n : s[i] \in Msg /\ t[i] = s[i],
         \/ ~IsKey(t[n + 1]) /\ new = held
         \/ t[n + 1].op = "PRESSED" /\ held = "none" /\ new = t[n + 1].key /\ new \in Keys
         \/ t[n + 1].op = "RELEASE" /\ held # "none" /\ new = "none"
  PROVE  Follows(t, down, last, new)
<1>1. \A i \in 0 .. n + 1 : i \in 0 .. n \/ i = n + 1
  OBVIOUS
<1>2. \A i \in 0 .. n : i \in 0 .. n + 1 /\ i < n + 1 /\ ~(n + 1 < i)
  OBVIOUS
<1>3. \A i \in 0 .. n : s[i].op = "PRESSED" => s[i].key # "none"
  BY DEF Msg
<1>4. Alternates(t)
  <2> SUFFICES ASSUME NEW i \in 0 .. n + 1, NEW j \in 0 .. n + 1, i < j, IsKey(t[i]), IsKey(t[j]),
                      NoneBetween(t, i, j)
               PROVE  t[i].op # t[j].op
    BY DEF Alternates
  <2>1. i \in 0 .. n
    OBVIOUS
  <2>2. CASE j \in 0 .. n
    BY <1>2, <2>1, <2>2 DEF Follows, Alternates, NoneBetween
  <2>3. CASE j = n + 1
    <3>1. \A k \in 0 .. n : i < k => ~IsKey(s[k])
      BY <1>2, <2>3 DEF NoneBetween
    <3>2. IF s[i].op = "PRESSED" THEN held = s[i].key ELSE held = "none"
      BY <2>1, <3>1 DEF Follows, LastFits
    <3> QED BY <1>3, <2>1, <2>3, <3>2 DEF IsKey
  <2> QED BY <1>1, <2>2, <2>3
<1>5. FirstFits(t, down, last)
  <2> SUFFICES ASSUME NEW i \in 0 .. n + 1, IsKey(t[i]), \A k \in 0 .. n + 1 : k < i => ~IsKey(t[k])
               PROVE  IF t[i].op = "PRESSED" THEN down = {} ELSE down = {last}
    BY DEF FirstFits
  <2>1. CASE i \in 0 .. n
    BY <1>2, <2>1 DEF Follows, FirstFits
  <2>2. CASE i = n + 1
    <3>1. \A k \in 0 .. n : ~IsKey(s[k])
      BY <1>2, <2>2
    <3>2. (held = "none" => down = {}) /\ (held # "none" => down = {held} /\ last = held)
      BY <3>1 DEF Follows, NoneFits
    <3> QED BY <2>2, <3>2 DEF IsKey
  <2> QED BY <1>1, <2>1, <2>2
<1>6. LastFits(t, new)
  <2> SUFFICES ASSUME NEW i \in 0 .. n + 1, IsKey(t[i]), \A k \in 0 .. n + 1 : i < k => ~IsKey(t[k])
               PROVE  IF t[i].op = "PRESSED" THEN new = t[i].key ELSE new = "none"
    BY DEF LastFits
  <2>1. CASE i \in 0 .. n
    <3>1. ~IsKey(t[n + 1])
      BY <1>2, <2>1
    <3> QED BY <1>2, <2>1, <3>1 DEF Follows, LastFits, IsKey
  <2>2. CASE i = n + 1
    BY <2>2 DEF IsKey
  <2> QED BY <1>1, <2>1, <2>2
<1>7. NoneFits(t, down, last, new)
  <2> SUFFICES ASSUME \A i \in 0 .. n + 1 : ~IsKey(t[i])
               PROVE  (new = "none" => down = {}) /\ (new # "none" => down = {new} /\ last = new)
    BY DEF NoneFits
  <2>1. \A i \in 0 .. n : ~IsKey(s[i])
    BY <1>2
  <2>2. new = held
    BY DEF IsKey
  <2> QED BY <2>1, <2>2 DEF Follows, NoneFits
<1> QED BY <1>4, <1>5, <1>6, <1>7 DEF Follows

\* The message in hand is received.
LEMMA ReceivedFollows ==
  ASSUME NEW n \in Nat, NEW s, NEW t, NEW down, NEW last, NEW held, NEW key,
         Follows(s, down, last, held), "none" \notin Keys,
         DOMAIN s = 0 .. n, DOMAIN t = 0 .. n, s[0] \in Msg, IsKey(s[0]), ~IsKey(t[0]),
         \A i \in 0 .. n : i # 0 => t[i] = s[i],
         key = IF s[0].op = "PRESSED" THEN s[0].key ELSE last
  PROVE  Follows(t, IF s[0].op = "PRESSED" THEN down \cup {key} ELSE down \ {key}, key, held)
<1> DEFINE now == IF s[0].op = "PRESSED" THEN down \cup {key} ELSE down \ {key}
<1>1. 0 \in 0 .. n /\ \A k \in 0 .. n : ~(k < 0)
  OBVIOUS
<1>2. IF s[0].op = "PRESSED" THEN down = {} ELSE down = {last}
  BY <1>1 DEF Follows, FirstFits
<1>3. IF s[0].op = "PRESSED" THEN now = {key} ELSE now = {}
  BY <1>2
<1> HIDE DEF now
<1>4. \A i \in 0 .. n : IsKey(t[i]) => i # 0 /\ 0 < i /\ t[i] = s[i]
  OBVIOUS
<1>5. Alternates(t)
  <2> SUFFICES ASSUME NEW i \in 0 .. n, NEW j \in 0 .. n, i < j, IsKey(t[i]), IsKey(t[j]),
                      NoneBetween(t, i, j)
               PROVE  t[i].op # t[j].op
    BY DEF Alternates
  <2>1. \A k \in 0 .. n : i < k /\ k < j => k # 0
    BY <1>4
  <2>2. NoneBetween(s, i, j)
    BY <2>1 DEF NoneBetween
  <2> QED BY <1>4, <2>2 DEF Follows, Alternates
<1>6. FirstFits(t, now, key)
  <2> SUFFICES ASSUME NEW i \in 0 .. n, IsKey(t[i]), \A k \in 0 .. n : k < i => ~IsKey(t[k])
               PROVE  IF t[i].op = "PRESSED" THEN now = {} ELSE now = {key}
    BY DEF FirstFits
  <2>1. NoneBetween(s, 0, i)
    BY DEF NoneBetween
  <2>2. s[0].op # s[i].op
    BY <1>1, <1>4, <2>1 DEF Follows, Alternates
  <2> QED BY <1>3, <1>4, <2>2 DEF IsKey
<1>7. LastFits(t, held)
  <2> SUFFICES ASSUME NEW i \in 0 .. n, IsKey(t[i]), \A k \in 0 .. n : i < k => ~IsKey(t[k])
               PROVE  IF t[i].op = "PRESSED" THEN held = t[i].key ELSE held = "none"
    BY DEF LastFits
  <2>1. \A k \in 0 .. n : i < k => k # 0
    BY <1>4
  <2>2. \A k \in 0 .. n : i < k => ~IsKey(s[k])
    BY <2>1
  <2> QED BY <1>4, <2>2 DEF Follows, LastFits
<1>8. NoneFits(t, now, key, held)
  <2> SUFFICES ASSUME \A i \in 0 .. n : ~IsKey(t[i])
               PROVE  (held = "none" => now = {}) /\ (held # "none" => now = {held} /\ key = held)
    BY DEF NoneFits
  <2>1. \A k \in 0 .. n : 0 < k => k # 0
    OBVIOUS
  <2>2. \A k \in 0 .. n : 0 < k => ~IsKey(s[k])
    BY <2>1
  <2>3. IF s[0].op = "PRESSED" THEN held = s[0].key ELSE held = "none"
    BY <1>1, <2>2 DEF Follows, LastFits
  <2>4. s[0].op = "PRESSED" => s[0].key # "none"
    BY DEF Msg
  <2> QED BY <1>3, <2>3, <2>4
<1> QED BY <1>5, <1>6, <1>7, <1>8 DEF Follows, now

-----------------------------------------------------------------------------
Box == [open : BOOLEAN, running : BOOLEAN, standby : BOOLEAN, tv_off : BOOLEAN,
        autoview_cec_activ : BOOLEAN, standby_cec_activ : BOOLEAN]
LinkTyped ==
  /\ cec \in Box /\ rx \in Msg /\ bus \in Seq(Msg)
  /\ tv \in [on : BOOLEAN, key : Keys \cup {"none"}]
  /\ missed \in BOOLEAN /\ woken \in BOOLEAN

\* The thread is there while the link runs, and the link is there where the box has one.
ThreadIsThere ==
  /\ ~cec.running => rx = Live!Gone
  /\ ~Live!Cec => rx = Live!Gone /\ waking = -1

\* The link knows the standby of the main unit.
LinkKnows ==
  /\ Live!Cec /\ ~woken => cec.standby = units[0].standby
  /\ waking >= 0 /\ ~woken => ~units[0].standby

Messages == [i \in 0 .. Len(bus) |-> IF i = 0 THEN rx ELSE bus[i]]
KeysFollow == ~missed => Follows(Messages, keys, pressedkey, tv.key)

UnitsSound ==
  /\ stillpicture \in BOOLEAN /\ units \in [Live!Units -> Unit] /\ cleared \in BOOLEAN
  /\ \A u \in Live!Units : Sound(u, Live!At(u))
  /\ Live!StillIsMarked

LInv == UnitsSound /\ LinkTyped /\ ThreadIsThere /\ LinkKnows /\ KeysFollow

\* A sound unit that is stored leaves both units sound.
LEMMA CommitFits ==
  ASSUME UnitsSound, NEW u \in Live!Units, NEW r, Sound(u, r), Live!Commit(u, r),
         u = 0 => (r.v.picture => r.still \/ units[0].picture),
         u = 1 => (r.still => stillpicture)
  PROVE  UnitsSound' /\ units'[0].standby = IF u = 0 THEN r.v.standby ELSE units[0].standby
<1>1. r.still \in BOOLEAN /\ r.v \in Unit /\ r = [still |-> r.still, v |-> r.v]
  BY DEF Sound, AtPeace, Rec
<1>2. stillpicture' = r.still /\ units' = [units EXCEPT ![u] = r.v]
  BY DEF Live!Commit
<1>3. stillpicture' \in BOOLEAN /\ units' \in [Live!Units -> Unit] /\ units'[u] = r.v
      /\ \A o \in Live!Units : o # u => units'[o] = units[o]
  BY <1>1, <1>2 DEF UnitsSound
<1>4. cleared' = (units'[0].picture /\ (cleared \/ (stillpicture /\ ~r.still)))
  BY DEF Live!Commit
<1>5. cleared' \in BOOLEAN
  BY <1>4, Zenon
<1>6. ASSUME NEW o \in Live!Units PROVE Sound(o, Live!At(o)')
  <2>1. Live!At(o)' = [still |-> r.still, v |-> units'[o]]
    BY <1>2 DEF Live!At
  <2>2. CASE o = u
    BY <1>1, <1>3, <2>1, <2>2
  <2>3. CASE o # u
    <3>1. Sound(o, Live!At(o))
      BY DEF UnitsSound
    <3>2. units'[o] = units[o]
      BY <1>3, <2>3
    <3>3. o = 0 => (r.still => stillpicture)
      BY <2>3 DEF Live!Units
    <3> QED BY <1>1, <2>1, <3>1, <3>2, <3>3 DEF Sound, AtPeace, Rec, Plays, Live!At
  <2> QED BY <2>2, <2>3
<1>7. Live!StillIsMarked'
  <2>1. CASE u = 0
    BY <1>2, <1>3, <1>4, <2>1 DEF UnitsSound, Live!StillIsMarked, Live!Units
  <2>2. CASE u = 1
    BY <1>2, <1>3, <1>4, <2>2 DEF UnitsSound, Live!StillIsMarked, Live!Units
  <2> QED BY <2>1, <2>2 DEF Live!Units
<1>8. units'[0].standby = IF u = 0 THEN r.v.standby ELSE units[0].standby
  BY <1>3 DEF Live!Units
<1> QED BY <1>3, <1>5, <1>6, <1>7, <1>8 DEF UnitsSound

\* A call of one unit, from any unit that is sound.
LEMMA DoFits ==
  ASSUME UnitsSound, NEW u \in Live!Units, NEW r, Fits(u, Live!At(u), r), Live!Do(u, r)
  PROVE  UnitsSound' /\ units'[0].standby = units[0].standby /\ UNCHANGED <<Live!link, port>>
<1>1. Live!Commit(u, r) /\ UNCHANGED <<Live!link, port>>
  BY DEF Live!Do, Live!Called
<1>2. u = 0 => r.v.standby = units[0].standby /\ (r.v.picture => r.still \/ units[0].picture)
  BY DEF Fits, Live!At
<1>3. u = 1 => (r.still => stillpicture)
  BY DEF Fits, Live!At
<1>4. Sound(u, r)
  BY DEF Fits
<1> QED BY <1>1, <1>2, <1>3, <1>4, CommitFits

\* The calls of cVideo keep the units sound.
LEMMA VideoCallFits ==
  ASSUME UnitsSound, Live!VideoCall
  PROVE  UnitsSound' /\ units'[0].standby = units[0].standby /\ UNCHANGED <<Live!link, port>>
<1>1. PICK u \in Live!Units :
        \/ Live!Do(u, Live!Start(Live!At(u)))
        \/ \E blank \in BOOLEAN : Live!Do(u, Live!Stop(Live!At(u), blank))
        \/ IF port = "spark" THEN Live!Do(u, Live!setBlank_spark(Live!At(u)))
                             ELSE \E on \in BOOLEAN : Live!Do(u, Live!setBlank(Live!At(u), on))
        \/ port # "spark" /\ \E aux \in BOOLEAN : Live!Do(u, Live!setAVInput(Live!At(u), aux))
        \/ Live!Do(u, IF port = "spark" THEN Live!SetVideoSystem_spark(Live!At(u)) ELSE Live!SetVideoSystem(Live!At(u)))
  BY DEF Live!VideoCall
<1>2. Sound(u, Live!At(u)) /\ AtPeace(Live!At(u))
  BY DEF UnitsSound, Sound
<1>3. PICK r : Live!Do(u, r) /\ Fits(u, Live!At(u), r)
  <2>1. CASE Live!Do(u, Live!Start(Live!At(u)))
    BY <1>2, <2>1, StartFits
  <2>2. CASE \E blank \in BOOLEAN : Live!Do(u, Live!Stop(Live!At(u), blank))
    BY <1>2, <2>2, StopFits
  <2>3. CASE IF port = "spark" THEN Live!Do(u, Live!setBlank_spark(Live!At(u)))
                             ELSE \E on \in BOOLEAN : Live!Do(u, Live!setBlank(Live!At(u), on))
    BY <1>2, <2>3, setBlankFits
  <2>4. CASE \E aux \in BOOLEAN : Live!Do(u, Live!setAVInput(Live!At(u), aux))
    BY <1>2, <2>4, setAVInputFits
  <2>5. CASE Live!Do(u, IF port = "spark" THEN Live!SetVideoSystem_spark(Live!At(u)) ELSE Live!SetVideoSystem(Live!At(u)))
    BY <1>2, <2>5, SystemFits
  <2> QED BY <1>1, <2>1, <2>2, <2>3, <2>4, <2>5
<1> QED BY <1>3, DoFits

\* The calls for a still picture keep the units sound.
LEMMA PictureCallFits ==
  ASSUME UnitsSound, Live!PictureCall
  PROVE  UnitsSound' /\ units'[0].standby = units[0].standby /\ UNCHANGED <<Live!link, port>>
<1>1. 0 \in Live!Units /\ Sound(0, Live!At(0))
  BY DEF UnitsSound, Live!Units
<1>2. PICK r : Live!Do(0, r) /\ Fits(0, Live!At(0), r)
  <2>1. PICK opens \in BOOLEAN :
          \/ \E i \in DOMAIN Live!Stages \cup {0}, memory \in BOOLEAN :
               LET fails == IF i = 0 THEN "none" ELSE Live!Stages[i]
               IN  Live!Do(0, IF port = "spark" THEN Live!ShowPicture_spark(Live!At(0), opens, fails, memory)
                                           ELSE Live!ShowPicture(Live!At(0), opens, fails))
          \/ Live!Do(0, IF port = "spark" THEN Live!StopPicture_spark(Live!At(0)) ELSE Live!StopPicture(Live!At(0), opens))
    BY DEF Live!PictureCall
  <2>2. CASE \E i \in DOMAIN Live!Stages \cup {0}, memory \in BOOLEAN :
               LET fails == IF i = 0 THEN "none" ELSE Live!Stages[i]
               IN  Live!Do(0, IF port = "spark" THEN Live!ShowPicture_spark(Live!At(0), opens, fails, memory)
                                           ELSE Live!ShowPicture(Live!At(0), opens, fails))
    <3>1. PICK i \in DOMAIN Live!Stages \cup {0} : \E memory \in BOOLEAN :
            LET fails == IF i = 0 THEN "none" ELSE Live!Stages[i]
            IN  Live!Do(0, IF port = "spark" THEN Live!ShowPicture_spark(Live!At(0), opens, fails, memory)
                                        ELSE Live!ShowPicture(Live!At(0), opens, fails))
      BY <2>2
    <3> DEFINE fails == IF i = 0 THEN "none" ELSE Live!Stages[i]
    <3>2. PICK memory \in BOOLEAN :
            Live!Do(0, IF port = "spark" THEN Live!ShowPicture_spark(Live!At(0), opens, fails, memory)
                                    ELSE Live!ShowPicture(Live!At(0), opens, fails))
      BY <3>1
    <3> HIDE DEF fails
    <3> QED BY <1>1, <3>2, ShowPictureFits, ShowPictureSparkFits
  <2>3. CASE Live!Do(0, IF port = "spark" THEN Live!StopPicture_spark(Live!At(0)) ELSE Live!StopPicture(Live!At(0), opens))
    BY <1>1, <2>3, StopPictureFits
  <2> QED BY <2>1, <2>2, <2>3
<1> QED BY <1>1, <1>2, DoFits

\* The calls for the second unit keep the units sound.
LEMMA PipCallFits ==
  ASSUME UnitsSound, Live!PipCall
  PROVE  UnitsSound' /\ units'[0].standby = units[0].standby /\ UNCHANGED <<Live!link, port>>
<1>1. 1 \in Live!Units /\ Sound(1, Live!At(1)) /\ AtPeace(Live!At(1))
  BY DEF UnitsSound, Live!Units, Sound
<1>2. PICK r : Live!Do(1, r) /\ Fits(1, Live!At(1), r)
  <2>1. CASE \E opens \in BOOLEAN : Live!Do(1, Live!openDevice([still |-> stillpicture, v |-> Live!Closed], opens))
    <3> DEFINE n == [still |-> stillpicture, v |-> Live!Closed]
    <3>1. Sound(1, n)
      BY DEF UnitsSound, Sound, AtPeace, Plays, Rec, Unit, Live!Closed
    <3>2. n.still = Live!At(1).still
      BY DEF Live!At
    <3> HIDE DEF n
    <3>3. \A opens \in BOOLEAN : Fits(1, n, Live!openDevice(n, opens))
      BY <1>1, <3>1, OpenFits
    <3>4. \A opens \in BOOLEAN : Fits(1, Live!At(1), Live!openDevice(n, opens))
      BY <3>2, <3>3 DEF Fits
    <3> QED BY <2>1, <3>4 DEF n
  <2>2. CASE Live!Do(1, Live!closeDevice(Live!At(1)))
    BY <1>1, <2>2, CloseFits
  <2> QED BY <2>1, <2>2 DEF Live!PipCall
<1> QED BY <1>1, <1>2, DoFits

\* What is read and what waits on the bus, as one list.
LEMMA MessagesTyped ==
  ASSUME LinkTyped
  PROVE  /\ Len(bus) \in Nat /\ DOMAIN Messages = 0 .. Len(bus)
         /\ \A i \in 0 .. Len(bus) : Messages[i] \in Msg
         /\ Messages[0] = rx
         /\ \A i \in 0 .. Len(bus) : i # 0 => i \in 1 .. Len(bus) /\ Messages[i] = bus[i]
BY DEF LinkTyped, Messages

\* Another message in hand, which is about no key
LEMMA HandDoesNotCount ==
  ASSUME LinkTyped, LinkTyped', KeysFollow, bus' = bus, ~IsKey(rx), ~IsKey(rx'), UNCHANGED <<keys, pressedkey, tv>>,
         missed' = missed
  PROVE  KeysFollow'
<1>1. /\ DOMAIN Messages = 0 .. Len(bus) /\ DOMAIN Messages' = 0 .. Len(bus) /\ Len(bus) \in Nat
      /\ \A i \in 0 .. Len(bus) : IsKey(Messages[i]) \/ IsKey(Messages'[i]) => Messages'[i] = Messages[i]
  BY DEF Messages, LinkTyped
<1>2. ~missed => Follows(Messages', keys, pressedkey, tv.key)
  BY <1>1, OthersDoNotCount DEF KeysFollow
<1> QED BY <1>2 DEF KeysFollow

\* Nothing is lost when no message comes or goes.
LEMMA NothingPostedFollows ==
  ASSUME KeysFollow, UNCHANGED <<rx, bus, keys, pressedkey, missed>>, tv'.key = tv.key
  PROVE  KeysFollow'
BY DEF KeysFollow, Messages

\* A message that was put on the bus
LEMMA AppendedFollows ==
  ASSUME LinkTyped, LinkTyped', KeysFollow, "none" \notin Keys, NEW m \in Msg, bus' = Append(bus, m),
         UNCHANGED <<rx, keys, pressedkey>>, missed => missed',
         ~missed' => \/ ~IsKey(m) /\ tv'.key = tv.key
                     \/ m.op = "PRESSED" /\ tv.key = "none" /\ tv'.key = m.key
                     \/ m.op = "RELEASE" /\ tv.key # "none" /\ tv'.key = "none"
  PROVE  KeysFollow'
<1> SUFFICES ASSUME ~missed' PROVE Follows(Messages', keys, pressedkey, tv'.key)
  BY DEF KeysFollow
<1> DEFINE n == Len(bus)
<1>1. n \in Nat /\ Len(bus') = n + 1 /\ bus'[n + 1] = m /\ \A i \in 1 .. n : bus'[i] = bus[i]
  BY AppendProperties DEF LinkTyped
<1>2. DOMAIN Messages' = 0 .. n + 1 /\ Messages'[n + 1] = m /\ \A i \in 0 .. n : Messages'[i] = Messages[i]
  <2> HIDE DEF n
  <2>1. n + 1 \in 0 .. n + 1 /\ n + 1 # 0 /\ \A i \in 0 .. n : i \in 0 .. n + 1 /\ (i # 0 => i \in 1 .. n)
    BY <1>1
  <2> QED BY <1>1, <2>1 DEF Messages, n
<1>3. DOMAIN Messages = 0 .. n /\ \A i \in 0 .. n : Messages[i] \in Msg
  BY MessagesTyped
<1>4. Follows(Messages, keys, pressedkey, tv.key)
  BY DEF KeysFollow
<1>5. m.op = "PRESSED" => m.key \in Keys
  BY DEF Msg
<1> HIDE DEF n
<1> QED BY <1>1, <1>2, <1>3, <1>4, <1>5, PostedFollows

\* The question for the power status is answered, or its answer is lost.
LEMMA AskedFits ==
  ASSUME LinkTyped, LinkTyped', KeysFollow, "none" \notin Keys, NEW on \in BOOLEAN,
         bus' = Live!Asked(bus, on), UNCHANGED <<rx, keys, pressedkey, missed>>, tv'.key = tv.key
  PROVE  KeysFollow'
<1> DEFINE m == Live!Message("REPORT_POWER_STATUS", on, "none")
<1>1. m \in Msg /\ ~IsKey(m)
  BY DEF Live!Message, Msg, Ops, IsKey
<1>2. bus' = IF Len(bus) < MaxBus THEN Append(bus, m) ELSE bus
  BY DEF Live!Asked, Live!Post
<1> HIDE DEF m
<1>3. CASE bus' = bus
  BY <1>3, NothingPostedFollows
<1>4. CASE bus' = Append(bus, m)
  BY <1>1, <1>4, AppendedFollows
<1> QED BY <1>2, <1>3, <1>4

\* The messages a box sends are messages of the link.
LEMMA AskedTyped ==
  ASSUME NEW b \in Seq(Msg), NEW on \in BOOLEAN
  PROVE  Live!Asked(b, on) \in Seq(Msg)
<1>1. Live!Message("REPORT_POWER_STATUS", on, "none") \in Msg
  BY DEF Live!Message, Msg, Ops
<1> QED BY <1>1 DEF Live!Asked, Live!Post

\* The two marks of a thread that has read nothing are messages, and no keys.
LEMMA WaitsTyped == Live!Waits \in Msg /\ Live!Gone \in Msg /\ ~IsKey(Live!Waits) /\ ~IsKey(Live!Gone) /\ Live!Waits # Live!Gone
BY DEF Live!Waits, Live!Gone, Live!Message, Msg, Ops, IsKey

-----------------------------------------------------------------------------

\* The first state has the invariant of LiveVideo.
LEMMA InitLive ==
  ASSUME Live!Init, "none" \notin Keys
  PROVE  LInv
<1>1. UnitsSound
  BY DEF Live!Init, UnitsSound, Live!Units, Unit, Live!Closed, Sound, AtPeace, Rec, Plays, Live!At, Live!StillIsMarked
<1>2. LinkTyped
  <2>1. cec \in Box
    BY DEF Live!Init, Box
  <2>2. rx \in Msg
    BY WaitsTyped DEF Live!Init
  <2>3. bus \in Seq(Msg)
    BY DEF Live!Init
  <2>4. tv \in [on : BOOLEAN, key : Keys \cup {"none"}]
    BY DEF Live!Init
  <2>5. missed \in BOOLEAN /\ woken \in BOOLEAN
    BY DEF Live!Init
  <2> QED BY <2>1, <2>2, <2>3, <2>4, <2>5 DEF LinkTyped
<1>3. ThreadIsThere
  BY DEF Live!Init, ThreadIsThere
<1>4. LinkKnows
  <2>1. ~cec.standby /\ ~units[0].standby /\ ~(waking >= 0)
    BY DEF Live!Init, Live!Units, Live!Closed
  <2>2. cec.standby \in BOOLEAN /\ units[0].standby \in BOOLEAN
    BY <1>1, <1>2 DEF LinkTyped, Box, UnitsSound, Live!Units, Unit
  <2> QED BY <2>1, <2>2 DEF LinkKnows
<1>5. KeysFollow
  <2>1. Len(bus) = 0
    BY DEF Live!Init
  <2>2. DOMAIN Messages = {0} /\ Messages[0] = Live!Gone
    BY <2>1 DEF Live!Init, Messages
  <2> QED BY <2>2, WaitsTyped DEF Live!Init, KeysFollow, Follows, Alternates, FirstFits, LastFits, NoneFits
<1> QED BY <1>1, <1>2, <1>3, <1>4, <1>5 DEF LInv

\* A call that leaves the link alone
LEMMA UnitStep ==
  ASSUME LInv, UnitsSound', units'[0].standby = units[0].standby, UNCHANGED <<Live!link, port>>
  PROVE  LInv'
<1>1. UNCHANGED <<cec, rx, pressedkey, keys, bus, tv, waking, missed, woken>> /\ port' = port
  BY DEF Live!link
<1>2. LinkTyped' /\ ThreadIsThere' /\ KeysFollow'
  BY <1>1 DEF LInv, LinkTyped, ThreadIsThere, KeysFollow, Messages, Live!Cec
<1>3. LinkKnows'
  BY <1>1 DEF LInv, LinkKnows, Live!Cec
<1> QED BY <1>2, <1>3 DEF LInv

\* Units that nothing touches stay sound.
LEMMA UnitsKept ==
  ASSUME UnitsSound, UNCHANGED <<stillpicture, units, cleared, port>>
  PROVE  UnitsSound'
BY DEF UnitsSound, Live!StillIsMarked, Sound, AtPeace, Plays, Live!At

\* Standby, with the CEC message it sends, keeps the invariant.
LEMMA StandbyStep ==
  ASSUME LInv, "none" \notin Keys, NEW on \in BOOLEAN, Live!Standby(on)
  PROVE  LInv'
<1> USE DEF LInv
<1>1. Live!Called /\ waking = -1 /\ port' = port
  BY DEF Live!Standby, Live!Called
<1>2. UnitsSound' /\ units'[0].standby = on
  <2>1. PICK opens \in BOOLEAN : Live!Commit(0, Live!Sleep(Live!At(0), on, opens))
    BY DEF Live!Standby
  <2>2. 0 \in Live!Units /\ Sound(0, Live!At(0)) /\ Live!At(0).v = units[0]
    BY DEF UnitsSound, Live!Units, Live!At
  <2>3. LET r == Live!Sleep(Live!At(0), on, opens)
        IN  Sound(0, r) /\ r.v.standby = on /\ (r.v.picture => r.still \/ units[0].picture)
    BY <2>2, SleepFits
  <2> QED BY <2>1, <2>2, <2>3, CommitFits
<1>3. CASE Live!Cec
  <2>1. Live!SetCECState(on) /\ woken' = FALSE /\ UNCHANGED <<rx, pressedkey, keys, missed, told>>
    BY <1>3 DEF Live!Standby
  <2>2. cec' = [cec EXCEPT !.standby = on] /\ waking' = IF cec.autoview_cec_activ /\ ~on THEN 0 ELSE waking
    BY <2>1 DEF Live!SetCECState
  <2>3. \/ UNCHANGED <<tv, bus>>
        \/ tv' = [tv EXCEPT !.on = FALSE] /\ bus' = Live!Asked(bus, FALSE)
    BY <2>1 DEF Live!SetCECState
  <2>4. LinkTyped' /\ tv'.key = tv.key
    BY <2>1, <2>2, <2>3, AskedTyped DEF LinkTyped, Box
  <2>5. ThreadIsThere'
    BY <1>1, <1>3, <2>1, <2>2 DEF ThreadIsThere, Live!Cec, LinkTyped, Box
  <2>6. LinkKnows'
    <3>1. cec'.standby = on
      BY <2>2 DEF LinkTyped, Box
    <3>2. ~(waking' >= 0) \/ ~on
      BY <1>1, <2>2
    <3> QED BY <1>2, <3>1, <3>2 DEF LinkKnows
  <2>7. KeysFollow'
    BY <2>1, <2>3, <2>4, AskedFits, NothingPostedFollows
  <2> QED BY <1>2, <2>4, <2>5, <2>6, <2>7
<1>4. CASE ~Live!Cec
  <2>1. UNCHANGED <<cec, rx, pressedkey, keys, bus, tv, waking, missed, woken>>
    BY <1>4 DEF Live!Standby, Live!link
  <2>2. LinkTyped' /\ ThreadIsThere' /\ KeysFollow'
    BY <1>1, <2>1 DEF LinkTyped, ThreadIsThere, KeysFollow, Messages, Live!Cec
  <2>3. LinkKnows'
    BY <1>1, <1>4, <2>1 DEF LinkKnows, Live!Cec
  <2> QED BY <1>2, <2>2, <2>3
<1> QED BY <1>3, <1>4

\* SetCECMode: the link is opened and closed, the keys start anew.
LEMMA CecCallStep ==
  ASSUME LInv, "none" \notin Keys, Live!CecCall
  PROVE  LInv'
<1> USE DEF LInv
<1>1. Live!Called /\ waking = -1 /\ port' = port /\ Live!Cec /\ UNCHANGED <<stillpicture, units, cleared>>
  BY DEF Live!CecCall, Live!Called, Live!video
<1>2. UnitsSound'
  BY <1>1, UnitsKept
<1>3. PICK on \in BOOLEAN, opens \in BOOLEAN : Live!SetCECMode(on, opens)
  BY DEF Live!CecCall
<1>4. UNCHANGED <<pressedkey, keys, tv>>
  BY <1>3 DEF Live!SetCECMode
<1>5. CASE ~on /\ cec.running
  <2>1. Live!StopLink /\ UNCHANGED <<waking, woken>>
    BY <1>3, <1>5 DEF Live!SetCECMode
  <2>2. /\ cec' = [cec EXCEPT !.running = FALSE, !.open = FALSE] /\ rx' = Live!Gone /\ bus' = <<>>
        /\ missed' = (missed \/ tv.key # "none" \/ keys # {} \/ Live!Lost(bus))
    BY <2>1 DEF Live!StopLink
  <2>3. missed' \in BOOLEAN
    <3>1. (missed \/ tv.key # "none" \/ keys # {} \/ Live!Lost(bus)) \in BOOLEAN
      BY Zenon
    <3> QED BY <2>2, <3>1
  <2>4. LinkTyped'
    <3>1. cec' \in Box
      BY <2>2 DEF LinkTyped, Box
    <3>2. bus' \in Seq(Msg)
      BY <2>2
    <3> QED BY <1>4, <2>1, <2>2, <2>3, <3>1, <3>2, WaitsTyped DEF LinkTyped
  <2>5. ThreadIsThere'
    BY <1>1, <2>1, <2>2 DEF ThreadIsThere, Live!Cec
  <2>6. cec'.standby = cec.standby
    BY <2>2 DEF LinkTyped, Box
  <2>7. LinkKnows'
    BY <1>1, <2>1, <2>6 DEF LinkKnows, Live!Cec
  <2>8. KeysFollow'
    <3> SUFFICES ASSUME ~missed' PROVE Follows(Messages', keys, pressedkey, tv.key)
      BY <1>4 DEF KeysFollow
    <3>1. keys = {} /\ tv.key = "none"
      BY <2>2
    <3>2. Len(bus') = 0
      BY <2>2
    <3>3. DOMAIN Messages' = {0} /\ Messages'[0] = Live!Gone
      BY <2>2, <3>2 DEF Messages
    <3> QED BY <3>1, <3>3, WaitsTyped DEF Follows, Alternates, FirstFits, LastFits, NoneFits
  <2> QED BY <1>2, <2>4, <2>5, <2>7, <2>8
<1>6. CASE ~on /\ ~cec.running
  <2>1. UNCHANGED <<cec, rx, bus, missed, waking, woken>>
    BY <1>3, <1>6 DEF Live!SetCECMode
  <2> QED BY <1>1, <1>2, <1>4, <2>1 DEF LinkTyped, ThreadIsThere, LinkKnows, KeysFollow, Messages, Live!Cec
<1>7. CASE on
  <2> DEFINE open == cec.open \/ opens
             view == open /\ cec.autoview_cec_activ
  <2>1. /\ cec' = [cec EXCEPT !.open = open, !.standby = cec.standby /\ ~view,
                              !.running = cec.running \/ (open /\ ~view)]
        /\ rx' = IF open /\ ~view /\ ~cec.running THEN Live!Waits ELSE rx
        /\ waking' = IF view THEN 0 ELSE waking
        /\ woken' = (woken \/ (view /\ units[0].standby))
        /\ UNCHANGED <<bus, missed>>
    BY <1>3, <1>7 DEF Live!SetCECMode
  <2>2. open \in BOOLEAN /\ view \in BOOLEAN
    OBVIOUS
  <2>3. woken' \in BOOLEAN
    <3>1. (woken \/ (view /\ units[0].standby)) \in BOOLEAN
      BY Zenon
    <3> QED BY <2>1, <3>1
  <2> HIDE DEF open, view
  <2>4. /\ cec' \in Box
        /\ (cec.running => cec'.running) /\ (open /\ ~view => cec'.running)
        /\ (view => ~cec'.standby) /\ (~view => cec'.standby = cec.standby)
    BY <2>1, <2>2 DEF LinkTyped, Box
  <2>5. LinkTyped'
    BY <1>4, <2>1, <2>3, <2>4, WaitsTyped DEF LinkTyped
  <2>6. ThreadIsThere'
    BY <1>1, <2>1, <2>4 DEF ThreadIsThere, Live!Cec
  <2>7. LinkKnows'
    <3>1. ~woken' => ~woken /\ (view => ~units[0].standby)
      BY <2>1
    <3>2. waking' >= 0 => view
      BY <1>1, <2>1
    <3>3. cec.standby \in BOOLEAN /\ units[0].standby \in BOOLEAN /\ cec'.standby \in BOOLEAN
      BY <2>4 DEF LinkTyped, Box, UnitsSound, Live!Units, Unit
    <3>4. ~woken' => cec'.standby = units[0].standby
      BY <1>1, <2>4, <3>1, <3>3 DEF LinkKnows
    <3> QED BY <1>1, <3>1, <3>2, <3>4 DEF LinkKnows
  <2>8. KeysFollow'
    <3>1. CASE rx' = rx
      BY <1>4, <2>1, <3>1, NothingPostedFollows
    <3>2. CASE rx' # rx
      <4>1. ~IsKey(rx) /\ ~IsKey(rx')
        BY <2>1, <3>2, WaitsTyped DEF ThreadIsThere
      <4> QED BY <1>4, <2>1, <2>5, <4>1, HandDoesNotCount
    <3> QED BY <3>1, <3>2
  <2> QED BY <1>2, <2>5, <2>6, <2>7, <2>8
<1> QED BY <1>5, <1>6, <1>7

\* The thread that wakes the television keeps the invariant.
LEMMA WakeTVStep ==
  ASSUME LInv, "none" \notin Keys, Live!WakeTV
  PROVE  LInv'
<1> USE DEF LInv
<1>1. /\ waking >= 0 /\ UNCHANGED <<port, stillpicture, units, cleared, cec, rx, pressedkey, keys, missed, woken>>
  BY DEF Live!WakeTV, Live!video
<1>2. \/ UNCHANGED <<tv, bus>>
      \/ tv' = [tv EXCEPT !.on = TRUE] /\ bus' = Live!Asked(bus, TRUE)
  BY DEF Live!WakeTV
<1>3. LinkTyped' /\ tv'.key = tv.key
  BY <1>1, <1>2, AskedTyped DEF LinkTyped
<1>4. UnitsSound'
  BY <1>1, UnitsKept
<1>5. Live!Cec
  <2>1. waking # -1
    BY <1>1
  <2> QED BY <2>1 DEF ThreadIsThere
<1>6. ThreadIsThere' /\ LinkKnows'
  BY <1>1, <1>5 DEF ThreadIsThere, LinkKnows, Live!Cec
<1>7. KeysFollow'
  BY <1>1, <1>2, <1>3, AskedFits, NothingPostedFollows
<1> QED BY <1>3, <1>4, <1>6, <1>7

\* The end of that thread, and of its tries, keeps the invariant.
LEMMA WakeEndsStep ==
  ASSUME LInv, "none" \notin Keys, Live!WakeEnds
  PROVE  LInv'
<1> USE DEF LInv
<1>1. /\ waking >= 0 /\ waking' = -1
      /\ UNCHANGED <<port, stillpicture, units, cleared, pressedkey, keys, bus, tv, missed, woken>>
      /\ cec' = [cec EXCEPT !.standby = FALSE, !.running = cec.running \/ cec.open]
      /\ rx' = IF cec.open /\ ~cec.running THEN Live!Waits ELSE rx
  BY DEF Live!WakeEnds, Live!video
<1>2. /\ cec' \in Box /\ ~cec'.standby /\ (cec.running => cec'.running) /\ (cec.open => cec'.running)
  BY <1>1 DEF LinkTyped, Box
<1>3. LinkTyped'
  BY <1>1, <1>2, WaitsTyped DEF LinkTyped
<1>4. UnitsSound'
  BY <1>1, UnitsKept
<1>5. Live!Cec
  <2>1. waking # -1
    BY <1>1
  <2> QED BY <2>1 DEF ThreadIsThere
<1>6. ThreadIsThere'
  BY <1>1, <1>2, <1>5 DEF ThreadIsThere, Live!Cec
<1>7. LinkKnows'
  <2>1. ~woken => ~units[0].standby
    BY <1>1 DEF LinkKnows
  <2>2. ~(waking' >= 0)
    BY <1>1
  <2>3. units[0].standby \in BOOLEAN /\ cec'.standby \in BOOLEAN
    BY <1>2 DEF Box, UnitsSound, Live!Units, Unit
  <2> QED BY <1>1, <1>2, <2>1, <2>2, <2>3 DEF LinkKnows
<1>8. KeysFollow'
  <2>1. CASE rx' = rx
    BY <1>1, <2>1, NothingPostedFollows
  <2>2. CASE rx' # rx
    <3>1. ~IsKey(rx) /\ ~IsKey(rx')
      BY <1>1, <2>2, WaitsTyped DEF ThreadIsThere
    <3> QED BY <1>1, <1>3, <3>1, HandDoesNotCount
  <2> QED BY <2>1, <2>2
<1> QED BY <1>3, <1>4, <1>6, <1>7, <1>8

\* The thread of the link reads the first message of the bus.
LEMMA ReceiveBeginStep ==
  ASSUME LInv, "none" \notin Keys, Live!ReceiveBegin
  PROVE  LInv'
<1> USE DEF LInv
<1>1. /\ rx = Live!Waits /\ bus # <<>> /\ rx' = Head(bus) /\ bus' = Tail(bus)
      /\ UNCHANGED <<port, stillpicture, units, cleared, cec, pressedkey, keys, tv, waking, missed, woken>>
  BY DEF Live!ReceiveBegin, Live!video
<1>2. bus \in Seq(Msg)
  BY DEF LinkTyped
<1>3. /\ Head(bus) \in Msg /\ Tail(bus) \in Seq(Msg) /\ Len(bus) \in Nat /\ Len(bus) > 0
      /\ Len(Tail(bus)) = Len(bus) - 1 /\ Head(bus) = bus[1]
      /\ \A i \in 1 .. Len(bus) - 1 : Tail(bus)[i] = bus[i + 1]
  BY <1>1, <1>2
<1>4. LinkTyped'
  BY <1>1, <1>3 DEF LinkTyped
<1>5. UnitsSound'
  BY <1>1, UnitsKept
<1>6. ThreadIsThere' /\ LinkKnows'
  BY <1>1, WaitsTyped DEF ThreadIsThere, LinkKnows, Live!Cec
<1>7. KeysFollow'
  <2> DEFINE n == Len(bus) - 1
  <2>1. n \in Nat /\ Len(bus) = n + 1 /\ Len(bus') = n
    BY <1>1, <1>3
  <2>2. DOMAIN Messages = 0 .. n + 1 /\ DOMAIN Messages' = 0 .. n /\ ~IsKey(Messages[0])
    BY <1>1, <2>1, WaitsTyped DEF Messages
  <2>3. \A i \in 0 .. n : Messages'[i] = Messages[i + 1]
    <3>1. ASSUME NEW i \in 0 .. n PROVE Messages'[i] = Messages[i + 1]
      <4>1. i + 1 \in 0 .. n + 1 /\ i + 1 # 0 /\ Messages[i + 1] = bus[i + 1]
        BY <2>1 DEF Messages
      <4>2. CASE i = 0
        BY <1>1, <1>3, <2>1, <4>1, <4>2 DEF Messages
      <4>3. CASE i # 0
        <5>1. i \in 1 .. Len(bus) - 1
          BY <4>3
        <5>2. Messages'[i] = bus'[i]
          BY <2>1, <4>3 DEF Messages
        <5> QED BY <1>1, <1>3, <4>1, <5>1, <5>2
      <4> QED BY <4>2, <4>3
    <3> QED BY <3>1
  <2> HIDE DEF n
  <2>4. ~missed => Follows(Messages', keys, pressedkey, tv.key)
    BY <2>1, <2>2, <2>3, TakenFollows DEF KeysFollow
  <2> QED BY <1>1, <2>4 DEF KeysFollow
<1> QED BY <1>4, <1>5, <1>6, <1>7

\* What the thread of the link does with a message keeps the invariant.
LEMMA ReceiveStep ==
  ASSUME LInv, "none" \notin Keys, Live!Receive
  PROVE  LInv'
<1> USE DEF LInv
<1>1. /\ rx \notin {Live!Gone, Live!Waits} /\ rx' = Live!Waits
      /\ UNCHANGED <<port, stillpicture, units, cleared, bus, tv, waking, woken>>
  BY DEF Live!Receive, Live!video
<1>2. UnitsSound'
  BY <1>1, UnitsKept
<1>3. CASE rx.op \in {"PRESSED", "RELEASE"}
  <2>1. pressedkey' = Live!Key(rx) /\ Live!handleCode(Live!Key(rx), rx.op = "PRESSED") /\ cec' = cec
    BY <1>3 DEF Live!Receive
  <2>2. PICK opens \in BOOLEAN :
          /\ keys' = IF ~opens THEN keys ELSE IF rx.op = "PRESSED" THEN keys \cup {Live!Key(rx)} ELSE keys \ {Live!Key(rx)}
          /\ missed' = (missed \/ ~opens)
    BY <2>1 DEF Live!handleCode
  <2>3. missed' \in BOOLEAN
    <3>1. (missed \/ ~opens) \in BOOLEAN
      BY Zenon
    <3> QED BY <2>2, <3>1
  <2>4. LinkTyped'
    BY <1>1, <2>1, <2>3, WaitsTyped DEF LinkTyped
  <2>5. ThreadIsThere' /\ LinkKnows'
    BY <1>1, <2>1 DEF ThreadIsThere, LinkKnows, Live!Cec
  <2>6. KeysFollow'
    <3> SUFFICES ASSUME ~missed' PROVE Follows(Messages', keys', pressedkey', tv'.key)
      BY DEF KeysFollow
    <3> DEFINE n == Len(bus)
    <3>1. ~missed /\ keys' = IF rx.op = "PRESSED" THEN keys \cup {Live!Key(rx)} ELSE keys \ {Live!Key(rx)}
      BY <2>2
    <3>2. /\ n \in Nat /\ DOMAIN Messages = 0 .. n /\ DOMAIN Messages' = 0 .. n
          /\ Messages[0] = rx /\ rx \in Msg /\ IsKey(rx) /\ Messages'[0] = Live!Waits
      BY <1>1, <1>3 DEF LinkTyped, Messages, IsKey
    <3>3. \A i \in 0 .. n : i # 0 => Messages'[i] = Messages[i]
      BY <1>1 DEF Messages
    <3>4. Live!Key(rx) = IF rx.op = "PRESSED" THEN rx.key ELSE pressedkey
      BY DEF Live!Key
    <3>5. Follows(Messages, keys, pressedkey, tv.key)
      BY <3>1 DEF KeysFollow
    <3> DEFINE key == Live!Key(rx)
    <3> HIDE DEF n, key
    <3>6. Follows(Messages', IF Messages[0].op = "PRESSED" THEN keys \cup {key} ELSE keys \ {key}, key, tv.key)
      BY <3>2, <3>3, <3>4, <3>5, WaitsTyped, ReceivedFollows DEF key
    <3> QED BY <1>1, <2>1, <3>1, <3>2, <3>6 DEF key
  <2> QED BY <1>2, <2>4, <2>5, <2>6
<1>4. CASE rx.op \notin {"PRESSED", "RELEASE"}
  <2>1. UNCHANGED <<pressedkey, keys, missed>> /\ (cec' = cec \/ cec' = [cec EXCEPT !.tv_off = ~rx.on])
    BY <1>4 DEF Live!Receive
  <2>2. cec' \in Box /\ cec'.standby = cec.standby /\ cec'.running = cec.running
    BY <2>1 DEF LinkTyped, Box
  <2>3. LinkTyped'
    BY <1>1, <2>1, <2>2, WaitsTyped DEF LinkTyped
  <2>4. ThreadIsThere' /\ LinkKnows'
    BY <1>1, <2>1, <2>2 DEF ThreadIsThere, LinkKnows, Live!Cec
  <2>5. KeysFollow'
    BY <1>1, <1>4, <2>1, <2>3, WaitsTyped, HandDoesNotCount DEF IsKey
  <2> QED BY <1>2, <2>3, <2>4, <2>5
<1> QED BY <1>3, <1>4

\* What the television and its remote control send keeps the invariant.
LEMMA TelevisionStep ==
  ASSUME LInv, "none" \notin Keys, Live!Television
  PROVE  LInv'
<1> USE DEF LInv
<1>1. UNCHANGED <<port, stillpicture, units, cleared, cec, rx, pressedkey, keys, waking, woken>>
  BY DEF Live!Television, Live!video
<1>2. UnitsSound'
  BY <1>1, UnitsKept
<1>3. ThreadIsThere' /\ LinkKnows'
  BY <1>1 DEF ThreadIsThere, LinkKnows, Live!Cec
<1>4. PICK m \in Msg :
        /\ bus' = Append(bus, m)
        /\ tv' \in [on : BOOLEAN, key : Keys \cup {"none"}] /\ missed' \in BOOLEAN
        /\ missed => missed'
        /\ ~missed' => \/ ~IsKey(m) /\ tv'.key = tv.key
                       \/ m.op = "PRESSED" /\ tv.key = "none" /\ tv'.key = m.key
                       \/ m.op = "RELEASE" /\ tv.key # "none" /\ tv'.key = "none"
  <2>1. CASE \E k \in Keys : /\ bus' = Append(bus, Live!Message("PRESSED", TRUE, k))
                             /\ tv' = [tv EXCEPT !.key = k] /\ missed' = (missed \/ tv.key # "none")
    <3>1. PICK k \in Keys : /\ bus' = Append(bus, Live!Message("PRESSED", TRUE, k))
                            /\ tv' = [tv EXCEPT !.key = k] /\ missed' = (missed \/ tv.key # "none")
      BY <2>1
    <3>2. Live!Message("PRESSED", TRUE, k) \in Msg
      BY DEF Live!Message, Msg, Ops
    <3>3. missed' \in BOOLEAN
      <4>1. (missed \/ tv.key # "none") \in BOOLEAN
        BY Zenon
      <4> QED BY <3>1, <4>1
    <3>4. tv' \in [on : BOOLEAN, key : Keys \cup {"none"}] /\ tv'.key = k
      BY <3>1 DEF LinkTyped
    <3> QED BY <3>1, <3>2, <3>3, <3>4 DEF Live!Message
  <2>2. CASE /\ tv.key # "none"
             /\ bus' = Append(bus, Live!Message("RELEASE", TRUE, "none"))
             /\ tv' = [tv EXCEPT !.key = "none"] /\ UNCHANGED missed
    <3>1. Live!Message("RELEASE", TRUE, "none") \in Msg /\ Live!Message("RELEASE", TRUE, "none").op = "RELEASE"
      BY DEF Live!Message, Msg, Ops
    <3>2. tv' \in [on : BOOLEAN, key : Keys \cup {"none"}] /\ tv'.key = "none"
      BY <2>2 DEF LinkTyped
    <3> QED BY <2>2, <3>1, <3>2 DEF LinkTyped
  <2>3. CASE /\ tv' = [tv EXCEPT !.on = FALSE]
             /\ bus' = Append(bus, Live!Message("STANDBY", FALSE, "none"))
             /\ UNCHANGED missed
    <3>1. Live!Message("STANDBY", FALSE, "none") \in Msg /\ ~IsKey(Live!Message("STANDBY", FALSE, "none"))
      BY DEF Live!Message, Msg, Ops, IsKey
    <3>2. tv' \in [on : BOOLEAN, key : Keys \cup {"none"}] /\ tv'.key = tv.key
      BY <2>3 DEF LinkTyped
    <3> QED BY <2>3, <3>1, <3>2 DEF LinkTyped
  <2>4. CASE /\ bus' = Append(bus, Live!Message("GIVE_DEVICE_POWER_STATUS", TRUE, "none"))
             /\ UNCHANGED <<tv, missed>>
    <3>1. /\ Live!Message("GIVE_DEVICE_POWER_STATUS", TRUE, "none") \in Msg
          /\ ~IsKey(Live!Message("GIVE_DEVICE_POWER_STATUS", TRUE, "none"))
      BY DEF Live!Message, Msg, Ops, IsKey
    <3> QED BY <2>4, <3>1 DEF LinkTyped
  <2> QED BY <2>1, <2>2, <2>3, <2>4 DEF Live!Television
<1>5. LinkTyped'
  BY <1>1, <1>4, AppendProperties DEF LinkTyped
<1>6. KeysFollow'
  BY <1>1, <1>4, <1>5, AppendedFollows
<1> QED BY <1>2, <1>3, <1>5, <1>6

\* Every step keeps the invariant of LiveVideo.
LEMMA LiveStep ==
  ASSUME LInv, "none" \notin Keys, Live!Next
  PROVE  LInv'
<1>1. CASE Live!VideoCall
  BY <1>1, VideoCallFits, UnitStep DEF LInv
<1>2. CASE Live!PictureCall
  BY <1>2, PictureCallFits, UnitStep DEF LInv
<1>3. CASE Live!PipCall
  BY <1>3, PipCallFits, UnitStep DEF LInv
<1>4. CASE \E on \in BOOLEAN : Live!Standby(on)
  BY <1>4, StandbyStep
<1>5. CASE Live!CecCall
  BY <1>5, CecCallStep
<1>6. CASE Live!WakeTV
  BY <1>6, WakeTVStep
<1>7. CASE Live!WakeEnds
  BY <1>7, WakeEndsStep
<1>8. CASE Live!ReceiveBegin
  BY <1>8, ReceiveBeginStep
<1>9. CASE Live!Receive
  BY <1>9, ReceiveStep
<1>10. CASE Live!Television
  BY <1>10, TelevisionStep
<1> QED BY <1>1, <1>2, <1>3, <1>4, <1>5, <1>6, <1>7, <1>8, <1>9, <1>10 DEF Live!Next

\* So does one that leaves its variables alone.
LEMMA LiveStutter ==
  ASSUME LInv, UNCHANGED Live!vars
  PROVE  LInv'
<1>1. UNCHANGED <<port, stillpicture, units, cleared, cec, rx, pressedkey, keys, bus, tv, waking, missed, woken>>
  BY DEF Live!vars, Live!video, Live!link
<1> QED BY <1>1, UnitsKept DEF LInv, LinkTyped, ThreadIsThere, LinkKnows, KeysFollow, Messages, Live!Cec

\* The invariant gives: a unit that says it plays has a decoder that runs.
LEMMA LivePlaying == ASSUME LInv PROVE Live!PlayingUnitDecodes
<1> SUFFICES ASSUME NEW u \in Live!Units, units[u].playstate = "PLAYING", units[u].fd
             PROVE  units[u].run /\ (units[u].source = "demux" \/ (u = 1 /\ units[u].fdd))
  BY DEF Live!PlayingUnitDecodes
<1>1. Sound(u, Live!At(u)) /\ Live!At(u).v = units[u] /\ units[u] \in Unit
  BY DEF LInv, UnitsSound, Live!At
<1> QED BY <1>1 DEF Sound, Plays, AtPeace, Live!Units, Unit

\* The invariant gives: the keys that are down are those of the remote control.
LEMMA LiveKeys == ASSUME LInv PROVE Live!KeysFollowRemote
<1> SUFFICES ASSUME rx = Live!Waits, bus = <<>>, ~missed PROVE keys = {tv.key} \ {"none"}
  BY DEF Live!KeysFollowRemote
<1>1. Len(bus) = 0
  OBVIOUS
<1>2. DOMAIN Messages = {0} /\ Messages[0] = Live!Waits
  BY <1>1 DEF Messages
<1>3. (tv.key = "none" => keys = {}) /\ (tv.key # "none" => keys = {tv.key})
  BY <1>2, WaitsTyped DEF LInv, KeysFollow, Follows, NoneFits
<1> QED BY <1>3

\* From the invariant, a step tells the television only the status the box has.
LEMMA LiveTellsTrue == ASSUME LInv, Live!Next \/ UNCHANGED Live!vars PROVE Live!TellsTrue
<1> SUFFICES ASSUME told' # told PROVE woken \/ told' = IF units[0].standby THEN "STANDBY" ELSE "ON"
  BY DEF Live!TellsTrue
<1>1. ~UNCHANGED Live!vars
  BY DEF Live!vars, Live!link
<1>2. ~Live!VideoCall
  BY VideoCallFits DEF LInv, Live!link
<1>3. ~Live!PictureCall
  BY PictureCallFits DEF LInv, Live!link
<1>4. ~Live!PipCall
  BY PipCallFits DEF LInv, Live!link
<1>5. ~(\E on \in BOOLEAN : Live!Standby(on))
  BY DEF Live!Standby, Live!link
<1>6. ~Live!CecCall /\ ~Live!WakeTV /\ ~Live!WakeEnds /\ ~Live!ReceiveBegin /\ ~Live!Television
  BY DEF Live!CecCall, Live!SetCECMode, Live!WakeTV, Live!WakeEnds, Live!ReceiveBegin, Live!Television
<1>7. Live!Receive
  BY <1>1, <1>2, <1>3, <1>4, <1>5, <1>6 DEF Live!Next
<1>8. rx # Live!Gone /\ told' = IF cec.standby THEN "STANDBY" ELSE "ON"
  BY <1>7 DEF Live!Receive
<1>9. Live!Cec
  BY <1>8 DEF LInv, ThreadIsThere
<1> QED BY <1>8, <1>9 DEF LInv, LinkKnows

\* The fields of the records that stand for an object, a file and a thread in Read
ObjectShape(d) == DOMAIN d = {"state", "type", "fd", "last_source", "pesfds", "todo"}
FileShape(f)   == DOMAIN f = {"owner", "dev", "filter", "pids", "on"}
ReaderShape(r) == DOMAIN r = {"at", "fd"}

FilesShaped(fs) == fs = [n \in Dmx!Fds |-> fs[n]] /\ \A n \in Dmx!Fds : FileShape(fs[n])

DemuxShaped ==
  /\ dmx = [o \in Dmx!Objects |-> dmx[o]] /\ reader = [o \in Dmx!Objects |-> reader[o]]
  /\ got = [o \in Dmx!Objects |-> got[o]]
  /\ \A o \in Dmx!Objects : /\ ObjectShape(dmx[o]) /\ ReaderShape(reader[o])
                            /\ dmx[o].fd \in Dmx!Fds \cup {-1} /\ reader[o].fd \in Dmx!Fds \cup {-1}
  /\ FilesShaped(files)

\* The number an object has is that of a file of its own, except inside _open.
Owns(o, d, fs) == d.todo = <<>> /\ d.fd # -1 => fs[d.fd].owner = o
NumbersAreOwn == \A o \in Dmx!Objects : Owns(o, dmx[o], files)

\* Read has been given the number of a file of its object.
ReadsOwn(o, r, fs) == r.at = "syscall" => r.fd \in Dmx!Fds /\ fs[r.fd].owner = o
ReadersAreOwn == \A o \in Dmx!Objects \ shut : ReadsOwn(o, reader[o], files)

DmxInv == /\ DemuxShaped /\ NumbersAreOwn /\ ReadersAreOwn
          /\ Dmx!ReadGivesOwnData /\ Dmx!DestructorWaitsForRead

\* A set of numbers that is not empty has a least one.
LEMMA LeastProps ==
  ASSUME Dmx!Assumptions, NEW S \in SUBSET Dmx!Fds, S # {}
  PROVE  Dmx!Least(S) \in S
PROOF
<1>1. S \subseteq Nat
  BY DEF Dmx!Fds, Dmx!Assumptions
<1> DEFINE R == {ss \in Nat \X Nat : ss[1] < ss[2]}
<1>2. IsWellFoundedOn(R, Nat)
  BY NatLessThanWellFounded DEF OpToRel
<1>3. PICK n \in S : \A k \in S : <<k, n>> \notin R
  <2> HIDE DEF R
  <2> QED BY <1>1, <1>2, WFMin
<1>4. \A k \in S : ~(k < n)
  BY <1>1, <1>3, Zenon
<1>5. \A k \in S : n <= k
  BY <1>1, <1>4
<1> QED BY <1>5 DEF Dmx!Least

\* The number of the next open is one that nobody has.
LEMMA FreeNumber ==
  ASSUME Dmx!Assumptions, Dmx!Free # {}
  PROVE  /\ Dmx!Least(Dmx!Free) \in Dmx!Fds /\ files[Dmx!Least(Dmx!Free)].owner = "none"
         /\ Dmx!Least(Dmx!Free) # -1
<1>1. Dmx!Free \in SUBSET Dmx!Fds
  BY DEF Dmx!Free
<1>2. Dmx!Least(Dmx!Free) \in Dmx!Free
  BY <1>1, LeastProps
<1> QED BY <1>2 DEF Dmx!Free, Dmx!Fds

\* A filter call changes what a file filters, and not whose it is.
SameOwners(fs, gs) == FilesShaped(gs) /\ \A n \in Dmx!Fds : gs[n].owner = fs[n].owner

\* The ioctls of a filter call leave every file its owner.
LEMMA FilterKeepsOwner ==
  ASSUME NEW o, NEW whats, NEW n, NEW fs, FilesShaped(fs)
  PROVE  SameOwners(fs, Dmx!ApplyAll(o, whats, n, fs))
<1> DEFINE what == whats[1]
           pids == {w[2] : w \in Dmx!ToSet(whats)}
           gs   == Dmx!ApplyAll(o, whats, n, fs)
<1>1. CASE whats = <<>> \/ n \notin Dmx!Fds
  BY <1>1 DEF Dmx!ApplyAll, SameOwners
<1>2. CASE ~(whats = <<>> \/ n \notin Dmx!Fds)
  <2> DEFINE f == fs[n]
             g == CASE what[1] = "section" -> Dmx!WithFilter(f, "section", {}, TRUE)
                    [] what[1] = "pes"     -> IF dmx[o].type \in {"PES", "TP"}
                                                THEN Dmx!WithFilter(f, "pes", pids, library = "spark")
                                                ELSE f
                    [] OTHER               -> Dmx!WithPids(f, pids)
  <2>1. gs = [fs EXCEPT ![n] = g]
    BY <1>2 DEF Dmx!ApplyAll
  <2>2. FileShape(g) /\ g.owner = f.owner
    <3>1. FileShape(f)
      BY <1>2 DEF FilesShaped
    <3>2. \A what1, pids1, on1 : /\ FileShape(Dmx!WithFilter(f, what1, pids1, on1))
                                 /\ Dmx!WithFilter(f, what1, pids1, on1).owner = f.owner
      BY <3>1 DEF FileShape, Dmx!WithFilter
    <3>3. \A pids1 : FileShape(Dmx!WithPids(f, pids1)) /\ Dmx!WithPids(f, pids1).owner = f.owner
      BY <3>1 DEF FileShape, Dmx!WithPids
    <3> DEFINE g1 == Dmx!WithFilter(f, "section", {}, TRUE)
               g2 == Dmx!WithFilter(f, "pes", pids, library = "spark")
               g3 == Dmx!WithPids(f, pids)
    <3>4. \A h \in {f, g1, g2, g3} : FileShape(h) /\ h.owner = f.owner
      <4> HIDE DEF f, what, pids
      <4>1. FileShape(g1) /\ g1.owner = f.owner
        BY <3>2
      <4>2. FileShape(g2) /\ g2.owner = f.owner
        BY <3>2
      <4>3. FileShape(g3) /\ g3.owner = f.owner
        BY <3>3
      <4> HIDE DEF g1, g2, g3
      <4> QED BY <3>1, <4>1, <4>2, <4>3
    <3>5. g \in {f, g1, g2, g3}
      <4> HIDE DEF f, what, pids
      <4> QED OBVIOUS
    <3> HIDE DEF f, g, g1, g2, g3
    <3> QED BY <3>4, <3>5
  <2> HIDE DEF g
  <2> QED BY <2>1, <2>2, <1>2 DEF FilesShaped, SameOwners
<1> QED BY <1>1, <1>2

\* The first state has the invariant of Demux.
LEMMA InitDemux ==
  ASSUME Dmx!Init
  PROVE  DmxInv
BY DEF Dmx!Init, DmxInv, DemuxShaped, ObjectShape, ReaderShape, FilesShaped, FileShape, Dmx!NoFile, Dmx!Fresh,
       NumbersAreOwn, Owns, ReadersAreOwn, ReadsOwn, Dmx!ReadGivesOwnData, Dmx!DestructorWaitsForRead, Dmx!Locked

\* What every step of the invariant is about: the objects, the files and the threads in Read.
LEMMA DemuxStutter ==
  ASSUME DmxInv, UNCHANGED <<library, dmx, files, reader, got, shut>>
  PROVE  DmxInv'
BY DEF DmxInv, DemuxShaped, FilesShaped, NumbersAreOwn, Owns, ReadersAreOwn, ReadsOwn,
       Dmx!ReadGivesOwnData, Dmx!DestructorWaitsForRead, Dmx!Locked, Dmx!Box

\* A step of an owner that only changes its object, and not the number of its file.
LEMMA ObjectOnly ==
  ASSUME DmxInv, NEW o \in Dmx!Objects, NEW d, ObjectShape(d), dmx' = [dmx EXCEPT ![o] = d],
         d.fd = dmx[o].fd \/ d.fd = -1, d.todo = dmx[o].todo \/ d.fd = -1,
         d.state = "gone" /\ Dmx!Box => ~Dmx!Locked(o),
         UNCHANGED <<library, files, reader, got, shut>>
  PROVE  DmxInv'
<1>1. DemuxShaped'
  BY DEF DmxInv, DemuxShaped, FilesShaped
<1>2. NumbersAreOwn'
  BY DEF DmxInv, DemuxShaped, NumbersAreOwn, Owns
<1>3. ReadersAreOwn' /\ Dmx!ReadGivesOwnData'
  BY DEF DmxInv, ReadersAreOwn, ReadsOwn, Dmx!ReadGivesOwnData
<1>4. Dmx!DestructorWaitsForRead'
  BY DEF DmxInv, DemuxShaped, Dmx!DestructorWaitsForRead, Dmx!Locked, Dmx!Box
<1> QED BY <1>1, <1>2, <1>3, <1>4 DEF DmxInv

\* A filter call of an object that keeps its file.
LEMMA FilterOnly ==
  ASSUME DmxInv, NEW o \in Dmx!Objects, NEW d, ObjectShape(d), dmx' = [dmx EXCEPT ![o] = d],
         d.fd = dmx[o].fd, d.todo = dmx[o].todo, d.state = dmx[o].state,
         SameOwners(files, files'),
         UNCHANGED <<library, reader, got, shut>>
  PROVE  DmxInv'
<1>1. DemuxShaped'
  BY DEF DmxInv, DemuxShaped, FilesShaped, SameOwners
<1>2. NumbersAreOwn'
  BY DEF DmxInv, DemuxShaped, NumbersAreOwn, Owns, SameOwners
<1>3. ReadersAreOwn' /\ Dmx!ReadGivesOwnData'
  BY DEF DmxInv, ReadersAreOwn, ReadsOwn, Dmx!ReadGivesOwnData, SameOwners
<1>4. Dmx!DestructorWaitsForRead'
  BY DEF DmxInv, DemuxShaped, Dmx!DestructorWaitsForRead, Dmx!Locked, Dmx!Box
<1> QED BY <1>1, <1>2, <1>3, <1>4 DEF DmxInv

\* An object takes a number that was free.
LEMMA TakesNumber ==
  ASSUME DmxInv, NEW o \in Dmx!Objects, NEW n \in Dmx!Fds, files[n].owner = "none",
         NEW d, ObjectShape(d), dmx' = [dmx EXCEPT ![o] = d],
         d.fd = n, d.state = dmx[o].state,
         FilesShaped(files'), files'[n].owner = o,
         \A m \in Dmx!Fds \ {n} : files'[m].owner = files[m].owner,
         UNCHANGED <<library, reader, got, shut>>
  PROVE  DmxInv'
<1>1. DemuxShaped'
  BY DEF DmxInv, DemuxShaped, FilesShaped
<1>2. NumbersAreOwn'
  BY DEF DmxInv, DemuxShaped, NumbersAreOwn, Owns, Dmx!Objects
<1>3. ReadersAreOwn' /\ Dmx!ReadGivesOwnData'
  BY DEF DmxInv, ReadersAreOwn, ReadsOwn, Dmx!ReadGivesOwnData, Dmx!Objects
<1>4. Dmx!DestructorWaitsForRead'
  BY DEF DmxInv, DemuxShaped, Dmx!DestructorWaitsForRead, Dmx!Locked, Dmx!Box
<1> QED BY <1>1, <1>2, <1>3, <1>4 DEF DmxInv

\* An object loses its file: the number is marked, or given to nobody, until the next open.
LEMMA LosesNumber ==
  ASSUME DmxInv, NEW o \in Dmx!Objects, dmx[o].todo = <<>>,
         NEW d, ObjectShape(d), dmx' = [dmx EXCEPT ![o] = d],
         d.fd = -1 \/ (d.fd = dmx[o].fd /\ d.todo # <<>>),
         d.state # "gone",
         FilesShaped(files'),
         \A m \in Dmx!Fds : m # dmx[o].fd => files'[m].owner = files[m].owner,
         shut' = (IF dmx[o].fd > -1 THEN Dmx!Lost(o) ELSE shut) \/ shut' = Dmx!Lost(o),
         UNCHANGED <<library, reader, got>>
  PROVE  DmxInv'
<1>1. DemuxShaped'
  BY DEF DmxInv, DemuxShaped, FilesShaped
<1>2. NumbersAreOwn'
  BY DEF DmxInv, DemuxShaped, NumbersAreOwn, Owns, Dmx!Objects
<1>3. shut \subseteq shut' /\ (dmx[o].fd \in Dmx!Fds /\ reader[o].at = "syscall" => o \in shut')
  BY DEF Dmx!Lost, Dmx!Fds
<1>4. ReadersAreOwn'
  <2> SUFFICES ASSUME NEW p \in Dmx!Objects, p \notin shut', reader[p].at = "syscall"
               PROVE  reader[p].fd \in Dmx!Fds /\ files'[reader[p].fd].owner = p
    BY DEF ReadersAreOwn, ReadsOwn
  <2>1. reader[p].fd \in Dmx!Fds /\ files[reader[p].fd].owner = p
    BY <1>3 DEF DmxInv, ReadersAreOwn, ReadsOwn
  <2>2. reader[p].fd # dmx[o].fd
    <3>1. dmx[o].fd \in Dmx!Fds => files[dmx[o].fd].owner = o
      BY DEF DmxInv, NumbersAreOwn, Owns, Dmx!Fds
    <3> QED BY <3>1, <2>1, <1>3
  <2> QED BY <2>1, <2>2
<1>5. Dmx!ReadGivesOwnData'
  BY <1>3 DEF DmxInv, Dmx!ReadGivesOwnData
<1>6. Dmx!DestructorWaitsForRead'
  BY DEF DmxInv, DemuxShaped, Dmx!DestructorWaitsForRead, Dmx!Locked, Dmx!Box
<1> QED BY <1>1, <1>2, <1>4, <1>5, <1>6 DEF DmxInv

\* A step of a thread in Read
LEMMA ReadOnlyStep ==
  ASSUME DmxInv, Dmx!ReadOnly, NEW o \in Dmx!Objects, NEW at, NEW n \in Dmx!Fds \cup {-1},
         reader' = [reader EXCEPT ![o] = [at |-> at, fd |-> n]],
         NEW what, got' = [got EXCEPT ![o] = what],
         shut \ {o} \subseteq shut',
         o \notin shut' => what \in {"none", o},
         o \notin shut' /\ at = "syscall" => n \in Dmx!Fds /\ files[n].owner = o,
         Dmx!Box /\ at \in {"poll", "load", "syscall"} => dmx[o].state # "gone"
  PROVE  DmxInv'
<1>1. DemuxShaped'
  BY DEF DmxInv, DemuxShaped, FilesShaped, Dmx!ReadOnly, ReaderShape
<1>2. NumbersAreOwn'
  BY DEF DmxInv, DemuxShaped, NumbersAreOwn, Owns, Dmx!ReadOnly
<1>3. ReadersAreOwn'
  BY DEF DmxInv, DemuxShaped, ReadersAreOwn, ReadsOwn, Dmx!ReadOnly
<1>4. Dmx!ReadGivesOwnData'
  BY DEF DmxInv, DemuxShaped, Dmx!ReadGivesOwnData, Dmx!ReadOnly
<1>5. Dmx!DestructorWaitsForRead'
  BY DEF DmxInv, DemuxShaped, Dmx!DestructorWaitsForRead, Dmx!Locked, Dmx!Box, Dmx!ReadOnly
<1> QED BY <1>1, <1>2, <1>3, <1>4, <1>5 DEF DmxInv

\* The calls of an owner that change its object only.
LEMMA ObjectSteps ==
  ASSUME DmxInv, NEW o \in Dmx!Objects, Dmx!New(o) \/ Dmx!Open(o) \/ Dmx!Deleted(o)
  PROVE  DmxInv'
<1>0. dmx[o] = dmx[o] /\ ObjectShape(dmx[o]) /\ dmx = [p \in Dmx!Objects |-> dmx[p]]
  BY DEF DmxInv, DemuxShaped
<1>1. CASE Dmx!New(o)
  <2> DEFINE d == [Dmx!Fresh EXCEPT !.state = "live"]
  <2>1. ObjectShape(d) /\ d.fd = -1 /\ d.state = "live"
    BY DEF ObjectShape, Dmx!Fresh
  <2>2. dmx' = [dmx EXCEPT ![o] = d] /\ UNCHANGED <<library, files, reader, got, shut>>
    BY <1>1 DEF Dmx!New
  <2> HIDE DEF d
  <2> QED BY <2>1, <2>2, ObjectOnly
<1>2. CASE Dmx!Open(o)
  <2>1. PICK t \in Dmx!TypesOf(o) : dmx' = [dmx EXCEPT ![o].type = t]
    BY <1>2 DEF Dmx!Open
  <2> DEFINE d == [dmx[o] EXCEPT !.type = t]
  <2>2. ObjectShape(d) /\ d.fd = dmx[o].fd /\ d.todo = dmx[o].todo /\ d.state = "live"
    BY <1>0, <1>2 DEF ObjectShape, Dmx!Open, Dmx!May
  <2>3. dmx' = [dmx EXCEPT ![o] = d] /\ UNCHANGED <<library, files, reader, got, shut>>
    BY <2>1, <1>0, <1>2 DEF Dmx!Open, Dmx!history
  <2> HIDE DEF d
  <2> QED BY <2>2, <2>3, ObjectOnly
<1>3. CASE Dmx!Deleted(o)
  <2> DEFINE d == [dmx[o] EXCEPT !.state = "gone"]
  <2>2. ObjectShape(d) /\ d.fd = dmx[o].fd /\ d.todo = dmx[o].todo /\ (Dmx!Box => ~Dmx!Locked(o))
    BY <1>0, <1>3 DEF ObjectShape, Dmx!Deleted
  <2>3. dmx' = [dmx EXCEPT ![o] = d] /\ UNCHANGED <<library, files, reader, got, shut>>
    BY <1>0, <1>3 DEF Dmx!Deleted, Dmx!history
  <2> HIDE DEF d
  <2> QED BY <2>2, <2>3, ObjectOnly
<1> QED BY <1>1, <1>2, <1>3

\* Open of the PC, and the open of _open
LEMMA OpenSteps ==
  ASSUME DmxInv, Dmx!Assumptions, NEW o \in Dmx!Objects, Dmx!OpenDevice(o) \/ Dmx!_opened(o)
  PROVE  DmxInv'
<1>0. /\ ObjectShape(dmx[o]) /\ dmx = [p \in Dmx!Objects |-> dmx[p]]
      /\ FilesShaped(files)
  BY DEF DmxInv, DemuxShaped
<1>1. CASE Dmx!OpenDevice(o)
  <2>1. PICK t \in Dmx!TypesOf(o), opens \in BOOLEAN :
          /\ dmx' = [dmx EXCEPT ![o].type = t, ![o].fd = IF opens THEN Dmx!Least(Dmx!Free) ELSE -1]
          /\ files' = IF opens THEN [files EXCEPT ![Dmx!Least(Dmx!Free)] = [Dmx!NoFile EXCEPT !.owner = o, !.dev = 0]]
                              ELSE files
    BY <1>1 DEF Dmx!OpenDevice
  <2> DEFINE n == Dmx!Least(Dmx!Free)
             fd == IF opens THEN n ELSE -1
             d  == [[dmx[o] EXCEPT !.type = t] EXCEPT !.fd = fd]
             g  == [Dmx!NoFile EXCEPT !.owner = o, !.dev = 0]
  <2>2. /\ UNCHANGED <<library, reader, got, shut>>
        /\ dmx[o].state = "live" /\ Dmx!Free # {}
    BY <1>1 DEF Dmx!OpenDevice, Dmx!history, Dmx!May
  <2>3. n \in Dmx!Fds /\ files[n].owner = "none" /\ n # -1
    BY <2>2, FreeNumber
  <2>4. ObjectShape(d) /\ d.fd = fd /\ d.todo = dmx[o].todo /\ d.state = "live"
    <3> HIDE DEF fd
    <3> QED BY <1>0, <2>2 DEF ObjectShape
  <2>5. dmx' = [dmx EXCEPT ![o] = d] /\ files' = IF opens THEN [files EXCEPT ![n] = g] ELSE files
    BY <2>1, <1>0
  <2> HIDE DEF d, n
  <2>6. CASE opens
    <3>1. FileShape(g) /\ g.owner = o
      BY DEF FileShape, Dmx!NoFile
    <3>2. /\ FilesShaped(files') /\ files'[n].owner = o
          /\ \A m \in Dmx!Fds \ {n} : files'[m].owner = files[m].owner
      <4> HIDE DEF g
      <4> QED BY <3>1, <2>5, <2>6, <1>0, <2>3 DEF FilesShaped
    <3>3. d.fd = n
      BY <2>4, <2>6
    <3> QED BY <2>2, <2>3, <2>4, <2>5, <3>2, <3>3, TakesNumber
  <2>7. CASE ~opens
    <3>1. d.fd = -1 /\ UNCHANGED files
      BY <2>4, <2>5, <2>7
    <3> QED BY <2>2, <2>4, <2>5, <3>1, ObjectOnly
  <2> QED BY <2>6, <2>7
<1>2. CASE Dmx!_opened(o)
  <2>1. UNCHANGED <<library, reader, got, shut>>
    BY <1>2 DEF Dmx!_opened, Dmx!history
  <2>2. ASSUME Dmx!Free # {},
               files' = Dmx!ApplyAll(o, dmx[o].todo, Dmx!Least(Dmx!Free),
                         [files EXCEPT ![Dmx!Least(Dmx!Free)] =
                            [Dmx!NoFile EXCEPT !.owner = o, !.dev = dmx_source[Dmx!unit[o]]]]),
               dmx' = [dmx EXCEPT ![o] = [dmx[o] EXCEPT !.fd = Dmx!Least(Dmx!Free), !.todo = <<>>,
                                                       !.last_source = dmx_source[Dmx!unit[o]]]]
        PROVE  DmxInv'
    <3> DEFINE n == Dmx!Least(Dmx!Free)
               d == [dmx[o] EXCEPT !.fd = n, !.todo = <<>>, !.last_source = dmx_source[Dmx!unit[o]]]
               fs == [files EXCEPT ![n] = [Dmx!NoFile EXCEPT !.owner = o, !.dev = dmx_source[Dmx!unit[o]]]]
    <3>1. n \in Dmx!Fds /\ files[n].owner = "none" /\ n # -1
      BY <2>2, FreeNumber
    <3>2. ObjectShape(d) /\ d.fd = n /\ d.state = dmx[o].state
      <4> HIDE DEF n
      <4> QED BY <1>0 DEF ObjectShape
    <3>3. /\ FilesShaped(fs) /\ fs[n].owner = o
          /\ \A m \in Dmx!Fds \ {n} : fs[m].owner = files[m].owner
      <4> DEFINE f == [Dmx!NoFile EXCEPT !.owner = o, !.dev = dmx_source[Dmx!unit[o]]]
      <4>1. FileShape(f) /\ f.owner = o
        BY DEF FileShape, Dmx!NoFile
      <4>2. fs = [files EXCEPT ![n] = f]
        OBVIOUS
      <4> HIDE DEF n, f, fs
      <4> QED BY <3>1, <4>1, <4>2, <1>0 DEF FilesShaped
    <3>4. files' = Dmx!ApplyAll(o, dmx[o].todo, n, fs) /\ dmx' = [dmx EXCEPT ![o] = d]
      BY <2>2
    <3> HIDE DEF n, d, fs
    <3>5. SameOwners(fs, files')
      BY <3>3, <3>4, FilterKeepsOwner
    <3>6. /\ FilesShaped(files') /\ files'[n].owner = o
          /\ \A m \in Dmx!Fds \ {n} : files'[m].owner = files[m].owner
      BY <3>1, <3>3, <3>5 DEF SameOwners
    <3> QED BY <2>1, <3>1, <3>2, <3>4, <3>6, TakesNumber
  <2>3. ASSUME dmx' = [dmx EXCEPT ![o] = [dmx[o] EXCEPT !.fd = -1, !.todo = Tail(@)]],
               UNCHANGED files
        PROVE  DmxInv'
    <3> DEFINE d == [dmx[o] EXCEPT !.fd = -1, !.todo = Tail(@)]
    <3>1. ObjectShape(d) /\ d.fd = -1 /\ d.state = dmx[o].state
      BY <1>0 DEF ObjectShape
    <3>2. Dmx!Box /\ d.state = "gone" => ~Dmx!Locked(o)
      BY <3>1 DEF DmxInv, Dmx!DestructorWaitsForRead
    <3>3. dmx' = [dmx EXCEPT ![o] = d]
      BY <2>3
    <3> HIDE DEF d
    <3> QED BY <2>1, <2>3, <3>1, <3>2, <3>3, ObjectOnly
  <2> QED BY <1>2, <2>2, <2>3 DEF Dmx!_opened
<1> QED BY <1>1, <1>2

\* The filter calls: the device is kept, or closed to be opened again.
LEMMA FilterStep ==
  ASSUME DmxInv, NEW o \in Dmx!Objects, Dmx!May(o), NEW whats, NEW d, ObjectShape(d),
         d.fd = dmx[o].fd, d.todo = <<>>, d.state = "live",
         NEW fs, SameOwners(files, fs), Dmx!Filter(o, whats, d, fs)
  PROVE  DmxInv'
<1>0. /\ UNCHANGED <<library, reader, got>> /\ dmx[o].todo = <<>> /\ dmx[o].state = "live"
      /\ dmx = [p \in Dmx!Objects |-> dmx[p]] /\ FilesShaped(fs)
  BY DEF Dmx!Filter, Dmx!May, DmxInv, DemuxShaped, SameOwners
<1>1. ASSUME files' = Dmx!ApplyAll(o, whats, d.fd, fs), dmx' = [dmx EXCEPT ![o] = d]
      PROVE  DmxInv'
  <2>1. dmx'[o].todo = <<>>
    BY <1>0, <1>1
  <2>2. UNCHANGED shut
    BY <2>1 DEF Dmx!Filter
  <2>3. SameOwners(fs, files')
    BY <1>0, <1>1, FilterKeepsOwner
  <2>4. SameOwners(files, files')
    BY <2>3 DEF SameOwners
  <2> QED BY <1>0, <1>1, <2>2, <2>4, FilterOnly
<1>2. ASSUME dmx' = [dmx EXCEPT ![o] = [d EXCEPT !.todo = whats]], whats # <<>>,
             files' = [n \in Dmx!Fds |-> IF n = d.fd THEN Dmx!NoFile ELSE fs[n]]
      PROVE  DmxInv'
  <2> DEFINE e == [d EXCEPT !.todo = whats]
  <2>1. ObjectShape(e) /\ e.fd = dmx[o].fd /\ e.todo # <<>> /\ e.state # "gone"
    BY <1>2 DEF ObjectShape
  <2>2. dmx' = [dmx EXCEPT ![o] = e]
    BY <1>2
  <2> HIDE DEF e
  <2>3. shut' = Dmx!Lost(o)
    BY <2>1, <2>2, <1>0 DEF Dmx!Filter
  <2>4. /\ FilesShaped(files')
        /\ \A m \in Dmx!Fds : m # d.fd => files'[m].owner = fs[m].owner
    <3>1. FileShape(Dmx!NoFile)
      BY DEF FileShape, Dmx!NoFile
    <3> QED BY <1>0, <1>2, <3>1 DEF FilesShaped
  <2>5. \A m \in Dmx!Fds : m # dmx[o].fd => files'[m].owner = files[m].owner
    BY <2>4 DEF SameOwners
  <2> QED BY <1>0, <2>1, <2>2, <2>3, <2>4, <2>5, LosesNumber
<1> QED BY <1>1, <1>2 DEF Dmx!Filter, Dmx!_open

\* Section and PES filters and the pids of a recording keep the invariant.
LEMMA FilterSteps ==
  ASSUME DmxInv, NEW o \in Dmx!Objects,
         \/ Dmx!pesFilter(o) \/ Dmx!pesFilter_pc(o) \/ Dmx!sectionFilter \/ Dmx!sectionFilter_pc \/ Dmx!RecordStep
  PROVE  DmxInv'
<1>0. /\ \A p \in Dmx!Objects : ObjectShape(dmx[p]) /\ (Dmx!May(p) => dmx[p].todo = <<>> /\ dmx[p].state = "live")
      /\ SameOwners(files, files) /\ "rec" \in Dmx!Objects /\ "tap" \in Dmx!Objects
  BY DEF Dmx!May, DmxInv, DemuxShaped, SameOwners, Dmx!Objects
<1>1. CASE Dmx!pesFilter(o) \/ Dmx!pesFilter_pc(o)
  <2>1. Dmx!May(o) /\ Dmx!Filter(o, <<<<"pes", Dmx!Video>>>>, dmx[o], files)
    BY <1>1 DEF Dmx!pesFilter, Dmx!pesFilter_pc, Dmx!Pes
  <2> QED BY <1>0, <2>1, FilterStep
<1>2. CASE Dmx!sectionFilter \/ Dmx!sectionFilter_pc
  <2>1. Dmx!May("tap") /\ Dmx!Filter("tap", <<<<"section", "section">>>>, dmx["tap"], files)
    BY <1>2 DEF Dmx!sectionFilter, Dmx!sectionFilter_pc, Dmx!Section
  <2> QED BY <1>0, <2>1, FilterStep
<1>3. ASSUME Dmx!May("rec"), NEW list, NEW ps, NEW fs, SameOwners(files, fs), Dmx!addPid(list, ps, fs)
      PROVE  DmxInv'
  <2> DEFINE d == [dmx["rec"] EXCEPT !.pesfds = list \o ps]
  <2>1. ObjectShape(d) /\ d.fd = dmx["rec"].fd /\ d.todo = <<>> /\ d.state = "live"
    BY <1>0, <1>3 DEF ObjectShape
  <2>2. Dmx!Filter("rec", Dmx!Adds(ps), d, fs)
    BY <1>3 DEF Dmx!addPid
  <2> HIDE DEF d
  <2> QED BY <1>0, <1>3, <2>1, <2>2, FilterStep
<1>4. CASE \E s \in Dmx!PidLists : Dmx!StartAdds(s)
  BY <1>0, <1>3, <1>4 DEF Dmx!StartAdds, Dmx!Recording
<1>5. CASE \E p \in Audio : Dmx!AddPid(p)
  BY <1>0, <1>3, <1>5 DEF Dmx!AddPid, Dmx!Recording
<1>6. CASE \E s \in Dmx!PidLists : Dmx!ChangePids(s)
  <2>1. PICK s \in Dmx!PidLists : Dmx!ChangePids(s)
    BY <1>6
  <2>2. Dmx!May("rec")
    BY <2>1 DEF Dmx!ChangePids, Dmx!Recording
  <2> DEFINE n == dmx["rec"].fd
             after(removes) == [files EXCEPT ![n] = Dmx!WithoutPids(@, removes)]
  <2>3. PICK removes, list, new : Dmx!addPid(list, new, after(removes))
    BY <2>1 DEF Dmx!ChangePids
  <2>4. FilesShaped(files)
    BY DEF DmxInv, DemuxShaped
  <2>5. SameOwners(files, after(removes))
    <3> DEFINE f == Dmx!WithoutPids(files[n], removes)
    <3>1. n \in Dmx!Fds => FileShape(f) /\ f.owner = files[n].owner
      BY <2>4 DEF FilesShaped, FileShape, Dmx!WithoutPids
    <3>2. after(removes) = [files EXCEPT ![n] = f]
      OBVIOUS
    <3> HIDE DEF f, after
    <3> QED BY <2>4, <3>1, <3>2 DEF FilesShaped, SameOwners
  <2> HIDE DEF after
  <2> QED BY <2>2, <2>3, <2>5, <1>3
<1> QED BY <1>1, <1>2, <1>4, <1>5, <1>6 DEF Dmx!RecordStep

\* Start and Stop
LEMMA RunSteps ==
  ASSUME DmxInv, NEW o \in Dmx!Objects, Dmx!Start(o) \/ Dmx!Stop(o)
  PROVE  DmxInv'
<1>1. PICK on : files' = [files EXCEPT ![dmx[o].fd].on = on]
  <2>1. \E on : files' = [files EXCEPT ![dmx[o].fd].on = on]
    <3>1. CASE Dmx!Start(o)
      <4>1. files' = [files EXCEPT ![dmx[o].fd].on = (@ \/ files[dmx[o].fd].filter # "none")]
        BY <3>1 DEF Dmx!Start
      <4> QED BY <4>1
    <3>2. CASE Dmx!Stop(o)
      BY <3>2 DEF Dmx!Stop
    <3> QED BY <3>1, <3>2
  <2> QED BY <2>1
<1>2. UNCHANGED <<library, dmx, reader, got, shut>>
  BY DEF Dmx!Start, Dmx!Stop, Dmx!history
<1>3. SameOwners(files, files')
  BY <1>1 DEF DmxInv, DemuxShaped, SameOwners, FilesShaped, FileShape
<1>4. ObjectShape(dmx[o]) /\ dmx' = [dmx EXCEPT ![o] = dmx[o]]
  BY <1>2 DEF DmxInv, DemuxShaped
<1> QED BY <1>2, <1>3, <1>4, FilterOnly

\* Close, from the owner's call or the destructor
LEMMA CloseSteps ==
  ASSUME DmxInv, NEW o \in Dmx!Objects, Dmx!Delete(o) \/ (o = "tap" /\ Dmx!OwnerCloses)
  PROVE  DmxInv'
<1>1. PICK state \in {"live", "closing"} : Dmx!Close(o, state)
  BY DEF Dmx!Delete, Dmx!OwnerCloses
<1>2. dmx[o].todo = <<>> /\ UNCHANGED <<library, reader, got>>
  BY DEF Dmx!Delete, Dmx!OwnerCloses, Dmx!May
<1> DEFINE pesfds == IF dmx[o].fd < 0 THEN dmx[o].pesfds ELSE <<>>
           d == [[[dmx[o] EXCEPT !.pesfds = pesfds] EXCEPT !.fd = -1] EXCEPT !.state = state]
<1>3. ObjectShape(dmx[o]) /\ dmx = [p \in Dmx!Objects |-> dmx[p]] /\ FilesShaped(files)
  BY DEF DmxInv, DemuxShaped
<1>4. ObjectShape(d) /\ d.fd = -1 /\ d.state # "gone"
  <2> HIDE DEF pesfds
  <2> QED BY <1>1, <1>3 DEF ObjectShape
<1>5. dmx' = [dmx EXCEPT ![o] = d]
  BY <1>1, <1>3 DEF Dmx!Close
<1> HIDE DEF d
<1>6. /\ FilesShaped(files')
      /\ \A m \in Dmx!Fds : m # dmx[o].fd => files'[m].owner = files[m].owner
  <2>1. FileShape(Dmx!NoFile) /\ files' = [n \in Dmx!Fds |-> IF n = dmx[o].fd THEN Dmx!NoFile ELSE files[n]]
    BY <1>1 DEF FileShape, Dmx!NoFile, Dmx!Close
  <2> QED BY <1>3, <2>1 DEF FilesShaped
<1>7. shut' = (IF dmx[o].fd > -1 THEN Dmx!Lost(o) ELSE shut)
  BY <1>1 DEF Dmx!Close
<1> QED BY <1>2, <1>4, <1>5, <1>6, <1>7, LosesNumber

\* The steps of a Read
LEMMA ReadSteps ==
  ASSUME DmxInv, NEW o \in Dmx!Objects, Dmx!ReadStep(o)
  PROVE  DmxInv'
<1>0. /\ dmx[o].fd \in Dmx!Fds \cup {-1} /\ reader[o].fd \in Dmx!Fds \cup {-1}
      /\ reader = [p \in Dmx!Objects |-> reader[p]] /\ got = [p \in Dmx!Objects |-> got[p]]
  BY DEF DmxInv, DemuxShaped
<1>1. Dmx!Box /\ Dmx!Locked(o) => dmx[o].state # "gone"
  BY DEF DmxInv, Dmx!DestructorWaitsForRead
<1>2. o \notin shut => got[o] \in {"none", o} /\ ReadsOwn(o, reader[o], files)
  BY DEF DmxInv, Dmx!ReadGivesOwnData, ReadersAreOwn
<1>3. ASSUME Dmx!ReadOnly, NEW at, NEW n \in Dmx!Fds \cup {-1}, Dmx!Begins(o, at, n), at \in {"tested", "poll"}
      PROVE  DmxInv'
  <2>1. /\ reader' = [reader EXCEPT ![o] = [at |-> at, fd |-> n]]
        /\ got' = [got EXCEPT ![o] = "none"] /\ shut' = shut \ {o} /\ dmx[o].state # "gone"
    BY <1>3 DEF Dmx!Begins, Dmx!Reads
  <2> QED BY <1>3, <2>1, ReadOnlyStep
<1>4. ASSUME Dmx!ReadOnly, UNCHANGED shut, NEW what, Dmx!Returns(o, what), o \notin shut => what \in {"none", o}
      PROVE  DmxInv'
  <2>1. reader' = [reader EXCEPT ![o] = [at |-> "out", fd |-> -1]] /\ got' = [got EXCEPT ![o] = what]
    BY <1>4 DEF Dmx!Returns, Dmx!Reads
  <2>2. shut \ {o} \subseteq shut' /\ (o \notin shut' => what \in {"none", o}) /\ -1 \in Dmx!Fds \cup {-1}
    BY <1>4
  <2>3. "out" \notin {"poll", "load", "syscall"} /\ "out" # "syscall"
    OBVIOUS
  <2> QED BY <1>4, <2>1, <2>2, <2>3, ReadOnlyStep
<1>5. ASSUME Dmx!ReadOnly, UNCHANGED got, shut \subseteq shut', NEW at, NEW n \in Dmx!Fds \cup {-1}, Dmx!Reads(o, at, n),
             o \notin shut' /\ at = "syscall" => n \in Dmx!Fds /\ files[n].owner = o,
             Dmx!Box /\ at \in {"poll", "load", "syscall"} => dmx[o].state # "gone"
      PROVE  DmxInv'
  <2>1. reader' = [reader EXCEPT ![o] = [at |-> at, fd |-> n]] /\ got' = [got EXCEPT ![o] = got[o]]
    BY <1>5, <1>0 DEF Dmx!Reads
  <2>2. o \notin shut' => got[o] \in {"none", o}
    BY <1>5, <1>2
  <2>3. shut \ {o} \subseteq shut'
    BY <1>5
  <2> QED BY <1>5, <2>1, <2>2, <2>3, ReadOnlyStep
<1>6. CASE Dmx!ReadBegin(o)
  BY <1>3, <1>6 DEF Dmx!ReadBegin, Dmx!Begins
<1>7. CASE Dmx!ReadBegin_pc(o)
  BY <1>0, <1>3, <1>7 DEF Dmx!ReadBegin_pc, Dmx!Begins
<1>8. CASE Dmx!Lock(o)
  <2>1. CASE dmx[o].state = "gone"
    BY <1>4, <1>8, <2>1 DEF Dmx!Lock
  <2>2. CASE dmx[o].state # "gone"
    <3>1. PICK at \in {"poll", "load"} : Dmx!Reads(o, at, dmx[o].fd)
      BY <1>8, <2>2 DEF Dmx!Lock
    <3>2. Dmx!ReadOnly /\ UNCHANGED got /\ shut \subseteq shut'
      BY <1>8, <2>2 DEF Dmx!Lock
    <3> QED BY <1>0, <1>5, <2>2, <3>1, <3>2
  <2> QED BY <2>1, <2>2
<1>9. CASE Dmx!PollEnds(o)
  <2>1. CASE Dmx!Returns(o, "none")
    BY <1>4, <1>9, <2>1 DEF Dmx!PollEnds
  <2>2. CASE Dmx!Reads(o, "load", reader[o].fd) /\ UNCHANGED got
    <3>1. Dmx!Box => dmx[o].state # "gone"
      BY <1>1, <1>9 DEF Dmx!PollEnds, Dmx!Locked
    <3> QED BY <1>0, <1>5, <1>9, <2>2, <3>1 DEF Dmx!PollEnds
  <2> QED BY <1>9, <2>1, <2>2 DEF Dmx!PollEnds
<1>10. CASE Dmx!Load(o)
  <2>1. CASE dmx[o].fd = -1 \/ (Dmx!Box /\ reader[o].fd # dmx[o].fd)
    <3>1. Dmx!ReadOnly /\ Dmx!Returns(o, "none") /\ shut \subseteq shut'
      BY <1>10, <2>1 DEF Dmx!Load
    <3>2. reader' = [reader EXCEPT ![o] = [at |-> "out", fd |-> -1]] /\ got' = [got EXCEPT ![o] = "none"]
      BY <3>1 DEF Dmx!Returns, Dmx!Reads
    <3>3. shut \ {o} \subseteq shut' /\ "none" \in {"none", o} /\ -1 \in Dmx!Fds \cup {-1}
      BY <3>1
    <3>4. "out" \notin {"poll", "load", "syscall"} /\ "out" # "syscall"
      OBVIOUS
    <3> QED BY <3>1, <3>2, <3>3, <3>4, ReadOnlyStep
  <2>2. CASE ~(dmx[o].fd = -1 \/ (Dmx!Box /\ reader[o].fd # dmx[o].fd))
    <3>1. Dmx!ReadOnly /\ UNCHANGED got /\ Dmx!Reads(o, "syscall", dmx[o].fd) /\ shut \subseteq shut'
      BY <1>10, <2>2 DEF Dmx!Load
    <3>2. Dmx!Box => dmx[o].state # "gone"
      BY <1>1, <1>10 DEF Dmx!Load, Dmx!Locked
    <3>3. o \notin shut' => dmx[o].todo = <<>>
      BY <1>10 DEF Dmx!Load
    <3>4. o \notin shut' => dmx[o].fd \in Dmx!Fds /\ files[dmx[o].fd].owner = o
      BY <1>0, <2>2, <3>3 DEF DmxInv, NumbersAreOwn, Owns
    <3> QED BY <1>0, <1>5, <3>1, <3>2, <3>4
  <2> QED BY <2>1, <2>2
<1>11. CASE Dmx!Syscall(o)
  <2>1. PICK what : Dmx!Returns(o, what) /\ (what = "none" \/ what = files[reader[o].fd].owner)
    BY <1>11 DEF Dmx!Syscall
  <2>2. o \notin shut => what \in {"none", o}
    BY <1>2, <1>11, <2>1 DEF Dmx!Syscall, ReadsOwn
  <2> QED BY <1>4, <1>11, <2>1, <2>2 DEF Dmx!Syscall
<1> QED BY <1>6, <1>7, <1>8, <1>9, <1>10, <1>11 DEF Dmx!ReadStep

\* Every step keeps the invariant of Demux.
LEMMA DemuxStep ==
  ASSUME DmxInv, Dmx!Assumptions, Dmx!Next
  PROVE  DmxInv'
<1>1. ASSUME NEW o \in Dmx!Objects, Dmx!OwnerStep(o)
      PROVE  DmxInv'
  BY <1>1, ObjectSteps, OpenSteps, FilterSteps, RunSteps, CloseSteps DEF Dmx!OwnerStep
<1>2. ASSUME NEW o \in Dmx!Objects, Dmx!ReadStep(o)
      PROVE  DmxInv'
  BY <1>2, ReadSteps
<1>3. CASE Dmx!sectionFilter \/ Dmx!sectionFilter_pc \/ Dmx!RecordStep
  <2>1. "rec" \in Dmx!Objects
    BY DEF Dmx!Objects
  <2> QED BY <1>3, <2>1, FilterSteps
<1>4. CASE Dmx!OwnerCloses
  <2>1. "tap" \in Dmx!Objects
    BY DEF Dmx!Objects
  <2> QED BY <1>4, <2>1, CloseSteps
<1>5. CASE \E u \in {0, 1}, src \in Devices : Dmx!SetSource(u, src)
  <2>1. UNCHANGED <<library, dmx, files, reader, got, shut>>
    BY <1>5 DEF Dmx!SetSource, Dmx!history
  <2> QED BY <2>1, DemuxStutter
<1> QED BY <1>1, <1>2, <1>3, <1>4, <1>5 DEF Dmx!Next

-----------------------------------------------------------------------------
(* The pids of the recording (addPid, removePid, ChangePids)                     *)

\* A set of numbers that has 0 and with each its next is the set of all: what of
\* induction can be said without an operator as a parameter.
LEMMA SetInduction ==
  ASSUME NEW S \in SUBSET Nat, 0 \in S, \A n \in S : n + 1 \in S
  PROVE  S = Nat
<1> SUFFICES ASSUME Nat \ S # {} PROVE FALSE
  OBVIOUS
<1>1. IsWellFoundedOn(OpToRel(<, Nat), Nat)
  BY NatLessThanWellFounded
<1>2. PICK x \in Nat \ S : \A y \in Nat \ S : ~(<<y, x>> \in OpToRel(<, Nat))
  BY <1>1, WFMin, Zenon
<1>3. \A y \in Nat \ S : ~(y < x)
  BY <1>2 DEF OpToRel
<1>4. x # 0
  OBVIOUS
<1>5. x - 1 \in Nat /\ x - 1 < x /\ (x - 1) + 1 = x
  BY <1>4
<1>6. x - 1 \in S
  BY <1>3, <1>5
<1> QED BY <1>5, <1>6

\* There is a function that a recursion over 0 .. n defines.
Recursive(V, n, base, step) ==
  \E f \in [0 .. n -> V] : f[0] = base /\ \A i \in 1 .. n : f[i] = step[<<i, f[i - 1]>>]

LEMMA Recursion ==
  ASSUME NEW V, NEW n \in Nat, NEW base \in V, NEW step \in [(1 .. n) \X V -> V]
  PROVE  Recursive(V, n, base, step)
<1> DEFINE Upto(m, f) == f = [i \in 0 .. m |-> IF i = 0 THEN base ELSE step[<<i, f[i - 1]>>]]
           S == {m \in Nat : m <= n => \E f \in [0 .. m -> V] : Upto(m, f)}
<1>1. 0 \in S
  <2> DEFINE f == [i \in 0 .. 0 |-> base]
  <2>1. f \in [0 .. 0 -> V] /\ Upto(0, f)
    OBVIOUS
  <2> QED BY <2>1
<1>2. ASSUME NEW m \in S PROVE m + 1 \in S
  <2> SUFFICES ASSUME m + 1 <= n PROVE \E g \in [0 .. m + 1 -> V] : Upto(m + 1, g)
    BY <1>2
  <2>1. m \in Nat /\ m <= n
    BY <1>2
  <2>2. PICK f \in [0 .. m -> V] : Upto(m, f)
    BY <2>1, <1>2
  <2> DEFINE g == [i \in 0 .. m + 1 |-> IF i = m + 1 THEN step[<<m + 1, f[m]>>] ELSE f[i]]
  <2>3. f[m] \in V /\ step[<<m + 1, f[m]>>] \in V
    BY <2>1, <2>2
  <2>4. g \in [0 .. m + 1 -> V]
    BY <2>1, <2>2, <2>3
  <2>5. ASSUME NEW i \in 0 .. m + 1
        PROVE  g[i] = IF i = 0 THEN base ELSE step[<<i, g[i - 1]>>]
    <3>1. CASE i = m + 1
      <4>1. i - 1 = m /\ m \in 0 .. m + 1 /\ m # m + 1 /\ i # 0 /\ i \in 0 .. m + 1
        BY <3>1, <2>1
      <4>2. g[m] = f[m] /\ g[i] = step[<<i, f[m]>>]
        BY <3>1, <4>1
      <4> HIDE DEF g
      <4> QED BY <4>1, <4>2
    <3>2. CASE i # m + 1
      <4>1. i \in 0 .. m /\ g[i] = f[i] /\ (i # 0 => g[i - 1] = f[i - 1])
        BY <3>2, <2>1
      <4>2. f[i] = IF i = 0 THEN base ELSE step[<<i, f[i - 1]>>]
        BY <4>1, <2>2, Zenon
      <4> QED BY <4>1, <4>2
    <3> QED BY <3>1, <3>2
  <2>6. Upto(m + 1, g)
    BY <2>4, <2>5
  <2> QED BY <2>4, <2>6
<1>3. n \in S
  <2>1. S = Nat
    <3> HIDE DEF Upto
    <3>1. S \in SUBSET Nat
      OBVIOUS
    <3> HIDE DEF S
    <3> QED BY <1>1, <1>2, <3>1, SetInduction
  <2> QED BY <2>1
<1>4. PICK f \in [0 .. n -> V] : Upto(n, f)
  BY <1>3
<1>5. f[0] = base /\ \A i \in 1 .. n : f[i] = step[<<i, f[i - 1]>>]
  BY <1>4
<1> QED BY <1>5 DEF Recursive

\* The first place of p in a list, or 0
PlaceOf(list, p) == Dmx!SelectInSeq(list, LAMBDA q : q = p)

LEMMA FirstPlace ==
  ASSUME NEW A, NEW list \in Seq(A), NEW p
  PROVE  \/ PlaceOf(list, p) = 0 /\ \A i \in 1 .. Len(list) : list[i] # p
         \/ PlaceOf(list, p) \in 1 .. Len(list) /\ list[PlaceOf(list, p)] = p
<1> DEFINE I == {i \in 1 .. Len(list) : list[i] = p}
<1>1. PlaceOf(list, p) = IF I # {} THEN Dmx!Min(I) ELSE 0
  BY DEF PlaceOf, Dmx!SelectInSeq
<1>2. CASE I = {}
  BY <1>1, <1>2
<1>3. CASE I # {}
  <2>1. I \in SUBSET Nat
    OBVIOUS
  <2>2. Dmx!Min(I) \in I
    <3> HIDE DEF I
    <3> DEFINE R == {ss \in Nat \X Nat : ss[1] < ss[2]}
    <3>1. IsWellFoundedOn(R, Nat)
      BY NatLessThanWellFounded DEF OpToRel
    <3>2. PICK n \in I : \A j \in I : <<j, n>> \notin R
      <4> HIDE DEF R
      <4> QED BY <1>3, <2>1, <3>1, WFMin
    <3>3. \A j \in I : ~(j < n)
      BY <2>1, <3>2, Zenon
    <3>4. \A j \in I : n <= j
      BY <2>1, <3>3
    <3> QED BY <3>4 DEF Dmx!Min
  <2>3. PlaceOf(list, p) \in I
    BY <1>1, <1>3, <2>2
  <2> QED BY <2>3
<1> QED BY <1>2, <1>3

\* removePid takes the pid out of a list that has it once, and nothing else gets in.
LEMMA PidIsRemoved ==
  ASSUME NEW A, NEW list \in Seq(A), NEW p
  PROVE  /\ Dmx!removePid(list, p) \in Seq(A)
         /\ Dmx!IsInjective(list) => /\ Dmx!IsInjective(Dmx!removePid(list, p))
                                    /\ Dmx!ToSet(Dmx!removePid(list, p)) \subseteq Dmx!ToSet(list) \ {p}
<1> DEFINE k == PlaceOf(list, p)
           r == SubSeq(list, 1, k - 1) \o SubSeq(list, k + 1, Len(list))
<1>0. Dmx!removePid(list, p) = r
  BY DEF Dmx!removePid, Dmx!RemoveAt, PlaceOf
<1>1. \/ k = 0 /\ \A i \in 1 .. Len(list) : list[i] # p
      \/ k \in 1 .. Len(list) /\ list[k] = p
  BY FirstPlace
<1> HIDE DEF k
<1>2. CASE k = 0 /\ \A i \in 1 .. Len(list) : list[i] # p
  <2>1. SubSeq(list, 1, k - 1) = <<>> /\ SubSeq(list, k + 1, Len(list)) = list
    BY <1>2
  <2>2. <<>> \o list = list
    BY ConcatEmptySeq
  <2>3. r = list
    BY <2>1, <2>2
  <2> QED BY <1>0, <1>2, <2>3 DEF Dmx!IsInjective, Dmx!ToSet
<1>3. CASE k \in 1 .. Len(list) /\ list[k] = p
  <2> DEFINE n == Len(list)
             a == SubSeq(list, 1, k - 1)
             b == SubSeq(list, k + 1, n)
  <2>0. n \in Nat /\ k \in Nat /\ 1 <= k /\ k <= n
    BY <1>3
  <2>1. a \in Seq(A) /\ Len(a) = k - 1 /\ \A i \in 1 .. k - 1 : a[i] = list[i]
    BY <2>0
  <2>2. b \in Seq(A) /\ Len(b) = n - k /\ \A i \in 1 .. n - k : b[i] = list[k + i]
    BY <2>0
  <2> HIDE DEF a, b
  <2>3. r \in Seq(A) /\ Len(r) = n - 1
    BY <2>0, <2>1, <2>2 DEF a, b
  <2>4. \A i \in 1 .. n - 1 : r[i] = list[IF i < k THEN i ELSE i + 1]
    <3> TAKE i \in 1 .. n - 1
    <3>1. CASE i < k
      <4>1. i \in 1 .. Len(a) /\ (a \o b)[i] = a[i]
        BY <2>0, <2>1, <2>2, <3>1
      <4> QED BY <2>1, <3>1, <4>1 DEF a, b
    <3>2. CASE ~(i < k)
      <4>1. i - (k - 1) \in 1 .. n - k /\ k + (i - (k - 1)) = i + 1
        BY <2>0, <3>2
      <4>2. (a \o b)[i] = b[i - (k - 1)]
        BY <2>0, <2>1, <2>2, <3>2
      <4> QED BY <2>2, <3>2, <4>1, <4>2 DEF a, b
    <3> QED BY <3>1, <3>2
  <2> HIDE DEF r, n
  <2>5. DOMAIN r = 1 .. n - 1 /\ DOMAIN list = 1 .. n
    BY <2>0, <2>3 DEF n
  <2>6. ASSUME NEW i \in DOMAIN r
        PROVE  \E j \in DOMAIN list : r[i] = list[j] /\ j # k /\ j = IF i < k THEN i ELSE i + 1
    BY <2>0, <2>4, <2>5
  <2>7. ASSUME Dmx!IsInjective(list), NEW i \in DOMAIN r
        PROVE  r[i] \in Dmx!ToSet(list) \ {p}
    BY <1>3, <2>5, <2>6, <2>7 DEF Dmx!IsInjective, Dmx!ToSet, n
  <2>8. ASSUME Dmx!IsInjective(list), NEW i \in DOMAIN r, NEW j \in DOMAIN r, r[i] = r[j]
        PROVE  i = j
    <3>1. PICK x \in DOMAIN list : r[i] = list[x] /\ x = IF i < k THEN i ELSE i + 1
      BY <2>6
    <3>2. PICK y \in DOMAIN list : r[j] = list[y] /\ y = IF j < k THEN j ELSE j + 1
      BY <2>6
    <3>3. x = y
      BY <2>8, <3>1, <3>2 DEF Dmx!IsInjective
    <3> QED BY <2>0, <2>5, <3>1, <3>2, <3>3
  <2> QED BY <1>0, <2>3, <2>7, <2>8 DEF Dmx!IsInjective, Dmx!ToSet
<1> QED BY <1>1, <1>2, <1>3

\* After the first loop of ChangePids a list that had no pid twice has none of the others
\* that are not wanted.
LEMMA OthersRemoved ==
  ASSUME NEW A, Dmx!List \in Seq(A), Dmx!List # <<>>, NEW apids
  PROVE  /\ Dmx!removeOthers(apids) \in Seq(A)
         /\ Dmx!IsInjective(Dmx!List) =>
              Dmx!ToSet(Dmx!removeOthers(apids))
                \subseteq Dmx!ToSet(Dmx!List) \ (Dmx!ToSet(Dmx!Others) \ Dmx!ToSet(apids))
<1> DEFINE list   == Dmx!List
           others == Dmx!Others
           n      == Len(others)
           Wanted(p)  == p \in Dmx!ToSet(apids)
           After(v, p) == IF Wanted(p) THEN v ELSE Dmx!removePid(v, p)
           Eq(f)  == f = [i \in 0 .. n |-> IF i = 0 THEN list ELSE After(f[i - 1], others[i])]
           lists   == CHOOSE f : Eq(f)
<1>1. Dmx!removeOthers(apids) = lists[n]
  BY DEF Dmx!removeOthers
<1>2. others \in Seq(A) /\ n \in Nat
  BY DEF Dmx!Others
<1>3. \A v \in Seq(A) : \A p : After(v, p) \in Seq(A)
  BY PidIsRemoved
<1>4. Eq(lists)
  <2> HIDE DEF After, list, n, others
  <2> DEFINE step == [x \in (1 .. n) \X Seq(A) |-> After(x[2], others[x[1]])]
  <2>1. step \in [(1 .. n) \X Seq(A) -> Seq(A)]
    BY <1>3
  <2>2. list \in Seq(A)
    BY DEF list
  <2>3. \A i \in 1 .. n, v \in Seq(A) : step[<<i, v>>] = After(v, others[i])
    OBVIOUS
  <2> HIDE DEF step
  <2>4. PICK f \in [0 .. n -> Seq(A)] : f[0] = list /\ \A i \in 1 .. n : f[i] = step[<<i, f[i - 1]>>]
    <3>1. Recursive(Seq(A), n, list, step)
      BY <1>2, <2>1, <2>2, Recursion
    <3> QED BY <3>1 DEF Recursive
  <2>5. ASSUME NEW i \in 0 .. n
        PROVE  f[i] = IF i = 0 THEN list ELSE After(f[i - 1], others[i])
    <3>1. i = 0 => f[i] = list
      BY <2>4
    <3>2. i # 0 => f[i] = step[<<i, f[i - 1]>>] /\ i \in 1 .. n /\ f[i - 1] \in Seq(A)
      BY <1>2, <2>4
    <3> QED BY <2>3, <3>1, <3>2
  <2>6. Eq(f)
    BY <2>5
  <2> HIDE DEF Eq
  <2> QED BY <2>6, Zenon
<1> HIDE DEF lists
<1>5. lists[0] = list /\ \A i \in 1 .. n : lists[i] = After(lists[i - 1], others[i])
  <2> HIDE DEF After, list, others
  <2> QED BY <1>2, <1>4
<1> DEFINE Whole(i) ==
             /\ lists[i] \in Seq(A)
             /\ Dmx!IsInjective(list) =>
                  /\ Dmx!IsInjective(lists[i]) /\ Dmx!ToSet(lists[i]) \subseteq Dmx!ToSet(list)
                  /\ \A j \in 1 .. i : ~Wanted(others[j]) => others[j] \notin Dmx!ToSet(lists[i])
           S == {i \in Nat : i <= n => Whole(i)}
<1>6. 0 \in S
  BY <1>5
<1>7. ASSUME NEW i \in S PROVE i + 1 \in S
  <2> SUFFICES ASSUME i + 1 <= n PROVE Whole(i + 1)
    BY <1>7
  <2>1. i \in Nat /\ Whole(i)
    BY <1>2, <1>7
  <2>2. i + 1 \in 1 .. n /\ (i + 1) - 1 = i
    BY <1>2, <2>1
  <2> DEFINE v == lists[i]
             w == lists[i + 1]
             p == others[i + 1]
  <2>3. w = After(v, p)
    BY <1>5, <2>2
  <2>4. /\ Dmx!removePid(v, p) \in Seq(A)
        /\ Dmx!IsInjective(v) => /\ Dmx!IsInjective(Dmx!removePid(v, p))
                                /\ Dmx!ToSet(Dmx!removePid(v, p)) \subseteq Dmx!ToSet(v) \ {p}
    BY <2>1, PidIsRemoved
  <2>5. /\ w \in Seq(A)
        /\ Dmx!IsInjective(v) => Dmx!IsInjective(w) /\ Dmx!ToSet(w) \subseteq Dmx!ToSet(v)
        /\ Dmx!IsInjective(v) /\ ~Wanted(p) => p \notin Dmx!ToSet(w)
    <3> HIDE DEF v, w, p, Wanted
    <3> QED BY <2>1, <2>3, <2>4 DEF v
  <2>6. \A j \in 1 .. i + 1 : j \in 1 .. i \/ others[j] = p
    BY <2>1
  <2>7. i + 1 \in Nat /\ w = lists[i + 1]
    BY <2>1
  <2> HIDE DEF p, w, v, others, list, Wanted
  <2>8. w \in Seq(A)
    BY <2>5
  <2>9. ASSUME Dmx!IsInjective(list)
        PROVE  /\ Dmx!IsInjective(w) /\ Dmx!ToSet(w) \subseteq Dmx!ToSet(list)
               /\ \A j \in 1 .. i + 1 : ~Wanted(others[j]) => others[j] \notin Dmx!ToSet(w)
    <3>1. /\ Dmx!IsInjective(v) /\ Dmx!ToSet(v) \subseteq Dmx!ToSet(list)
          /\ \A j \in 1 .. i : ~Wanted(others[j]) => others[j] \notin Dmx!ToSet(v)
      BY <2>1, <2>9 DEF v
    <3>2. Dmx!IsInjective(w) /\ Dmx!ToSet(w) \subseteq Dmx!ToSet(v) /\ (~Wanted(p) => p \notin Dmx!ToSet(w))
      BY <2>5, <3>1
    <3> QED BY <2>6, <3>1, <3>2
  <2> QED BY <2>7, <2>8, <2>9
<1>8. Whole(n)
  <2>1. S = Nat
    <3> HIDE DEF Whole
    <3>1. S \in SUBSET Nat
      OBVIOUS
    <3> HIDE DEF S
    <3> QED BY <1>6, <1>7, <3>1, SetInduction
  <2>2. n \in S
    BY <1>2, <2>1
  <2> HIDE DEF Whole
  <2> QED BY <1>2, <2>2
<1>9. \A p \in Dmx!ToSet(others) : \E j \in 1 .. n : p = others[j]
  BY <1>2 DEF Dmx!ToSet
<1> QED BY <1>1, <1>8, <1>9

\* What ChangePids adds is a list of the pids it was given.
LEMMA AddedTyped ==
  ASSUME NEW A, NEW apids \in Seq(A)
  PROVE  Dmx!toAdd(apids) \in Seq(A)
<1> DEFINE n == Len(apids)
           After(v, p) == IF p \in Dmx!ToSet(Dmx!Others) THEN v ELSE Append(v, p)
           Eq(f)  == f = [i \in 0 .. n |-> IF i = 0 THEN <<>> ELSE After(f[i - 1], apids[i])]
           new    == CHOOSE f : Eq(f)
           step   == [x \in (1 .. n) \X Seq(A) |-> After(x[2], apids[x[1]])]
<1>1. Dmx!toAdd(apids) = new[n]
  BY DEF Dmx!toAdd
<1>2. n \in Nat /\ <<>> \in Seq(A)
  OBVIOUS
<1>3. \A v \in Seq(A), i \in 1 .. n : After(v, apids[i]) \in Seq(A)
  OBVIOUS
<1> HIDE DEF After, n
<1>4. step \in [(1 .. n) \X Seq(A) -> Seq(A)] /\ \A i \in 1 .. n, v \in Seq(A) : step[<<i, v>>] = After(v, apids[i])
  BY <1>3
<1> HIDE DEF step
<1>5. PICK f \in [0 .. n -> Seq(A)] : f[0] = <<>> /\ \A i \in 1 .. n : f[i] = step[<<i, f[i - 1]>>]
  <2>1. Recursive(Seq(A), n, <<>>, step)
    BY <1>2, <1>4, Recursion
  <2> QED BY <2>1 DEF Recursive
<1>6. ASSUME NEW i \in 0 .. n
      PROVE  f[i] = IF i = 0 THEN <<>> ELSE After(f[i - 1], apids[i])
  <2>1. i = 0 => f[i] = <<>>
    BY <1>5
  <2>2. i # 0 => f[i] = step[<<i, f[i - 1]>>] /\ i \in 1 .. n /\ f[i - 1] \in Seq(A)
    BY <1>2, <1>5
  <2> QED BY <1>4, <2>1, <2>2
<1>7. Eq(f)
  BY <1>6
<1>8. Eq(new)
  <2> HIDE DEF Eq
  <2> QED BY <1>7, Zenon
<1> HIDE DEF new
<1>9. new[0] = <<>> /\ \A i \in 1 .. n : new[i] = After(new[i - 1], apids[i])
  BY <1>2, <1>8
<1> DEFINE S == {i \in Nat : i <= n => new[i] \in Seq(A)}
<1>10. ASSUME NEW i \in S PROVE i + 1 \in S
  <2> SUFFICES ASSUME i + 1 <= n PROVE new[i + 1] \in Seq(A)
    BY <1>10
  <2>1. i \in Nat /\ new[i] \in Seq(A) /\ i + 1 \in 1 .. n /\ (i + 1) - 1 = i
    BY <1>2, <1>10
  <2> QED BY <1>3, <1>9, <2>1
<1>11. S = Nat
  <2>1. S \in SUBSET Nat /\ 0 \in S
    BY <1>2, <1>9
  <2> HIDE DEF S
  <2> QED BY <1>10, <2>1, SetInduction
<1>12. n \in S
  BY <1>2, <1>11
<1> QED BY <1>1, <1>2, <1>12

\* What is known of the recording's object d, of the files and of what happened to it
\* (m: it was moved; two: a pid was added twice): its list, the calls that wait for its
\* device, and that the list and the video pid are in the filter of its file.
VideoCall == <<<<"pes", Dmx!Video>>>>
PidCalls  == {"add"} \X Audio

Filtered(list, f, m, two) ==
  /\ f.filter # "none" => Dmx!Video \in f.pids
  /\ ~m /\ list # <<>> => f.filter # "none"
  /\ ~m /\ ~two => Dmx!ToSet(list) \subseteq f.pids

RecSound(d, fs, m, two) ==
  /\ d.pesfds \in Seq(Audio)
  /\ ~two => Dmx!IsInjective(d.pesfds)
  /\ d.todo = VideoCall \/ d.todo \in Seq(PidCalls)
  /\ ~m /\ (d.fd = -1 \/ d.todo # <<>>) => d.pesfds = <<>>
  /\ d.todo = <<>> /\ d.fd # -1 => Filtered(d.pesfds, fs[d.fd], m, two)

RecInv == RecSound(dmx["rec"], files, moved, doubled)

\* A step that leaves the recording's object and its file alone
Spares ==
  /\ dmx'["rec"] = dmx["rec"] /\ (moved => moved') /\ (doubled => doubled')
  /\ \A n \in Dmx!Fds : files[n].owner = "rec" => files'[n] = files[n]

LEMMA SparedRec ==
  ASSUME DmxInv, RecInv, Spares
  PROVE  RecInv'
<1> DEFINE d == dmx["rec"]
<1>1. d.fd \in Dmx!Fds \cup {-1} /\ (d.todo = <<>> /\ d.fd # -1 => files[d.fd].owner = "rec")
  BY DEF DmxInv, DemuxShaped, NumbersAreOwn, Owns, Dmx!Objects
<1>2. d.todo = <<>> /\ d.fd # -1 => files'[d.fd] = files[d.fd]
  BY <1>1 DEF Spares
<1>3. dmx'["rec"] = d /\ (moved => moved') /\ (doubled => doubled')
  BY DEF Spares
<1> HIDE DEF d
<1>4. RecSound(d, files, moved, doubled)
  BY DEF RecInv, d
<1>5. RecSound(d, files', moved', doubled')
  BY <1>2, <1>3, <1>4 DEF RecSound, Filtered
<1> QED BY <1>3, <1>5 DEF RecInv

\* A call that changes one file only, and one that closes a file or takes a free number.
LEMMA OtherFiles ==
  ASSUME DmxInv, NEW d, dmx' = [dmx EXCEPT !["tap"] = d], moved => moved', doubled => doubled',
         \A n \in Dmx!Fds : n # dmx["tap"].fd /\ files[n].owner # "none" => files'[n] = files[n],
         dmx["tap"].todo = <<>> \/ \A n \in Dmx!Fds : files[n].owner # "none" => files'[n] = files[n]
  PROVE  Spares
<1>1. dmx["tap"].todo = <<>> /\ dmx["tap"].fd # -1 => files[dmx["tap"].fd].owner = "tap"
  BY DEF DmxInv, NumbersAreOwn, Owns, Dmx!Objects
<1>2. dmx'["rec"] = dmx["rec"]
  BY DEF DmxInv, DemuxShaped, Dmx!Objects
<1>3. -1 \notin Dmx!Fds
  BY DEF Dmx!Fds
<1> QED BY <1>1, <1>2, <1>3 DEF Spares

\* ApplyAll changes the file of its number only.
LEMMA AppliedHere ==
  ASSUME NEW o, NEW whats, NEW n, NEW fs, FilesShaped(fs)
  PROVE  \A k \in Dmx!Fds : k # n => Dmx!ApplyAll(o, whats, n, fs)[k] = fs[k]
<1>1. CASE whats = <<>> \/ n \notin Dmx!Fds
  BY <1>1 DEF Dmx!ApplyAll
<1>2. CASE ~(whats = <<>> \/ n \notin Dmx!Fds)
  <2>1. PICK g : Dmx!ApplyAll(o, whats, n, fs) = [fs EXCEPT ![n] = g]
    BY <1>2 DEF Dmx!ApplyAll
  <2>2. fs = [k \in Dmx!Fds |-> fs[k]]
    BY DEF FilesShaped
  <2> QED BY <2>1, <2>2
<1> QED BY <1>1, <1>2

\* The filter calls of the tap spare the recording.
LEMMA TapFilters ==
  ASSUME DmxInv, Dmx!May("tap"), NEW whats, NEW d, d.fd = dmx["tap"].fd,
         Dmx!Filter("tap", whats, d, files), doubled => doubled'
  PROVE  Spares
<1>1. dmx["tap"].todo = <<>> /\ FilesShaped(files) /\ d.fd = dmx["tap"].fd
  BY DEF Dmx!May, DmxInv, DemuxShaped
<1>2. ASSUME files' = Dmx!ApplyAll("tap", whats, d.fd, files), dmx' = [dmx EXCEPT !["tap"] = d], moved => moved'
      PROVE  Spares
  <2>1. \A n \in Dmx!Fds : n # d.fd => files'[n] = files[n]
    BY <1>1, <1>2, AppliedHere
  <2> QED BY <1>1, <1>2, <2>1, OtherFiles
<1>3. ASSUME dmx' = [dmx EXCEPT !["tap"] = [d EXCEPT !.todo = whats]],
             files' = [n \in Dmx!Fds |-> IF n = d.fd THEN Dmx!NoFile ELSE files[n]],
             moved => moved'
      PROVE  Spares
  <2>1. \A n \in Dmx!Fds : n # d.fd => files'[n] = files[n]
    BY <1>3
  <2> QED BY <1>1, <1>3, <2>1, OtherFiles
<1> QED BY <1>2, <1>3 DEF Dmx!Filter, Dmx!_open

\* The calls of the tap's owner spare the recording.
LEMMA TapSteps ==
  ASSUME DmxInv, Dmx!Assumptions,
         \/ Dmx!OwnerStep("tap") \/ Dmx!sectionFilter \/ Dmx!sectionFilter_pc \/ Dmx!OwnerCloses
  PROVE  Spares
<1>0. dmx = [p \in Dmx!Objects |-> dmx[p]] /\ "tap" \in Dmx!Objects /\ FilesShaped(files)
  BY DEF DmxInv, DemuxShaped, Dmx!Objects
<1> DEFINE t == dmx["tap"]
<1>1. CASE Dmx!New("tap") \/ Dmx!Open("tap") \/ Dmx!Deleted("tap")
  <2>1. PICK d : dmx' = [dmx EXCEPT !["tap"] = d]
    <3>1. \E d : dmx' = [dmx EXCEPT !["tap"] = d]
      BY <1>1 DEF Dmx!New, Dmx!Open, Dmx!Deleted
    <3> QED BY <3>1
  <2>2. UNCHANGED <<files, moved, doubled>>
    BY <1>1 DEF Dmx!New, Dmx!Open, Dmx!Deleted, Dmx!history
  <2> QED BY <2>1, <2>2, OtherFiles
<1>2. CASE Dmx!OpenDevice("tap")
  <2>1. PICK d, g : /\ dmx' = [dmx EXCEPT !["tap"] = d]
                    /\ files' = [files EXCEPT ![Dmx!Least(Dmx!Free)] = g] \/ files' = files
    <3>1. PICK y \in Dmx!TypesOf("tap"), opens \in BOOLEAN :
            /\ dmx' = [dmx EXCEPT !["tap"].type = y, !["tap"].fd = IF opens THEN Dmx!Least(Dmx!Free) ELSE -1]
            /\ files' = IF opens THEN [files EXCEPT ![Dmx!Least(Dmx!Free)] = [Dmx!NoFile EXCEPT !.owner = "tap", !.dev = 0]]
                                ELSE files
      BY <1>2 DEF Dmx!OpenDevice
    <3>2. \E d : dmx' = [dmx EXCEPT !["tap"] = d]
      BY <3>1, <1>0
    <3>3. \E g : files' = [files EXCEPT ![Dmx!Least(Dmx!Free)] = g] \/ files' = files
      BY <3>1
    <3> QED BY <3>2, <3>3
  <2>2. UNCHANGED <<moved, doubled>> /\ Dmx!Free # {}
    BY <1>2 DEF Dmx!OpenDevice, Dmx!history
  <2>3. \A n \in Dmx!Fds : files[n].owner # "none" => files'[n] = files[n]
    BY <1>0, <2>1, <2>2, FreeNumber DEF FilesShaped
  <2> QED BY <2>1, <2>2, <2>3, OtherFiles
<1>3. CASE Dmx!_opened("tap")
  <2>0. UNCHANGED <<moved, doubled>>
    BY <1>3 DEF Dmx!_opened, Dmx!history
  <2> DEFINE n == Dmx!Least(Dmx!Free)
             f == [Dmx!NoFile EXCEPT !.owner = "tap", !.dev = dmx_source[Dmx!unit["tap"]]]
             fs == [files EXCEPT ![n] = f]
  <2>1. ASSUME Dmx!Free # {}, files' = Dmx!ApplyAll("tap", t.todo, n, fs)
        PROVE  \A k \in Dmx!Fds : files[k].owner # "none" => files'[k] = files[k]
    <3>1. n \in Dmx!Fds /\ files[n].owner = "none"
      BY <2>1, FreeNumber
    <3>2. FileShape(f)
      BY DEF FileShape, Dmx!NoFile
    <3> HIDE DEF n, f
    <3>3. FilesShaped(fs) /\ \A k \in Dmx!Fds : k # n => fs[k] = files[k]
      BY <1>0, <3>1, <3>2 DEF FilesShaped
    <3> HIDE DEF fs
    <3>4. \A k \in Dmx!Fds : k # n => files'[k] = fs[k]
      BY <2>1, <3>3, AppliedHere
    <3> QED BY <3>1, <3>3, <3>4
  <2>2. \E d : dmx' = [dmx EXCEPT !["tap"] = d]
    BY <1>3 DEF Dmx!_opened
  <2>3. \A k \in Dmx!Fds : files[k].owner # "none" => files'[k] = files[k]
    BY <1>3, <2>1 DEF Dmx!_opened
  <2> QED BY <2>0, <2>2, <2>3, OtherFiles
<1>4. CASE Dmx!pesFilter("tap") \/ Dmx!pesFilter_pc("tap")
  <2>1. Dmx!May("tap") /\ Dmx!Filter("tap", <<<<"pes", Dmx!Video>>>>, dmx["tap"], files) /\ UNCHANGED doubled
    BY <1>4 DEF Dmx!pesFilter, Dmx!pesFilter_pc, Dmx!Pes
  <2> QED BY <2>1, TapFilters
<1>5. CASE Dmx!sectionFilter \/ Dmx!sectionFilter_pc
  <2>1. Dmx!May("tap") /\ Dmx!Filter("tap", <<<<"section", "section">>>>, dmx["tap"], files) /\ UNCHANGED doubled
    BY <1>5 DEF Dmx!sectionFilter, Dmx!sectionFilter_pc, Dmx!Section
  <2> QED BY <2>1, TapFilters
<1>6. CASE Dmx!Start("tap") \/ Dmx!Stop("tap")
  <2>1. PICK g : files' = [files EXCEPT ![t.fd] = g]
    <3>1. \E g : files' = [files EXCEPT ![t.fd] = g]
      BY <1>6 DEF Dmx!Start, Dmx!Stop
    <3> QED BY <3>1
  <2>2. UNCHANGED <<dmx, moved, doubled>> /\ t.todo = <<>>
    BY <1>6 DEF Dmx!Start, Dmx!Stop, Dmx!history, Dmx!May
  <2>3. dmx' = [dmx EXCEPT !["tap"] = t]
    BY <1>0, <2>2
  <2>4. \A n \in Dmx!Fds : n # t.fd => files'[n] = files[n]
    BY <1>0, <2>1 DEF FilesShaped
  <2> QED BY <2>2, <2>3, <2>4, OtherFiles
<1>7. CASE Dmx!Delete("tap") \/ Dmx!OwnerCloses
  <2>1. PICK state : Dmx!Close("tap", state)
    BY <1>7 DEF Dmx!Delete, Dmx!OwnerCloses
  <2>2. UNCHANGED <<moved, doubled>> /\ t.todo = <<>>
    BY <1>7 DEF Dmx!Delete, Dmx!OwnerCloses, Dmx!May
  <2>3. \E d : dmx' = [dmx EXCEPT !["tap"] = d]
    BY <1>0, <2>1 DEF Dmx!Close
  <2>4. \A n \in Dmx!Fds : n # t.fd => files'[n] = files[n]
    BY <2>1 DEF Dmx!Close
  <2> QED BY <2>2, <2>3, <2>4, OtherFiles
<1> QED BY <1>1, <1>2, <1>3, <1>4, <1>5, <1>6, <1>7 DEF Dmx!OwnerStep

\* What the ioctls of the recording do to its file: the filter of the video pid takes the
\* place of what was there, and pids are added to a filter.
LEMMA VideoApplied ==
  ASSUME NEW n \in Dmx!Fds, NEW fs, FilesShaped(fs)
  PROVE  \/ Dmx!ApplyAll("rec", VideoCall, n, fs)[n] = fs[n]
         \/ Dmx!ApplyAll("rec", VideoCall, n, fs)[n].pids = {Dmx!Video}
<1> DEFINE f == fs[n]
           pids == {w[2] : w \in Dmx!ToSet(VideoCall)}
           g == Dmx!WithFilter(f, "pes", pids, library = "spark")
<1>1. VideoCall # <<>> /\ VideoCall[1][1] = "pes"
  BY DEF VideoCall
<1>2. pids = {Dmx!Video}
  BY DEF VideoCall, Dmx!ToSet
<1>3. FileShape(f) /\ fs = [k \in Dmx!Fds |-> fs[k]]
  BY DEF FilesShaped
<1> HIDE DEF f, pids
<1>4. g.pids = pids
  BY <1>3 DEF Dmx!WithFilter, FileShape
<1> HIDE DEF g
<1>5. Dmx!ApplyAll("rec", VideoCall, n, fs) \in {[fs EXCEPT ![n] = g], [fs EXCEPT ![n] = f]}
  BY <1>1 DEF Dmx!ApplyAll, f, g, pids
<1>6. [fs EXCEPT ![n] = g][n] = g /\ [fs EXCEPT ![n] = f][n] = f
  BY <1>3
<1> QED BY <1>2, <1>4, <1>5, <1>6 DEF f

PidsOf(whats) == {w[2] : w \in Dmx!ToSet(whats)}

LEMMA PidsApplied ==
  ASSUME NEW n \in Dmx!Fds, NEW fs, FilesShaped(fs), NEW added \in Seq(PidCalls)
  PROVE  /\ Dmx!ApplyAll("rec", added, n, fs)[n].filter = fs[n].filter
         /\ fs[n].filter = "none" => Dmx!ApplyAll("rec", added, n, fs)[n].pids = fs[n].pids
         /\ fs[n].filter # "none" =>
              Dmx!ApplyAll("rec", added, n, fs)[n].pids = fs[n].pids \cup PidsOf(added)
<1> DEFINE f == fs[n]
           pids == {w[2] : w \in Dmx!ToSet(added)}
           g == Dmx!WithPids(f, pids)
<1>0. FileShape(f) /\ fs = [k \in Dmx!Fds |-> fs[k]]
  BY DEF FilesShaped
<1>1. CASE added = <<>>
  <2>1. Dmx!ApplyAll("rec", added, n, fs) = fs
    BY <1>1 DEF Dmx!ApplyAll
  <2>2. pids = {}
    BY <1>1 DEF Dmx!ToSet
  <2> HIDE DEF pids
  <2> QED BY <2>1, <2>2 DEF pids, PidsOf
<1>2. CASE added # <<>>
  <2>1. added[1][1] = "add"
    BY <1>2 DEF PidCalls
  <2> HIDE DEF f, pids
  <2>2. g.filter = f.filter /\ g.pids = IF f.filter = "none" THEN f.pids ELSE f.pids \cup pids
    BY <1>0 DEF Dmx!WithPids, FileShape
  <2> HIDE DEF g
  <2>3. Dmx!ApplyAll("rec", added, n, fs) = [fs EXCEPT ![n] = g]
    BY <1>2, <2>1 DEF Dmx!ApplyAll, f, g, pids
  <2>4. Dmx!ApplyAll("rec", added, n, fs)[n] = g
    BY <1>0, <2>3
  <2> QED BY <2>2, <2>4 DEF f, pids, PidsOf
<1> QED BY <1>1, <1>2

\* A filter call of the recording, whose list becomes list: what the ioctls leave is sound,
\* or the device is opened anew.
LEMMA RecFilters ==
  ASSUME DmxInv, RecInv, Dmx!May("rec"), NEW list \in Seq(Audio),
         NEW whats, whats = VideoCall \/ whats \in Seq(PidCalls),
         NEW d, ObjectShape(d), d.pesfds = list, d.fd = dmx["rec"].fd, d.todo = <<>>,
         NEW fs, Dmx!Filter("rec", whats, d, fs),
         ~doubled' => Dmx!IsInjective(list),
         ~moved /\ dmx["rec"].fd = -1 => list = <<>>,
         dmx["rec"].fd # -1 =>
           Filtered(list, Dmx!ApplyAll("rec", whats, dmx["rec"].fd, fs)[dmx["rec"].fd], moved, doubled')
  PROVE  RecInv'
<1> DEFINE n == dmx["rec"].fd
<1>1. /\ dmx = [p \in Dmx!Objects |-> dmx[p]] /\ "rec" \in Dmx!Objects
      /\ n \in Dmx!Fds \cup {-1}
  BY DEF DmxInv, DemuxShaped, Dmx!Objects
<1>2. ObjectShape(d) /\ d.pesfds = list /\ d.fd = n /\ d.todo = <<>>
  OBVIOUS
<1>3. Dmx!Filter("rec", whats, d, fs)
  OBVIOUS
<1>4. ASSUME files' = Dmx!ApplyAll("rec", whats, n, fs), dmx' = [dmx EXCEPT !["rec"] = d], UNCHANGED moved
      PROVE  RecInv'
  <2>1. dmx'["rec"] = d
    BY <1>1, <1>4
  <2>2. n # -1 => Filtered(list, files'[n], moved', doubled')
    BY <1>4
  <2>3. <<>> \in Seq(PidCalls) /\ (~moved' /\ n = -1 => list = <<>>)
    BY <1>4
  <2>4. RecSound(d, files', moved', doubled')
    BY <1>2, <2>2, <2>3 DEF RecSound
  <2> QED BY <2>1, <2>4 DEF RecInv
<1>5. ASSUME dmx' = [dmx EXCEPT !["rec"] = [d EXCEPT !.todo = whats]], whats # <<>>,
             moved' = (moved \/ ("rec" = "rec" /\ n > -1))
      PROVE  RecInv'
  <2> DEFINE e == [d EXCEPT !.todo = whats]
  <2>1. dmx'["rec"] = e
    BY <1>1, <1>5
  <2>2. e.pesfds = list /\ e.fd = n /\ e.todo = whats
    BY <1>2 DEF ObjectShape
  <2>3. ~moved' => ~moved /\ n = -1
    <3>1. n # -1 => n > -1
      BY <1>1 DEF Dmx!Fds
    <3>2. moved' = (moved \/ n > -1)
      BY <1>5
    <3> QED BY <3>1, <3>2
  <2> HIDE DEF e
  <2>4. RecSound(e, files', moved', doubled')
    BY <1>5, <2>2, <2>3 DEF RecSound
  <2> QED BY <2>1, <2>4 DEF RecInv
<1> QED BY <1>2, <1>3, <1>4, <1>5 DEF Dmx!Filter, Dmx!_open

\* addPid, of pids ps to a list, when the file has the filter of the list.
LEMMA PidsAdded ==
  ASSUME DmxInv, RecInv, Dmx!Recording, NEW list \in Seq(Audio), NEW ps \in Seq(Audio),
         NEW fs, FilesShaped(fs), Dmx!addPid(list, ps, fs),
         LET g == fs[dmx["rec"].fd]
         IN  /\ g.filter # "none" => Dmx!Video \in g.pids
             /\ ~moved => g.filter # "none"
             /\ ~moved /\ ~doubled => Dmx!ToSet(list) \subseteq g.pids
  PROVE  RecInv'
<1> DEFINE n   == dmx["rec"].fd
           joined == list \o ps
           adds == Dmx!Adds(ps)
           g   == fs[n]
           h   == Dmx!ApplyAll("rec", adds, n, fs)[n]
<1>1. n \in Dmx!Fds /\ n # -1 /\ Dmx!May("rec")
  BY DEF Dmx!Recording, DmxInv, DemuxShaped, Dmx!Objects
<1>2. adds \in Seq(PidCalls) /\ PidsOf(adds) = Dmx!ToSet(ps)
  <2>1. DOMAIN adds = 1 .. Len(ps) /\ \A i \in 1 .. Len(ps) : adds[i] = <<"add", ps[i]>> /\ ps[i] \in Audio
    BY DEF Dmx!Adds
  <2> HIDE DEF adds
  <2>2. \A i \in 1 .. Len(ps) : adds[i] \in PidCalls /\ adds[i][2] = ps[i]
    <3>1. \A a \in Audio : <<"add", a>> \in PidCalls /\ <<"add", a>>[2] = a
      BY DEF PidCalls
    <3> QED BY <2>1, <3>1
  <2>3. adds \in Seq(PidCalls)
    <3>1. adds = [i \in 1 .. Len(ps) |-> adds[i]]
      BY <2>1 DEF adds, Dmx!Adds
    <3> QED BY <2>2, <3>1
  <2>4. DOMAIN ps = 1 .. Len(ps)
    OBVIOUS
  <2> QED BY <2>1, <2>2, <2>3, <2>4 DEF Dmx!ToSet, PidsOf
<1>3. h.filter = g.filter /\ h.pids = IF g.filter = "none" THEN g.pids ELSE g.pids \cup Dmx!ToSet(ps)
  <2> HIDE DEF adds, n
  <2>1. n \in Dmx!Fds /\ adds \in Seq(PidCalls) /\ PidsOf(adds) = Dmx!ToSet(ps)
    BY <1>1, <1>2
  <2>2. h.filter = g.filter
    BY <2>1, PidsApplied
  <2>3. g.filter = "none" => h.pids = g.pids
    BY <2>1, PidsApplied
  <2>4. g.filter # "none" => h.pids = g.pids \cup PidsOf(adds)
    BY <2>1, PidsApplied
  <2> QED BY <2>1, <2>2, <2>3, <2>4
<1>4. joined \in Seq(Audio) /\ Dmx!ToSet(joined) = Dmx!ToSet(list) \cup Dmx!ToSet(ps)
  <2>1. joined \in Seq(Audio) /\ Len(joined) = Len(list) + Len(ps)
    OBVIOUS
  <2>2. \A i \in 1 .. Len(list) : joined[i] = list[i]
    OBVIOUS
  <2>3. \A i \in 1 .. Len(ps) : joined[Len(list) + i] = ps[i] /\ Len(list) + i \in 1 .. Len(joined)
    OBVIOUS
  <2>4. \A i \in 1 .. Len(joined) :
          i \in 1 .. Len(list) \/ (i - Len(list) \in 1 .. Len(ps) /\ Len(list) + (i - Len(list)) = i)
    OBVIOUS
  <2> HIDE DEF joined
  <2>5. DOMAIN joined = 1 .. Len(joined) /\ DOMAIN list = 1 .. Len(list) /\ DOMAIN ps = 1 .. Len(ps)
    BY <2>1
  <2>6. ASSUME NEW i \in 1 .. Len(joined) PROVE joined[i] \in Dmx!ToSet(list) \cup Dmx!ToSet(ps)
    <3>1. CASE i \in 1 .. Len(list)
      BY <2>2, <2>5, <3>1 DEF Dmx!ToSet
    <3>2. CASE i - Len(list) \in 1 .. Len(ps) /\ Len(list) + (i - Len(list)) = i
      <4>1. joined[i] = ps[i - Len(list)]
        BY <2>3, <3>2
      <4> QED BY <2>5, <3>2, <4>1 DEF Dmx!ToSet
    <3> QED BY <2>4, <3>1, <3>2
  <2>7. ASSUME NEW i \in 1 .. Len(list) PROVE list[i] \in Dmx!ToSet(joined)
    <3>1. i \in 1 .. Len(joined)
      BY <2>1
    <3> QED BY <2>2, <2>5, <3>1 DEF Dmx!ToSet
  <2>8. ASSUME NEW i \in 1 .. Len(ps) PROVE ps[i] \in Dmx!ToSet(joined)
    BY <2>3, <2>5 DEF Dmx!ToSet
  <2> QED BY <2>1, <2>5, <2>6, <2>7, <2>8 DEF Dmx!ToSet
<1> DEFINE d == [dmx["rec"] EXCEPT !.pesfds = joined]
<1>5. Dmx!Filter("rec", adds, d, fs) /\ doubled' = (doubled \/ ~Dmx!IsInjective(joined))
  BY DEF Dmx!addPid
<1>8. ObjectShape(d) /\ d.pesfds = joined /\ d.fd = n /\ d.todo = <<>>
  <2> HIDE DEF joined
  <2> QED BY <1>1 DEF ObjectShape, DmxInv, DemuxShaped, Dmx!Objects, Dmx!May
<1>6. ~doubled' => ~doubled /\ Dmx!IsInjective(joined)
  BY <1>5
<1>7. Filtered(joined, h, moved, doubled')
  <2> HIDE DEF g, h, joined
  <2> QED BY <1>3, <1>4, <1>6 DEF Filtered, g
<1> HIDE DEF joined, adds, h, d
<1> QED BY <1>1, <1>2, <1>4, <1>5, <1>6, <1>7, <1>8, RecFilters DEF h

\* What cRecord calls on the list of pids, and the filter of the video pid before it.
LEMMA RecordSteps ==
  ASSUME DmxInv, RecInv, Dmx!Assumptions, Dmx!RecordStep
  PROVE  RecInv'
<1> DEFINE n == dmx["rec"].fd
           f == files[n]
           list == Dmx!List
<1>1. /\ list \in Seq(Audio) /\ FilesShaped(files)
      /\ Dmx!Recording => n \in Dmx!Fds /\ n # -1 /\ Filtered(list, f, moved, doubled)
  BY DEF RecInv, RecSound, Dmx!List, Dmx!Recording, Dmx!May, DmxInv, DemuxShaped, Dmx!Objects
<1>2. ASSUME NEW s \in Dmx!PidLists PROVE s \in Seq(Audio)
  <2>1. PICK m \in 1 .. 2 : s \in [1 .. m -> Audio]
    BY <1>2 DEF Dmx!PidLists, Dmx!Injection
  <2> QED BY <2>1
<1>3. CASE \E s \in Dmx!PidLists : Dmx!StartAdds(s)
  <2>1. PICK s \in Dmx!PidLists : Dmx!StartAdds(s)
    BY <1>3
  <2>2. Dmx!Recording /\ f.filter # "none" /\ Dmx!addPid(<<>>, s, files)
    BY <2>1 DEF Dmx!StartAdds
  <2>3. f.filter # "none" => Dmx!Video \in f.pids
    BY <1>1, <2>2 DEF Filtered
  <2>4. <<>> \in Seq(Audio) /\ Dmx!ToSet(<<>>) = {} /\ s \in Seq(Audio)
    BY <1>2 DEF Dmx!ToSet
  <2> HIDE DEF f
  <2> QED BY <1>1, <2>2, <2>3, <2>4, PidsAdded DEF f
<1>4. CASE \E p \in Audio : Dmx!AddPid(p)
  <2>1. PICK p \in Audio : Dmx!AddPid(p)
    BY <1>4
  <2>2. Dmx!Recording /\ list # <<>> /\ Dmx!addPid(list, <<p>>, files)
    BY <2>1 DEF Dmx!AddPid
  <2>3. Filtered(list, f, moved, doubled)
    BY <1>1, <2>2
  <2>4. <<p>> \in Seq(Audio)
    OBVIOUS
  <2> HIDE DEF f, list
  <2> QED BY <1>1, <2>2, <2>3, <2>4, PidsAdded DEF f, Filtered
<1>5. CASE \E s \in Dmx!PidLists : Dmx!ChangePids(s)
  <2>1. PICK s \in Dmx!PidLists : Dmx!ChangePids(s)
    BY <1>5
  <2> DEFINE kept == Dmx!removeOthers(s)
             new  == Dmx!toAdd(s)
             gone == Dmx!ToSet(Dmx!Others) \ Dmx!ToSet(s)
             after(removes) == [files EXCEPT ![n] = Dmx!WithoutPids(@, removes)]
  <2>2. PICK removes \in {{}, gone} : Dmx!addPid(kept, new, after(removes))
    BY <2>1 DEF Dmx!ChangePids
  <2>3. Dmx!Recording /\ list # <<>>
    BY <2>1 DEF Dmx!ChangePids
  <2>4. Filtered(list, f, moved, doubled) /\ n \in Dmx!Fds
    BY <1>1, <2>3
  <2>5. kept \in Seq(Audio) /\ (Dmx!IsInjective(list) => Dmx!ToSet(kept) \subseteq Dmx!ToSet(list) \ gone)
    BY <1>1, <2>3, OthersRemoved
  <2>6. new \in Seq(Audio)
    BY <1>2, AddedTyped
  <2>7. ~doubled => Dmx!IsInjective(list)
    BY DEF RecInv, RecSound, Dmx!List
  <2>8. removes \subseteq gone /\ Dmx!Video \notin gone
    <3>1. Dmx!Others \in Seq(Audio)
      BY <1>1, <2>3 DEF Dmx!Others
    <3> QED BY <2>2, <3>1 DEF Dmx!Assumptions, Dmx!ToSet
  <2> DEFINE g == Dmx!WithoutPids(f, removes)
  <2>9. FileShape(g) /\ g.filter = f.filter /\ g.pids = f.pids \ removes
    <3>1. FileShape(f)
      BY <1>1, <2>4 DEF FilesShaped
    <3> HIDE DEF f
    <3> QED BY <3>1 DEF FileShape, Dmx!WithoutPids
  <2>10. after(removes) = [files EXCEPT ![n] = g]
    OBVIOUS
  <2> HIDE DEF g, after, f, kept, new, gone, list
  <2>11. FilesShaped(after(removes)) /\ after(removes)[n] = g
    BY <1>1, <2>4, <2>9, <2>10 DEF FilesShaped
  <2>12. /\ g.filter # "none" => Dmx!Video \in g.pids
         /\ ~moved => g.filter # "none"
         /\ ~moved /\ ~doubled => Dmx!ToSet(kept) \subseteq g.pids
    BY <2>3, <2>4, <2>5, <2>7, <2>8, <2>9 DEF Filtered
  <2> QED BY <2>2, <2>3, <2>5, <2>6, <2>11, <2>12, PidsAdded
<1> QED BY <1>3, <1>4, <1>5 DEF Dmx!RecordStep

\* The list, the number and the calls that wait are as they were, and so is the stream of the
\* recording's file.
LEMMA ListKept ==
  ASSUME RecInv, NEW d, dmx'["rec"] = d, UNCHANGED <<moved, doubled>>,
         d.fd = dmx["rec"].fd, d.pesfds = dmx["rec"].pesfds, d.todo = dmx["rec"].todo,
         d.todo = <<>> /\ d.fd # -1 =>
           files'[d.fd].filter = files[d.fd].filter /\ files'[d.fd].pids = files[d.fd].pids
  PROVE  RecInv'
<1>1. RecSound(dmx["rec"], files, moved, doubled)
  BY DEF RecInv
<1>2. RecSound(d, files', moved', doubled')
  BY <1>1 DEF RecSound, Filtered
<1> QED BY <1>2 DEF RecInv

\* A file that was just opened has no filter: the recording's list is empty by then, unless
\* the device was reopened.
LEMMA RecOpens ==
  ASSUME DmxInv, RecInv, Dmx!Assumptions, Dmx!OpenDevice("rec") \/ Dmx!_opened("rec")
  PROVE  RecInv'
<1> DEFINE d == dmx["rec"]
           n == Dmx!Least(Dmx!Free)
<1>1. /\ ObjectShape(d) /\ dmx = [p \in Dmx!Objects |-> dmx[p]] /\ "rec" \in Dmx!Objects
      /\ FilesShaped(files) /\ -1 \notin Dmx!Fds
  BY DEF DmxInv, DemuxShaped, Dmx!Objects, Dmx!Fds
<1>2. /\ d.pesfds \in Seq(Audio) /\ (~doubled => Dmx!IsInjective(d.pesfds))
      /\ d.todo = VideoCall \/ d.todo \in Seq(PidCalls)
      /\ ~moved /\ (d.fd = -1 \/ d.todo # <<>>) => d.pesfds = <<>>
  BY DEF RecInv, RecSound
<1>3. <<>> \in Seq(PidCalls) /\ Dmx!ToSet(<<>>) = {}
  BY DEF Dmx!ToSet
<1>4. ASSUME NEW e, dmx'["rec"] = e, UNCHANGED <<moved, doubled>>, d.fd = -1 \/ d.todo # <<>>,
             e.pesfds = d.pesfds, e.todo = VideoCall \/ e.todo \in Seq(PidCalls),
             e.todo = <<>> /\ e.fd # -1 => (files'[e.fd].filter # "none" => Dmx!Video \in files'[e.fd].pids)
      PROVE  RecInv'
  <2> HIDE DEF d
  <2>1. e.todo = <<>> /\ e.fd # -1 => Filtered(e.pesfds, files'[e.fd], moved', doubled')
    BY <1>2, <1>3, <1>4 DEF Filtered
  <2>2. RecSound(e, files', moved', doubled')
    BY <1>2, <1>4, <2>1 DEF RecSound
  <2> QED BY <1>4, <2>2 DEF RecInv
<1>5. CASE Dmx!OpenDevice("rec")
  <2> DEFINE g == [Dmx!NoFile EXCEPT !.owner = "rec", !.dev = 0]
  <2>1. UNCHANGED <<moved, doubled>> /\ d.todo = <<>> /\ d.fd = -1 /\ n \in Dmx!Fds
    BY <1>5, FreeNumber DEF Dmx!OpenDevice, Dmx!history, Dmx!May
  <2>2. PICK y \in Dmx!TypesOf("rec"), opens \in BOOLEAN :
          /\ dmx' = [dmx EXCEPT !["rec"].type = y, !["rec"].fd = IF opens THEN n ELSE -1]
          /\ files' = IF opens THEN [files EXCEPT ![n] = g] ELSE files
    BY <1>5 DEF Dmx!OpenDevice
  <2> DEFINE e == [d EXCEPT !.type = y, !.fd = IF opens THEN n ELSE -1]
  <2>3. dmx'["rec"] = e
    BY <1>1, <2>2
  <2>4. e.pesfds = d.pesfds /\ e.todo = d.todo /\ e.fd = IF opens THEN n ELSE -1
    BY <1>1 DEF ObjectShape
  <2>5. g.filter = "none"
    BY DEF Dmx!NoFile
  <2> HIDE DEF e, g, n
  <2>6. opens => files'[n] = g
    BY <1>1, <2>1, <2>2 DEF FilesShaped
  <2> QED BY <1>2, <1>4, <2>1, <2>3, <2>4, <2>5, <2>6
<1>6. CASE Dmx!_opened("rec")
  <2> DEFINE src == dmx_source[Dmx!unit["rec"]]
             g   == [Dmx!NoFile EXCEPT !.owner = "rec", !.dev = src]
             fs  == [files EXCEPT ![n] = g]
  <2>1. UNCHANGED <<moved, doubled>> /\ d.todo # <<>>
    BY <1>6 DEF Dmx!_opened, Dmx!history
  <2>2. CASE dmx' = [dmx EXCEPT !["rec"] = [d EXCEPT !.fd = -1, !.todo = Tail(@)]]
    <3> DEFINE e == [d EXCEPT !.fd = -1, !.todo = Tail(@)]
    <3>1. dmx'["rec"] = e
      BY <1>1, <2>2
    <3>2. e.pesfds = d.pesfds /\ e.todo = Tail(d.todo) /\ e.fd = -1
      BY <1>1 DEF ObjectShape
    <3>3. Tail(d.todo) \in Seq(PidCalls)
      <4>1. Tail(VideoCall) = <<>>
        BY DEF VideoCall
      <4>2. ASSUME NEW q \in Seq(PidCalls), q # <<>> PROVE Tail(q) \in Seq(PidCalls)
        BY <4>2
      <4> HIDE DEF d
      <4>3. CASE d.todo = VideoCall
        BY <1>3, <4>1, <4>3
      <4> QED BY <1>2, <2>1, <4>2, <4>3
    <3> HIDE DEF e, d
    <3> QED BY <1>4, <2>1, <3>1, <3>2, <3>3
  <2>3. ASSUME Dmx!Free # {}, files' = Dmx!ApplyAll("rec", d.todo, n, fs),
               dmx' = [dmx EXCEPT !["rec"] = [d EXCEPT !.fd = n, !.todo = <<>>, !.last_source = src]]
        PROVE  RecInv'
    <3> DEFINE e == [d EXCEPT !.fd = n, !.todo = <<>>, !.last_source = src]
    <3>1. dmx'["rec"] = e
      BY <1>1, <2>3
    <3>2. e.pesfds = d.pesfds /\ e.todo = <<>> /\ e.fd = n
      BY <1>1 DEF ObjectShape
    <3>3. n \in Dmx!Fds
      BY <2>3, FreeNumber
    <3>4. FileShape(g) /\ g.filter = "none"
      BY DEF FileShape, Dmx!NoFile
    <3> HIDE DEF e, g, n, d
    <3>5. FilesShaped(fs) /\ fs[n] = g
      BY <1>1, <3>3, <3>4 DEF FilesShaped
    <3> HIDE DEF fs
    <3>6. files'[n].filter # "none" => Dmx!Video \in files'[n].pids
      <4>1. CASE d.todo = VideoCall
        BY <2>3, <3>3, <3>4, <3>5, <4>1, VideoApplied
      <4>2. CASE d.todo \in Seq(PidCalls)
        BY <2>3, <3>3, <3>4, <3>5, <4>2, PidsApplied
      <4> QED BY <1>2, <4>1, <4>2
    <3> QED BY <1>3, <1>4, <2>1, <3>1, <3>2, <3>6
  <2> HIDE DEF fs, g
  <2> QED BY <1>6, <2>2, <2>3 DEF Dmx!_opened, fs, g
<1> QED BY <1>5, <1>6

\* The filter of the video pid, on an empty list.
LEMMA RecVideo ==
  ASSUME DmxInv, RecInv, Dmx!pesFilter("rec") \/ Dmx!pesFilter_pc("rec")
  PROVE  RecInv'
<1> DEFINE d == dmx["rec"]
           n == d.fd
           fs == Dmx!ApplyAll("rec", VideoCall, n, files)
<1>1. Dmx!May("rec") /\ d.pesfds = <<>> /\ Dmx!Filter("rec", VideoCall, d, files) /\ UNCHANGED doubled
  BY DEF Dmx!pesFilter, Dmx!pesFilter_pc, Dmx!Pes, VideoCall
<1>2. ObjectShape(d) /\ FilesShaped(files) /\ n \in Dmx!Fds \cup {-1} /\ d.todo = <<>>
  BY <1>1 DEF DmxInv, DemuxShaped, Dmx!Objects, Dmx!May
<1>4. <<>> \in Seq(Audio) /\ Dmx!ToSet(<<>>) = {} /\ (~doubled' => Dmx!IsInjective(<<>>))
  BY DEF Dmx!ToSet, Dmx!IsInjective
<1>5. n # -1 => Filtered(<<>>, fs[n], moved, doubled')
  <2> SUFFICES ASSUME n # -1 PROVE Filtered(<<>>, fs[n], moved, doubled')
    OBVIOUS
  <2>1. Filtered(<<>>, files[n], moved, doubled) /\ n \in Dmx!Fds
    BY <1>1, <1>2 DEF RecInv, RecSound
  <2> HIDE DEF n
  <2>2. fs[n] = files[n] \/ fs[n].pids = {Dmx!Video}
    BY <1>2, <2>1, VideoApplied
  <2> HIDE DEF fs
  <2> QED BY <1>4, <2>1, <2>2 DEF Filtered
<1> HIDE DEF fs
<1> QED BY <1>1, <1>2, <1>4, <1>5, RecFilters DEF fs

\* What the owner of the recording calls, the list of pids aside.
LEMMA RecSteps ==
  ASSUME DmxInv, RecInv, Dmx!Assumptions, Dmx!OwnerStep("rec")
  PROVE  RecInv'
<1> DEFINE d == dmx["rec"]
<1>1. /\ ObjectShape(d) /\ dmx = [p \in Dmx!Objects |-> dmx[p]] /\ "rec" \in Dmx!Objects
      /\ FilesShaped(files) /\ -1 \notin Dmx!Fds /\ d.fd \in Dmx!Fds \cup {-1}
  BY DEF DmxInv, DemuxShaped, Dmx!Objects, Dmx!Fds
<1>2. <<>> \in Seq(Audio) /\ <<>> \in Seq(PidCalls) /\ Dmx!IsInjective(<<>>)
  BY DEF Dmx!IsInjective
<1>3. CASE Dmx!New("rec")
  <2> DEFINE e == [Dmx!Fresh EXCEPT !.state = "live"]
  <2>1. dmx'["rec"] = e
    BY <1>1, <1>3 DEF Dmx!New
  <2>2. e.pesfds = <<>> /\ e.todo = <<>> /\ e.fd = -1
    BY DEF Dmx!Fresh
  <2> HIDE DEF e
  <2>3. RecSound(e, files', moved', doubled')
    BY <1>2, <2>2 DEF RecSound
  <2> QED BY <2>1, <2>3 DEF RecInv
<1>4. CASE Dmx!Open("rec") \/ Dmx!Deleted("rec")
  <2>1. UNCHANGED <<files, moved, doubled>>
    BY <1>4 DEF Dmx!Open, Dmx!Deleted, Dmx!history
  <2>2. PICK e : /\ dmx' = [dmx EXCEPT !["rec"] = e]
                 /\ e.fd = d.fd /\ e.pesfds = d.pesfds /\ e.todo = d.todo
    <3>1. CASE Dmx!Open("rec")
      <4>1. PICK y : dmx' = [dmx EXCEPT !["rec"].type = y]
        BY <3>1 DEF Dmx!Open
      <4> DEFINE e == [d EXCEPT !.type = y]
      <4>2. e.fd = d.fd /\ e.pesfds = d.pesfds /\ e.todo = d.todo
        BY <1>1 DEF ObjectShape
      <4>3. dmx' = [dmx EXCEPT !["rec"] = e]
        BY <4>1
      <4> HIDE DEF e, d
      <4> QED BY <4>2, <4>3
    <3>2. CASE Dmx!Deleted("rec")
      <4> DEFINE e == [d EXCEPT !.state = "gone"]
      <4>2. e.fd = d.fd /\ e.pesfds = d.pesfds /\ e.todo = d.todo
        BY <1>1 DEF ObjectShape
      <4>3. dmx' = [dmx EXCEPT !["rec"] = e]
        BY <3>2 DEF Dmx!Deleted
      <4> HIDE DEF e, d
      <4> QED BY <4>2, <4>3
    <3> QED BY <1>4, <3>1, <3>2
  <2>3. dmx'["rec"] = e
    BY <1>1, <2>2
  <2> QED BY <2>1, <2>2, <2>3, ListKept
<1>5. CASE Dmx!Start("rec") \/ Dmx!Stop("rec")
  <2>1. UNCHANGED <<dmx, moved, doubled>> /\ d.fd \in Dmx!Fds
    BY <1>1, <1>5 DEF Dmx!Start, Dmx!Stop, Dmx!history
  <2>2. PICK on : files' = [files EXCEPT ![d.fd].on = on]
    <3>1. \E on : files' = [files EXCEPT ![d.fd].on = on]
      BY <1>5 DEF Dmx!Start, Dmx!Stop
    <3> QED BY <3>1
  <2> DEFINE g == [files[d.fd] EXCEPT !.on = on]
  <2>3. g.filter = files[d.fd].filter /\ g.pids = files[d.fd].pids
    BY <1>1, <2>1 DEF FilesShaped, FileShape
  <2>4. files'[d.fd] = g
    BY <1>1, <2>1, <2>2 DEF FilesShaped
  <2> HIDE DEF g
  <2> QED BY <2>1, <2>3, <2>4, ListKept
<1>6. CASE Dmx!Delete("rec")
  <2> DEFINE e == [d EXCEPT !.pesfds = IF d.fd < 0 THEN @ ELSE <<>>, !.fd = -1, !.state = "closing"]
  <2>1. UNCHANGED <<moved, doubled>> /\ d.todo = <<>>
    BY <1>6 DEF Dmx!Delete, Dmx!May
  <2>2. dmx'["rec"] = e
    BY <1>1, <1>6 DEF Dmx!Delete, Dmx!Close
  <2>3. e.pesfds = (IF d.fd < 0 THEN d.pesfds ELSE <<>>) /\ e.fd = -1 /\ e.todo = d.todo
    BY <1>1 DEF ObjectShape
  <2>4. d.fd < 0 => d.fd = -1
    BY <1>1 DEF Dmx!Fds
  <2>5. RecSound(d, files, moved, doubled)
    BY DEF RecInv
  <2> HIDE DEF e, d
  <2>6. RecSound(e, files', moved', doubled')
    BY <1>2, <2>1, <2>3, <2>4, <2>5 DEF RecSound
  <2> QED BY <2>2, <2>6 DEF RecInv
<1> QED BY <1>3, <1>4, <1>5, <1>6, RecOpens, RecVideo DEF Dmx!OwnerStep

LEMMA InitRec ==
  ASSUME Dmx!Init
  PROVE  RecInv
<1> DEFINE e == Dmx!Fresh
<1>1. dmx["rec"] = e
  BY DEF Dmx!Init, Dmx!Objects
<1>2. e.pesfds = <<>> /\ e.todo = <<>> /\ e.fd = -1
  BY DEF Dmx!Fresh
<1>3. Dmx!IsInjective(<<>>) /\ <<>> \in Seq(Audio) /\ <<>> \in Seq(PidCalls)
  BY DEF Dmx!IsInjective
<1> HIDE DEF e
<1> QED BY <1>1, <1>2, <1>3 DEF RecInv, RecSound

LEMMA RecStep ==
  ASSUME DmxInv, RecInv, Dmx!Assumptions, Dmx!Next
  PROVE  RecInv'
<1>1. CASE \/ \E o \in Dmx!Objects : Dmx!ReadStep(o)
           \/ \E u \in {0, 1}, src \in Devices : Dmx!SetSource(u, src)
  <2>1. UNCHANGED <<dmx, files, moved, doubled>>
    BY <1>1 DEF Dmx!ReadStep, Dmx!ReadBegin, Dmx!ReadBegin_pc, Dmx!Begins, Dmx!Lock, Dmx!PollEnds,
         Dmx!Load, Dmx!Syscall, Dmx!ReadOnly, Dmx!SetSource, Dmx!history
  <2> QED BY <2>1, SparedRec DEF Spares
<1>2. CASE \/ Dmx!OwnerStep("tap") \/ Dmx!sectionFilter \/ Dmx!sectionFilter_pc \/ Dmx!OwnerCloses
  BY <1>2, TapSteps, SparedRec
<1>3. CASE Dmx!OwnerStep("rec")
  BY <1>3, RecSteps
<1>4. CASE Dmx!RecordStep
  BY <1>4, RecordSteps
<1> QED BY <1>1, <1>2, <1>3, <1>4 DEF Dmx!Next, Dmx!Objects

LEMMA RecStutter ==
  ASSUME DmxInv, RecInv, UNCHANGED <<files, dmx, moved, doubled>>
  PROVE  RecInv'
BY SparedRec DEF Spares

-----------------------------------------------------------------------------
(* The parts side by side.  What is `part' stays as it is chosen, and a step of  *)
(* one part leaves the variables of the others alone.                            *)

\* Content control goes on, or stands still, in every part.
LEMMA ControlStep ==
  ASSUME [MCNext]_all
  PROVE  part' = part /\ [Next]_vars /\ (part # "control" => UNCHANGED vars)
BY DEF MCNext, all

\* A step while the sessions are looked at is one of CISessions.
LEMMA SessionsStep ==
  ASSUME [MCNext]_all, part = "sessions"
  PROVE  part' = part /\ [Sessions!Next]_Sessions!vars
BY DEF MCNext, all, Sessions!vars, low

\* A step while live video is looked at is one of LiveVideo.
LEMMA LivePartStep ==
  ASSUME [MCNext]_all, part = "live"
  PROVE  part' = part /\ (Live!Next \/ UNCHANGED Live!vars)
BY DEF MCNext, all, Live!vars, Live!video, Live!link, live

\* A step while the demultiplexer is looked at is one of Demux.
LEMMA DmxStepHere ==
  ASSUME [MCNext]_all, part = "demux"
  PROVE  part' = part /\ (Dmx!Next \/ UNCHANGED <<library, files, dmx, reader, got, shut, moved, doubled>>)
BY DEF MCNext, all, demux

\* A step while the PC decoder is looked at is one of PcDecoder.
LEMMA DecoderStep ==
  ASSUME [MCNext]_all, part = "decoder"
  PROVE  part' = part /\ [Decoder!Next]_Decoder!vars
BY DEF MCNext, all, Decoder!vars, low, high

\* What is proved of content control by itself holds of it here.
THEOREM ControlIsContained == MCSpec => Spec
<1>1. MCInit => Init
  BY DEF MCInit
<1>2. [MCNext]_all => [Next]_vars
  BY ControlStep
<1> QED BY <1>1, <1>2, PTL DEF MCSpec, Spec

LiveInv == part = "live" => LInv

\* The invariant of LiveVideo holds wherever LiveVideo is looked at.
THEOREM LiveIsSound == MCSpec => []LiveInv
<1>1. MCInit => LiveInv
  BY InitLive, PartsAssumption DEF MCInit, LiveInv, Live!Assumptions
<1>2. LiveInv /\ [MCNext]_all => LiveInv'
  <2> SUFFICES ASSUME LiveInv, [MCNext]_all, part = "live" PROVE LInv'
    BY ControlStep DEF LiveInv
  <2>1. LInv /\ "none" \notin Keys
    BY PartsAssumption DEF LiveInv, Live!Assumptions
  <2> QED BY <2>1, LivePartStep, LiveStep, LiveStutter
<1> QED BY <1>1, <1>2, PTL DEF MCSpec

\* A unit whose playstate is PLAYING with an open device has a decoder that runs (video.cpp).
THEOREM PlayingAlwaysDecodes == MCSpec => []PlayingUnitDecodes
<1>1. LiveInv => PlayingUnitDecodes
  BY LivePlaying DEF LiveInv, PlayingUnitDecodes
<1> QED BY <1>1, LiveIsSound, PTL

\* A still picture on the screen has the flag that keeps Stop from taking it (video.cpp).
THEOREM StillIsAlwaysMarked == MCSpec => []StillIsMarked
<1>1. LiveInv => StillIsMarked
  BY DEF LiveInv, LInv, UnitsSound, StillIsMarked
<1> QED BY <1>1, LiveIsSound, PTL

\* The keys that are down are the one held on the remote control, unless a message was missed
\* (hdmi_cec.cpp).
THEOREM KeysAlwaysFollow == MCSpec => []KeysFollowRemote
<1>1. LiveInv => KeysFollowRemote
  BY LiveKeys DEF LiveInv, KeysFollowRemote
<1> QED BY <1>1, LiveIsSound, PTL

\* The power status the television is told is the one the box has (hdmi_cec.cpp).
THEOREM StatusIsAlwaysTrue == MCSpec => StatusIsTrue
<1>1. LiveInv /\ [MCNext]_all => (part = "live" => Live!TellsTrue)
  BY LivePartStep, LiveTellsTrue DEF LiveInv
<1> QED BY <1>1, LiveIsSound, PTL DEF MCSpec, StatusIsTrue

DemuxInv == part = "demux" => DmxInv

\* The invariant of Demux holds wherever the demultiplexer is looked at.
THEOREM DemuxIsSound == MCSpec => []DemuxInv
<1>1. MCInit => DemuxInv
  BY InitDemux DEF MCInit, DemuxInv
<1>2. DemuxInv /\ [MCNext]_all => DemuxInv'
  <2> SUFFICES ASSUME DemuxInv, [MCNext]_all, part = "demux" PROVE DmxInv'
    BY ControlStep DEF DemuxInv
  <2>1. DmxInv /\ Dmx!Assumptions
    BY PartsAssumption DEF DemuxInv
  <2> QED BY <2>1, DmxStepHere, DemuxStep, DemuxStutter
<1> QED BY <1>1, <1>2, PTL DEF MCSpec

\* A Read returns data of its own object, and one that holds the lock has an object
\* (cDemux::Read, Close and the destructor, dmx.cpp).
THEOREM ReadAlwaysHasItsObject == MCSpec => []ReadHasItsObject
<1>1. DemuxInv => ReadHasItsObject
  BY DEF DemuxInv, DmxInv, ReadHasItsObject
<1> QED BY <1>1, DemuxIsSound, PTL

StreamInv == part = "demux" => DmxInv /\ RecInv

\* A pid that cRecord has listed is in the stream that the device filters, and so is the video
\* pid, unless the device was reopened or a pid was added twice (addPid and removePid of dmx.cpp,
\* ChangePids of record.cpp).
THEOREM PidsAlwaysFiltered == MCSpec => []PidsAreFiltered
<1>1. MCInit => StreamInv
  BY InitDemux, InitRec DEF MCInit, StreamInv
<1>2. StreamInv /\ [MCNext]_all => StreamInv'
  <2> SUFFICES ASSUME StreamInv, [MCNext]_all, part = "demux" PROVE DmxInv' /\ RecInv'
    BY ControlStep DEF StreamInv
  <2>1. DmxInv /\ RecInv /\ Dmx!Assumptions
    BY PartsAssumption DEF StreamInv
  <2>2. Dmx!Next \/ UNCHANGED <<library, files, dmx, reader, got, shut, moved, doubled>>
    BY DmxStepHere
  <2>3. CASE Dmx!Next
    BY <2>1, <2>3, DemuxStep, RecStep
  <2>4. CASE UNCHANGED <<library, files, dmx, reader, got, shut, moved, doubled>>
    BY <2>1, <2>4, DemuxStutter, RecStutter
  <2> QED BY <2>2, <2>3, <2>4
<1>3. StreamInv => PidsAreFiltered
  <2>1. RecInv => Dmx!PidsAreFiltered
    BY DEF RecInv, RecSound, Filtered, Dmx!PidsAreFiltered
  <2> QED BY <2>1 DEF StreamInv, PidsAreFiltered
<1> QED BY <1>1, <1>2, <1>3, PTL DEF MCSpec

\* Host and module mean the same session by a number (dvbci_session.cpp): the theorem of
\* CISessions_proofs, among the parts.
THEOREM NumbersAgreeHere == MCSpec => []NumbersAgree
<1> DEFINE Here == part = "sessions"
<1>1. MCInit /\ Here => Sessions!Init
  BY DEF MCInit
<1>2. [MCNext]_all => (Here => Here') /\ (~Here => ~Here')
  BY ControlStep
<1>3. [MCNext]_all /\ Here => [Sessions!Next]_Sessions!vars
  BY SessionsStep
<1>4. Sessions!Spec => []Sessions!NumbersAgree
  BY PartsAssumption, Sessions!NumbersAlwaysAgree
<1>5. (Sessions!NumbersAgree => NumbersAgree) /\ (~Here => NumbersAgree)
  BY DEF NumbersAgree
<1> HIDE DEF Here
<1>6. MCSpec /\ Here => []NumbersAgree
  BY <1>1, <1>2, <1>3, <1>4, <1>5, PTL DEF MCSpec, Sessions!Spec
<1>7. MCSpec /\ ~Here => []NumbersAgree
  BY <1>2, <1>5, PTL DEF MCSpec
<1> QED BY <1>6, <1>7, PTL

\* The ring of the PC decoder counts right and a picture stays until it is drawn (video.cpp of
\* the PC): the theorems of PcDecoder_proofs, among the parts.
THEOREM RingIsSoundHere == MCSpec => []RingIsSound
<1> DEFINE Here == part = "decoder"
<1>1. MCInit /\ Here => Decoder!Init
  BY DEF MCInit
<1>2. [MCNext]_all => (Here => Here') /\ (~Here => ~Here')
  BY ControlStep
<1>3. [MCNext]_all /\ Here => [Decoder!Next]_Decoder!vars
  BY DecoderStep
<1>4. Decoder!Spec => []Decoder!RingIsSound /\ []Decoder!PictureStays
  BY PartsAssumption, Decoder!RingIsAlwaysSound, Decoder!PictureAlwaysStays
<1>5. (Decoder!RingIsSound /\ Decoder!PictureStays => RingIsSound) /\ (~Here => RingIsSound)
  BY DEF RingIsSound
<1> HIDE DEF Here
<1>6. MCSpec /\ Here => []RingIsSound
  BY <1>1, <1>2, <1>3, <1>4, <1>5, PTL DEF MCSpec, Decoder!Spec
<1>7. MCSpec /\ ~Here => []RingIsSound
  BY <1>2, <1>5, PTL DEF MCSpec
<1> QED BY <1>6, <1>7, PTL

\* One decoder thread at a time, none after Stop (video.cpp of the PC): the theorem of
\* PcDecoder_proofs, among the parts.
THEOREM OneDecoderHere == MCSpec => []OneDecoder
<1> DEFINE Here == part = "decoder"
<1>1. MCInit /\ Here => Decoder!Init
  BY DEF MCInit
<1>2. [MCNext]_all => (Here => Here') /\ (~Here => ~Here')
  BY ControlStep
<1>3. [MCNext]_all /\ Here => [Decoder!Next]_Decoder!vars
  BY DecoderStep
<1>4. Decoder!Spec => []Decoder!OneDecoder
  BY PartsAssumption, Decoder!OneDecoderAlways
<1>5. (Decoder!OneDecoder => OneDecoder) /\ (~Here => OneDecoder)
  BY DEF OneDecoder
<1> HIDE DEF Here
<1>6. MCSpec /\ Here => []OneDecoder
  BY <1>1, <1>2, <1>3, <1>4, <1>5, PTL DEF MCSpec, Decoder!Spec
<1>7. MCSpec /\ ~Here => []OneDecoder
  BY <1>2, <1>5, PTL DEF MCSpec
<1> QED BY <1>6, <1>7, PTL

\* The file of pairs implements the abstract store (dvbci_ccmgr.cpp): the refinement that is
\* proved of content control, among the parts.
THEOREM StoreIsKeptHere == MCSpec => StoreIsKept
<1>1. [AbstractStore!Next]_<<StoredPairs, cuts>>
        => [part = "control" => AbstractStore!Next]_<<StoredPairs, cuts>>
  OBVIOUS
<1> QED BY <1>1, ControlIsContained, FileIsStore, PTL DEF StoreIsKept, StoreSpec, AbstractStore!Spec
===============================================================================
