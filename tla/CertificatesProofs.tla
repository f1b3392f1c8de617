------------------------- MODULE CertificatesProofs -------------------------
(***************************************************************************)
(* Proofs about Certificates, for any consumers, thresholds and bounds.    *)
(*                                                                         *)
(* NoDowngrade holds if a need's callbacks run one at a time, crashes      *)
(* included: what a handler is about to move improves on what is there     *)
(* (Improves), and the key file is never the one that is missing, so that  *)
(* preStart replaces nothing but an unreadable certificate (KeysGood).     *)
(* PairMatches also needs that no crash hits a handler between its moves.  *)
(*                                                                         *)
(* NoOutage also needs that fewer disturbances happen than the probe's     *)
(* threshold has days. A certificate's margin is the days it has left and  *)
(* one for each disturbance so far. What a consumer serves has never less  *)
(* margin than that threshold: a day that takes one away ends only when    *)
(* the timer, the watchdog and the probes have put back what they guard,   *)
(* or a disturbance has kept them from it (DaysInv). That a host which has *)
(* fallen back to the placeholder gets the cluster certificate again is an *)
(* obligation that passes from its probe to the request, the answer, the   *)
(* callback and the installation, and that only a disturbance ends         *)
(* otherwise (QuietInv).                                                   *)
(***************************************************************************)
EXTENDS Certificates, TLAPS

\* No host crashes between the two moves of an installation, and the daemon
\* handles the callbacks of a need one at a time.
NoCrash == "crash" \notin Disturbances
NoOverlap == "overlap" \notin Disturbances

\* Then the second handler of a need is never at work.
Single == \A c \in Consumers : \A s \in Slots : s # 1 => install[c][s].at = "idle"

\* A handler moves nothing but a certificate with its own key, and there is
\* always a certificate's key on the disk.
KeysGood ==
    \A c \in Consumers :
        /\ disk[c].key \in Certs
        /\ \A s \in Slots : install[c][s].at # "idle" =>
             install[c][s].load.cert \in Certs /\ install[c][s].load.key = install[c][s].load.cert

\* What is about to be moved expires no earlier than what is there.
Improves ==
    \A c \in Consumers, s \in Slots :
        install[c][s].at = "cert" /\ disk[c].cert \in Certs => install[c][s].load.cert.exp >= disk[c].cert.exp

\* Between its moves a handler has put its certificate in place.
HalfWay ==
    \A c \in Consumers, s \in Slots : install[c][s].at = "key" => disk[c].cert = install[c][s].load.cert

IInv == TypeOK /\ KeysGood /\ (NoOverlap => Single)
----------------------------------------------------------------------------
(* Facts about the operators.                                              *)

\* The bounds, and the kinds of file content.
LEMMA Constants ==
    /\ Life \in Nat /\ RenewDays \in Nat /\ WatchdogDays \in Nat /\ FreshDays \in Nat /\ MaxDisturb \in Nat /\ MaxDay \in Nat
    /\ 1 < FreshDays /\ FreshDays < WatchdogDays /\ WatchdogDays < RenewDays /\ RenewDays < Life
    /\ Missing \notin Certs /\ Unreadable \notin Certs /\ Down \notin Certs
BY ConstantsAssumption

LEMMA DisturbType == ASSUME TypeOK, NEW kind, Disturb(kind) PROVE disturbed' \in 0 .. MaxDisturb /\ morning \in 0 .. disturbed'
BY Constants DEF TypeOK, Disturb

\* A certificate that is made today.
LEMMA NewCerts == ASSUME day \in 0 .. MaxDay PROVE Renewed \in Certs /\ Placeholder \in Certs
<1>1. day + Life \in Days /\ day + 1 \in Days
  BY Constants DEF Days
<1> QED BY <1>1 DEF Renewed, Placeholder, Certs

\* An order leaves a certificate and a key.
LEMMA OrderType ==
    ASSUME TypeOK, (Order /\ UNCHANGED disturbed) \/ OrderFails
    PROVE  /\ acme' \in [cert : Certs, key : Certs] /\ lego' \in {"idle", "key"}
           /\ disturbed' \in 0 .. MaxDisturb /\ morning \in 0 .. disturbed'
<1>1. CASE OrderFails
  BY <1>1, DisturbType DEF TypeOK, OrderFails
<1>2. CASE Order /\ UNCHANGED disturbed
  BY <1>2, NewCerts DEF TypeOK, Order
<1> QED BY <1>1, <1>2

\* preStart leaves a readable pair in the place of an unreadable certificate,
\* and nothing else is changed while there is a key.
LEMMA PreStartPair ==
    ASSUME day \in 0 .. MaxDay, NEW pair \in Pairs
    PROVE  /\ PreStart(pair) \in [cert : Certs, key : Files]
           /\ PreStart(pair) = pair \/ PreStart(pair) = [cert |-> Placeholder, key |-> Placeholder]
           /\ pair.key \in Certs /\ pair.cert \in Certs => PreStart(pair) = pair
BY NewCerts, Constants DEF PreStart, Pairs, Files

\* What nginx has loaded is a certificate, if it was one.
LEMMA ReloadedType ==
    ASSUME NEW now \in Certs \cup {Down}, NEW pair \in Pairs
    PROVE  Reloaded(now, pair) \in Certs \cup {Down}
BY DEF Reloaded, ValidatePair

\* One handler of one consumer changes.
LEMMA OneHandler ==
    ASSUME NEW f \in [Consumers -> [Slots -> Handlers]], NEW c \in Consumers, NEW s \in Slots, NEW x \in Handlers
    PROVE  /\ [f EXCEPT ![c][s] = x] \in [Consumers -> [Slots -> Handlers]]
           /\ [f EXCEPT ![c][s] = x][c][s] = x
           /\ \A t \in Slots : t # s => [f EXCEPT ![c][s] = x][c][t] = f[c][t]
           /\ \A d \in Consumers : d # c => [f EXCEPT ![c][s] = x][d] = f[d]
OBVIOUS

\* A handler that is at work has a payload.
LEMMA HandlerTypes ==
    ASSUME TypeOK, NEW c \in Consumers, NEW s \in Slots
    PROVE  /\ install[c][s] \in Handlers
           /\ install[c][s].at \in {"idle", "cert", "key"}
           /\ install[c][s].at # "idle" =>
                install[c][s] \in [at : {"cert", "key"}, load : Pairs] /\ install[c][s].load \in Pairs
<1>1. install[c][s] \in Handlers
  BY DEF TypeOK
<1> QED BY <1>1 DEF Handlers, Idle
----------------------------------------------------------------------------
(* The type invariant.                                                     *)

LEMMA InitType == Init => TypeOK /\ KeysGood
<1> SUFFICES ASSUME Init PROVE TypeOK /\ KeysGood
  OBVIOUS
<1>1. day = 0 /\ 0 \in 0 .. MaxDay /\ disturbed \in 0 .. MaxDisturb /\ morning \in 0 .. disturbed
  BY Constants DEF Init
<1>2. Renewed \in Certs /\ Placeholder \in Certs
  BY <1>1, NewCerts
<1>3. \A c \in Consumers : disk[c] = [cert |-> Placeholder, key |-> Placeholder]
  BY DEF Init, PreStart
<1>4. disk \in [Consumers -> Pairs] /\ \A c \in Consumers : disk[c].key = Placeholder
  BY <1>2, <1>3 DEF Init, Pairs, Files
<1>5. install \in [Consumers -> [Slots -> Handlers]] /\ \A c \in Consumers, s \in Slots : install[c][s].at = "idle"
  BY DEF Init, Handlers, Idle
<1>6. reading \in [cert : Files, to : SUBSET Consumers] /\ acme \in [cert : Certs, key : Certs]
  BY <1>2 DEF Init, Files
<1>7. TypeOK
  BY <1>1, <1>2, <1>4, <1>5, <1>6 DEF Init, TypeOK
<1> QED BY <1>2, <1>4, <1>5, <1>7 DEF KeysGood

\* The steps that touch neither a consumer's files nor its handlers.
Elsewhere ==
    \/ RenewTimer \/ Watchdog \/ OrderEnds \/ Wedge \/ HandlerReadsCert \/ HandlerReadsKey \/ BrokerRestarts \/ Tick
    \/ \E c \in Consumers : Probe(c) \/ \E m \in mail[c] : Lose(c, m)

LEMMA ElsewhereType == ASSUME TypeOK, Elsewhere PROVE TypeOK' /\ UNCHANGED <<disk, served, install>>
<1>1. ASSUME RenewTimer \/ Watchdog PROVE TypeOK' /\ UNCHANGED <<disk, served, install>>
  <2>1. /\ acme' \in [cert : Certs, key : Certs] /\ lego' \in {"idle", "key"}
        /\ disturbed' \in 0 .. MaxDisturb /\ morning \in 0 .. disturbed'
    BY <1>1, OrderType DEF RenewTimer, Watchdog, TypeOK
  <2>2. ran' \subseteq {"timer", "watchdog"} \cup Consumers
    BY <1>1 DEF RenewTimer, Watchdog, Job, TypeOK
  <2> QED BY <1>1, <2>1, <2>2 DEF RenewTimer, Watchdog, TypeOK, hostVars
<1>2. ASSUME OrderEnds \/ HandlerReadsCert PROVE TypeOK' /\ UNCHANGED <<disk, served, install>>
  BY <1>2 DEF OrderEnds, HandlerReadsCert, TypeOK, hostVars, Files
<1>3. ASSUME HandlerReadsKey PROVE TypeOK' /\ UNCHANGED <<disk, served, install>>
  <2>1. [cert |-> reading.cert, key |-> acme.key] \in Pairs
    BY DEF TypeOK, Pairs, Files
  <2>2. mail' \in [Consumers -> SUBSET Pairs]
    BY <1>3, <2>1 DEF HandlerReadsKey, TypeOK
  <2>3. reading' \in [cert : Files, to : SUBSET Consumers]
    BY <1>3 DEF HandlerReadsKey, Files
  <2> QED BY <1>3, <2>2, <2>3 DEF HandlerReadsKey, TypeOK, hostVars
<1>4. ASSUME BrokerRestarts \/ Wedge PROVE TypeOK' /\ UNCHANGED <<disk, served, install>>
  <2>1. disturbed' \in 0 .. MaxDisturb /\ morning \in 0 .. disturbed'
    BY <1>4, DisturbType DEF BrokerRestarts, Wedge
  <2>2. mail' \in [Consumers -> SUBSET Pairs]
    BY <1>4 DEF BrokerRestarts, Wedge, TypeOK
  <2>3. reading' \in [cert : Files, to : SUBSET Consumers]
    BY <1>4 DEF BrokerRestarts, Wedge, Files, TypeOK
  <2> QED BY <1>4, <2>1, <2>2, <2>3 DEF BrokerRestarts, Wedge, TypeOK, hostVars
<1>5. ASSUME Tick PROVE TypeOK' /\ UNCHANGED <<disk, served, install>>
  <2>1. day' \in 0 .. MaxDay
    BY <1>5, Constants DEF Tick, TypeOK
  <2> QED BY <1>5, <2>1 DEF Tick, TypeOK, brokerVars, hostVars
<1>6. ASSUME NEW c \in Consumers, Probe(c) PROVE TypeOK' /\ UNCHANGED <<disk, served, install>>
  <2>1. disturbed' \in 0 .. MaxDisturb /\ morning \in 0 .. disturbed'
    BY <1>6, DisturbType DEF Probe, TypeOK
  <2>2. pending' \subseteq known' /\ known' \subseteq Consumers /\ sat' \subseteq Consumers
    BY <1>6 DEF Probe, TypeOK
  <2>3. ran' \subseteq {"timer", "watchdog"} \cup Consumers
    BY <1>6 DEF Probe, Job, TypeOK
  <2> QED BY <1>6, <2>1, <2>2, <2>3 DEF Probe, TypeOK
<1>7. ASSUME NEW c \in Consumers, NEW m \in mail[c], Lose(c, m) PROVE TypeOK' /\ UNCHANGED <<disk, served, install>>
  <2>1. disturbed' \in 0 .. MaxDisturb /\ morning \in 0 .. disturbed'
    BY <1>7, DisturbType DEF Lose
  <2>2. mail' \in [Consumers -> SUBSET Pairs]
    BY <1>7 DEF Lose, TypeOK
  <2> QED BY <1>7, <2>1, <2>2 DEF Lose, TypeOK, hostVars
<1> QED BY <1>1, <1>2, <1>3, <1>4, <1>5, <1>6, <1>7 DEF Elsewhere

\* A callback starts a handler with a payload that passes the checks.
LEMMA CallbackType ==
    ASSUME TypeOK, NEW c \in Consumers, NEW s \in Slots, NEW m \in mail[c], Callback(c, s, m)
    PROVE  /\ TypeOK' /\ UNCHANGED <<disk, served, day>>
           /\ \/ UNCHANGED install
              \/ /\ ShouldInstall(m.cert, m.key, disk[c].cert)
                 /\ install[c][s].at = "idle"
                 /\ install' = [install EXCEPT ![c][s] = [at |-> "cert", load |-> m]]
<1>1. m \in Pairs
  BY DEF TypeOK
<1>2. [at |-> "cert", load |-> m] \in Handlers
  BY <1>1 DEF Handlers
<1>3. install' \in [Consumers -> [Slots -> Handlers]]
  <2>1. install \in [Consumers -> [Slots -> Handlers]]
    BY DEF TypeOK
  <2>2. [install EXCEPT ![c][s] = [at |-> "cert", load |-> m]] \in [Consumers -> [Slots -> Handlers]]
    BY <1>2, <2>1, OneHandler
  <2> QED BY <2>1, <2>2 DEF Callback
<1>4. /\ mail' \in [Consumers -> SUBSET Pairs] /\ sat' \subseteq Consumers
      /\ disturbed' \in 0 .. MaxDisturb /\ morning \in 0 .. disturbed'
  BY DisturbType DEF Callback, TypeOK
<1>5. TypeOK'
  BY <1>3, <1>4 DEF Callback, TypeOK
<1> QED BY <1>5 DEF Callback

\* The first move of a handler.
LEMMA MoveCertType ==
    ASSUME TypeOK, NEW c \in Consumers, NEW s \in Slots, MoveCert(c, s)
    PROVE  /\ TypeOK'
           /\ install[c][s].at = "cert"
           /\ disk'[c].cert = install[c][s].load.cert /\ disk'[c].key = disk[c].key
           /\ \A d \in Consumers : d # c => disk'[d] = disk[d]
           /\ install' = [install EXCEPT ![c][s] = [at |-> "key", load |-> install[c][s].load]]
<1>1. install[c][s].at = "cert" /\ install[c][s] \in [at : {"cert", "key"}, load : Pairs]
  BY HandlerTypes DEF MoveCert
<1>2. install[c][s].load \in Pairs /\ install[c][s].load.cert \in Files
  BY <1>1 DEF Pairs
<1>3. /\ disk' \in [Consumers -> Pairs] /\ disk'[c].cert = install[c][s].load.cert /\ disk'[c].key = disk[c].key
      /\ \A d \in Consumers : d # c => disk'[d] = disk[d]
  BY <1>2 DEF MoveCert, TypeOK, Pairs
<1>4. [install[c][s] EXCEPT !.at = "key"] = [at |-> "key", load |-> install[c][s].load]
  BY <1>1
<1>5. install' = [install EXCEPT ![c][s] = [at |-> "key", load |-> install[c][s].load]]
  BY <1>4 DEF MoveCert, TypeOK
<1>6. [at |-> "key", load |-> install[c][s].load] \in Handlers
  BY <1>2 DEF Handlers
<1>7. install' \in [Consumers -> [Slots -> Handlers]]
  BY <1>5, <1>6 DEF TypeOK
<1>8. TypeOK'
  BY <1>3, <1>7 DEF MoveCert, TypeOK, brokerVars
<1> QED BY <1>1, <1>3, <1>5, <1>8

\* The second move of a handler, with which it ends.
LEMMA MoveKeyType ==
    ASSUME TypeOK, NEW c \in Consumers, NEW s \in Slots, MoveKey(c, s)
    PROVE  /\ TypeOK'
           /\ install[c][s].at = "key"
           /\ disk'[c].key = install[c][s].load.key /\ disk'[c].cert = disk[c].cert
           /\ \A d \in Consumers : d # c => disk'[d] = disk[d]
           /\ install' = [install EXCEPT ![c][s] = Idle]
<1>1. install[c][s].at = "key" /\ install[c][s].load \in Pairs
  BY HandlerTypes DEF MoveKey
<1>2. install[c][s].load.key \in Files
  BY <1>1 DEF Pairs
<1>3. /\ disk' \in [Consumers -> Pairs] /\ disk'[c].key = install[c][s].load.key /\ disk'[c].cert = disk[c].cert
      /\ \A d \in Consumers : d # c => disk'[d] = disk[d]
  BY <1>2 DEF MoveKey, TypeOK, Pairs
<1>4. Reloaded(served[c], disk'[c]) \in Certs \cup {Down}
  BY <1>3, ReloadedType DEF TypeOK
<1>5. served' \in [Consumers -> Certs \cup {Down}]
  BY <1>4 DEF MoveKey, TypeOK
<1>6. install' \in [Consumers -> [Slots -> Handlers]] /\ install' = [install EXCEPT ![c][s] = Idle]
  BY DEF MoveKey, TypeOK, Handlers
<1>7. TypeOK'
  BY <1>3, <1>5, <1>6 DEF MoveKey, TypeOK, brokerVars
<1> QED BY <1>1, <1>3, <1>6, <1>7

\* A host that starts, or whose certificate is damaged.
LEMMA RebootType ==
    ASSUME TypeOK, NEW c \in Consumers, Reboot(c)
    PROVE  /\ TypeOK' /\ UNCHANGED day
           /\ disk'[c] = PreStart(disk[c]) /\ \A d \in Consumers : d # c => disk'[d] = disk[d]
           /\ \A s \in Slots : install'[c][s] = Idle
           /\ \A d \in Consumers : d # c => install'[d] = install[d]
<1>1. PreStart(disk[c]) \in Pairs
  BY PreStartPair DEF TypeOK, Pairs, Files
<1>2. disk' \in [Consumers -> Pairs] /\ disk'[c] = PreStart(disk[c]) /\ \A d \in Consumers : d # c => disk'[d] = disk[d]
  BY <1>1 DEF Reboot, TypeOK
<1>3. Reloaded(Down, disk'[c]) \in Certs \cup {Down}
  BY <1>2, ReloadedType
<1>4. served' \in [Consumers -> Certs \cup {Down}]
  BY <1>3 DEF Reboot, TypeOK
<1>5. [s \in Slots |-> Idle] \in [Slots -> Handlers]
  BY DEF Handlers
<1>6. /\ install' \in [Consumers -> [Slots -> Handlers]] /\ install'[c] = [s \in Slots |-> Idle]
      /\ \A d \in Consumers : d # c => install'[d] = install[d]
  BY <1>5 DEF Reboot, TypeOK
<1>7. disturbed' \in 0 .. MaxDisturb /\ morning \in 0 .. disturbed'
  BY DisturbType DEF Reboot
<1>8. TypeOK'
  BY <1>2, <1>4, <1>6, <1>7 DEF Reboot, TypeOK, brokerVars
<1> QED BY <1>2, <1>6, <1>8 DEF Reboot

LEMMA CorruptType ==
    ASSUME TypeOK, NEW c \in Consumers, Corrupt(c)
    PROVE  /\ TypeOK' /\ UNCHANGED install
           /\ disk'[c].cert = Unreadable /\ disk'[c].key = disk[c].key
           /\ \A d \in Consumers : d # c => disk'[d] = disk[d]
<1>1. /\ disk' \in [Consumers -> Pairs] /\ disk'[c].cert = Unreadable /\ disk'[c].key = disk[c].key
      /\ \A d \in Consumers : d # c => disk'[d] = disk[d]
  BY DEF Corrupt, TypeOK, Pairs, Files
<1>2. disturbed' \in 0 .. MaxDisturb /\ morning \in 0 .. disturbed'
  BY DisturbType DEF Corrupt
<1>3. TypeOK'
  BY <1>1, <1>2 DEF Corrupt, TypeOK, brokerVars
<1> QED BY <1>1, <1>3 DEF Corrupt

\* The kinds of step.
LEMMA Steps ==
    ASSUME Next
    PROVE  \/ Elsewhere
           \/ \E c \in Consumers : Reboot(c) \/ Corrupt(c)
           \/ \E c \in Consumers, s \in Slots : MoveCert(c, s) \/ MoveKey(c, s) \/ \E m \in mail[c] : Callback(c, s, m)
BY DEF Next, Broker, Consumer, Elsewhere

LEMMA NextType == TypeOK /\ [Next]_vars => TypeOK'
<1> SUFFICES ASSUME TypeOK, [Next]_vars PROVE TypeOK'
  OBVIOUS
<1>1. CASE UNCHANGED vars
  BY <1>1 DEF vars, brokerVars, hostVars, TypeOK
<1> QED BY <1>1, Steps, ElsewhereType, CallbackType, MoveCertType, MoveKeyType, RebootType, CorruptType

\* The type invariant: handlers hold a payload exactly while they are at work,
\* whatever is lost, corrupted or rebooted.
THEOREM TypeCorrect == Spec => []TypeOK
<1>1. Init => TypeOK
  BY InitType
<1> QED BY <1>1, NextType, PTL DEF Spec
----------------------------------------------------------------------------
(* The installed files.                                                    *)

\* Only a certificate with its own key is moved, by any number of handlers.
LEMMA NextKeys == TypeOK /\ KeysGood /\ [Next]_vars => KeysGood'
<1> SUFFICES ASSUME TypeOK, KeysGood, [Next]_vars PROVE KeysGood'
  OBVIOUS
<1>1. CASE UNCHANGED vars \/ Elsewhere
  <2>1. UNCHANGED <<disk, install>>
    BY <1>1, ElsewhereType DEF vars, hostVars
  <2> QED BY <2>1 DEF KeysGood
<1>2. ASSUME NEW c \in Consumers, NEW s \in Slots, NEW m \in mail[c], Callback(c, s, m) PROVE KeysGood'
  <2>1. CASE UNCHANGED install
    BY <1>2, <2>1, CallbackType DEF KeysGood
  <2>2. CASE /\ ShouldInstall(m.cert, m.key, disk[c].cert)
             /\ install' = [install EXCEPT ![c][s] = [at |-> "cert", load |-> m]]
    <3>1. m \in Pairs /\ m.cert \in Certs /\ m.key = m.cert
      BY <2>2 DEF TypeOK, ShouldInstall, ValidatePair, KeyMatches
    <3>2. /\ install'[c][s] = [at |-> "cert", load |-> m]
          /\ \A t \in Slots : t # s => install'[c][t] = install[c][t]
          /\ \A d \in Consumers : d # c => install'[d] = install[d]
      BY <2>2 DEF TypeOK
    <3>3. install'[c][s].load = m
      BY <3>2
    <3> QED BY <1>2, <3>1, <3>2, <3>3, CallbackType DEF KeysGood
  <2> QED BY <1>2, <2>1, <2>2, CallbackType
<1>3. ASSUME NEW c \in Consumers, NEW s \in Slots, MoveCert(c, s) PROVE KeysGood'
  <2>1. install' = [install EXCEPT ![c][s] = [at |-> "key", load |-> install[c][s].load]] /\ install[c][s].at = "cert"
    BY <1>3, MoveCertType
  <2>2. /\ install'[c][s] = [at |-> "key", load |-> install[c][s].load]
        /\ \A t \in Slots : t # s => install'[c][t] = install[c][t]
        /\ \A d \in Consumers : d # c => install'[d] = install[d]
    BY <2>1 DEF TypeOK
  <2>3. install'[c][s].load = install[c][s].load
    BY <2>2
  <2>4. \A d \in Consumers : disk'[d].key = disk[d].key
    BY <1>3, MoveCertType
  <2> QED BY <2>1, <2>2, <2>3, <2>4 DEF KeysGood
<1>4. ASSUME NEW c \in Consumers, NEW s \in Slots, MoveKey(c, s) PROVE KeysGood'
  <2>1. install' = [install EXCEPT ![c][s] = Idle] /\ install[c][s].at = "key"
    BY <1>4, MoveKeyType
  <2>2. /\ install'[c][s].at = "idle"
        /\ \A t \in Slots : t # s => install'[c][t] = install[c][t]
        /\ \A d \in Consumers : d # c => install'[d] = install[d]
    BY <2>1 DEF TypeOK, Idle
  <2>3. disk'[c].key \in Certs /\ \A d \in Consumers : d # c => disk'[d] = disk[d]
    <3>1. disk'[c].key = install[c][s].load.key /\ \A d \in Consumers : d # c => disk'[d] = disk[d]
      BY <1>4, MoveKeyType
    <3>2. install[c][s].load.key \in Certs
      BY <2>1 DEF KeysGood
    <3> QED BY <3>1, <3>2
  <2> QED BY <2>2, <2>3 DEF KeysGood
<1>5. ASSUME NEW c \in Consumers, Reboot(c) PROVE KeysGood'
  <2>1. disk'[c].key \in Certs
    BY <1>5, RebootType, PreStartPair, NewCerts DEF TypeOK, KeysGood
  <2> QED BY <1>5, <2>1, RebootType DEF KeysGood, Idle
<1>6. ASSUME NEW c \in Consumers, Corrupt(c) PROVE KeysGood'
  BY <1>6, CorruptType DEF KeysGood
<1> QED BY <1>1, <1>2, <1>3, <1>4, <1>5, <1>6, Steps

\* A callback finds the first handler of its need free, and no other starts.
LEMMA NextSingle == ASSUME NoOverlap, TypeOK, Single, [Next]_vars PROVE Single'
<1>1. CASE UNCHANGED vars \/ Elsewhere
  BY <1>1, ElsewhereType DEF vars, hostVars, Single
<1>2. ASSUME NEW c \in Consumers, NEW s \in Slots, NEW m \in mail[c], Callback(c, s, m) PROVE Single'
  <2>1. s = 1
    BY <1>2 DEF Callback, NoOverlap, Disturb, Working, Slots
  <2>2. CASE UNCHANGED install
    BY <2>2 DEF Single
  <2>3. CASE install' = [install EXCEPT ![c][s] = [at |-> "cert", load |-> m]]
    <3>1. /\ \A t \in Slots : t # s => install'[c][t] = install[c][t]
          /\ \A d \in Consumers : d # c => install'[d] = install[d]
      BY <2>3 DEF TypeOK
    <3> QED BY <2>1, <3>1 DEF Single
  <2> QED BY <1>2, <2>2, <2>3, CallbackType
<1>3. ASSUME NEW c \in Consumers, NEW s \in Slots, MoveCert(c, s) \/ MoveKey(c, s) PROVE Single'
  <2>1. s = 1
    BY <1>3 DEF MoveCert, MoveKey, Single
  <2>2. /\ \A t \in Slots : t # s => install'[c][t] = install[c][t]
        /\ \A d \in Consumers : d # c => install'[d] = install[d]
    BY <1>3 DEF MoveCert, MoveKey, TypeOK
  <2> SUFFICES ASSUME NEW d \in Consumers, NEW t \in Slots, t # 1 PROVE install'[d][t].at = "idle"
    BY DEF Single
  <2>3. install'[d][t] = install[d][t]
    BY <2>1, <2>2
  <2> QED BY <2>3 DEF Single
<1>4. ASSUME NEW c \in Consumers, Reboot(c) \/ Corrupt(c) PROVE Single'
  BY <1>4, RebootType, CorruptType DEF Single, Idle
<1> QED BY <1>1, <1>2, <1>3, <1>4, Steps

\* With one handler at a time the certificate on the disk only improves.
LEMMA NextImproves ==
    ASSUME NoOverlap, IInv, IInv', Improves, [Next]_vars
    PROVE  /\ Improves'
           /\ \A c \in Consumers :
                disk[c].cert \in Certs /\ disk'[c].cert \in Certs => disk'[c].cert.exp >= disk[c].cert.exp
<1> DEFINE NotWorse(c) == disk[c].cert \in Certs /\ disk'[c].cert \in Certs => disk'[c].cert.exp >= disk[c].cert.exp
<1>1. Single
  BY DEF IInv
<1>2. \A x \in Certs : x.exp >= x.exp
  BY Constants DEF Certs, Days
<1>3. CASE UNCHANGED vars \/ Elsewhere
  <2>1. UNCHANGED <<disk, install>>
    BY <1>3, ElsewhereType DEF vars, hostVars, IInv
  <2> QED BY <1>2, <2>1 DEF Improves
<1>4. ASSUME NEW c \in Consumers, NEW s \in Slots, NEW m \in mail[c], Callback(c, s, m)
      PROVE  Improves' /\ \A d \in Consumers : NotWorse(d)
  <2>1. UNCHANGED disk
    BY <1>4, CallbackType DEF IInv
  <2>2. CASE UNCHANGED install
    BY <1>2, <2>1, <2>2 DEF Improves
  <2>3. CASE /\ ShouldInstall(m.cert, m.key, disk[c].cert)
             /\ install' = [install EXCEPT ![c][s] = [at |-> "cert", load |-> m]]
    <3>1. disk[c].cert \in Certs => m.cert.exp >= disk[c].cert.exp
      BY <2>3 DEF ShouldInstall
    <3>2. /\ install'[c][s] = [at |-> "cert", load |-> m]
          /\ \A t \in Slots : t # s => install'[c][t] = install[c][t]
          /\ \A d \in Consumers : d # c => install'[d] = install[d]
      BY <2>3 DEF IInv, TypeOK
    <3>3. install'[c][s].load = m
      BY <3>2
    <3> QED BY <1>2, <2>1, <3>1, <3>2, <3>3 DEF Improves
  <2> QED BY <1>4, <2>2, <2>3, CallbackType DEF IInv
<1>5. ASSUME NEW c \in Consumers, NEW s \in Slots, MoveCert(c, s)
      PROVE  Improves' /\ \A d \in Consumers : NotWorse(d)
  <2>1. /\ install' = [install EXCEPT ![c][s] = [at |-> "key", load |-> install[c][s].load]]
        /\ install[c][s].at = "cert" /\ disk'[c].cert = install[c][s].load.cert
        /\ \A d \in Consumers : d # c => disk'[d] = disk[d]
    BY <1>5, MoveCertType DEF IInv
  <2>2. /\ install'[c][s] = [at |-> "key", load |-> install[c][s].load]
        /\ \A t \in Slots : t # s => install'[c][t] = install[c][t]
        /\ \A d \in Consumers : d # c => install'[d] = install[d]
    BY <2>1 DEF IInv, TypeOK
  <2>3. \A t \in Slots : install'[c][t].at # "cert"
    BY <1>1, <2>1, <2>2 DEF Single
  <2>4. Improves'
    BY <2>1, <2>2, <2>3 DEF Improves
  <2> QED BY <1>2, <2>1, <2>4 DEF Improves
<1>6. ASSUME NEW c \in Consumers, NEW s \in Slots, MoveKey(c, s)
      PROVE  Improves' /\ \A d \in Consumers : NotWorse(d)
  <2>1. /\ install' = [install EXCEPT ![c][s] = Idle] /\ disk'[c].cert = disk[c].cert
        /\ \A d \in Consumers : d # c => disk'[d] = disk[d]
    BY <1>6, MoveKeyType DEF IInv
  <2>2. /\ install'[c][s].at = "idle"
        /\ \A t \in Slots : t # s => install'[c][t] = install[c][t]
        /\ \A d \in Consumers : d # c => install'[d] = install[d]
    BY <2>1 DEF IInv, TypeOK, Idle
  <2> QED BY <1>2, <2>1, <2>2 DEF Improves
<1>7. ASSUME NEW c \in Consumers, Reboot(c)
      PROVE  Improves' /\ \A d \in Consumers : NotWorse(d)
  <2>1. /\ disk'[c] = PreStart(disk[c]) /\ \A d \in Consumers : d # c => disk'[d] = disk[d]
        /\ \A s \in Slots : install'[c][s].at = "idle"
        /\ \A d \in Consumers : d # c => install'[d] = install[d]
    BY <1>7, RebootType DEF IInv, Idle
  <2>2. disk[c].cert \in Certs => disk'[c] = disk[c]
    BY <2>1, PreStartPair DEF IInv, TypeOK, KeysGood
  <2> QED BY <1>2, <2>1, <2>2 DEF Improves
<1>8. ASSUME NEW c \in Consumers, Corrupt(c)
      PROVE  Improves' /\ \A d \in Consumers : NotWorse(d)
  BY <1>2, <1>8, CorruptType, Constants DEF Improves, IInv
<1> QED BY <1>3, <1>4, <1>5, <1>6, <1>7, <1>8, Steps

LEMMA InitImproves == Init => IInv /\ Improves
<1>1. Init => Improves
  BY DEF Init, Improves, Idle
<1>2. Init => Single
  BY DEF Init, Single, Idle
<1> QED BY <1>1, <1>2, InitType DEF IInv

LEMMA NextIInv == IInv /\ [Next]_vars => IInv'
BY NextType, NextKeys, NextSingle DEF IInv, NoOverlap

\* With one callback of a need at a time, a readable certificate is never
\* replaced by one that expires earlier: not by a late push, a repeated answer
\* or a host that crashes inside an installation (ssl.nix's handler compares
\* with what is there before it moves).
THEOREM NeverDowngraded == NoOverlap => (Spec => NoDowngrade)
<1> SUFFICES ASSUME NoOverlap PROVE Spec => NoDowngrade
  OBVIOUS
<1>1. IInv /\ IInv' /\ Improves /\ [Next]_vars => Improves'
  BY NextImproves
<1>2. IInv /\ IInv' /\ Improves /\ [Next]_vars =>
        [\A c \in Consumers :
           disk[c].cert \in Certs /\ disk'[c].cert \in Certs => disk'[c].cert.exp >= disk[c].cert.exp]_vars
  BY NextImproves
<1> QED BY <1>1, <1>2, InitImproves, NextIInv, PTL DEF Spec, NoDowngrade

LEMMA NextPairs ==
    ASSUME NoOverlap, NoCrash, IInv, IInv', PairMatches, HalfWay, [Next]_vars
    PROVE  PairMatches' /\ HalfWay'
<1>1. Single /\ Slots = {1, 2}
  BY DEF IInv, Slots
<1>2. CASE UNCHANGED vars \/ Elsewhere
  <2>1. UNCHANGED <<disk, install>>
    BY <1>2, ElsewhereType DEF vars, hostVars, IInv
  <2> QED BY <2>1 DEF PairMatches, HalfWay, Working
<1>3. ASSUME NEW c \in Consumers, NEW s \in Slots, NEW m \in mail[c], Callback(c, s, m) PROVE PairMatches' /\ HalfWay'
  <2>1. UNCHANGED disk
    BY <1>3, CallbackType DEF IInv
  <2>2. CASE UNCHANGED install
    BY <2>1, <2>2 DEF PairMatches, HalfWay, Working
  <2>3. CASE /\ install[c][s].at = "idle"
             /\ install' = [install EXCEPT ![c][s] = [at |-> "cert", load |-> m]]
    <3>1. /\ install'[c][s].at = "cert"
          /\ \A t \in Slots : t # s => install'[c][t] = install[c][t]
          /\ \A d \in Consumers : d # c => install'[d] = install[d]
      BY <2>3 DEF IInv, TypeOK
    <3> QED BY <2>1, <3>1 DEF PairMatches, HalfWay, Working
  <2> QED BY <1>3, <2>2, <2>3, CallbackType DEF IInv
<1>4. ASSUME NEW c \in Consumers, NEW s \in Slots, MoveCert(c, s) PROVE PairMatches' /\ HalfWay'
  <2>1. /\ install' = [install EXCEPT ![c][s] = [at |-> "key", load |-> install[c][s].load]]
        /\ disk'[c].cert = install[c][s].load.cert
        /\ \A d \in Consumers : d # c => disk'[d] = disk[d]
    BY <1>4, MoveCertType DEF IInv
  <2>2. /\ install'[c][s] = [at |-> "key", load |-> install[c][s].load]
        /\ \A t \in Slots : t # s => install'[c][t] = install[c][t]
        /\ \A d \in Consumers : d # c => install'[d] = install[d]
    BY <2>1 DEF IInv, TypeOK
  <2>3. install'[c][s].at = "key" /\ install'[c][s].load = install[c][s].load
    BY <2>2
  <2>4. \A t \in Slots : t # s => install'[c][t].at = "idle"
    BY <1>1, <1>4, <2>2 DEF Single, MoveCert
  <2> QED BY <2>1, <2>2, <2>3, <2>4 DEF PairMatches, HalfWay, Working
<1>5. ASSUME NEW c \in Consumers, NEW s \in Slots, MoveKey(c, s) PROVE PairMatches' /\ HalfWay'
  <2>1. /\ install' = [install EXCEPT ![c][s] = Idle] /\ install[c][s].at = "key"
        /\ disk'[c].key = install[c][s].load.key /\ disk'[c].cert = disk[c].cert
        /\ \A d \in Consumers : d # c => disk'[d] = disk[d]
    BY <1>5, MoveKeyType DEF IInv
  <2>2. /\ install'[c][s].at = "idle"
        /\ \A t \in Slots : t # s => install'[c][t] = install[c][t]
        /\ \A d \in Consumers : d # c => install'[d] = install[d]
    BY <2>1 DEF IInv, TypeOK, Idle
  <2>3. disk'[c].key = disk'[c].cert
    BY <2>1 DEF HalfWay, IInv, KeysGood
  <2>4. \A t \in Slots : t # s => install'[c][t].at = "idle"
    BY <1>1, <2>1, <2>2 DEF Single
  <2> QED BY <2>1, <2>2, <2>3, <2>4 DEF PairMatches, HalfWay, Working
<1>6. ASSUME NEW c \in Consumers, Reboot(c) PROVE PairMatches' /\ HalfWay'
  <2>1. /\ disk'[c] = PreStart(disk[c]) /\ \A d \in Consumers : d # c => disk'[d] = disk[d]
        /\ \A s \in Slots : install'[c][s].at = "idle"
        /\ \A d \in Consumers : d # c => install'[d] = install[d]
    BY <1>6, RebootType DEF IInv, Idle
  <2>2. ~Working(c)
    BY <1>6 DEF Reboot, NoCrash, Disturb
  <2>3. disk[c] \in Pairs /\ (disk[c].cert \in Certs => disk[c].key = disk[c].cert)
    BY <2>2 DEF PairMatches, IInv, TypeOK
  <2>4. disk'[c].cert \in Certs => disk'[c].key = disk'[c].cert
    <3>1. PICK p : p = disk'[c]
      OBVIOUS
    <3>2. p = disk[c] \/ p = [cert |-> Placeholder, key |-> Placeholder]
      BY <2>1, <2>3, <3>1, PreStartPair DEF IInv, TypeOK
    <3>3. p.cert \in Certs => p.key = p.cert
      BY <2>3, <3>2
    <3> QED BY <3>1, <3>3
  <2> QED BY <2>1, <2>4 DEF PairMatches, HalfWay, Working
<1>7. ASSUME NEW c \in Consumers, Corrupt(c) PROVE PairMatches' /\ HalfWay'
  <2>1. \A s \in Slots : install'[c][s].at = "idle"
    BY <1>7, CorruptType DEF IInv, Corrupt, Working
  <2> QED BY <1>7, <2>1, CorruptType, Constants DEF PairMatches, HalfWay, Working, IInv
<1> QED BY <1>2, <1>3, <1>4, <1>5, <1>6, <1>7, Steps

LEMMA InitPairs == Init => PairMatches /\ HalfWay
<1> SUFFICES ASSUME Init PROVE PairMatches /\ HalfWay
  OBVIOUS
<1>1. \A c \in Consumers : disk[c] = [cert |-> Placeholder, key |-> Placeholder]
  BY DEF Init, PreStart
<1>2. \A c \in Consumers, s \in Slots : install[c][s].at = "idle"
  BY DEF Init, Idle
<1> QED BY <1>1, <1>2 DEF PairMatches, HalfWay

\* With one callback of a need at a time, and no crash between its two moves,
\* every installed key belongs to its certificate, although the broker's
\* handler reads the two files one after the other while lego replaces them.
THEOREM PairsMatch == NoOverlap /\ NoCrash => (Spec => []PairMatches)
<1> SUFFICES ASSUME NoOverlap, NoCrash PROVE Spec => []PairMatches
  OBVIOUS
<1>1. IInv /\ IInv' /\ PairMatches /\ HalfWay /\ [Next]_vars => PairMatches' /\ HalfWay'
  BY NextPairs
<1> QED BY <1>1, InitPairs, InitImproves, NextIInv, PTL DEF Spec
----------------------------------------------------------------------------
(* No outage: the days that are left, against the disturbances.            *)

\* Fewer disturbances than days the probe asks for.
FewDisturbances == MaxDisturb < FreshDays

\* The days a certificate has left, and one for each disturbance so far.
Margin(x) == x.exp - day + disturbed

\* The handler of a consumer that takes its callbacks one at a time.
Handler(c) == install[c][1]

\* The broker's certificate: while nothing has gone wrong the timer renews it,
\* afterwards a day that brings it closer to its end costs a disturbance.
BrokerInv ==
    /\ lego = "idle" => acme.key = acme.cert
    /\ acme.cert.exp <= day + Life
    /\ disturbed = 0 => ~wedged /\ Remaining(acme.cert) >= (IF "timer" \in ran THEN RenewDays ELSE RenewDays - 1)
    /\ disturbed > 0 => Margin(acme.cert) >= (IF "watchdog" \in ran THEN WatchdogDays + 1 ELSE WatchdogDays)

\* A certificate on its way to a consumer is no newer than the broker's, and
\* has more days left than the probe asks for.
Carried(x) == x \in Certs => x.exp <= acme.cert.exp /\ Margin(x) >= FreshDays + 1

FlightInv ==
    /\ reading.to # {} => reading.cert \in Certs /\ Carried(reading.cert)
    /\ reading.to \subseteq known
    /\ \A c \in Consumers :
        /\ \A m \in mail[c] : Carried(m.cert)
        /\ mail[c] # {} => c \in known
        /\ Handler(c).at # "idle" => Carried(Handler(c).load.cert) /\ c \in known

\* nginx has what is on the disk, unless that is damaged or just being moved.
DiskInv ==
    \A c \in Consumers :
        /\ disturbed = 0 => disk[c].cert \in Certs
        /\ disk[c].cert \in Certs => disk[c].cert.exp <= acme.cert.exp
        /\ disk[c].cert \in Certs /\ Handler(c).at # "key" => served[c] = disk[c].cert
        /\ served[c] # Down
        /\ served[c].ca => c \in known

\* The broker's certificate will be in the consumer's hands today.
Coming(c) ==
    \/ lego = "key" /\ c \in known
    \/ c \in pending
    \/ c \in reading.to /\ reading.cert = acme.cert
    \/ [cert |-> acme.cert, key |-> acme.cert] \in mail[c]
    \/ Handler(c).at # "idle" /\ Handler(c).load.cert.exp = acme.cert.exp

\* What a consumer serves: while nothing has gone wrong, a certificate as good
\* as the broker's at the end of the day; afterwards it gets closer to its end
\* only by a disturbance a day.
Serves(c) ==
    /\ disturbed = 0 /\ c \in known => served[c].exp = acme.cert.exp \/ Coming(c)
    /\ disturbed = 0 /\ Handler(c).at # "idle" => Coming(c)
    /\ served[c].ca => Margin(served[c]) >= FreshDays
    /\ served[c].ca /\ disturbed > 0 /\ c \in ran =>
         Margin(served[c]) >= FreshDays + 1 \/ Coming(c) \/ Handler(c).at # "idle"

ServedInv == \A c \in Consumers : Serves(c)

\* The inductive invariant on top of the pairs.
DaysInv == BrokerInv /\ FlightInv /\ DiskInv /\ ServedInv

\* Days are numbers.
LEMMA Numbers ==
    ASSUME TypeOK
    PROVE  /\ day \in Nat /\ disturbed \in Nat /\ disturbed <= MaxDisturb
           /\ acme.cert \in Certs /\ acme.key \in Certs
           /\ \A x \in Certs : x.exp \in Nat
BY Constants DEF TypeOK, Certs, Days

\* The broker's certificate outlasts the probe's threshold and the day.
LEMMA BrokerLasts ==
    ASSUME TypeOK, BrokerInv
    PROVE  /\ Margin(acme.cert) >= FreshDays + 1
           /\ disturbed = 0 => Margin(acme.cert) >= WatchdogDays
           /\ FewDisturbances => Remaining(acme.cert) > 1
<1>1. acme.cert.exp \in Nat /\ day \in Nat /\ disturbed \in Nat /\ disturbed <= MaxDisturb
  BY Numbers
<1>2. disturbed = 0 => Remaining(acme.cert) >= RenewDays - 1
  BY <1>1, Constants DEF BrokerInv, Remaining
<1>3. disturbed > 0 => Margin(acme.cert) >= WatchdogDays
  BY <1>1, Constants DEF BrokerInv, Margin
<1> QED BY <1>1, <1>2, <1>3, Constants DEF Margin, Remaining, FewDisturbances

LEMMA OneSlot ==
    ASSUME NoOverlap, IInv
    PROVE  \A c \in Consumers : /\ Working(c) <=> Handler(c).at # "idle"
                                /\ \A s \in Slots : install[c][s].at # "idle" => s = 1
<1>1. Single /\ 1 \in Slots
  BY DEF IInv, Slots
<1> QED BY <1>1 DEF Single, Working, Handler

\* A certificate that travels well goes on doing so within the day.
LEMMA CarriedStays ==
    ASSUME TypeOK, TypeOK', day' = day, disturbed' >= disturbed, acme'.cert.exp >= acme.cert.exp, NEW x, Carried(x)
    PROVE  Carried(x)'
<1>1. /\ acme.cert.exp \in Nat /\ acme'.cert.exp \in Nat /\ day \in Nat /\ disturbed \in Nat /\ disturbed' \in Nat
  BY Numbers, Constants DEF TypeOK, Certs, Days
<1>2. ASSUME x \in Certs PROVE x.exp <= acme'.cert.exp /\ x.exp - day' + disturbed' >= FreshDays + 1
  <2>1. x.exp \in Nat
    BY <1>2, Numbers
  <2> QED BY <1>1, <1>2, <2>1, Constants DEF Carried, Margin
<1> QED BY <1>2 DEF Carried, Margin

\* Nothing is put on its way.
LEMMA FlightStays ==
    ASSUME TypeOK, TypeOK', FlightInv, day' = day, disturbed' >= disturbed, acme'.cert.exp >= acme.cert.exp,
           UNCHANGED install, known \subseteq known', \A c \in Consumers : mail'[c] \subseteq mail[c],
           reading' = reading \/ reading'.to = {}
    PROVE  FlightInv'
<1>1. \A x : Carried(x) => Carried(x)'
  BY CarriedStays
<1>2. (reading.to # {} => reading.cert \in Certs /\ Carried(reading.cert))'
  BY <1>1 DEF FlightInv, Carried, Margin
<1>3. reading'.to \subseteq known'
  BY DEF FlightInv
<1>4. ASSUME NEW c \in Consumers
      PROVE  (/\ \A m \in mail[c] : Carried(m.cert)
              /\ mail[c] # {} => c \in known
              /\ Handler(c).at # "idle" => Carried(Handler(c).load.cert) /\ c \in known)'
  <2>1. \A m \in mail'[c] : Carried(m.cert)'
    BY <1>1 DEF FlightInv
  <2>2. Handler(c)' = Handler(c)
    BY DEF Handler
  <2>3. Handler(c).at # "idle" => Carried(Handler(c).load.cert)'
    BY <1>1, <2>2 DEF FlightInv, Carried, Margin
  <2> QED BY <2>1, <2>2, <2>3 DEF FlightInv, Carried, Margin
<1> QED BY <1>2, <1>3, <1>4 DEF FlightInv

LEMMA DiskStays ==
    ASSUME TypeOK, TypeOK', DiskInv, UNCHANGED <<disk, served, install>>, known \subseteq known',
           disturbed' >= disturbed, acme'.cert.exp >= acme.cert.exp
    PROVE  DiskInv'
<1>1. acme.cert.exp \in Nat /\ acme'.cert.exp \in Nat
  BY Numbers, Constants DEF TypeOK, Certs, Days
<1>2. \A c \in Consumers : disk[c].cert \in Certs => disk[c].cert.exp <= acme'.cert.exp
  BY <1>1, Numbers DEF DiskInv
<1>3. disturbed' = 0 => disturbed = 0
  BY Constants DEF TypeOK
<1> QED BY <1>2, <1>3 DEF DiskInv, Handler

\* A disturbance pays for what has come closer to its end.
LEMMA Paid ==
    ASSUME TypeOK, TypeOK', DaysInv, day' = day, disturbed' = disturbed + 1, UNCHANGED <<acme, lego>>,
           \A c \in Consumers : served'[c] = served[c] \/ ~served'[c].ca
    PROVE  BrokerInv' /\ ServedInv'
<1>1. acme.cert.exp \in Nat /\ day \in Nat /\ disturbed \in Nat
  BY Numbers
<1>2. BrokerInv'
  <2>1. Margin(acme.cert)' = Margin(acme.cert) + 1
    BY <1>1 DEF Margin
  <2>2. Margin(acme.cert) >= WatchdogDays
    BY BrokerLasts, <1>1, Constants DEF DaysInv, BrokerInv, Margin
  <2>3. Margin(acme.cert) \in Int
    BY <1>1 DEF Margin
  <2> QED BY <1>1, <2>1, <2>2, <2>3, Constants DEF DaysInv, BrokerInv
<1>3. ASSUME NEW c \in Consumers, served'[c].ca PROVE Margin(served[c])' >= FreshDays + 1
  <2>1. served[c] \in Certs /\ served'[c] = served[c]
    BY <1>3 DEF TypeOK, DaysInv, DiskInv
  <2>2. served[c].exp \in Nat /\ Margin(served[c]) >= FreshDays
    BY <1>3, <2>1, Numbers DEF DaysInv, ServedInv, Serves
  <2> QED BY <1>1, <2>1, <2>2, Constants DEF Margin
<1>4. ASSUME NEW c \in Consumers, served'[c].ca PROVE Margin(served[c])' >= FreshDays
  <2>1. served[c] \in Certs /\ served'[c] = served[c]
    BY <1>4 DEF TypeOK, DaysInv, DiskInv
  <2>2. served[c].exp \in Nat
    BY <2>1, Numbers
  <2> QED BY <1>1, <1>3, <1>4, <2>1, <2>2, Constants DEF Margin
<1>5. disturbed' # 0
  BY <1>1
<1>6. ServedInv'
  BY <1>3, <1>4, <1>5 DEF ServedInv, Serves
<1> QED BY <1>2, <1>6

\* What is served stays as it is, and what is coming goes on coming.
LEMMA ServedStays ==
    ASSUME TypeOK, ServedInv, UNCHANGED <<day, morning, disturbed, served, ran, known, install>>, NEW c \in Consumers,
           acme'.cert = acme.cert, Coming(c) => Coming(c)'
    PROVE  Serves(c)'
BY DEF ServedInv, Serves, Margin, Handler

\* Whoever is to get something is known to the broker.
LEMMA ComingKnown == ASSUME TypeOK, FlightInv, NEW c \in Consumers, Coming(c) PROVE c \in known
BY DEF TypeOK, FlightInv, Coming

\* The broker's steps bring on what is coming.
LEMMA ComingStays ==
    ASSUME TypeOK, DaysInv, NEW c \in Consumers, Coming(c),
           RenewTimer \/ Watchdog \/ OrderEnds \/ HandlerReadsCert \/ HandlerReadsKey
    PROVE  Coming(c)'
<1>1. c \in known
  BY ComingKnown DEF DaysInv
<1>2. CASE RenewTimer \/ Watchdog
  <2>1. UNCHANGED <<known, pending, reading, mail, install>> /\ (lego' = "key" \/ UNCHANGED <<acme, lego>>)
    BY <1>2 DEF RenewTimer, Watchdog, Order, OrderFails, hostVars
  <2> QED BY <1>1, <2>1 DEF Coming, Handler
<1>3. CASE OrderEnds
  BY <1>1, <1>3 DEF OrderEnds, Coming
<1>4. CASE HandlerReadsCert
  BY <1>4 DEF HandlerReadsCert, Coming, Handler, hostVars
<1>5. CASE HandlerReadsKey
  <2>1. UNCHANGED <<acme, lego, known, pending, install>>
    BY <1>5 DEF HandlerReadsKey, hostVars
  <2>2. /\ mail[c] \subseteq mail'[c]
        /\ c \in reading.to => [cert |-> reading.cert, key |-> acme.key] \in mail'[c]
    BY <1>5 DEF HandlerReadsKey
  <2>3. lego # "key" => acme.key = acme.cert
    BY DEF DaysInv, BrokerInv, TypeOK
  <2> QED BY <1>1, <2>1, <2>2, <2>3 DEF Coming, Handler
<1> QED BY <1>2, <1>3, <1>4, <1>5

\* An order, by the timer or by the watchdog.
LEMMA OrderDays == ASSUME TypeOK, TypeOK', DaysInv, RenewTimer \/ Watchdog PROVE DaysInv'
<1>1. /\ UNCHANGED <<day, morning, wedged, known, pending, reading, mail, disk, served, install>>
      /\ ran \subseteq ran' /\ \A c \in Consumers : c \in ran' => c \in ran
      /\ "timer" \in ran' /\ "timer" \notin ran => RenewTimer
      /\ "watchdog" \in ran' /\ "watchdog" \notin ran => Watchdog
  BY ConstantsAssumption DEF RenewTimer, Watchdog, Job, hostVars
<1>2. /\ acme.cert.exp \in Nat /\ acme'.cert.exp \in Nat /\ day \in Nat /\ disturbed \in Nat
      /\ acme.cert \in Certs
  BY Numbers, Constants DEF TypeOK, Certs, Days
<1>3. CASE OrderFails
  <2>1. disturbed' = disturbed + 1 /\ UNCHANGED <<acme, lego>>
    BY <1>3 DEF OrderFails, Disturb
  <2>2. BrokerInv' /\ ServedInv'
    BY <1>1, <2>1, Paid
  <2>3. FlightInv' /\ DiskInv'
    BY <1>1, <1>2, <2>1, FlightStays, DiskStays DEF DaysInv
  <2> QED BY <2>2, <2>3 DEF DaysInv
<1>4. CASE Order /\ UNCHANGED disturbed /\ Remaining(acme.cert) < RenewDays
  <2>1. lego' = "key" /\ acme'.cert = Renewed /\ acme'.cert.exp = day + Life
    BY <1>4 DEF Order, TypeOK, Renewed
  <2>2. acme'.cert.exp >= acme.cert.exp
    BY <1>2, <2>1, Constants DEF DaysInv, BrokerInv
  <2>3. BrokerInv'
    <3>1. Remaining(acme.cert)' = Life /\ Margin(acme.cert)' = Life + disturbed
      BY <1>1, <1>2, <1>4, <2>1, Constants DEF Remaining, Margin
    <3> QED BY <1>1, <1>2, <1>4, <2>1, <3>1, Constants DEF DaysInv, BrokerInv
  <2>4. FlightInv' /\ DiskInv'
    BY <1>1, <1>2, <1>4, <2>2, FlightStays, DiskStays DEF DaysInv
  <2>5. ServedInv'
    <3> SUFFICES ASSUME NEW c \in Consumers PROVE Serves(c)'
      BY DEF ServedInv
    <3>1. c \in known => Coming(c)'
      BY <1>1, <2>1 DEF Coming
    <3>2. (Handler(c).at # "idle" => c \in known) /\ (served[c].ca => c \in known)
      BY DEF DaysInv, FlightInv, DiskInv
    <3>3. served[c].ca => Margin(served[c])' >= FreshDays
      BY <1>1, <1>4 DEF DaysInv, ServedInv, Serves, Margin
    <3> QED BY <1>1, <3>1, <3>2, <3>3 DEF Serves, Handler
  <2> QED BY <2>3, <2>4, <2>5 DEF DaysInv
<1>5. CASE UNCHANGED <<acme, lego, disturbed>> /\ ~(Order /\ Remaining(acme.cert) < RenewDays) /\ ~OrderFails
  <2>1. RenewTimer => Remaining(acme.cert) >= RenewDays
    BY <1>2, <1>5, Constants DEF RenewTimer, Order, Remaining
  <2>2. Watchdog => Remaining(acme.cert) >= WatchdogDays
    BY <1>2, <1>5, Constants DEF Watchdog, Order, DecideRenewal, Remaining
  <2>3. BrokerInv'
    <3>1. Remaining(acme.cert)' = Remaining(acme.cert) /\ Margin(acme.cert)' = Margin(acme.cert)
          /\ Margin(acme.cert) = Remaining(acme.cert) + disturbed /\ Remaining(acme.cert) \in Int
      BY <1>1, <1>2, <1>5 DEF Remaining, Margin
    <3>2. disturbed = 0 => Remaining(acme.cert) >= (IF "timer" \in ran' THEN RenewDays ELSE RenewDays - 1)
      BY <1>1, <2>1 DEF DaysInv, BrokerInv
    <3>3. disturbed > 0 => Margin(acme.cert) >= (IF "watchdog" \in ran' THEN WatchdogDays + 1 ELSE WatchdogDays)
      BY <1>1, <1>2, <2>2, <3>1, Constants DEF DaysInv, BrokerInv
    <3> QED BY <1>1, <1>5, <3>1, <3>2, <3>3 DEF DaysInv, BrokerInv
  <2>4. FlightInv' /\ DiskInv'
    BY <1>1, <1>2, <1>5, FlightStays, DiskStays DEF DaysInv
  <2>5. ServedInv'
    BY <1>1, <1>5 DEF DaysInv, ServedInv, Serves, Margin, Coming, Handler
  <2> QED BY <2>3, <2>4, <2>5 DEF DaysInv
<1>6. OrderFails \/ UNCHANGED disturbed
  BY DEF RenewTimer, Watchdog
<1>7. OrderFails \/ (Order /\ UNCHANGED disturbed) \/ UNCHANGED <<acme, lego, disturbed>>
  BY DEF RenewTimer, Watchdog
<1>8. Order => Remaining(acme.cert) < RenewDays \/ UNCHANGED <<acme, lego>>
  BY DEF Order
<1> QED BY <1>3, <1>4, <1>5, <1>7, <1>8

\* The renewed key is there: everyone known is answered again.
LEMMA OrderEndsDays == ASSUME TypeOK, TypeOK', DaysInv, OrderEnds PROVE DaysInv'
<1>1. /\ UNCHANGED <<day, morning, ran, wedged, known, reading, mail, disk, served, install, disturbed>>
      /\ acme'.cert = acme.cert /\ acme'.key = acme.cert /\ pending' = known
  BY DEF OrderEnds, hostVars, TypeOK
<1>2. acme.cert.exp \in Nat /\ disturbed \in Nat
  BY Numbers
<1>3. BrokerInv'
  BY <1>1 DEF DaysInv, BrokerInv, Remaining, Margin
<1>4. FlightInv' /\ DiskInv'
  BY <1>1, <1>2, FlightStays, DiskStays DEF DaysInv
<1>5. ASSUME NEW c \in Consumers PROVE Serves(c)'
  <2>1. Coming(c) => Coming(c)'
    BY ComingStays
  <2> QED BY <1>1, <2>1, ServedStays DEF DaysInv
<1> QED BY <1>3, <1>4, <1>5 DEF DaysInv, ServedInv

\* The broker's handler reads the certificate.
LEMMA ReadsCertDays == ASSUME TypeOK, TypeOK', DaysInv, HandlerReadsCert PROVE DaysInv'
<1>1. /\ UNCHANGED <<day, morning, ran, acme, lego, wedged, known, mail, disk, served, install, disturbed>>
      /\ reading.to = {} /\ reading'.cert = acme.cert /\ reading'.to = pending
  BY DEF HandlerReadsCert, hostVars
<1>2. acme.cert \in Certs /\ acme.cert.exp \in Nat /\ disturbed \in Nat
  BY Numbers
<1>3. BrokerInv' /\ DiskInv'
  BY <1>1 DEF DaysInv, BrokerInv, DiskInv, Remaining, Margin, Handler
<1>4. FlightInv'
  <2>1. \A x : Carried(x)' <=> Carried(x)
    BY <1>1 DEF Carried, Margin
  <2>2. Carried(acme.cert)
    BY <1>2, BrokerLasts DEF Carried, DaysInv
  <2>3. (reading.to # {} => reading.cert \in Certs /\ Carried(reading.cert))'
    BY <1>1, <1>2, <2>2 DEF Carried, Margin
  <2>4. reading'.to \subseteq known'
    BY <1>1 DEF TypeOK
  <2>5. ASSUME NEW c \in Consumers
        PROVE  (/\ \A m \in mail[c] : Carried(m.cert)
                /\ mail[c] # {} => c \in known
                /\ Handler(c).at # "idle" => Carried(Handler(c).load.cert) /\ c \in known)'
    BY <1>1 DEF DaysInv, FlightInv, Carried, Margin, Handler
  <2> QED BY <2>3, <2>4, <2>5 DEF FlightInv
<1>5. ASSUME NEW c \in Consumers PROVE Serves(c)'
  <2>1. Coming(c) => Coming(c)'
    BY ComingStays
  <2> QED BY <1>1, <2>1, ServedStays DEF DaysInv
<1> QED BY <1>3, <1>4, <1>5 DEF DaysInv, ServedInv

\* It reads the key, and the answers go out.
LEMMA ReadsKeyDays == ASSUME TypeOK, TypeOK', DaysInv, HandlerReadsKey PROVE DaysInv'
<1> DEFINE load == [cert |-> reading.cert, key |-> acme.key]
<1>1. /\ UNCHANGED <<day, morning, ran, acme, lego, wedged, known, pending, disk, served, install, disturbed>>
      /\ reading.to # {} /\ reading'.to = {}
      /\ \A c \in Consumers : mail'[c] = IF c \in reading.to THEN mail[c] \cup {load} ELSE mail[c]
  BY DEF HandlerReadsKey, hostVars
<1>2. BrokerInv' /\ DiskInv'
  BY <1>1 DEF DaysInv, BrokerInv, DiskInv, Remaining, Margin, Handler
<1>3. FlightInv'
  <2>1. Carried(reading.cert) /\ load.cert = reading.cert
    BY <1>1 DEF DaysInv, FlightInv
  <2>2. ASSUME NEW c \in Consumers
        PROVE  (/\ \A m \in mail[c] : Carried(m.cert)
                /\ mail[c] # {} => c \in known
                /\ Handler(c).at # "idle" => Carried(Handler(c).load.cert) /\ c \in known)'
    <3>1. \A m \in mail'[c] : Carried(m.cert)
      BY <1>1, <2>1 DEF DaysInv, FlightInv
    <3>2. \A m \in mail'[c] : Carried(m.cert)'
      BY <1>1, <3>1 DEF Carried, Margin
    <3>3. mail'[c] # {} => c \in known'
      BY <1>1 DEF DaysInv, FlightInv
    <3>4. (Handler(c).at # "idle" => Carried(Handler(c).load.cert) /\ c \in known)'
      BY <1>1 DEF DaysInv, FlightInv, Carried, Margin, Handler
    <3> QED BY <3>2, <3>3, <3>4
  <2> QED BY <1>1, <2>2 DEF FlightInv
<1>4. ASSUME NEW c \in Consumers PROVE Serves(c)'
  <2>1. Coming(c) => Coming(c)'
    BY ComingStays
  <2> QED BY <1>1, <2>1, ServedStays DEF DaysInv
<1> QED BY <1>2, <1>3, <1>4 DEF DaysInv, ServedInv

\* Disturbances of the broker and of the mail.
LEMMA DisturbedDays ==
    ASSUME TypeOK, TypeOK', DaysInv, Wedge \/ BrokerRestarts \/ \E c \in Consumers : \E m \in mail[c] : Lose(c, m)
    PROVE  DaysInv'
<1>1. /\ UNCHANGED <<day, morning, ran, acme, lego, known, disk, served, install>> /\ disturbed' = disturbed + 1
      /\ \A c \in Consumers : mail'[c] \subseteq mail[c]
      /\ reading' = reading \/ reading'.to = {}
  BY DEF Wedge, BrokerRestarts, Lose, Disturb, hostVars, TypeOK
<1>2. acme.cert.exp \in Nat /\ disturbed \in Nat
  BY Numbers
<1>3. BrokerInv' /\ ServedInv'
  BY <1>1, Paid
<1>4. FlightInv' /\ DiskInv'
  BY <1>1, <1>2, FlightStays, DiskStays DEF DaysInv
<1> QED BY <1>3, <1>4 DEF DaysInv

\* Nothing has been asked for yet.
LEMMA InitDays == Init => DaysInv
<1> SUFFICES ASSUME Init PROVE DaysInv
  OBVIOUS
<1>1. day = 0 /\ disturbed = 0 /\ ran = {} /\ wedged = FALSE /\ lego = "idle" /\ known = {} /\ reading.to = {}
  BY DEF Init
<1>2. acme.cert = [ca |-> TRUE, exp |-> Life] /\ acme.key = acme.cert
  BY Constants, <1>1 DEF Init, Renewed
<1>3. Placeholder = [ca |-> FALSE, exp |-> 1] /\ Placeholder \in Certs
  BY <1>1, NewCerts, Constants DEF Placeholder
<1>4. \A c \in Consumers : disk[c] = [cert |-> Placeholder, key |-> Placeholder] /\ served[c] = Placeholder
  BY DEF Init, PreStart
<1>5. \A c \in Consumers : mail[c] = {} /\ Handler(c).at = "idle"
  <2>1. 1 \in Slots
    BY DEF Slots
  <2> QED BY <2>1 DEF Init, Handler, Idle
<1>6. acme.cert.exp = Life /\ Placeholder.exp = 1 /\ Placeholder.ca = FALSE
  BY <1>2, <1>3
<1>7. BrokerInv
  BY <1>1, <1>2, <1>6, Constants DEF BrokerInv, Remaining
<1>8. FlightInv
  BY <1>1, <1>5 DEF FlightInv
<1>9. DiskInv
  <2> SUFFICES ASSUME NEW c \in Consumers
               PROVE  /\ disk[c].cert \in Certs /\ disk[c].cert.exp <= acme.cert.exp
                      /\ served[c] = disk[c].cert /\ served[c] # Down /\ ~served[c].ca
    BY DEF DiskInv
  <2>1. disk[c].cert = Placeholder /\ served[c] = Placeholder
    BY <1>4
  <2>2. acme.cert.exp = Life /\ 1 <= Life
    BY <1>6, Constants
  <2>3. Placeholder # Down
    BY <1>3, Constants
  <2> QED BY <1>3, <1>6, <2>1, <2>2, <2>3
<1>10. ServedInv
  BY <1>1, <1>4, <1>5, <1>6 DEF ServedInv, Serves
<1> QED BY <1>7, <1>8, <1>9, <1>10 DEF DaysInv

\* A day ends when everything that was coming has come.
LEMMA TickDays == ASSUME NoOverlap, IInv, TypeOK', DaysInv, Tick PROVE DaysInv'
<1> USE DEF IInv
<1>1. /\ UNCHANGED <<acme, lego, wedged, known, pending, reading, mail, disk, served, install, disturbed>>
      /\ day' = day + 1 /\ ran' = {} /\ Jobs \subseteq ran
      /\ lego = "idle" /\ pending = {} /\ reading.to = {}
  BY DEF Tick, DayDone, brokerVars, hostVars
<1>2. \A c \in Consumers : mail[c] = {} /\ Handler(c).at = "idle"
  BY OneSlot DEF Tick, DayDone
<1>3. \A c \in Consumers : ~Coming(c) /\ c \in ran
  BY <1>1, <1>2 DEF Coming, Jobs
<1>4. acme.cert.exp \in Nat /\ day \in Nat /\ disturbed \in Nat
  BY Numbers
<1>5. disturbed = 0 => Remaining(acme.cert) >= RenewDays
  BY <1>1 DEF DaysInv, BrokerInv, Jobs
<1>6. BrokerInv'
  <2>1. /\ Remaining(acme.cert)' = Remaining(acme.cert) - 1 /\ Margin(acme.cert)' = Margin(acme.cert) - 1
        /\ Remaining(acme.cert) \in Int /\ Margin(acme.cert) \in Int
    BY <1>1, <1>4 DEF Remaining, Margin
  <2>2. disturbed > 0 => Margin(acme.cert) >= WatchdogDays + 1
    BY <1>1 DEF DaysInv, BrokerInv, Jobs
  <2>3. acme.cert.exp <= day' + Life
    BY <1>1, <1>4, Constants DEF DaysInv, BrokerInv
  <2> QED BY <1>1, <1>5, <2>1, <2>2, <2>3, Constants DEF DaysInv, BrokerInv
<1>7. FlightInv'
  BY <1>1, <1>2 DEF FlightInv, Handler
<1>8. DiskInv'
  BY <1>1 DEF DaysInv, DiskInv, Handler
<1>9. ASSUME NEW c \in Consumers PROVE Serves(c)'
  <2>1. disturbed = 0 /\ c \in known => served[c].exp = acme.cert.exp
    BY <1>3 DEF DaysInv, ServedInv, Serves
  <2>2. ASSUME served[c].ca PROVE Margin(served[c])' >= FreshDays
    <3>1. served[c] \in Certs /\ c \in known
      BY <2>2 DEF TypeOK, DaysInv, DiskInv
    <3>2. served[c].exp \in Nat
      BY <3>1, Numbers
    <3>3. CASE disturbed = 0
      BY <1>1, <1>4, <1>5, <2>1, <3>1, <3>2, <3>3, Constants DEF Margin, Remaining
    <3>4. CASE disturbed # 0
      <4>1. Margin(served[c]) >= FreshDays + 1
        BY <1>2, <1>3, <1>4, <2>2, <3>4 DEF DaysInv, ServedInv, Serves
      <4> QED BY <1>1, <1>4, <3>2, <4>1, Constants DEF Margin
    <3> QED BY <3>3, <3>4
  <2> QED BY <1>1, <1>2, <2>1, <2>2 DEF Serves, Handler
<1> QED BY <1>6, <1>7, <1>8, <1>9 DEF DaysInv, ServedInv

\* The daily probe: it asks for a certificate, or finds the disk's fresh.
LEMMA ProbeDays == ASSUME TypeOK, TypeOK', DaysInv, NEW c \in Consumers, Probe(c) PROVE DaysInv'
<1>1. /\ UNCHANGED <<day, morning, acme, lego, wedged, reading, mail, disk, served, install>>
      /\ ran' = ran \cup {c} /\ c # "timer" /\ c # "watchdog"
      /\ known \subseteq known' /\ pending \subseteq pending'
  BY ConstantsAssumption DEF Probe, Job
<1>2. acme.cert.exp \in Nat /\ day \in Nat /\ disturbed \in Nat
  BY Numbers
<1>3. disturbed' >= disturbed
  BY <1>2 DEF Probe, Disturb
<1>4. FlightInv' /\ DiskInv'
  BY <1>1, <1>2, <1>3, FlightStays, DiskStays DEF DaysInv
<1>5. CASE disturbed' = disturbed + 1
  BY <1>1, <1>4, <1>5, Paid DEF DaysInv
<1>6. ASSUME UNCHANGED disturbed PROVE BrokerInv'
  BY <1>1, <1>6 DEF DaysInv, BrokerInv, Remaining, Margin
<1>7. ASSUME UNCHANGED disturbed, NEW d \in Consumers, d # c PROVE Serves(d)'
  <2>1. (d \in known' <=> d \in known) /\ (d \in ran' <=> d \in ran)
    BY <1>1, <1>7 DEF Probe
  <2>2. Coming(d) => Coming(d)'
    BY <1>1, <2>1 DEF Coming, Handler
  <2> QED BY <1>1, <1>7, <2>1, <2>2 DEF DaysInv, ServedInv, Serves, Margin, Handler
<1>8. CASE UNCHANGED disturbed /\ c \in pending'
  <2>1. Coming(c)'
    BY <1>8 DEF Coming
  <2>2. served[c].ca => Margin(served[c])' >= FreshDays
    BY <1>1, <1>8 DEF DaysInv, ServedInv, Serves, Margin
  <2>3. Serves(c)'
    BY <1>1, <2>1, <2>2 DEF Serves
  <2> QED BY <1>4, <1>6, <1>7, <1>8, <2>3 DEF DaysInv, ServedInv
<1>9. CASE UNCHANGED <<disturbed, known, pending>> /\ IsFresh(disk[c].cert, FreshDays)
  <2>1. disk[c].cert \in Certs /\ Remaining(disk[c].cert) >= FreshDays
    <3>1. disk[c].cert \in Certs
      BY <1>9 DEF IsFresh, DecideRenewal
    <3>2. Remaining(disk[c].cert) \in Int
      BY <1>2, <3>1, Numbers DEF Remaining
    <3> QED BY <1>9, <3>1, <3>2, Constants DEF IsFresh, DecideRenewal
  <2>2. ASSUME disturbed > 0 PROVE Margin(served[c]) >= FreshDays + 1 \/ Handler(c).at # "idle"
    <3> SUFFICES ASSUME Handler(c).at = "idle" PROVE Margin(served[c]) >= FreshDays + 1
      OBVIOUS
    <3>1. served[c] = disk[c].cert /\ disk[c].cert.exp \in Nat
      BY <2>1, Numbers DEF DaysInv, DiskInv
    <3> QED BY <1>2, <2>1, <2>2, <3>1, Constants DEF Margin, Remaining
  <2>3. Coming(c)' <=> Coming(c)
    BY <1>1, <1>9 DEF Coming, Handler
  <2>4. Margin(served[c])' = Margin(served[c]) /\ Handler(c)' = Handler(c)
    BY <1>1, <1>9 DEF Margin, Handler
  <2>5. Serves(c)'
    BY <1>1, <1>9, <2>2, <2>3, <2>4 DEF DaysInv, ServedInv, Serves
  <2> QED BY <1>4, <1>6, <1>7, <1>9, <2>5 DEF DaysInv, ServedInv
<1> QED BY <1>5, <1>8, <1>9 DEF Probe, NeedsCertificate, Disturb

\* A callback: what was coming is being installed, or is served already.
LEMMA CallbackDays ==
    ASSUME NoOverlap, FewDisturbances, IInv, TypeOK', DaysInv,
           NEW c \in Consumers, NEW s \in Slots, NEW m \in mail[c], Callback(c, s, m)
    PROVE  DaysInv'
<1> USE DEF IInv
<1> DEFINE Latest == [cert |-> acme.cert, key |-> acme.cert]
<1>1. /\ UNCHANGED <<day, morning, ran, acme, lego, wedged, known, pending, reading, disk, served, disturbed>>
      /\ mail'[c] = mail[c] \ {m} /\ \A d \in Consumers : d # c => mail'[d] = mail[d]
  BY DEF Callback, TypeOK, NoOverlap, Disturb
<1>2. s = 1 /\ Handler(c).at = "idle"
  BY DEF Callback, Handler, NoOverlap, Disturb, Working, Slots
<1>3. /\ \A d \in Consumers : d # c => Handler(d)' = Handler(d)
      /\ \/ UNCHANGED install /\ ~ShouldInstall(m.cert, m.key, disk[c].cert)
         \/ ShouldInstall(m.cert, m.key, disk[c].cert) /\ Handler(c)' = [at |-> "cert", load |-> m]
  BY <1>2 DEF Callback, TypeOK, Handler
<1>4. /\ acme.cert.exp \in Nat /\ day \in Nat /\ disturbed \in Nat /\ acme.cert \in Certs
  BY Numbers
<1>5. UNCHANGED install => Handler(c)' = Handler(c)
  BY DEF Handler
<1>6. ShouldInstall(m.cert, m.key, disk[c].cert) =>
        /\ Handler(c)'.at = "cert" /\ Handler(c)'.load = m /\ m.cert \in Certs
        /\ disk[c].cert \in Certs => m.cert.exp >= disk[c].cert.exp
  BY <1>3 DEF ShouldInstall, ValidatePair
<1>7. \A x : Carried(x)' <=> Carried(x)
  BY <1>1 DEF Carried, Margin
<1>8. Carried(m.cert) /\ c \in known
  BY DEF DaysInv, FlightInv
<1>9. BrokerInv'
  BY <1>1 DEF DaysInv, BrokerInv, Remaining, Margin
<1>10. DiskInv'
  <2> SUFFICES ASSUME NEW d \in Consumers, disk[d].cert \in Certs PROVE served[d] = disk[d].cert \/ Handler(d)'.at = "key"
    BY <1>1 DEF DaysInv, DiskInv
  <2> QED BY <1>2, <1>3, <1>5, <1>6 DEF DaysInv, DiskInv
<1>11. FlightInv'
  <2>1. (reading.to # {} => reading.cert \in Certs /\ Carried(reading.cert))' /\ reading'.to \subseteq known'
    BY <1>1, <1>7 DEF DaysInv, FlightInv, Carried, Margin
  <2>2. ASSUME NEW d \in Consumers
        PROVE  (/\ \A n \in mail[d] : Carried(n.cert)
                /\ mail[d] # {} => d \in known
                /\ Handler(d).at # "idle" => Carried(Handler(d).load.cert) /\ d \in known)'
    <3>1. mail'[d] \subseteq mail[d]
      BY <1>1
    <3>2. \A n \in mail'[d] : Carried(n.cert)'
      BY <1>7, <3>1 DEF DaysInv, FlightInv
    <3>3. PICK h : h = Handler(d)'
      OBVIOUS
    <3>4. h.at # "idle" => Carried(h.load.cert) /\ d \in known
      BY <1>3, <1>5, <1>6, <1>8, <3>3 DEF DaysInv, FlightInv
    <3>5. h.at # "idle" => Carried(h.load.cert)'
      BY <1>7, <3>4
    <3>6. (Handler(d).at # "idle" => Carried(Handler(d).load.cert))'
      BY <3>3, <3>5 DEF Carried, Margin
    <3> QED BY <1>1, <3>1, <3>2, <3>3, <3>4, <3>6 DEF DaysInv, FlightInv
  <2> QED BY <2>1, <2>2 DEF FlightInv
<1>12. ASSUME NEW d \in Consumers, d # c PROVE Serves(d)'
  <2>1. Coming(d)' <=> Coming(d)
    BY <1>1, <1>3, <1>12 DEF Coming
  <2> QED BY <1>1, <1>3, <1>12, <2>1 DEF DaysInv, ServedInv, Serves, Margin
<1>13. Latest \in mail[c] /\ Latest \notin mail'[c] => m = Latest
  BY <1>1
<1>14. ASSUME m = Latest, ~ShouldInstall(m.cert, m.key, disk[c].cert)
       PROVE  served[c].exp = acme.cert.exp /\ Margin(served[c]) >= FreshDays + 1
  <2>1. m.cert = acme.cert /\ m.key = acme.cert
    BY <1>14
  <2>2. disk[c].cert \in Certs /\ (acme.cert = disk[c].cert \/ Remaining(acme.cert) <= 0 \/ ~(acme.cert.exp >= disk[c].cert.exp))
    BY <1>4, <1>14, <2>1 DEF ShouldInstall, ValidatePair, KeyMatches
  <2>3. disk[c].cert.exp \in Nat /\ acme.cert.exp >= disk[c].cert.exp
    BY <1>4, <2>2, Numbers DEF DaysInv, DiskInv
  <2>4. Remaining(acme.cert) > 1 /\ Margin(acme.cert) >= FreshDays + 1
    BY BrokerLasts DEF DaysInv
  <2>5. acme.cert = disk[c].cert
    BY <1>4, <2>2, <2>3, <2>4 DEF Remaining
  <2>6. served[c] = acme.cert
    BY <1>2, <1>4, <2>5 DEF DaysInv, DiskInv
  <2> QED BY <2>4, <2>6
<1>15. ASSUME m = Latest, ShouldInstall(m.cert, m.key, disk[c].cert) PROVE Coming(c)'
  BY <1>1, <1>6, <1>15 DEF Coming
<1>16. Coming(c) => Coming(c)' \/ /\ served[c].exp = acme.cert.exp /\ Margin(served[c]) >= FreshDays + 1
                                  /\ Handler(c)'.at = "idle"
  <2>1. Coming(c) => Coming(c)' \/ m = Latest
    BY <1>1, <1>2, <1>13 DEF Coming
  <2> QED BY <1>2, <1>3, <1>5, <1>14, <1>15, <2>1
<1>17. ASSUME disturbed = 0, Handler(c)'.at # "idle" PROVE Coming(c)'
  <2>1. ShouldInstall(m.cert, m.key, disk[c].cert) /\ disk[c].cert \in Certs /\ served[c] = disk[c].cert
    BY <1>2, <1>3, <1>5, <1>17 DEF DaysInv, DiskInv
  <2>2. CASE Coming(c)
    BY <1>16, <1>17, <2>2
  <2>3. CASE served[c].exp = acme.cert.exp
    <3>1. m.cert.exp \in Nat /\ m.cert.exp >= acme.cert.exp /\ m.cert.exp <= acme.cert.exp
      BY <1>6, <1>8, <2>1, <2>3, Numbers DEF Carried
    <3>2. m.cert.exp = acme.cert.exp
      BY <1>4, <3>1
    <3> QED BY <1>1, <1>6, <1>17, <2>1, <3>2 DEF Coming
  <2> QED BY <1>8, <1>17, <2>2, <2>3 DEF DaysInv, ServedInv, Serves
<1>18. Serves(c)'
  <2>1. Margin(served[c])' = Margin(served[c])
    BY <1>1 DEF Margin
  <2>2. served[c].ca /\ disturbed > 0 /\ c \in ran => Margin(served[c]) >= FreshDays + 1 \/ Coming(c)
    BY <1>2 DEF DaysInv, ServedInv, Serves
  <2>3. (disturbed = 0 => served[c].exp = acme.cert.exp \/ Coming(c)) /\ (served[c].ca => Margin(served[c]) >= FreshDays)
    BY <1>8 DEF DaysInv, ServedInv, Serves
  <2> QED BY <1>1, <1>16, <1>17, <2>1, <2>2, <2>3 DEF Serves
<1> QED BY <1>9, <1>10, <1>11, <1>12, <1>18 DEF DaysInv, ServedInv

\* The first move of an installation: what is coming goes on coming.
LEMMA MoveCertDays ==
    ASSUME NoOverlap, IInv, TypeOK', DaysInv, NEW c \in Consumers, NEW s \in Slots, MoveCert(c, s)
    PROVE  DaysInv'
<1> USE DEF IInv
<1>1. UNCHANGED <<day, morning, ran, acme, lego, wedged, known, pending, reading, mail, served, disturbed>> /\ s = 1
  BY OneSlot DEF MoveCert, brokerVars
<1>2. /\ Handler(c).at = "cert" /\ Handler(c)' = [at |-> "key", load |-> Handler(c).load]
      /\ \A d \in Consumers : d # c => Handler(d)' = Handler(d) /\ disk'[d] = disk[d]
      /\ disk'[c].cert = Handler(c).load.cert
  BY <1>1, MoveCertType DEF Handler, TypeOK
<1>3. Handler(c)'.at = "key" /\ Handler(c)'.load = Handler(c).load
  BY <1>2
<1>4. Handler(c).load.cert \in Certs /\ Handler(c).load.cert.exp <= acme.cert.exp
  BY <1>1, <1>2 DEF Handler, KeysGood, DaysInv, FlightInv, Carried
<1>5. BrokerInv'
  BY <1>1 DEF DaysInv, BrokerInv, Remaining, Margin
<1>6. DiskInv'
  BY <1>1, <1>2, <1>3, <1>4 DEF DaysInv, DiskInv
<1>7. \A d \in Consumers : Handler(d)'.load = Handler(d).load /\ (Handler(d)'.at = "idle" <=> Handler(d).at = "idle")
  BY <1>2, <1>3
<1>8. FlightInv'
  <2>1. ASSUME NEW d \in Consumers
        PROVE  (/\ \A n \in mail[d] : Carried(n.cert)
                /\ mail[d] # {} => d \in known
                /\ Handler(d).at # "idle" => Carried(Handler(d).load.cert) /\ d \in known)'
    BY <1>1, <1>7 DEF DaysInv, FlightInv, Carried, Margin
  <2> QED BY <1>1, <2>1 DEF DaysInv, FlightInv, Carried, Margin
<1>9. ASSUME NEW d \in Consumers PROVE Serves(d)'
  <2>1. Coming(d)' <=> Coming(d)
    BY <1>1, <1>7 DEF Coming
  <2> QED BY <1>1, <1>7, <2>1 DEF DaysInv, ServedInv, Serves, Margin
<1> QED BY <1>5, <1>6, <1>8, <1>9 DEF DaysInv, ServedInv

\* The second move: what was coming is served.
LEMMA MoveKeyDays ==
    ASSUME NoOverlap, IInv, TypeOK', HalfWay, DaysInv, NEW c \in Consumers, NEW s \in Slots, MoveKey(c, s)
    PROVE  DaysInv'
<1> USE DEF IInv
<1> DEFINE new == Handler(c).load.cert
<1>1. UNCHANGED <<day, morning, ran, acme, lego, wedged, known, pending, reading, mail, disturbed>> /\ s = 1
  BY OneSlot DEF MoveKey, brokerVars
<1>2. /\ Handler(c).at = "key" /\ Handler(c)'.at = "idle"
      /\ \A d \in Consumers : d # c => Handler(d)' = Handler(d) /\ disk'[d] = disk[d]
      /\ disk'[c].cert = disk[c].cert /\ disk'[c].key = Handler(c).load.key
  BY <1>1, MoveKeyType DEF Handler, TypeOK, Idle
<1>3. new \in Certs /\ Handler(c).load.key = new /\ disk[c].cert = new
  BY <1>1, <1>2 DEF Handler, KeysGood, HalfWay
<1>4. served'[c] = new /\ \A d \in Consumers : d # c => served'[d] = served[d]
  BY <1>2, <1>3 DEF MoveKey, Reloaded, ValidatePair, KeyMatches, TypeOK
<1>5. Carried(new) /\ c \in known
  BY <1>2 DEF DaysInv, FlightInv
<1>6. BrokerInv'
  BY <1>1 DEF DaysInv, BrokerInv, Remaining, Margin
<1>7. DiskInv'
  <2> SUFFICES ASSUME NEW d \in Consumers
               PROVE  (/\ disturbed = 0 => disk[d].cert \in Certs
                       /\ disk[d].cert \in Certs => disk[d].cert.exp <= acme.cert.exp
                       /\ disk[d].cert \in Certs /\ Handler(d).at # "key" => served[d] = disk[d].cert
                       /\ served[d] # Down
                       /\ served[d].ca => d \in known)'
    BY DEF DiskInv
  <2>1. CASE d # c
    BY <1>1, <1>2, <1>4, <2>1 DEF DaysInv, DiskInv
  <2>2. CASE d = c
    BY <1>1, <1>2, <1>3, <1>4, <1>5, <2>2, Constants DEF Carried
  <2> QED BY <2>1, <2>2
<1>8. FlightInv'
  <2>1. ASSUME NEW d \in Consumers
        PROVE  (/\ \A n \in mail[d] : Carried(n.cert)
                /\ mail[d] # {} => d \in known
                /\ Handler(d).at # "idle" => Carried(Handler(d).load.cert) /\ d \in known)'
    BY <1>1, <1>2 DEF DaysInv, FlightInv, Carried, Margin
  <2> QED BY <1>1, <2>1 DEF DaysInv, FlightInv, Carried, Margin
<1>9. ASSUME NEW d \in Consumers, d # c PROVE Serves(d)'
  <2>1. Coming(d)' <=> Coming(d)
    BY <1>1, <1>2, <1>9 DEF Coming
  <2> QED BY <1>1, <1>2, <1>4, <1>9, <2>1 DEF DaysInv, ServedInv, Serves, Margin
<1>10. Serves(c)'
  <2>1. disturbed = 0 => Coming(c)
    BY <1>2 DEF DaysInv, ServedInv, Serves
  <2>2. Coming(c) => Coming(c)' \/ new.exp = acme.cert.exp
    BY <1>1 DEF Coming
  <2>3. Margin(served[c])' >= FreshDays + 1 /\ Margin(served[c])' \in Int
    <3>1. new.exp \in Nat /\ day \in Nat /\ disturbed \in Nat
      BY <1>3, Numbers
    <3> QED BY <1>1, <1>3, <1>4, <1>5, <3>1 DEF Carried, Margin
  <2>4. Margin(served[c])' >= FreshDays
    BY <2>3, Constants
  <2> QED BY <1>1, <1>2, <1>4, <2>1, <2>2, <2>3, <2>4 DEF Serves
<1> QED BY <1>6, <1>7, <1>8, <1>9, <1>10 DEF DaysInv, ServedInv

\* A host that starts serves what it served, or the placeholder.
LEMMA RebootDays ==
    ASSUME NoOverlap, NoCrash, FewDisturbances, IInv, TypeOK', PairMatches, DaysInv, NEW c \in Consumers, Reboot(c)
    PROVE  DaysInv'
<1> USE DEF IInv
<1>1. /\ UNCHANGED <<day, morning, ran, acme, lego, wedged, known, pending, reading, mail>> /\ disturbed' = disturbed + 1
      /\ ~Working(c)
  BY DEF Reboot, NoCrash, Disturb, brokerVars
<1>2. acme.cert.exp \in Nat /\ day \in Nat /\ disturbed \in Nat
  BY Numbers
<1>3. UNCHANGED install
  <2>1. \A s \in Slots : install[c][s] = Idle
    <3> SUFFICES ASSUME NEW s \in Slots PROVE install[c][s] = Idle
      OBVIOUS
    <3>1. install[c][s].at = "idle" /\ install[c][s] \in Handlers
      BY <1>1 DEF TypeOK, Working
    <3> QED BY <3>1 DEF Handlers
  <2>2. install[c] = [s \in Slots |-> Idle]
    BY <2>1 DEF TypeOK
  <2> QED BY <2>2 DEF Reboot, TypeOK
<1>4. Handler(c).at = "idle"
  BY <1>1, OneSlot
<1>5. disk'[c] = PreStart(disk[c]) /\ \A d \in Consumers : d # c => disk'[d] = disk[d] /\ served'[d] = served[d]
  BY RebootType DEF Reboot, TypeOK
<1>6. served'[c] = Reloaded(Down, disk'[c])
  BY DEF Reboot, TypeOK
<1>7. CASE disk[c].cert \in Certs
  <2>1. disk'[c] = disk[c]
    BY <1>5, <1>7, PreStartPair DEF TypeOK, KeysGood
  <2>2. disk[c].key = disk[c].cert /\ served[c] = disk[c].cert
    BY <1>1, <1>4, <1>7 DEF PairMatches, DaysInv, DiskInv
  <2>3. served'[c] = served[c]
    BY <1>6, <1>7, <2>1, <2>2 DEF Reloaded, ValidatePair, KeyMatches
  <2>4. UNCHANGED <<disk, served>>
    BY <1>5, <2>1, <2>3 DEF TypeOK
  <2>5. BrokerInv' /\ ServedInv'
    BY <1>1, <2>4, Paid
  <2>6. FlightInv' /\ DiskInv'
    BY <1>1, <1>2, <1>3, <2>4, FlightStays, DiskStays DEF DaysInv
  <2> QED BY <2>5, <2>6 DEF DaysInv
<1>8. CASE disk[c].cert \notin Certs
  <2>1. Placeholder \in Certs /\ Placeholder.ca = FALSE /\ Placeholder.exp = day + 1
    BY NewCerts DEF TypeOK, Placeholder
  <2>2. disk'[c] = [cert |-> Placeholder, key |-> Placeholder]
    BY <1>5, <1>8, PreStartPair DEF TypeOK
  <2>3. disk'[c].cert = Placeholder /\ disk'[c].key = Placeholder
    BY <2>2
  <2>4. served'[c] = Placeholder
    BY <1>6, <2>1, <2>3 DEF Reloaded, ValidatePair, KeyMatches
  <2>5. BrokerInv' /\ ServedInv'
    BY <1>1, <1>5, <2>1, <2>4, Paid
  <2>6. FlightInv'
    BY <1>1, <1>2, <1>3, FlightStays DEF DaysInv
  <2>7. Placeholder.exp <= acme.cert.exp
    BY <1>2, <2>1, BrokerLasts DEF DaysInv, Remaining
  <2>8. DiskInv'
    <3> SUFFICES ASSUME NEW d \in Consumers
                 PROVE  (/\ disk[d].cert \in Certs => disk[d].cert.exp <= acme.cert.exp
                         /\ disk[d].cert \in Certs /\ Handler(d).at # "key" => served[d] = disk[d].cert
                         /\ served[d] # Down
                         /\ served[d].ca => d \in known)'
      BY <1>1, <1>2 DEF DiskInv
    <3>1. Handler(d)' = Handler(d)
      BY <1>3 DEF Handler
    <3>2. CASE d # c
      BY <1>1, <1>5, <3>1, <3>2 DEF DaysInv, DiskInv
    <3>3. CASE d = c
      BY <1>1, <2>1, <2>3, <2>4, <2>7, <3>3, Constants
    <3> QED BY <3>2, <3>3
  <2> QED BY <2>5, <2>6, <2>8 DEF DaysInv
<1> QED BY <1>7, <1>8

\* A certificate is damaged: nginx goes on with what it has.
LEMMA CorruptDays ==
    ASSUME TypeOK, TypeOK', DaysInv, NEW c \in Consumers, Corrupt(c)
    PROVE  DaysInv'
<1>1. /\ UNCHANGED <<day, morning, ran, acme, lego, wedged, known, pending, reading, mail, served, install>>
      /\ disturbed' = disturbed + 1
  BY DEF Corrupt, Disturb, brokerVars
<1>2. acme.cert.exp \in Nat /\ disturbed \in Nat
  BY Numbers
<1>3. BrokerInv' /\ ServedInv'
  BY <1>1, Paid
<1>4. FlightInv'
  BY <1>1, <1>2, FlightStays DEF DaysInv
<1>5. disk'[c].cert \notin Certs /\ \A d \in Consumers : d # c => disk'[d] = disk[d]
  BY CorruptType, Constants
<1>6. DiskInv'
  BY <1>1, <1>2, <1>5 DEF DaysInv, DiskInv, Handler
<1> QED BY <1>3, <1>4, <1>6 DEF DaysInv

LEMMA NextDays ==
    ASSUME NoOverlap, NoCrash, FewDisturbances, IInv, IInv', PairMatches, HalfWay, DaysInv, [Next]_vars
    PROVE  DaysInv'
<1>1. TypeOK /\ TypeOK'
  BY DEF IInv
<1>2. CASE UNCHANGED vars
  BY <1>2 DEF vars, brokerVars, hostVars, DaysInv, BrokerInv, FlightInv, DiskInv, ServedInv, Serves, Coming,
              Carried, Handler, Margin, Remaining
<1>3. CASE Elsewhere
  BY <1>1, <1>3, OrderDays, OrderEndsDays, ReadsCertDays, ReadsKeyDays, DisturbedDays, TickDays, ProbeDays DEF Elsewhere
<1> QED BY <1>1, <1>2, <1>3, Steps, CallbackDays, MoveCertDays, MoveKeyDays, RebootDays, CorruptDays

\* Whatever the broker sends is signed by the CA; of what is on a consumer's
\* disk only the placeholder is not, and it does not outlive the day.
Signed(x) == x \in Certs => x.ca

SignedInv ==
    /\ acme.cert.ca /\ Signed(reading.cert)
    /\ \A c \in Consumers :
        /\ \A m \in mail[c] : Signed(m.cert)
        /\ \A s \in Slots : install[c][s].at # "idle" => Signed(install[c][s].load.cert)
        /\ disk[c].cert \in Certs => disk[c].cert.ca \/ disk[c].cert.exp <= day + 1

LEMMA InitSigned == Init => SignedInv
<1> SUFFICES ASSUME Init PROVE SignedInv
  OBVIOUS
<1>1. \A c \in Consumers : disk[c].cert = Placeholder /\ mail[c] = {} /\ \A s \in Slots : install[c][s].at = "idle"
  BY DEF Init, PreStart, Idle
<1>2. acme.cert = Renewed /\ reading.cert = Missing /\ day = 0
  BY DEF Init
<1>3. Placeholder.exp = day + 1 /\ Renewed.ca
  BY DEF Placeholder, Renewed
<1> QED BY <1>1, <1>2, <1>3, Constants DEF SignedInv, Signed

LEMMA NextSigned == ASSUME TypeOK, TypeOK', SignedInv, [Next]_vars PROVE SignedInv'
<1>1. CASE UNCHANGED vars
  BY <1>1 DEF vars, brokerVars, hostVars, SignedInv, Signed
<1>2. CASE Elsewhere
  <2>1. UNCHANGED <<disk, install>> /\ day' \in {day, day + 1} /\ day \in Nat
    <3>1. UNCHANGED <<disk, install>>
      BY <1>2, ElsewhereType
    <3>2. day' = day \/ day' = day + 1
      BY <1>2
      DEF Elsewhere, RenewTimer, Watchdog, OrderEnds, Wedge, HandlerReadsCert, HandlerReadsKey, BrokerRestarts,
          Tick, Probe, Lose
    <3>3. day \in Nat
      BY Numbers
    <3> QED BY <3>1, <3>2, <3>3
  <2>2. acme'.cert.ca /\ (reading' = reading \/ reading'.cert = acme.cert \/ reading'.cert = Missing)
    BY <1>2
    DEF TypeOK, SignedInv, Elsewhere, RenewTimer, Watchdog, Order, OrderFails, Renewed, OrderEnds, Wedge,
        HandlerReadsCert, HandlerReadsKey, BrokerRestarts, Tick, Probe, Lose, brokerVars
  <2>3. ASSUME NEW c \in Consumers, NEW m \in mail'[c] PROVE m \in mail[c] \/ m.cert = reading.cert
    <3>1. CASE HandlerReadsKey
      BY <2>3, <3>1 DEF HandlerReadsKey
    <3>2. CASE ~HandlerReadsKey
      <4>1. mail' = mail \/ BrokerRestarts \/ \E d \in Consumers : \E n \in mail[d] : Lose(d, n)
        BY <1>2, <3>2
        DEF Elsewhere, RenewTimer, Watchdog, OrderEnds, Wedge, HandlerReadsCert, Tick, Probe, brokerVars
      <4> QED BY <2>3, <4>1 DEF BrokerRestarts, Lose, TypeOK
    <3> QED BY <3>1, <3>2
  <2>4. Signed(reading.cert)'
    BY <2>2, Constants DEF SignedInv, Signed
  <2>5. ASSUME NEW c \in Consumers
        PROVE  disk[c].cert \in Certs => disk[c].cert.ca \/ disk[c].cert.exp <= day' + 1
    <3> SUFFICES ASSUME disk[c].cert \in Certs, ~disk[c].cert.ca PROVE disk[c].cert.exp <= day' + 1
      OBVIOUS
    <3>1. disk[c].cert.exp \in Nat /\ disk[c].cert.exp <= day + 1
      BY Numbers DEF SignedInv
    <3> QED BY <2>1, <3>1
  <2> QED BY <2>1, <2>2, <2>3, <2>4, <2>5 DEF SignedInv, Signed
<1>3. ASSUME NEW c \in Consumers, NEW s \in Slots, NEW m \in mail[c], Callback(c, s, m) PROVE SignedInv'
  <2>1. UNCHANGED <<acme, reading, disk, day>> /\ \A d \in Consumers : mail'[d] \subseteq mail[d]
    BY <1>3 DEF Callback, TypeOK
  <2>2. ASSUME NEW d \in Consumers, NEW t \in Slots, install'[d][t].at # "idle" PROVE Signed(install'[d][t].load.cert)
    <3>1. install'[d][t] = install[d][t] \/ install'[d][t] = [at |-> "cert", load |-> m]
      <4>1. CASE UNCHANGED install
        BY <4>1
      <4>2. CASE install' = [install EXCEPT ![c][s] = [at |-> "cert", load |-> m]]
        BY <4>2 DEF TypeOK
      <4> QED BY <1>3, <4>1, <4>2, CallbackType
    <3>2. [at |-> "cert", load |-> m].load = m /\ Signed(m.cert)
      BY DEF SignedInv
    <3> QED BY <2>2, <3>1, <3>2 DEF SignedInv
  <2> QED BY <2>1, <2>2 DEF SignedInv, Signed
<1>4. ASSUME NEW c \in Consumers, NEW s \in Slots, MoveCert(c, s) \/ MoveKey(c, s) PROVE SignedInv'
  <2>1. UNCHANGED <<acme, reading, mail, day>>
    BY <1>4 DEF MoveCert, MoveKey, brokerVars
  <2>2. ASSUME NEW d \in Consumers, NEW t \in Slots, install'[d][t].at # "idle" PROVE Signed(install'[d][t].load.cert)
    <3>1. \/ install'[d][t] = install[d][t]
          \/ install'[d][t] = Idle
          \/ install[d][t].at # "idle" /\ install'[d][t] = [at |-> "key", load |-> install[d][t].load]
      <4>1. CASE MoveKey(c, s)
        BY <4>1 DEF MoveKey, TypeOK
      <4>2. CASE MoveCert(c, s)
        <5>1. /\ install' = [install EXCEPT ![c][s] = [at |-> "key", load |-> install[c][s].load]]
              /\ install[c][s].at = "cert"
          BY <4>2, MoveCertType
        <5> QED BY <5>1 DEF TypeOK
      <4> QED BY <1>4, <4>1, <4>2
    <3>2. Idle.at = "idle" /\ [at |-> "key", load |-> install[d][t].load].load = install[d][t].load
      BY DEF Idle
    <3> QED BY <2>2, <3>1, <3>2 DEF SignedInv
  <2>3. ASSUME NEW d \in Consumers, disk'[d].cert \in Certs PROVE disk'[d].cert.ca \/ disk'[d].cert.exp <= day + 1
    <3>1. disk'[d].cert = disk[d].cert \/ (install[c][s].at # "idle" /\ disk'[d].cert = install[c][s].load.cert)
      <4>1. CASE MoveKey(c, s)
        BY <4>1, MoveKeyType
      <4>2. CASE MoveCert(c, s)
        BY <4>2, MoveCertType
      <4> QED BY <1>4, <4>1, <4>2
    <3> QED BY <2>3, <3>1 DEF SignedInv, Signed
  <2> QED BY <2>1, <2>2, <2>3 DEF SignedInv, Signed
<1>5. ASSUME NEW c \in Consumers, Reboot(c) \/ Corrupt(c) PROVE SignedInv'
  <2>1. UNCHANGED <<acme, reading, mail, day>>
    BY <1>5 DEF Reboot, Corrupt, brokerVars
  <2>2. \A d \in Consumers : \A t \in Slots : install'[d][t] = install[d][t] \/ install'[d][t].at = "idle"
    BY <1>5, RebootType, CorruptType DEF Idle
  <2>3. ASSUME NEW d \in Consumers PROVE disk'[d].cert = disk[d].cert \/ disk'[d].cert = Placeholder \/ disk'[d].cert = Unreadable
    <3>1. PICK p : p = PreStart(disk[c])
      OBVIOUS
    <3>2. p = disk[c] \/ p = [cert |-> Placeholder, key |-> Placeholder]
      BY <3>1 DEF PreStart
    <3> QED BY <1>5, <3>1, <3>2, RebootType, CorruptType
  <2>4. Placeholder.exp = day + 1
    BY DEF Placeholder
  <2>5. day \in Nat
    BY Numbers
  <2> QED BY <2>1, <2>2, <2>3, <2>4, <2>5, Constants DEF SignedInv, Signed
<1> QED BY <1>1, <1>2, <1>3, <1>4, <1>5, Steps
----------------------------------------------------------------------------
(* No outage: a day on which nothing goes wrong.                           *)

\* A consumer that does not serve the cluster certificate is about to get it.
Due(c) == served[c].ca \/ Coming(c) \/ Handler(c).at # "idle"

\* On a day without a disturbance that is so from the consumer's probe on.
QuietInv == disturbed = morning => \A c \in Consumers : c \in ran => Due(c)

\* The probe of a quiet day.
LEMMA ProbeQuiet ==
    ASSUME TypeOK, DaysInv, SignedInv, disturbed' = disturbed, NEW c \in Consumers, Probe(c)
    PROVE  Due(c)'
<1>1. UNCHANGED <<day, acme, lego, reading, mail, disk, served, install>>
  BY DEF Probe
<1>2. CASE c \in pending'
  BY <1>2 DEF Due, Coming
<1>3. CASE UNCHANGED <<known, pending>> /\ IsFresh(disk[c].cert, FreshDays)
  <2>1. disk[c].cert \in Certs /\ disk[c].cert.exp \in Nat /\ day \in Nat
    BY <1>3, Numbers DEF IsFresh, DecideRenewal
  <2>2. ~(disk[c].cert.exp <= day + 1)
    BY <1>3, <2>1, Constants DEF IsFresh, DecideRenewal, Remaining
  <2>3. disk[c].cert.ca
    BY <2>1, <2>2 DEF SignedInv
  <2>4. Handler(c).at # "idle" \/ served[c] = disk[c].cert
    BY <2>1 DEF DaysInv, DiskInv
  <2> QED BY <1>1, <2>3, <2>4 DEF Due, Handler
<1>4. disturbed \in Nat
  BY Numbers
<1> QED BY <1>2, <1>3, <1>4 DEF Probe, NeedsCertificate, Disturb

\* A callback: it is installed, or the consumer serves as good a certificate.
LEMMA CallbackQuiet ==
    ASSUME NoOverlap, FewDisturbances, IInv, IInv', DaysInv, SignedInv,
           NEW c \in Consumers, NEW s \in Slots, NEW m \in mail[c], Callback(c, s, m), Due(c)
    PROVE  Due(c)'
<1> USE DEF IInv
<1> DEFINE Latest == [cert |-> acme.cert, key |-> acme.cert]
<1>1. /\ UNCHANGED <<acme, lego, known, pending, reading, disk, served>> /\ mail'[c] = mail[c] \ {m}
      /\ s = 1 /\ Handler(c).at = "idle"
  BY DEF Callback, TypeOK, NoOverlap, Disturb, Handler, Working, Slots
<1>2. CASE install' = [install EXCEPT ![c][s] = [at |-> "cert", load |-> m]]
  BY <1>1, <1>2 DEF Due, Handler, TypeOK
<1>3. CASE UNCHANGED install /\ ~ShouldInstall(m.cert, m.key, disk[c].cert)
  <2>1. CASE m # Latest \/ served[c].ca
    <3>1. Latest \in mail[c] /\ m # Latest => Latest \in mail'[c]
      BY <1>1
    <3> QED BY <1>1, <1>3, <2>1, <3>1 DEF Due, Coming, Handler
  <2>2. CASE m = Latest
    <3>1. m.cert = acme.cert /\ m.key = acme.cert
      BY <2>2
    <3>2. acme.cert \in Certs /\ acme.cert.exp \in Nat /\ day \in Nat
      BY Numbers
    <3>3. disk[c].cert \in Certs /\ (acme.cert = disk[c].cert \/ Remaining(acme.cert) <= 0 \/ ~(acme.cert.exp >= disk[c].cert.exp))
      BY <1>3, <3>1, <3>2 DEF ShouldInstall, ValidatePair, KeyMatches
    <3>4. disk[c].cert.exp \in Nat /\ acme.cert.exp >= disk[c].cert.exp
      BY <3>2, <3>3, Numbers DEF DaysInv, DiskInv
    <3>5. Remaining(acme.cert) > 1
      BY BrokerLasts DEF DaysInv
    <3>6. acme.cert = disk[c].cert
      BY <3>2, <3>3, <3>4, <3>5 DEF Remaining
    <3>7. served[c] = acme.cert
      BY <1>1, <3>2, <3>6 DEF DaysInv, DiskInv
    <3> QED BY <1>1, <3>7 DEF Due, SignedInv
  <2> QED BY <2>1, <2>2
<1>4. UNCHANGED install => ~ShouldInstall(m.cert, m.key, disk[c].cert)
  <2> SUFFICES ASSUME ShouldInstall(m.cert, m.key, disk[c].cert) PROVE install' # install
    OBVIOUS
  <2>1. install'[c][s].at = "cert" /\ install[c][s].at = "idle"
    BY DEF Callback, TypeOK
  <2> QED BY <2>1
<1> QED BY <1>2, <1>3, <1>4, CallbackType

\* The two moves: what has been moved is served.
LEMMA MovesQuiet ==
    ASSUME NoOverlap, IInv, HalfWay, SignedInv, NEW c \in Consumers, NEW s \in Slots, MoveCert(c, s) \/ MoveKey(c, s)
    PROVE  Due(c)'
<1> USE DEF IInv
<1>1. s = 1
  BY OneSlot DEF MoveCert, MoveKey
<1>2. CASE MoveCert(c, s)
  <2>1. install'[c][1].at = "key"
    BY <1>1, <1>2 DEF MoveCert, TypeOK, Handlers, Idle
  <2> QED BY <2>1 DEF Due, Handler
<1>3. CASE MoveKey(c, s)
  <2> DEFINE new == install[c][s].load.cert
  <2>1. install[c][s].at = "key" /\ disk'[c].cert = disk[c].cert /\ disk'[c].key = install[c][s].load.key
    BY <1>3, MoveKeyType
  <2>2. new \in Certs /\ new.ca /\ install[c][s].load.key = new /\ disk[c].cert = new
    BY <2>1 DEF KeysGood, HalfWay, SignedInv, Signed
  <2>3. served'[c] = new
    BY <1>3, <2>1, <2>2 DEF MoveKey, Reloaded, ValidatePair, KeyMatches, TypeOK
  <2> QED BY <2>2, <2>3 DEF Due
<1> QED BY <1>2, <1>3

LEMMA NextQuiet ==
    ASSUME NoOverlap, FewDisturbances, IInv, IInv', HalfWay, DaysInv, SignedInv, QuietInv, [Next]_vars
    PROVE  QuietInv'
<1> USE DEF IInv
<1>1. CASE Tick
  BY <1>1 DEF Tick, QuietInv
<1>2. CASE UNCHANGED vars
  BY <1>2 DEF vars, brokerVars, hostVars, QuietInv, Due, Coming, Handler
<1>3. ASSUME Next, ~Tick, disturbed' = morning', NEW d \in Consumers, d \in ran' PROVE Due(d)'
  <2>1. morning' = morning /\ (disturbed' = disturbed \/ disturbed' = disturbed + 1)
    <3>1. CASE Broker
      BY <3>1 DEF Broker, RenewTimer, Watchdog, Order, OrderFails, OrderEnds, Wedge, HandlerReadsCert,
                  HandlerReadsKey, BrokerRestarts, Disturb
    <3>2. CASE \E c \in Consumers : Consumer(c)
      <4>1. PICK c \in Consumers : Consumer(c)
        BY <3>2
      <4>2. CASE Probe(c) \/ Reboot(c) \/ Corrupt(c)
        BY <4>2 DEF Probe, Reboot, Corrupt, Disturb
      <4>3. CASE \E m \in mail[c] : Lose(c, m) \/ \E s \in Slots : Callback(c, s, m)
        BY <4>3 DEF Lose, Callback, Disturb
      <4>4. CASE \E s \in Slots : MoveCert(c, s) \/ MoveKey(c, s)
        BY <4>4 DEF MoveCert, MoveKey
      <4> QED BY <4>1, <4>2, <4>3, <4>4 DEF Consumer
    <3> QED BY <1>3, <3>1, <3>2 DEF Next
  <2>2. disturbed' = disturbed /\ disturbed = morning
    BY <1>3, <2>1, Numbers DEF TypeOK
  <2>3. d \in ran => Due(d)
    BY <2>2 DEF QuietInv
  <2>4. CASE RenewTimer \/ Watchdog \/ OrderEnds \/ HandlerReadsCert \/ HandlerReadsKey
    <3>1. UNCHANGED <<served, install>> /\ d \in ran
      BY <1>3, <2>4, ConstantsAssumption
      DEF RenewTimer, Watchdog, OrderEnds, HandlerReadsCert, HandlerReadsKey, Job, hostVars
    <3> QED BY <2>3, <2>4, <3>1, ComingStays DEF Due, Handler
  <2>5. CASE Wedge \/ BrokerRestarts \/ \E c \in Consumers : Reboot(c) \/ Corrupt(c) \/ \E m \in mail[c] : Lose(c, m)
    <3>1. disturbed' = disturbed + 1
      BY <2>5 DEF Wedge, BrokerRestarts, Reboot, Corrupt, Lose, Disturb
    <3> QED BY <2>2, <3>1, Numbers
  <2>6. ASSUME NEW c \in Consumers, Probe(c) PROVE Due(d)'
    <3>1. CASE d = c
      BY <2>2, <2>6, <3>1, ProbeQuiet
    <3>2. CASE d # c
      <4>1. /\ UNCHANGED <<acme, lego, reading, mail, served, install>> /\ d \in ran
            /\ known \subseteq known' /\ pending \subseteq pending'
        BY <1>3, <2>6, <3>2 DEF Probe, Job
      <4> QED BY <2>3, <4>1 DEF Due, Coming, Handler
    <3> QED BY <3>1, <3>2
  <2>7. ASSUME NEW c \in Consumers, NEW s \in Slots, NEW m \in mail[c], Callback(c, s, m) PROVE Due(d)'
    <3>1. CASE d = c
      BY <1>3, <2>3, <2>7, <3>1, CallbackQuiet DEF Callback
    <3>2. CASE d # c
      <4>1. /\ UNCHANGED <<acme, lego, known, pending, reading, served, ran>>
            /\ mail'[d] = mail[d] /\ install'[d] = install[d]
        BY <2>7, <3>2 DEF Callback, TypeOK
      <4> QED BY <1>3, <2>3, <4>1 DEF Due, Coming, Handler
    <3> QED BY <3>1, <3>2
  <2>8. ASSUME NEW c \in Consumers, NEW s \in Slots, MoveCert(c, s) \/ MoveKey(c, s) PROVE Due(d)'
    <3>1. CASE d = c
      BY <2>8, <3>1, MovesQuiet
    <3>2. CASE d # c
      <4>1. /\ UNCHANGED <<acme, lego, known, pending, reading, mail, ran>>
            /\ served'[d] = served[d] /\ install'[d] = install[d]
        BY <2>8, <3>2 DEF MoveCert, MoveKey, TypeOK, brokerVars
      <4> QED BY <1>3, <2>3, <4>1 DEF Due, Coming, Handler
    <3> QED BY <3>1, <3>2
  <2> QED BY <1>3, <2>4, <2>5, <2>6, <2>7, <2>8 DEF Next, Broker, Consumer
<1> QED BY <1>1, <1>2, <1>3 DEF QuietInv

\* No consumer serves an expired cluster certificate, and none is without one
\* at the end of a day on which nothing goes wrong, whatever the thresholds, if
\* fewer disturbances happen than the freshness probe asks for days
\* (fort-certcheck's fresh, ssl.nix), and callbacks are handled one at a time
\* and not cut between their moves: each of the timer, the watchdog and the
\* probe makes good what the others have missed, also on a host that has fallen
\* back to the placeholder.
THEOREM NeverOut == NoOverlap /\ NoCrash /\ FewDisturbances => (Spec => []NoOutage)
<1> SUFFICES ASSUME NoOverlap, NoCrash, FewDisturbances PROVE Spec => []NoOutage
  OBVIOUS
<1>1. IInv /\ IInv' /\ PairMatches /\ HalfWay /\ DaysInv /\ [Next]_vars => DaysInv'
  BY NextDays
<1>2. IInv /\ DaysInv /\ QuietInv => NoOutage
  <2> SUFFICES ASSUME IInv, DaysInv, QuietInv PROVE NoOutage
    OBVIOUS
  <2>1. ASSUME NEW c \in Consumers PROVE served[c] # Down /\ (served[c].ca => Remaining(served[c]) > 0)
    <3>1. served[c] # Down /\ (served[c].ca => Margin(served[c]) >= FreshDays)
      BY DEF DaysInv, DiskInv, ServedInv, Serves
    <3>2. served[c] \in Certs
      BY <3>1 DEF IInv, TypeOK
    <3>3. served[c].exp \in Nat /\ day \in Nat /\ disturbed \in Nat /\ disturbed <= MaxDisturb
      BY <3>2, Numbers DEF IInv
    <3> QED BY <3>1, <3>3, Constants DEF Margin, Remaining, FewDisturbances
  <2>2. ASSUME DayDone, disturbed = morning, NEW c \in Consumers PROVE served[c].ca
    <3>1. c \in ran /\ lego = "idle" /\ pending = {} /\ reading.to = {} /\ mail[c] = {} /\ Handler(c).at = "idle"
      BY <2>2, OneSlot DEF DayDone, Jobs
    <3>2. ~Coming(c)
      BY <3>1 DEF Coming
    <3> QED BY <2>2, <3>1, <3>2 DEF QuietInv, Due
  <2> QED BY <2>1, <2>2 DEF NoOutage
<1>3. IInv /\ IInv' /\ PairMatches /\ HalfWay /\ [Next]_vars => PairMatches' /\ HalfWay'
  BY NextPairs
<1>4. IInv /\ IInv' /\ SignedInv /\ [Next]_vars => SignedInv'
  BY NextSigned DEF IInv
<1>5. IInv /\ IInv' /\ HalfWay /\ DaysInv /\ SignedInv /\ QuietInv /\ [Next]_vars => QuietInv'
  BY NextQuiet
<1>6. Init => QuietInv
  BY DEF Init, QuietInv
<1> QED BY <1>1, <1>2, <1>3, <1>4, <1>5, <1>6, InitPairs, InitDays, InitSigned, InitImproves, NextIInv, PTL DEF Spec
=============================================================================
