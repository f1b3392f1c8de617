---------------------------- MODULE Certificates ----------------------------
(***************************************************************************)
(* The life of the cluster certificate: the broker that renews it          *)
(* (aspects/certificate-broker), the hosts that install it                 *)
(* (common/fort/ssl.nix) and the decisions both leave to fort-certcheck    *)
(* (pkgs/fort-certcheck).                                                  *)
(*                                                                         *)
(* Time is counted in days. The renewal timer, the watchdog and every      *)
(* consumer's freshness probe run at least once a day, and what they start *)
(* ends within the day: that is the guard of Tick. A certificate is named  *)
(* by who signed it and the day it expires, a private key by its           *)
(* certificate. The chain file is left out: it travels with the            *)
(* certificate.                                                            *)
(***************************************************************************)
EXTENDS Integers

CONSTANTS
    Consumers,      \* hosts with nginx that are not the broker
    Life,           \* days a certificate is valid when it is issued
    RenewDays,      \* lego renews when fewer days than this remain
    WatchdogDays,   \* watchdogMinDays
    FreshDays,      \* sslCertFreshMinDays
    Missing,        \* the file does not exist
    Unreadable,     \* the file holds no certificate
    Down,           \* nginx did not start
    Disturbances,   \* which kinds of disturbance may happen
    MaxDisturb,     \* bound: how many of them in a behaviour
    MaxDay          \* bound: the last day

Kinds == {"orderfail", "wedged", "loss", "unreachable", "corrupt", "reboot", "crash", "overlap", "restart"}

Days  == 0 .. MaxDay + Life
Certs == [ca : BOOLEAN, exp : Days]
NoPayload == Missing

ASSUME ConstantsAssumption ==
    /\ {Life, RenewDays, WatchdogDays, FreshDays, MaxDisturb, MaxDay} \subseteq Nat
    /\ 1 < FreshDays /\ FreshDays < WatchdogDays /\ WatchdogDays < RenewDays /\ RenewDays < Life
    /\ Consumers \cap {"timer", "watchdog"} = {}
    /\ {Missing, Unreadable, Down} \cap Certs = {} /\ Missing # Unreadable
    /\ Disturbances \subseteq Kinds

\* Bound: how many callbacks of a need the daemon handles at once.
Slots == 1 .. 2

VARIABLES
    day,
    morning,    \* history: the disturbances there had been when the day began
    ran,        \* the jobs that have run today
    \* the broker
    acme,       \* fullchain.pem and key.pem under /var/lib/acme
    lego,       \* "idle", or "key": the renewed key is not written yet
    wedged,     \* the renewal timer does not fire any more
    known,      \* consumers whose request the provider has recorded
    pending,    \* consumers the ssl-cert handler has to answer
    reading,    \* the handler's run: the certificate it has read, and for whom
    mail,       \* mail[c]: payloads on their way to consumer c
    \* the consumers
    disk,       \* disk[c]: fullchain.pem and key.pem under /var/lib/fort/ssl
    served,     \* served[c]: the certificate nginx has loaded, or Down
    sat,        \* consumers whose ssl-cert need is satisfied
    install,    \* install[c][s]: a callback's handler and its payload
    disturbed

brokerVars == <<acme, lego, wedged, known, pending, reading, mail>>
hostVars   == <<disk, served, sat, install>>
vars == <<day, morning, ran, brokerVars, hostVars, disturbed>>

Disturb(kind) ==
    /\ kind \in Disturbances
    /\ disturbed < MaxDisturb
    /\ disturbed' = disturbed + 1

(***************************************************************************)
(* fort-certcheck: pure decisions over files and the day.                  *)
(***************************************************************************)

Remaining(cert) == cert.exp - day

\* DecideRenewal: missing, unreadable, expired or below the threshold.
DecideRenewal(cert, minDays) ==
    cert \notin Certs \/ Remaining(cert) <= 0 \/ Remaining(cert) < minDays

IsFresh(cert, minDays) == ~DecideRenewal(cert, minDays)

\* A key has the name of its certificate; one that does not parse is nobody's.
KeyMatches(cert, key) == key = cert

\* Mutant: whether the key belongs to the certificate is not looked at.
ValidateCertOnly(cert, key) == cert \in Certs

\* ValidatePair: the certificate parses and the key is its own.
ValidatePair(cert, key) == cert \in Certs /\ KeyMatches(cert, key)

\* Mutant: a certificate that expires earlier is installed as well.
ShouldInstallAny(cand, key, current) ==
    /\ ValidatePair(cand, key)
    /\ current \in Certs => cand # current

ShouldInstall(cand, key, current) ==
    /\ ValidatePair(cand, key)
    /\ current \in Certs =>
        /\ cand # current
        /\ ~(Remaining(cand) <= 0 /\ Remaining(current) > 0)
        /\ cand.exp >= current.exp

(***************************************************************************)
(* The broker.                                                             *)
(***************************************************************************)

Renewed == [ca |-> TRUE, exp |-> day + Life]

\* acme-order-renew: lego orders when the certificate is due by its own
\* threshold. It writes the certificate first.
Order ==
    /\ lego = "idle"
    /\ IF Remaining(acme.cert) < RenewDays
       THEN /\ acme' = [acme EXCEPT !.cert = Renewed]
            /\ lego' = "key"
       ELSE UNCHANGED <<acme, lego>>

\* The order is refused (DNS, rate limit, CA).
OrderFails ==
    /\ lego = "idle" /\ Remaining(acme.cert) < RenewDays
    /\ Disturb("orderfail")
    /\ UNCHANGED <<acme, lego>>

Job(j) == j \notin ran /\ ran' = ran \cup {j}

\* The daily timer of acme-order-renew.
RenewTimer ==
    /\ Job("timer") /\ ~wedged
    /\ (Order /\ UNCHANGED disturbed) \/ OrderFails
    /\ UNCHANGED <<day, morning, wedged, known, pending, reading, mail, hostVars>>

\* fort-cert-renewal-watchdog: below its own threshold it starts the order.
Watchdog ==
    /\ Job("watchdog")
    /\ IF DecideRenewal(acme.cert, WatchdogDays)
       THEN (Order /\ UNCHANGED disturbed) \/ OrderFails
       ELSE UNCHANGED <<acme, lego, disturbed>>
    /\ UNCHANGED <<day, morning, wedged, known, pending, reading, mail, hostVars>>

\* The renewed key is written; postRun starts the trigger, which finds the
\* response of every consumer it knows changed.
OrderEnds ==
    /\ lego = "key"
    /\ acme' = [acme EXCEPT !.key = acme.cert]
    /\ lego' = "idle"
    /\ pending' = known
    /\ UNCHANGED <<day, morning, ran, wedged, known, reading, mail, hostVars, disturbed>>

\* The timer stops firing, for good.
Wedge ==
    /\ ~wedged
    /\ Disturb("wedged")
    /\ wedged' = TRUE
    /\ UNCHANGED <<day, morning, ran, acme, lego, known, pending, reading, mail, hostVars>>

\* The ssl-cert handler reads the certificate ...
HandlerReadsCert ==
    /\ reading.to = {} /\ pending # {}
    /\ reading' = [cert |-> acme.cert, to |-> pending]
    /\ pending' = {}
    /\ UNCHANGED <<day, morning, ran, acme, lego, wedged, known, mail, hostVars, disturbed>>

\* ... and then the key, which may be another one by now; the callbacks go out.
HandlerReadsKey ==
    /\ reading.to # {}
    /\ mail' = [c \in Consumers |->
                  IF c \in reading.to THEN mail[c] \cup {[cert |-> reading.cert, key |-> acme.key]} ELSE mail[c]]
    /\ reading' = [cert |-> Missing, to |-> {}]
    /\ UNCHANGED <<day, morning, ran, acme, lego, wedged, known, pending, hostVars, disturbed>>

\* The broker's daemon starts again: answers under way are lost, and the
\* capability is initialized (triggers.initialize): every consumer it knows is
\* called back.
BrokerRestarts ==
    /\ Disturb("restart")
    /\ pending' = known
    /\ reading' = [cert |-> Missing, to |-> {}]
    /\ mail' = [c \in Consumers |-> {}]
    /\ UNCHANGED <<day, morning, ran, acme, lego, wedged, known, hostVars>>

(***************************************************************************)
(* A consumer.                                                             *)
(***************************************************************************)

Working(c) == \E s \in Slots : install[c][s].at # "idle"

\* Mutant: a satisfied need is not probed.
ProbeUnsatisfied(c) == c \notin sat

\* The freshness check, for a need that is satisfied; an unsatisfied one is
\* sought in any case.
NeedsCertificate(c) == c \notin sat \/ ~IsFresh(disk[c].cert, FreshDays)

\* A run of the fulfill script: a probe that fails unsatisfies the need, and
\* the broker is asked.
Probe(c) ==
    /\ Job(c)
    /\ IF NeedsCertificate(c)
       THEN /\ sat' = sat \ {c}
            /\ \/ known' = known \cup {c} /\ pending' = pending \cup {c} /\ UNCHANGED disturbed
               \/ Disturb("unreachable") /\ UNCHANGED <<known, pending>>
       ELSE UNCHANGED <<sat, known, pending, disturbed>>
    /\ UNCHANGED <<day, morning, acme, lego, wedged, reading, mail, disk, served, install>>

Idle == [at |-> "idle", load |-> NoPayload]

\* A callback arrives and its handler decides: an unusable pair fails the
\* need, one that is no improvement satisfies it as it is. The daemon has no
\* lock: a handler may still be moving what came before ("overlap").
Callback(c, s, m) ==
    /\ m \in mail[c] /\ install[c][s].at = "idle"
    /\ \A t \in Slots : t < s => install[c][t].at # "idle"
    /\ IF Working(c) THEN Disturb("overlap") ELSE UNCHANGED disturbed
    /\ mail' = [mail EXCEPT ![c] = @ \ {m}]
    /\ IF ShouldInstall(m.cert, m.key, disk[c].cert)
       THEN /\ install' = [install EXCEPT ![c][s] = [at |-> "cert", load |-> m]]
            /\ UNCHANGED sat
       ELSE /\ sat' = IF ValidatePair(m.cert, m.key) THEN sat \cup {c} ELSE sat \ {c}
            /\ UNCHANGED install
    /\ UNCHANGED <<day, morning, ran, acme, lego, wedged, known, pending, reading, disk, served>>

\* A callback is lost.
Lose(c, m) ==
    /\ m \in mail[c]
    /\ Disturb("loss")
    /\ mail' = [mail EXCEPT ![c] = @ \ {m}]
    /\ UNCHANGED <<day, morning, ran, acme, lego, wedged, known, pending, reading, hostVars>>

\* mv of the certificate ...
MoveCert(c, s) ==
    /\ install[c][s].at = "cert"
    /\ disk' = [disk EXCEPT ![c].cert = install[c][s].load.cert]
    /\ install' = [install EXCEPT ![c][s].at = "key"]
    /\ UNCHANGED <<day, morning, ran, brokerVars, served, sat, disturbed>>

\* nginx refuses a pair that does not match and goes on with what it has.
Reloaded(now, pair) == IF ValidatePair(pair.cert, pair.key) THEN pair.cert ELSE now

\* Mutant: the scratch directory outlives the handler.
MoveKeyLeavesScratch(c, s) ==
    /\ install[c][s].at = "key"
    /\ disk' = [disk EXCEPT ![c].key = install[c][s].load.key]
    /\ served' = [served EXCEPT ![c] = Reloaded(@, disk'[c])]
    /\ install' = [install EXCEPT ![c][s].at = "idle"]
    /\ sat' = sat \cup {c}
    /\ UNCHANGED <<day, morning, ran, brokerVars, disturbed>>

\* ... then of the key, a reload of nginx, and the need is satisfied.
MoveKey(c, s) ==
    /\ install[c][s].at = "key"
    /\ disk' = [disk EXCEPT ![c].key = install[c][s].load.key]
    /\ served' = [served EXCEPT ![c] = Reloaded(@, disk'[c])]
    /\ install' = [install EXCEPT ![c][s] = Idle]
    /\ sat' = sat \cup {c}
    /\ UNCHANGED <<day, morning, ran, brokerVars, disturbed>>

\* The self-signed certificate with which nginx can start, good for a day.
Placeholder == [ca |-> FALSE, exp |-> day + 1]

\* nginx's preStart: a missing or unreadable certificate, or a missing key, is
\* replaced by the placeholder.
PreStart(pair) ==
    IF pair.cert \in {Missing, Unreadable} \/ pair.key = Missing
    THEN [cert |-> Placeholder, key |-> Placeholder] ELSE pair

\* The host goes down and up again; a "crash" hits a callback handler between
\* its two moves. The callback that dies is not answered.
Reboot(c) ==
    /\ IF Working(c) THEN Disturb("crash") ELSE Disturb("reboot")
    /\ install' = [install EXCEPT ![c] = [s \in Slots |-> Idle]]
    /\ disk' = [disk EXCEPT ![c] = PreStart(@)]
    /\ served' = [served EXCEPT ![c] = Reloaded(Down, disk'[c])]
    /\ UNCHANGED <<day, morning, ran, brokerVars, sat>>

\* The certificate file is damaged; nginx does not notice before it restarts.
Corrupt(c) ==
    /\ ~Working(c)
    /\ Disturb("corrupt")
    /\ disk' = [disk EXCEPT ![c].cert = Unreadable]
    /\ UNCHANGED <<day, morning, ran, brokerVars, served, sat, install>>

(***************************************************************************)
(* The specification.                                                      *)
(***************************************************************************)

Jobs == {"watchdog"} \cup Consumers \cup (IF wedged THEN {} ELSE {"timer"})

\* Every job of the day has run, and what it started has ended.
DayDone ==
    /\ Jobs \subseteq ran /\ lego = "idle" /\ pending = {} /\ reading.to = {}
    /\ \A c \in Consumers : mail[c] = {} /\ ~Working(c)

Tick ==
    /\ day < MaxDay /\ DayDone
    /\ day' = day + 1 /\ ran' = {} /\ morning' = disturbed
    /\ UNCHANGED <<brokerVars, hostVars, disturbed>>

\* The broker has its first certificate; the consumers have started nginx.
Init ==
    /\ day = 0 /\ ran = {} /\ morning = 0
    /\ acme = [cert |-> Renewed, key |-> Renewed]
    /\ lego = "idle" /\ wedged = FALSE
    /\ known = {} /\ pending = {} /\ reading = [cert |-> Missing, to |-> {}]
    /\ mail = [c \in Consumers |-> {}]
    /\ disk = [c \in Consumers |-> PreStart([cert |-> Missing, key |-> Missing])]
    /\ served = [c \in Consumers |-> Placeholder]
    /\ sat = {}
    /\ install = [c \in Consumers |-> [s \in Slots |-> Idle]]
    /\ disturbed = 0

Broker == RenewTimer \/ Watchdog \/ OrderEnds \/ Wedge \/ HandlerReadsCert \/ HandlerReadsKey
          \/ BrokerRestarts

Consumer(c) ==
    \/ Probe(c) \/ Reboot(c) \/ Corrupt(c)
    \/ \E m \in mail[c] : Lose(c, m) \/ \E s \in Slots : Callback(c, s, m)
    \/ \E s \in Slots : MoveCert(c, s) \/ MoveKey(c, s)

Next == Broker \/ (\E c \in Consumers : Consumer(c)) \/ Tick

Spec == Init /\ [][Next]_vars

(***************************************************************************)
(* Properties.                                                             *)
(***************************************************************************)

Files == Certs \cup {Missing, Unreadable}
Pairs == [cert : Files, key : Files]
Handlers == {Idle} \cup [at : {"cert", "key"}, load : Pairs]

\* The type invariant: an idle handler, and only it, holds no payload.
TypeOK ==
    /\ day \in 0 .. MaxDay /\ ran \subseteq {"timer", "watchdog"} \cup Consumers
    /\ acme \in [cert : Certs, key : Certs]
    /\ lego \in {"idle", "key"} /\ wedged \in BOOLEAN
    /\ pending \subseteq known /\ known \subseteq Consumers
    /\ reading \in [cert : Files, to : SUBSET Consumers]
    /\ mail \in [Consumers -> SUBSET Pairs]
    /\ disk \in [Consumers -> Pairs]
    /\ served \in [Consumers -> Certs \cup {Down}]
    /\ sat \subseteq Consumers
    /\ install \in [Consumers -> [Slots -> Handlers]]
    /\ disturbed \in 0 .. MaxDisturb /\ morning \in 0 .. disturbed

\* The installed pair works ("install atomically", ssl.nix:30): when no handler
\* is at work, a consumer's key belongs to its certificate, although the
\* broker's handler can read a certificate and a key of different renewals.
PairMatches ==
    \A c \in Consumers : ~Working(c) /\ disk[c].cert \in Certs => disk[c].key = disk[c].cert

\* No outage: nginx is never down and never serves a cluster certificate that
\* has expired, and a host that has lost the cluster certificate ("serving
\* stale beats serving self-signed", ssl.nix:112), or has not got it yet, serves
\* it again at the end of the first day on which nothing goes wrong, although
\* timers wedge, orders fail, pushes are lost, files are damaged and hosts
\* cannot be reached, fewer times than the probe's threshold has days.
NoOutage ==
    /\ \A c \in Consumers : served[c] # Down /\ (served[c].ca => Remaining(served[c]) > 0)
    /\ DayDone /\ disturbed = morning => \A c \in Consumers : served[c].ca

\* No downgrade ("refuse downgrades", ssl.nix:29): a readable certificate is
\* only ever replaced by one that expires no earlier, in whatever order the
\* answer to a request and the push of a renewal arrive.
NoDowngrade ==
    [][\A c \in Consumers :
         disk[c].cert \in Certs /\ disk'[c].cert \in Certs => disk'[c].cert.exp >= disk[c].cert.exp]_vars

=============================================================================
