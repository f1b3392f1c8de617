# Verification of fort-nix

TLA+ models of the stateful programs of this repository, TLC configurations
that check them on small instances, and TLAPS proofs. Paths below are relative
to the repository root.

## The system

Fort manages a cluster of NixOS hosts. Most of the repository is declarative
configuration; the programs that keep state and run concurrently are these.

| Component | State it keeps | Operations |
|---|---|---|
| Consumer fulfillment (`common/fort/control-plane/fulfill.nix`, `handlers.nix`, the callback half of `pkgs/fort-provider/main.go`, units in `common/fort/control-plane.nix`) | `fulfillment-state.json`: per need `satisfied`, `last_sought`, `request_hash`; the daemon's list of needs; installed credentials | a run of the fulfill script (freshness probe, change detection, nag test, provider call, merge), a callback, force-nag, deploy, reboot, daemon restart |
| Provider (`pkgs/fort-provider/main.go`) | the daemon's `providerState` and `provider-state.json`: request and last response per `origin:need` | async request, boot initialization, `--trigger`, `--gc` (sweep and TTL rotation), callbacks |
| Capability handlers (`apps/pocket-id/provider`, and forgejo, attic, homeassistant, mesh) | clients, tokens or keys in a backend | one aggregate run over all entries |
| Overlay manager (`pkgs/fort-overlay-manager`, `common/fort/overlays.nix`) | `current.json`, `previous.json`, `last-attempt.json`, `state`, two gc roots, unit files | check, activate, rollback, boot, refresh |
| Provisioner (`pkgs/provisioner`, `provisioning/`) | the lease in memory and in `state.json`, reports and archives per host | arm, disarm, activate, complete, prepare, bootstrap |
| Overlay registry (`apps/overlay-registry`) | the newest store path per package, in memory and in `registry.json` | publish, read |
| Certificate broker, `ssl-cert` consumers and `pkgs/fort-certcheck` (`aspects/certificate-broker`, `common/fort/ssl.nix`) | the broker's pair under `/var/lib/acme`, each host's installed pair, what nginx has loaded | renewal timer, watchdog, handler, push, freshness probe, install |
| Identity proxy (`pkgs/identity-proxy`) | a whois cache, the loaded identity document, signed session cookies | request, login, deploy, restart |
| git-token handler (`apps/forgejo/provider`) | Forgejo's tokens, a token file per host and access | one run over all entries: reuse or replace, then collect |
| fort-tokens; CLI, uploads, probes, speech, emergency reboot | a table for display; none | single SQL statements; pure I/O or pure functions |

How they interact. A consumer's script calls a capability of a provider; the
provider records the request, runs the capability's handler over *all* recorded
requests, and posts changed answers back to the consumers (`/fort/needs/...`
callbacks), where the daemon runs the need's handler and sets `satisfied`.
Nothing is retried except by the consumer's next nag. CI publishes a store path
in the overlay registry and asks hosts to refresh; the overlay manager polls.
An operator arms a lease; a device booted from the USB drive claims it, reports,
and polls for its archive. The broker's renewal triggers the `ssl-cert` capability,
and Forgejo's tokens rotate under the provider's TTL: both are capabilities whose
handler's effects reach the consumers through the same requests and callbacks.

What is hard here. Whole-file read-modify-write of JSON files by several
processes without a lock, with writes that truncate first; goroutines that share
a map without a lock; state read before a slow call and used after it; callbacks
lost, late or out of order; crashes between an effect and its record; multi-step
commits of files, gc roots and units across reboots; backoff that has to end;
files removed or served outside a mutex. `PROJECT.json` lists each of these as a
hazard at its line, with the properties that would catch it.

What makes each component correct:

- *Fulfillment*: the flag `satisfied` is only ever set by a handler that
  accepted something; a need is nagged while unsatisfied; a decayed credential
  is replaced; a changed or new need reaches its provider.
- *Provider*: a consumer that stopped nagging holds the credential the backend
  accepts, and the provider knows it; no other consumer's request replaces or revokes
  it; a declared need is served in the end.
- *Overlay manager*: only healthy versions are committed; a committed version
  survives crashes and store collections; the status is true; the host
  converges to what is published.
- *Overlays of a host and the registry*: dependencies land first, whatever the
  graph; one overlay's failure stops no other; an acknowledged publication is kept.
- *Provisioner*: one claimant per lease; a device installs the archive of its
  own claim.
- *Certificates*: key and certificate match; no downgrade; nothing served expires.
- *Identity proxy*: no answer is older than the cache's lifetime; a deploy counts
  at once on the tailnet and within the session's lifetime elsewhere.
- *Git tokens*: a consumer always comes back to a token Forgejo accepts, and never
  holds one of another origin or access; tokens of nobody are revoked.

## Modules

`Fulfillment`, `Provider`, `OverlayManager`, `Provisioner`, `Certificates`,
`IdentityProxy` and `GitTokens` each model one component; `OverlayHost` extends
`OverlayRegistry` and composes the two; `Enrollment` and `Subscription` are the abstract
specifications that `Provisioner` and `Provider` implement. `MC<name>` instantiates a module for TLC;
`<name>Proofs` holds its theorems.
Definitions keep the names of the functions they model, and `PROJECT.json` maps
each to its lines. Failures and other events of the environment are
*disturbances*: an instance says which kinds may happen (`Disturbances`) and how
many in one behaviour (`MaxDisturb`); they are never fair. Definitions that a
comment calls a mutant are deliberately wrong versions of the definition that
follows them: with one in its place, the corresponding run must fail.

### Fulfillment

One consumer host. `file` is the state file: `NoFile`, `Torn` (truncated, not
written yet), or a record per need. Each program has its own copies: `local` and
`rview` of a script run, `cview` of a callback, `nview` of a force-nag; every
read, truncation and write of the file is a step of its own, so all interleavings
over stale and torn copies are behaviours. jq's treatment of empty input (empty
output) and of `//` on `false` is modelled, since it decides what a merge keeps.
A timestamp is abstracted to what the nag test tells apart, a request body to a
version, its SHA-256 to the request itself. The provider is what this host sees
of it: the last request it recorded (`got`) and the callbacks it owes (`owed`);
a "push" is a callback nobody asked for. The daemon's `needs` is what it read at
start, which is how a deploy and the daemon come to disagree.

### Provider

One async capability of one host with pocket-id's handler. The daemon's memory
`mem` and the file `disk` are distinct; request workers, the boot
initialization, one trigger and one gc run are processes with their own input,
output, bytes to write (`snap`) and callbacks (`plan`, `mail`). A credential is
the number of its issue; `valid[k]` is the one the backend accepts. The handler
is one atomic step; what happens around it is not. A consumer is reduced to
`sat` and `inst`: it asks while unsatisfied (Fulfillment shows that it does),
and `Forget` is its freshness probe or a lost state; both outlive a deploy that withdraws
its need, as the consumer's state file does. Whether the capability is
initialized at start-up is fixed at the beginning (`initialize`), and `Disturbances`
gives the kinds for either: a crash with nothing to save (`"crash"`), between a handler's
run and the write of its answers (`"cut"`), or inside that write (`"torn"`).

*Calm behaviours.* Requests, the boot, triggers and gc runs are separate goroutines and
processes, and nothing in the code keeps them apart; where they overlap, what the module
promises of credentials fails. `Calm` names what has to be assumed, step by step: one of
them is at work at a time (`OneAtATime`), a trigger or a rotation finds every entry
answered by a credential that the backend keeps (`NothingNew`), and no need is declared
again that its consumer still has marked satisfied (`NoStaleReturn`). `CalmSpec` is the
specification with these behaviours only. Each of the three is needed (see below).

*Refinement.* `Subscription` says what a capability promises its subscribers without a
daemon, a file or callbacks: a subscriber takes the credential that the backend accepts
at that moment, and what it holds is neither replaced nor revoked until it asks again,
whoever else asks. The mapping (`Abstract`) takes `valid` and `count` as they are, and a
consumer to rely on what it has installed while it declares its need and is satisfied
(`Relied`); the memory,
the file, the runs and the callbacks are hidden. Where `SatisfiedMeansValid` speaks of
states in which everything is done, this speaks of every step: a handler run handles all
entries, those of satisfied consumers included, and must leave them alone.

### OverlayManager

One overlay of one host. A version is a store path; what a health check sees is
whatever runs, and a version whose manifest has no check (`Unprobed`) is committed
without one. Every file write, gc-root removal and registration, unit generation, reload,
stop and start is a step, those of `rotatePrevious` included (`Rotation`); a reboot ends
processes and empties `/run`; a store collection keeps what a root or a running service
holds. Where nix refuses to register a root, a plain link stands in (`Refused`): it names
the store path, which is how a rotation finds it, and need not keep it. Time is counted in
poll intervals (`wait`), and the delay is the code's doubling loop (`Doubled`).

### Provisioner

The broker, the preparation script and the boot clients. Handlers under the
mutex are one step; arm's removal of files before the mutex, the preparation
(read report, open archive, write archive, take the mutex again) and the serving
of the archive after the mutex are steps of their own. A token is the number of
its claim, and reports and archives are named by the token whose host key they
carry. A removal while `tar` writes leaves the writer with a file that has no
name. A client that has unpacked its archive builds and installs, which may fail
(`Installs`), and a device can be booted from the drive again at any point, a finished
installation included (`PowerCycle`). Saving is atomic (write and rename) but may fail,
which leaves memory ahead of the disk. Windows and claims run out in the order they began.

*Refinement.* `Enrollment` says what `docs/unattended-provisioning.md` promises
without a broker: enrollments are issued, each is spent on at most one boot of one
device, and a device installs the system of the enrollment it spent. The mapping
(`Abstract`) takes an arming for an enrollment, an arming with an answered claim for
a spent one, and a device for enrolled from the answer to its claim to the end of
its installation. An installed device is mapped by the archive it *got*, not by the
token it holds, so a wrong archive would be a step Enrollment does not have.

### OverlayRegistry and OverlayHost

The registry's POST changes memory first and answers after the save; a save may
fail and the process may restart, at any point. OverlayHost has several overlays,
the depth-first `orderedOverlays`, and the loops of `check` and `boot` over its result.
The recursion of `visit` is a stack of the overlays being visited (`Visits` calls,
`Leaves` returns and appends; a call that finds its overlay visited returns at once,
which cuts a cycle where it comes back), so that it can be reasoned about step by step.
The loops start when it is done (`Ordered`): `todo` is
the set of overlays still to handle, and the next one is the first of them in the order
(`IsNext`). The registry's entries are read once at the start. An activation is one step with one of
its outcomes (committed, refused, unhealthy with or without a version to roll back
to, evaluation failed), since `OverlayManager` has its steps. The reference for the
order is reachability (`Below`), computed independently of the walk.

### Certificates

Broker and consumers over days. The timer, the watchdog and every probe run once a
day (the guard of `Tick`), unless a disturbance wedges the timer or keeps an order,
a push or a probe from succeeding. lego writes certificate and key in two steps, and
the handler reads them in between; an install moves certificate and key in two steps,
after the checks of fort-certcheck (parsable, key matches, expires no earlier), which
are operators over days. A need has two callback handlers (`Slots`), since the daemon
takes the next callback while one is at work: that one arrives then is a disturbance
(`"overlap"`), as is a crash of a host in the middle of a handler (`"crash"`). The broker's
daemon may restart at any time, in the middle of an order too. nginx serves what it loaded
at its last reload or start.

### IdentityProxy

Requests, the whois cache with lookups outside its mutex, logins, deploys of the
identity document with the restart they cause, crashes and outages of tailscaled.
Time is kept as ages, so behaviours are unbounded. `whoisWas` and `entryWas` record
what was true so many ticks ago, and the properties compare answers with them.

### GitTokens

The handler over all entries, each database or file effect a step: reuse of a stored
token, revocation, issue, save, then the collection of files nobody wants. It is
started by a request, a rotation or a sweep, on the daemon's memory or the state file
(`mem`, `disk`), and its answers reach consumers by callbacks that can be lost. An
error answer installs `null` and still satisfies the need, as in the code. Tokens are
numbers that are used again when nothing refers to them.

## Runs

Each passing property has a mutant in `PROJECT.json` that breaks it.

| Run | Instance | Shows |
|---|---|---|
| `fulfillment_safety` | two needs (one called back, one synchronous), one unit, one callback at once, two disturbances of any kind | `TypeOK`; `SatisfiedIsEarned` |
| `fulfillment_live` | one need with a freshness probe, one unit, decay, push, loss, failure, restart, at most three | `DecayRepaired`, `NeverForgotten` |
| `fulfillment_change` | a deploy after a pushed callback | *violated*: `ChangeReachesProvider` |
| `provider_calm` | two consumers, two workers, a trigger and a gc with TTL under `CalmSpec`, a capability that is or is not initialized at start-up, five disturbances: loss, crash, deploy, failure, error answers, forgetting, trigger, gc; without initialization also a crash before or inside the save | `TypeOK`, `SatisfiedMeansValid`, `SubscriberKept`, `ImplementsSubscription` |
| `provider_live` | two consumers, one worker, initialization, TTL, trigger and gc beside the requests, crashes and every failure outside a write, two of them | `DeclaredServed` |
| `overlay_safety` | four versions, one of them broken, one without a health check; every disturbance, four of them | `TypeOK`, `CommittedIsHealthy` |
| `overlay_live` | the same versions; publish, failure, flaky check, reboot, store collection, refused gc root, five of them | `CommittedIsKept`, `StatusIsTruthful`, `Converges` |
| `provisioner_safety` | two hosts, two devices, two arms, three claims; three of savefail, crash, preparefail, lost, resend, powercycle | `TypeOK`, `OneClaimant`, `OwnArchive`, `CompletedIsWhole`, `ImplementsEnrollment` |
| `overlay_host` | three overlays with every dependency graph of up to three edges, the complete one and four more, two publications, two disturbances of any kind | `TypeOK`, `OrderIsSound`, `DependencyLandsFirst`, `FailureIsolated`, `AckedSurvives` |
| `certificates` | two consumers, twelve days (two renewals), two of orderfail, wedged, loss, unreachable, corrupt, reboot, restart; one callback of a need at a time | `TypeOK`, `PairMatches`, `NoDowngrade`, `NoOutage` |
| `identity_proxy` | two users, one address, two requests at once, two of reassign, outage, deploy, crash | `TypeOK`, `AnswerIsRecent`, `VpnFollowsDoc`, `SessionEnds` |
| `git_tokens` | two needs that share a file, have their own, or of which one is refused; two disturbances of any kind | `TypeOK`, `OwnToken`, `AccessRestored`, `OrphansRevoked` |

Bounds. Two needs or consumers suffice for one to interfere with another, since
they meet only in whole-file writes and in aggregate handler runs. `fulfillment_live`
has one unit: a Darwin host has no other (`control-plane.nix:503`), and a NixOS host none
after its boot run. Two healthy versions, a broken one and one without a check give a
current version, one to go back to, a bad update, and one committed unseen; the ceiling of three intervals is met by the third attempt, as six hours
are in the code after a few more. Every interesting history of the overlay
(commit, bad update, rollback, crash inside either, a refused root and a collection) takes
at most five disturbances; the mutants need at most that. Two workers are an
earlier and a later request in `provider_calm`, of which one is at work. Two arms are an earlier and a later
claim of the same host, or of two hosts. `MaxCred` and `MaxClaims` are above
what the disturbances of a run can use up. `overlay_host` has the 42 graphs of at
most three edges without self-loops over three overlays (every chain, fork, join and cycle),
the complete graph, and four with self-loops or disabled overlays; two
packages are published before, one for the first time. In `certificates` the
thresholds keep the code's order (`Life` 8, `RenewDays` 5, `WatchdogDays` 4,
`FreshDays` 3 for 90, 30, 25 and 21 days): two disturbances are fewer than the days
between the probe's threshold and the expiry, which is what `NoOutage` is about. In
`identity_proxy` an entry lives two ticks and a session one; `MaxDelay` bounds how
long an answer of tailscaled may lie before the handler stores it, an assumption on
the environment, as the code sets no timeout there. In `git_tokens` a token is due
after two ticks and `MaxTok` is above what can be referred to at once. Where a run says
`CHECK_DEADLOCK FALSE` the system may stop: everything is satisfied, or
everything is installed.

Fairness. Timers fire again and again (systemd), a process that has started runs
on to its end, time passes, the boot unit runs, and a provider that owes a
callback sends it or loses it. In Provider a consumer's request is strongly fair:
the workers are busy now and then, and the consumer asks at every nag interval
until it is served. In GitTokens a run goes on to its end, gc's collection and the
requests of unsatisfied consumers are strongly fair for the same reason; both liveness
properties assume that the rotation finds some entry with a response again and again
(`Rotating`), for the reason given below, and `OrphansRevoked` that revocations work
(`RevocationsWork`). No disturbance is ever assumed or ruled out beyond its bound.

## Where the code and its texts disagree

One disagreement is a run with an expected violation:

- **fulfillment_change.** `updateFulfillmentState` writes entries back without
  `request_hash`, so a later change of the request is not seen.

The models also reach these. Those that name a run can be reproduced by the one change to
it that they name:

- In `provider_calm` each conjunct of `Calm` is needed. Without `OneAtATime`,
  `SatisfiedMeansValid`, `SubscriberKept` and the step simulation fail: of two goroutines
  the one with the older handler output can call back last, and a sweep can delete the
  client of a consumer served meanwhile. Without `NothingNew`, `SatisfiedMeansValid` and the
  step simulation: a trigger that finds an entry unanswered, or a key service down, saves an
  answer the daemon does not know. Without `NoStaleReturn`, a
  need is withdrawn, its client swept and the need declared again while
  `fulfillment-state.json` still says satisfied: the consumer keeps a dead credential until
  its freshness probe, if it has one, notices.
- With `"revert"` in `overlay_live`, `Converges` fails: a failed update without a
  previous version is left running, and after CI goes back to the committed version
  every check says up to date.
- With `"rearm"` in `provisioner_safety`, `OwnArchive` fails: a preparation of an
  earlier claim that has yet to open its archive writes it under the name the new
  claimant polls.
- With `"crash"` in `certificates`, `PairMatches` fails: a crash between the two
  moves of an installation (`ssl.nix:78`) leaves a new certificate with an old key,
  and the next push of the same certificate is skipped as identical.
- With `"overlap"` in `certificates`, `PairMatches` and `NoDowngrade` fail:
  `handleCallback` runs the handlers of a need at once (`fort-provider/main.go:899`), and
  each checks before the other has moved. With three disturbances and all four thresholds
  a day later `NoOutage` fails as well: a mismatched pair is not repaired in time.
- Without `[]RevocationsWork`, `OrphansRevoked` fails in `git_tokens`: `RevokeToken`
  returns no error (`apps/forgejo/provider/forgejo.go:58`), `garbageCollect` removes the
  file all the same (`main.go:246`), and with it what leads to the token. It stays valid
  and belongs to nobody, against "revoke tokens for files that shouldn't exist".
- A version without a health check is committed as "permanent" even if nothing of it runs
  (its store path was collected between fetch and start), and a version whose gc root nix
  has refused (`fort-overlay-manager/main.go:866`) can be collected while it is committed:
  `StatusIsTruthful` and `CommittedIsKept` speak of the others.
- The daemon answers 404 to the callback of a need that was deployed after it
  started; only `capabilities.json` restarts it (`fort-provider/main.go:882`).
- A callback's `satisfied = false` loses to the script's older `true`, since
  jq's `//` takes `false` for missing (`fulfill.nix:160`).
- A force-nag during a freshness probe's write leaves an entry without
  `last_sought`, on which every later run aborts (`fulfill.nix:102`).
- A crash between the pocket-id handler and the save makes the boot send the old
  secret (`fort-provider/main.go:351`): with `"cut"` for an initialized capability in
  `provider_calm`, `SatisfiedMeansValid` fails.
- `--gc` and `--trigger` work on the file they read at their start: a sweep can
  delete the client of a consumer served meanwhile, a trigger can lose an entry;
  and the daemon's next save brings back an entry that gc removed.
- A crash inside the write of `provider-state.json` leaves an empty file, with
  which the daemon does not start (`main.go:241`); this is why `provider_live`
  leaves crashes inside a write out.
- Two managers at once (a refresh beside the timer, `overlays.nix:143`) can
  commit one version and run another.
- An evaluation that fails at boot leaves the overlay down while checks say up to
  date (`fort-overlay-manager/main.go:403`).
- bootstrap serves an archive that tar is still writing, with status 200; the
  client stops on it. A download that checked its token before an arm may be
  served the next claim's archive. A crash during a preparation leaves
  `preparing_at` set, so the report is refused until the host is armed again.
- The git-token handler's error answers satisfy their needs with `null` and are not
  kept as responses, so that the rotation, which looks at responses only, never comes
  back to them if there is no other entry.
- A revocation that fails prints to stdout (`apps/forgejo/provider/forgejo.go:61`),
  which spoils the JSON answer of the whole run. A crash between gc's revocation and
  its removal of the file leaves a revoked token that is reused until it is due. A
  sweep can replace a token without telling its consumers until the next rotation;
  two runs at once can store a revoked token.

## Proofs

Eight modules hold the theorems; each is for any value of its component's
constants (any needs, hosts, versions, thresholds and bounds). The hypotheses a
theorem has beside its specification are written in front of it and say which instances it
is about; a run of the table above has an instance that satisfies them, and the list
of disagreements says what can happen without most of them. The inductive invariants were
checked with TLC before they were proved.

| Module | Theorem | States |
|---|---|---|
| `FulfillmentProofs` | `TypeCorrect` | `Spec => []TypeOK` |
| | `SatisfiedEarned` | `Spec => []SatisfiedIsEarned` |
| `ProviderProofs` | `TypeCorrect` | `Spec => []TypeOK` |
| | `SatisfiedAreValid` | `Orderly => (CalmSpec => []SatisfiedMeansValid)` |
| | `SubscribersKept` | `Orderly => (CalmSpec => []SubscriberKept)` |
| | `DaemonImplementsSubscription` | `Orderly => (CalmSpec => ImplementsSubscription)` |
| `OverlayManagerProofs` | `TypeCorrect` | `Spec => []TypeOK` |
| | `CommittedHealthy` | `Alone => (Spec => []CommittedIsHealthy)` |
| | `CommittedKept` | `Alone /\ BootsWell => (Spec => []CommittedIsKept)` |
| | `StatusTruthful` | `Alone /\ BootsWell => (Spec => []StatusIsTruthful)` |
| `OverlayHostProofs` | `PublishedSurvives` | `Spec => []AckedSurvives` |
| | `FailuresIsolated` | `Spec => []FailureIsolated` |
| | `OrderSound` | `Spec => []OrderIsSound` |
| | `DependenciesFirst` | `Spec => DependencyLandsFirst` |
| | `TypeCorrect` | `Spec => []TypeOK` |
| `ProvisionerProofs` | `TypeCorrect` | `Spec => []TypeOK` |
| | `ClaimedOnce` | `Spec => []OneClaimant` |
| | `OwnArchiveInstalled` | `NoOverlap => (Spec => []OwnArchive)` |
| | `CompletedWhole` | `NoOverlap => (Spec => []CompletedIsWhole)` |
| | `BrokerImplementsEnrollment` | `NoOverlap => (Spec => ImplementsEnrollment)` |
| `CertificatesProofs` | `TypeCorrect` | `Spec => []TypeOK` |
| | `NeverDowngraded` | `NoOverlap => (Spec => NoDowngrade)` |
| | `PairsMatch` | `NoOverlap /\ NoCrash => (Spec => []PairMatches)` |
| | `NeverOut` | `NoOverlap /\ NoCrash /\ FewDisturbances => (Spec => []NoOutage)` |
| `IdentityProxyProofs` | `TypeCorrect` | `Spec => []TypeOK` |
| | `AnswersRecent` | `Spec => []AnswerIsRecent` |
| | `AnswersFollowDoc` | `Spec => []VpnFollowsDoc` |
| | `SessionsEnd` | `Spec => []SessionEnds` |
| `GitTokensProofs` | `TypeCorrect` | `Spec => []TypeOK` |
| | `TokensOwn` | `Spec => []OwnToken` |

### The arguments

*Fulfillment.* A flag reaches the file from some copy. The strengthening says of
*every* copy (`local`, `rview`, `cview`, `nview`) and of every callback about to
write what the property says of the file; each step moves entries from one copy to
another, clears a flag, or sets it together with `delivered`.

*Provider.* The theorems are about calm behaviours (`CalmSpec`), for any number of
workers, triggers and gc runs. `Orderly` is a capability that caches its responses and
whose saves do not fail; crashes, deploys, losses, failing handlers and force-nags remain.
For a capability that is initialized at start-up, as oidc-register is
(`apps/pocket-id/default.nix:197`), no crash falls between a handler's run and the end of
its save; for any other, one may, inside the write too. A need is satisfied only while the
file (unless a crash tore it), and the memory of a daemon that runs, hold its credential
and the backend accepts it (`Held`). No handler run replaces such a credential, because a
run answers a cached response as it is; that a callback delivers nothing else is followed
through the request that sends it (`AtWork`): what the handler saw is what is in memory,
and memory is saved before anything is sent. A trigger or a gc works on a copy of the file
that keeps what satisfied consumers hold (`Beside`), so that its save loses none of it,
although the daemon's memory may go on with entries that a sweep has removed (`Saved`). A
boot calls back what it finds cached, changed or not, so that for an initialized capability
all that is cached in the file, asked for or not, must be accepted or swept with its client
(`FileSafe`). The step simulation of `Subscription` rests on the same invariant: a handler
run is a reissue to consumers that ask, a sweep a revocation of those that have withdrawn,
a callback takes what is accepted or makes its consumer ask, and everything else stutters.

*OverlayManager.* `TypeOK` is inductive for any number of managers; that the delay is
in range (`DelayType`) follows from how `Delay` cuts it, not from the recursion. With
managers that do not overlap (`Alone`), from its unit generation on the units, loaded
units and running services are the manager's own version, and past the health check
this version is healthy or has no check. `CommittedIsKept` and `StatusIsTruthful` also need that no
evaluation fails at boot (`BootsWell`, for the reason listed above): the store path of a
committed version that was seen to run and whose roots nix accepted (`Sure`) is kept by its
gc root or, while the root is being replaced, by the services that
run or by the other root, and a crash in between is repaired by the boot before the
next collection.

*OverlayHost.* The registry's memory is ahead of its file, and the file of what was
answered. An overlay none of whose own steps failed is still to be handled, or has
units, or runs, depending on how far the boot is; neither fact depends on the order.
That a dependency lands first does. What `visit` returns for every graph would take an
induction over the recursion; over the walk's steps it is an invariant (`WalkInv`). Each
overlay on the stack leads to every one above it, along dependencies. When one is
appended, each of its dependencies has been visited: it is in the order before it, or
still on the stack, and then it leads back to the overlay, the one case in which the order
may have them the other way round. A check then goes through the order from its front,
and what it has passed is where the registry wants it, or was tried (`LandedInv`).

*Provisioner.* An arming that is still to be claimed (in memory, in `state.json`, or by
an arm request under way) was never answered before, which gives `OneClaimant` over
crashes that go back to an older lease. With `NoOverlap` (no host is armed while the
broker is about to write or serve its archive) the files of a host, the preparations
that write them and the downloads that read them belong to the one claim that a lease
can have for the host (`FileInv`). The step simulation of `Enrollment` follows action
by action: an arm issues, an answered claim spends, a finished download installs, and
everything else stutters.

*Certificates.* With one callback of a need at a time (`NoOverlap`), what a handler is
about to move improves on what is there, and the key is never the missing file, so preStart
replaces nothing readable: `NoDowngrade` holds over crashes. `PairMatches` adds that a handler between its moves has put its own
certificate in place. `NoOutage` is a budget: the *margin* of a certificate is the days
it has left and one for each disturbance so far (`Margin`). While nothing has gone
wrong, the timer keeps the broker's certificate above `RenewDays`, and a consumer
serves it at the end of every day. Afterwards the watchdog keeps the broker's margin at
`WatchdogDays` and the probe the consumer's at `FreshDays`: a day can end only when
what the probe asked for has been installed or a disturbance has been paid. What is on
its way has a margin above `FreshDays`, and what is still to come today is followed
from the order to the installation (`Coming`). With fewer disturbances than `FreshDays`
the margin leaves at least a day. A host on a placeholder is not in the budget: what is not
from the CA ends by tomorrow (`SignedInv`), so the probe of a day asks for it, and until a
disturbance comes in between, the certificate is on its way or there (`Due`); the history
variable `morning` says whether one came.

*IdentityProxy.* An answer's age must be known with it: an entry of the cache is at most
as old as its age and one handler's delay, what a handler was told as old as its delay,
a cookie as old as the part of its lifetime that is over. That answers follow the loaded
document must be known of stale entries too, and rests on the cache and the handlers
being empty when the document changes.

*GitTokens.* A run answers with what a file holds, so a file that is there must hold a
token (`FilesHold`); and orphans must be looked for only when all entries have been
answered (`OrphansLast`), or a run could answer with a file it then removes. `OwnToken`
is about tokens that are copied from place to place by runs that overlap: the database,
the files, the tokens a run has made and not saved yet, its answers, the callbacks under
way and what consumers hold. The invariant (`TokenInv`) gives every place the file it
belongs to and says that two places with one token belong to the same file (`Apart`), and
that an answer to a refused need carries none (`RefusedInv`). Every step copies a token
between places of one file, drops it, or makes one that is nowhere (`Moved`).

### Assumptions

The proofs use the named assumptions of the component modules, which TLC evaluates in
every run. They say that bounds are natural numbers, that the thresholds of the
certificates keep the code's order, that the sentinel values (`Missing`, `NoFile`, the
failed whois) are distinct from each other and from real values, that a version without a
health check is none of those that pass theirs, that consumers are not named like the
broker's jobs, that there is a host to arm and an overlay to manage.

### Only model-checked

All liveness (`DecayRepaired`, `NeverForgotten`, `DeclaredServed`, `Converges`,
`AccessRestored`, `OrphansRevoked`): fairness and `ENABLED` are out of the prover's
reach. That `orderedOverlays` returns at all is not stated. Nothing is claimed of instances
outside the hypotheses above. Two properties rest on a choice of the model: a deploy of the
identity document includes the restart of the proxy, so `VpnFollowsDoc` is about cache and
handlers and not about a deploy that forgets it; and `CommittedIsHealthy` says nothing of a
version without a health check but that it was activated.

## Not modelled

Authentication, signatures and RBAC (pure decisions before any state is
touched); rpc capabilities and handles (no provider state); the single API calls
inside pocket-id's handler; bin links and the ownership of data directories; the
broker's copy of the certificate for its own nginx (`fort-ssl-local-copy`) and the
chain file, which travels with the certificate; the redirects and headers of the
identity proxy; dashboards. Attic's handler answers every entry from the same
bootstrap files, homeassistant's and mesh's read a backend and answer; fort-tokens
checks a token by its signature, without its table. The other components are listed
in `PROJECT.json` as `not_modelled`, with the reason there.

## Plan

1. *Done*: Fulfillment, Provider, OverlayManager, Provisioner.
2. *Done*: several overlays in dependency order, composed with the registry; the
   certificates; the identity proxy; the git tokens; Enrollment and the refinement.
3. *Done*: every invariant and action property of the runs proved, with the step
   simulation of Enrollment.
4. *Done*: who may hold which git token, with its proof; Subscription, the promise of
   the provider's side of the control plane, and the refinement.
5. *Done*: the provider's theorems beside triggers and gc runs and for any number of
   workers; gc roots that nix refuses and versions without a health check; callbacks of one
   need at once; devices booted again at any point.
6. Weaker hypotheses where the code may deserve them: `SatisfiedMeansValid` for a
   capability that caches nothing but is initialized at boot, and for requests that overlap
   for different consumers. An abstract specification that both sides of the control plane,
   Fulfillment and Provider, implement.
