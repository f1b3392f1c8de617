---------------------------- MODULE Fulfillment ----------------------------
(***************************************************************************)
(* The consumer side of the control plane on ONE host.                     *)
(*                                                                         *)
(* Everything turns around /var/lib/fort/fulfillment-state.json, which     *)
(* four programs read and rewrite with no lock between them:               *)
(*   - the fulfill script (control-plane/fulfill.nix), run by two systemd  *)
(*     units, fort-consumer and fort-consumer-retry: the Runners;          *)
(*   - the callback goroutines of the fort-provider daemon                 *)
(*     (handleCallback, updateFulfillmentState): the Callbacks;            *)
(*   - the force-nag handler (control-plane/handlers.nix).                 *)
(* Each loads the file, works on its copy and writes the whole file back.  *)
(* A write is not atomic: it truncates first, so a reader in between finds *)
(* an empty file (Torn).                                                   *)
(*                                                                         *)
(* A timestamp is abstracted to what the nag test tells apart: "recent"    *)
(* (now - last_sought < nag_seconds), "due" (0 included) and "null" (the   *)
(* field is missing). Request bodies are abstracted to versions, and the   *)
(* SHA-256 of a request to the request itself.                             *)
(***************************************************************************)
EXTENDS Naturals, FiniteSets

CONSTANTS
    Needs,          \* need ids
    Reqs,           \* versions of a need's request
    InitReq,        \* InitReq[n]: request declared at first boot, or NoReq
    NoReq,          \* the need is not declared; also "no request hash stored"
    Checked,        \* needs with a freshness check
    NeverSatisfied, \* needs with never_satisfied = true
    SyncNeeds,      \* needs whose capability answers in the response (rpc)
    Runners,        \* fulfill script instances: one per systemd unit
    Consumer,       \* the unit fort-consumer: runs at boot, restarted by deploys
                    \* and by force-nag
    Periodic,       \* the units a timer starts again and again
    Callbacks,      \* callback requests the daemon handles at once
    NoNeed,         \* no need selected
    NoFile,         \* the state file does not exist
    Torn,           \* the state file is empty: truncated and not yet written
    Disturbances,   \* which kinds of disturbance may happen
    MaxDisturb      \* bound: how many disturbances in a behaviour

Kinds == {"deploy", "decay", "forcenag", "reboot", "restart", "push", "loss", "failure"}

ASSUME ConstantsAssumption ==
    /\ NoReq \notin Reqs
    /\ InitReq \in [Needs -> Reqs \cup {NoReq}]
    /\ Checked \subseteq Needs
    /\ NeverSatisfied \subseteq Needs
    /\ SyncNeeds \subseteq Needs
    /\ Consumer \in Runners
    /\ Periodic \subseteq Runners
    /\ NoNeed \notin Needs
    /\ Disturbances \subseteq Kinds
    /\ MaxDisturb \in Nat

(***************************************************************************)
(* The state file and the copies of it.                                    *)
(***************************************************************************)
Hashes == Reqs \cup {NoReq}

\* One need's record. satisfied = "absent": the need has no key in the file.
Entry == [satisfied    : {"absent", "no", "yes"},
          last_sought  : {"null", "recent", "due"},
          request_hash : Hashes]

Missing == [satisfied |-> "absent", last_sought |-> "null", request_hash |-> NoReq]

States == [Needs -> Entry]

EmptyState == [n \in Needs |-> Missing]

ASSUME SentinelAssumption == Torn \notin States /\ NoFile \notin States /\ Torn # NoFile

Contents == States \cup {Torn}

\* What `cat "$FULFILLMENT_STATE_FILE"` yields, '{}' when there is no file.
Loaded(f) == IF f = NoFile THEN EmptyState ELSE f

\* The record the script works from for need n: nothing comes out of jq when
\* its input is empty.
EntryOf(s, n) == IF s = Torn THEN Missing ELSE s[n]

\* jq '.[$id] = ...' over a copy; jq prints nothing when its input is empty.
WithEntry(s, n, e) == IF s = Torn THEN Torn ELSE [s EXCEPT ![n] = e]

\* jq '.[$id].satisfied = false': creates the key if it is missing.
Unsatisfied(s, n) ==
    WithEntry(s, n, [EntryOf(s, n) EXCEPT !.satisfied = "no"])

VARIABLES
    file,       \* the state file
    req,        \* req[n]: the request needs.json declares, NoReq if none
    fresh,      \* fresh[n]: the installed credential passes its check
    \* the fulfill script, per unit
    rpc,        \* where the script is
    cur,        \* the need it is working on
    todo,       \* the needs it has still to look at
    reqs,       \* needs.json as the script read it
    due,        \* the needs outside their nag interval at the script's `now`
    local,      \* fulfillment_state, the script's copy
    rview,      \* file_state, or merged_state
    \* the daemon
    needs,      \* the need ids the daemon loaded when it started
    cpc,        \* per callback: where handleCallback is
    cneed,      \* the need called back
    csat,       \* the satisfied flag it is going to write
    cview,      \* the state it read from the file
    \* the force-nag handler
    npc, nsel, nview,
    \* the provider, as this host sees it
    got,        \* got[n]: the last request of n the provider recorded
    owed,       \* needs for which the provider has a callback to send
    \* history and bounds
    delivered,  \* needs whose handler has succeeded at least once
    disturbed   \* disturbances so far

runVars  == <<rpc, cur, todo, reqs, due, local, rview>>
cbVars   == <<cpc, cneed, csat, cview>>
nagVars  == <<npc, nsel, nview>>
provVars == <<got, owed>>
vars == <<file, req, fresh, needs, runVars, cbVars, nagVars, provVars, delivered, disturbed>>

Declared(rq) == {n \in Needs : rq[n] # NoReq}

\* A disturbance of one kind: allowed by the instance and within its bound.
Disturb(kind) ==
    /\ kind \in Disturbances
    /\ disturbed < MaxDisturb
    /\ disturbed' = disturbed + 1

(***************************************************************************)
(* The fulfill script (fulfill.nix).                                       *)
(***************************************************************************)

\* Mutant: a need without a record is not taken for one sought at time 0.
StartUnrecordedNotDue(r) ==
    /\ rpc[r] = "start" \/ (rpc[r] = "idle" /\ r \in Periodic)
    /\ Declared(req) # {}
    /\ rpc' = [rpc EXCEPT ![r] = "scan"]
    /\ local' = [local EXCEPT ![r] = Loaded(file)]
    /\ due' = [due EXCEPT ![r] = {n \in Needs : EntryOf(Loaded(file), n).last_sought = "due"}]
    /\ reqs' = [reqs EXCEPT ![r] = req]
    /\ todo' = [todo EXCEPT ![r] = Declared(req)]
    /\ UNCHANGED <<file, req, fresh, needs, cur, rview, cbVars, nagVars, provVars, delivered, disturbed>>

\* A unit starts (it was restarted, or its timer fires): load the state file,
\* take `now`, read needs.json.
Start(r) ==
    /\ rpc[r] = "start" \/ (rpc[r] = "idle" /\ r \in Periodic)
    /\ Declared(req) # {}
    /\ rpc' = [rpc EXCEPT ![r] = "scan"]
    /\ local' = [local EXCEPT ![r] = Loaded(file)]
    /\ due' = [due EXCEPT ![r] = {n \in Needs : EntryOf(Loaded(file), n).last_sought # "recent"}]
    /\ reqs' = [reqs EXCEPT ![r] = req]
    /\ todo' = [todo EXCEPT ![r] = Declared(req)]
    /\ UNCHANGED <<file, req, fresh, needs, cur, rview, cbVars, nagVars, provVars, delivered, disturbed>>

\* Mutant: the probe runs for the needs that are not satisfied.
CheckUnsatisfied(r, n) == EntryOf(local[r], n).satisfied = "no" /\ n \in Checked

\* The freshness probe only runs for a need the local copy calls satisfied.
CheckApplies(r, n) == EntryOf(local[r], n).satisfied = "yes" /\ n \in Checked

\* The probe fails: the local copy is reset, then the file is read again.
CheckFails(r, n) ==
    /\ rpc[r] = "scan"
    /\ n \in todo[r]
    /\ CheckApplies(r, n) /\ ~fresh[n]
    /\ rpc' = [rpc EXCEPT ![r] = "fread"]
    /\ cur' = [cur EXCEPT ![r] = n]
    /\ local' = [local EXCEPT ![r] = Unsatisfied(@, n)]
    /\ UNCHANGED <<file, req, fresh, needs, todo, reqs, due, rview, cbVars, nagVars, provVars, delivered, disturbed>>

FreshRead(r) ==
    /\ rpc[r] = "fread"
    /\ rpc' = [rpc EXCEPT ![r] = "ftrunc"]
    /\ rview' = [rview EXCEPT ![r] = Unsatisfied(Loaded(file), cur[r])]
    /\ UNCHANGED <<file, req, fresh, needs, cur, todo, reqs, due, local, cbVars, nagVars, provVars, delivered, disturbed>>

FreshTruncate(r) ==
    /\ rpc[r] = "ftrunc"
    /\ rpc' = [rpc EXCEPT ![r] = "fwrite"]
    /\ file' = Torn
    /\ UNCHANGED <<req, fresh, needs, cur, todo, reqs, due, local, rview, cbVars, nagVars, provVars, delivered, disturbed>>

FreshWrite(r) ==
    /\ rpc[r] = "fwrite"
    /\ rpc' = [rpc EXCEPT ![r] = "decide"]
    /\ file' = rview[r]
    /\ rview' = [rview EXCEPT ![r] = EmptyState]
    /\ UNCHANGED <<req, fresh, needs, cur, todo, reqs, due, local, cbVars, nagVars, provVars, delivered, disturbed>>

\* The script is past the freshness probe of need n.
Deciding(r, n) ==
    \/ rpc[r] = "scan" /\ n \in todo[r] /\ ~(CheckApplies(r, n) /\ ~fresh[n])
    \/ rpc[r] = "decide" /\ n = cur[r]

\* Change detection: a stored hash that differs from the current request's.
\* An empty stored hash detects nothing.
Changed(r, n) == EntryOf(local[r], n).request_hash \notin {NoReq, reqs[r][n]}

\* "Already satisfied".
SkipSatisfied(r, n) ==
    EntryOf(local[r], n).satisfied = "yes" /\ n \notin NeverSatisfied /\ ~Changed(r, n)

\* The record has no last_sought: $((now - null)) is an unbound variable under
\* `set -u`. A need with no record at all gets last_sought 0 instead.
NullSought(r, n) ==
    LET e == EntryOf(local[r], n)
    IN  e.satisfied # "absent" /\ e.last_sought = "null" /\ ~Changed(r, n)

\* The need is skipped: satisfied, or within its nag interval.
Skip(r, n) ==
    /\ Deciding(r, n)
    /\ SkipSatisfied(r, n) \/ (n \notin due[r] /\ ~Changed(r, n))
    /\ rpc' = [rpc EXCEPT ![r] = "scan"]
    /\ todo' = [todo EXCEPT ![r] = @ \ {n}]
    /\ cur' = [cur EXCEPT ![r] = NoNeed]
    /\ UNCHANGED <<file, req, fresh, needs, reqs, due, local, rview, cbVars, nagVars, provVars, delivered, disturbed>>

\* The script is gone; `next` says whether its unit is to start again now.
Exited(r, next) ==
    /\ rpc' = [rpc EXCEPT ![r] = next]
    /\ todo' = [todo EXCEPT ![r] = {}]
    /\ cur' = [cur EXCEPT ![r] = NoNeed]
    /\ reqs' = [reqs EXCEPT ![r] = InitReq]
    /\ due' = [due EXCEPT ![r] = {}]
    /\ local' = [local EXCEPT ![r] = EmptyState]
    /\ rview' = [rview EXCEPT ![r] = EmptyState]

\* The script dies before its final merge.
Abort(r, n) ==
    /\ Deciding(r, n)
    /\ ~SkipSatisfied(r, n)
    /\ NullSought(r, n)
    /\ Exited(r, "idle")
    /\ UNCHANGED <<file, req, fresh, needs, cbVars, nagVars, provVars, delivered, disturbed>>

\* What the script records before it calls the provider.
Sought(s, n, hash) ==
    WithEntry(s, n, [satisfied |-> "no", last_sought |-> "recent", request_hash |-> hash])

\* The provider is called: last_sought and request_hash are recorded first.
Seek(r, n) ==
    /\ Deciding(r, n)
    /\ ~SkipSatisfied(r, n)
    /\ ~NullSought(r, n)
    /\ n \in due[r] \/ Changed(r, n)
    /\ rpc' = [rpc EXCEPT ![r] = "call"]
    /\ cur' = [cur EXCEPT ![r] = n]
    /\ todo' = [todo EXCEPT ![r] = @ \ {n}]
    /\ local' = [local EXCEPT ![r] = Sought(@, n, reqs[r][n])]
    /\ UNCHANGED <<file, req, fresh, needs, reqs, due, rview, cbVars, nagVars, provVars, delivered, disturbed>>

\* Mutant: the current need is not dropped.
NextNeedKeepsCurrent(r) ==
    /\ rpc' = [rpc EXCEPT ![r] = "scan"]
    /\ cur' = cur

\* The script goes on to the next need.
NextNeed(r) ==
    /\ rpc' = [rpc EXCEPT ![r] = "scan"]
    /\ cur' = [cur EXCEPT ![r] = NoNeed]

\* The provider fails, is unreachable or answers with an error; also the
\* answer of a provider that did record the request but timed out.
CallFails(r) ==
    /\ rpc[r] \in {"call", "wait"}
    /\ Disturb("failure")
    /\ NextNeed(r)
    /\ UNCHANGED <<file, req, fresh, needs, todo, reqs, due, local, rview, cbVars, nagVars, provVars, delivered>>

\* Async capability: the provider records the request. It dispatches its
\* callbacks before it answers, so they can arrive while the script waits.
Recorded(r) ==
    /\ rpc[r] = "call"
    /\ cur[r] \notin SyncNeeds
    /\ rpc' = [rpc EXCEPT ![r] = "wait"]
    /\ got' = [got EXCEPT ![cur[r]] = reqs[r][cur[r]]]
    /\ owed' = owed \cup {cur[r]}
    /\ UNCHANGED <<file, req, fresh, needs, cur, todo, reqs, due, local, rview, cbVars, nagVars, delivered, disturbed>>

\* Async capability: HTTP 202, the credential comes by callback.
Accepted(r) ==
    /\ rpc[r] = "wait"
    /\ NextNeed(r)
    /\ UNCHANGED <<file, req, fresh, needs, todo, reqs, due, local, rview, cbVars, nagVars, provVars, delivered, disturbed>>

\* A need's handler has run on a payload.
Handled(n, ok) ==
    /\ delivered' = IF ok THEN delivered \cup {n} ELSE delivered
    /\ fresh' = IF ok THEN [fresh EXCEPT ![n] = TRUE] ELSE fresh

\* Synchronous capability: the script runs the handler on the response body.
SyncAnswer(r, ok) ==
    LET n == cur[r] IN
    /\ rpc[r] = "call"
    /\ n \in SyncNeeds
    /\ IF ok THEN UNCHANGED disturbed ELSE Disturb("failure")
    /\ Handled(n, ok)
    /\ got' = [got EXCEPT ![n] = reqs[r][n]]
    /\ local' = IF ok
                THEN [local EXCEPT ![r] = WithEntry(@, n, [EntryOf(@, n) EXCEPT !.satisfied = "yes"])]
                ELSE local
    /\ NextNeed(r)
    /\ UNCHANGED <<file, req, needs, todo, reqs, due, rview, cbVars, nagVars, owed>>

\* The merge of the script's copy with the file: every key of the local copy,
\* with the file's flag when jq's // sees one that is neither null nor false.
Merge(mine, theirs) ==
    [n \in Needs |->
        IF mine[n].satisfied = "absent" THEN Missing
        ELSE [mine[n] EXCEPT !.satisfied =
                 IF theirs[n].satisfied = "yes" THEN "yes" ELSE @]]

\* Every need is done: read the file again and merge. jq refuses an empty
\* --argjson, so a torn copy ends the script here, before it writes.
MergeRead(r) ==
    /\ rpc[r] = "scan" /\ todo[r] = {}
    /\ IF Torn \in {local[r], file}
       THEN Exited(r, "idle")
       ELSE /\ rpc' = [rpc EXCEPT ![r] = "mtrunc"]
            /\ rview' = [rview EXCEPT ![r] = Merge(local[r], Loaded(file))]
            /\ UNCHANGED <<cur, todo, reqs, due, local>>
    /\ UNCHANGED <<file, req, fresh, needs, cbVars, nagVars, provVars, delivered, disturbed>>

MergeTruncate(r) ==
    /\ rpc[r] = "mtrunc"
    /\ rpc' = [rpc EXCEPT ![r] = "mwrite"]
    /\ file' = Torn
    /\ UNCHANGED <<req, fresh, needs, cur, todo, reqs, due, local, rview, cbVars, nagVars, provVars, delivered, disturbed>>

MergeWrite(r) ==
    /\ rpc[r] = "mwrite"
    /\ file' = rview[r]
    /\ Exited(r, "idle")
    /\ UNCHANGED <<req, fresh, needs, cbVars, nagVars, provVars, delivered, disturbed>>

(***************************************************************************)
(* The daemon's callback handler (handleCallback, updateFulfillmentState). *)
(***************************************************************************)

\* A callback passes authentication. It is for a need the daemon knows, and
\* answers a request, or is one the provider pushes by itself (a trigger, a
\* rotation, a revocation).
CbArrive(c, n) ==
    /\ cpc[c] = "idle"
    /\ n \in needs \ SyncNeeds
    /\ IF n \in owed
       THEN owed' = owed \ {n} /\ UNCHANGED disturbed
       ELSE got[n] # NoReq /\ Disturb("push") /\ UNCHANGED owed
    /\ cpc' = [cpc EXCEPT ![c] = "handle"]
    /\ cneed' = [cneed EXCEPT ![c] = n]
    /\ UNCHANGED <<file, req, fresh, needs, runVars, csat, cview, nagVars, got, delivered>>

\* The daemon answers 404 for a need it did not load; the provider only logs.
CbReject(n) ==
    /\ n \in owed \ needs
    /\ owed' = owed \ {n}
    /\ UNCHANGED <<file, req, fresh, needs, runVars, cbVars, nagVars, got, delivered, disturbed>>

\* The callback does not reach this host: it is not sent again.
CbLost(n) ==
    /\ n \in owed
    /\ Disturb("loss")
    /\ owed' = owed \ {n}
    /\ UNCHANGED <<file, req, fresh, needs, runVars, cbVars, nagVars, got, delivered>>

\* The need's handler runs on the payload.
CbHandle(c, ok) ==
    /\ cpc[c] = "handle"
    /\ IF ok THEN UNCHANGED disturbed ELSE Disturb("failure")
    /\ Handled(cneed[c], ok)
    /\ csat' = [csat EXCEPT ![c] = ok]
    /\ cpc' = [cpc EXCEPT ![c] = "read"]
    /\ UNCHANGED <<file, req, needs, runVars, cneed, cview, nagVars, provVars>>

\* The file decoded into map[string]FulfillmentState: request_hash is not a
\* field of that struct, a null last_sought becomes 0, and a file that does
\* not parse decodes to nothing.
Decoded(f) ==
    IF f \in {NoFile, Torn} THEN EmptyState
    ELSE [n \in Needs |->
            IF f[n].satisfied = "absent" THEN Missing
            ELSE [satisfied    |-> f[n].satisfied,
                  last_sought  |-> IF f[n].last_sought = "null" THEN "due" ELSE f[n].last_sought,
                  request_hash |-> NoReq]]

\* Mutant: a callback satisfies its need whatever the handler's exit status.
SetSatisfiedAlways(s, n, ok) ==
    [s EXCEPT ![n] = [satisfied    |-> "yes",
                      last_sought  |-> IF @.satisfied = "absent" THEN "due" ELSE @.last_sought,
                      request_hash |-> NoReq]]

\* state[needID].Satisfied = satisfied: a missing entry starts from zero.
SetSatisfied(s, n, ok) ==
    [s EXCEPT ![n] = [satisfied    |-> IF ok THEN "yes" ELSE "no",
                      last_sought  |-> IF @.satisfied = "absent" THEN "due" ELSE @.last_sought,
                      request_hash |-> NoReq]]

CbRead(c) ==
    /\ cpc[c] = "read"
    /\ cpc' = [cpc EXCEPT ![c] = "trunc"]
    /\ cview' = [cview EXCEPT ![c] = SetSatisfied(Decoded(file), cneed[c], csat[c])]
    /\ UNCHANGED <<file, req, fresh, needs, runVars, cneed, csat, nagVars, provVars, delivered, disturbed>>

CbTruncate(c) ==
    /\ cpc[c] = "trunc"
    /\ cpc' = [cpc EXCEPT ![c] = "write"]
    /\ file' = Torn
    /\ UNCHANGED <<req, fresh, needs, runVars, cneed, csat, cview, nagVars, provVars, delivered, disturbed>>

CbWrite(c) ==
    /\ cpc[c] = "write"
    /\ file' = cview[c]
    /\ cpc' = [cpc EXCEPT ![c] = "idle"]
    /\ cneed' = [cneed EXCEPT ![c] = NoNeed]
    /\ csat' = [csat EXCEPT ![c] = FALSE]
    /\ cview' = [cview EXCEPT ![c] = EmptyState]
    /\ UNCHANGED <<req, fresh, needs, runVars, nagVars, provVars, delivered, disturbed>>

(***************************************************************************)
(* The force-nag handler (handlers.nix).                                   *)
(***************************************************************************)

\* with_entries(select(.key | contains($p) | not)); an empty file stays empty.
Without(s, sel) ==
    IF s = Torn THEN Torn ELSE [n \in Needs |-> IF n \in sel THEN Missing ELSE s[n]]

\* No pattern: the file is truncated, then '{}' is written. With a pattern the
\* entries that do not match go to a temporary file.
NagStart(sel) ==
    /\ npc = "idle"
    /\ file # NoFile
    /\ Disturb("forcenag")
    /\ nsel' = sel
    /\ IF sel = Needs
       THEN npc' = "reset" /\ file' = Torn /\ nview' = EmptyState
       ELSE npc' = "move" /\ nview' = Without(file, sel) /\ UNCHANGED file
    /\ UNCHANGED <<req, fresh, needs, runVars, cbVars, provVars, delivered>>

\* '{}' is written, or the temporary file is moved over the state file.
NagWrite ==
    /\ npc \in {"reset", "move"}
    /\ npc' = "restart"
    /\ file' = nview
    /\ nview' = EmptyState
    /\ UNCHANGED <<req, fresh, needs, runVars, nsel, cbVars, provVars, delivered, disturbed>>

\* systemctl restart fort-consumer: kills the script wherever it is.
NagRestart ==
    /\ npc = "restart"
    /\ npc' = "idle"
    /\ nsel' = {}
    /\ Exited(Consumer, "start")
    /\ UNCHANGED <<file, req, fresh, needs, nview, cbVars, provVars, delivered, disturbed>>

(***************************************************************************)
(* The environment.                                                        *)
(***************************************************************************)

\* A deploy installs another needs.json and restarts fort-consumer
\* (restartTriggers). The daemon is not restarted.
Deploy(rq) ==
    /\ rq # req /\ Declared(rq) # {}
    /\ Disturb("deploy")
    /\ req' = rq
    /\ Exited(Consumer, "start")
    /\ UNCHANGED <<file, fresh, needs, cbVars, nagVars, provVars, delivered>>

\* Callbacks in progress die with the daemon.
DaemonLoads ==
    /\ needs' = Declared(req)
    /\ cpc' = [c \in Callbacks |-> "idle"]
    /\ cneed' = [c \in Callbacks |-> NoNeed]
    /\ csat' = [c \in Callbacks |-> FALSE]
    /\ cview' = [c \in Callbacks |-> EmptyState]

\* The path unit restarts the daemon when a deploy changes capabilities.json;
\* it loads needs.json as it is now.
DaemonRestart ==
    /\ Disturb("restart")
    /\ DaemonLoads
    /\ UNCHANGED <<file, req, fresh, runVars, nagVars, provVars, delivered>>

\* At boot fort-consumer starts; the retry unit waits for its timer.
BootUnits == [r \in Runners |-> IF r = Consumer THEN "start" ELSE "idle"]

\* The host goes down: every process with it.
Reboot ==
    /\ Disturb("reboot")
    /\ DaemonLoads
    /\ rpc' = BootUnits
    /\ todo' = [r \in Runners |-> {}]
    /\ cur' = [r \in Runners |-> NoNeed]
    /\ reqs' = [r \in Runners |-> InitReq]
    /\ due' = [r \in Runners |-> {}]
    /\ local' = [r \in Runners |-> EmptyState]
    /\ rview' = [r \in Runners |-> EmptyState]
    /\ npc' = "idle" /\ nsel' = {} /\ nview' = EmptyState
    /\ UNCHANGED <<file, req, fresh, provVars, delivered>>

\* A credential decays (a certificate nears its expiry).
Decay(n) ==
    /\ n \in Checked /\ fresh[n]
    /\ Disturb("decay")
    /\ fresh' = [fresh EXCEPT ![n] = FALSE]
    /\ UNCHANGED <<file, req, needs, runVars, cbVars, nagVars, provVars, delivered>>

\* Some copy holds a recent last_sought of need n.
RecentIn(s, n) == EntryOf(s, n).last_sought = "recent"

Aged(s, n) ==
    IF RecentIn(s, n) THEN [s EXCEPT ![n].last_sought = "due"] ELSE s

\* The nag interval of need n passes, for every copy of its last_sought.
Age(n) ==
    /\ \/ file # NoFile /\ RecentIn(file, n)
       \/ \E r \in Runners : RecentIn(local[r], n) \/ RecentIn(rview[r], n)
       \/ \E c \in Callbacks : RecentIn(cview[c], n)
       \/ RecentIn(nview, n)
    /\ file' = IF file = NoFile THEN NoFile ELSE Aged(file, n)
    /\ local' = [r \in Runners |-> Aged(local[r], n)]
    /\ rview' = [r \in Runners |-> Aged(rview[r], n)]
    /\ cview' = [c \in Callbacks |-> Aged(cview[c], n)]
    /\ nview' = Aged(nview, n)
    /\ UNCHANGED <<req, fresh, needs, rpc, cur, todo, reqs, due, cpc, cneed, csat, npc, nsel, provVars, delivered, disturbed>>

(***************************************************************************)
(* The specification.                                                      *)
(***************************************************************************)

\* First boot: the units are about to run for the first time.
Init ==
    /\ file = NoFile
    /\ req = InitReq
    /\ fresh = [n \in Needs |-> FALSE]
    /\ rpc = BootUnits
    /\ cur = [r \in Runners |-> NoNeed]
    /\ todo = [r \in Runners |-> {}]
    /\ reqs = [r \in Runners |-> InitReq]
    /\ due = [r \in Runners |-> {}]
    /\ local = [r \in Runners |-> EmptyState]
    /\ rview = [r \in Runners |-> EmptyState]
    /\ needs = Declared(InitReq)
    /\ cpc = [c \in Callbacks |-> "idle"]
    /\ cneed = [c \in Callbacks |-> NoNeed]
    /\ csat = [c \in Callbacks |-> FALSE]
    /\ cview = [c \in Callbacks |-> EmptyState]
    /\ npc = "idle" /\ nsel = {} /\ nview = EmptyState
    /\ got = [n \in Needs |-> NoReq]
    /\ owed = {}
    /\ delivered = {}
    /\ disturbed = 0

\* The steps of one run of the fulfill script, once started.
ScriptStep(r) ==
    \/ \E n \in Needs : CheckFails(r, n) \/ Skip(r, n) \/ Abort(r, n) \/ Seek(r, n)
    \/ FreshRead(r) \/ FreshTruncate(r) \/ FreshWrite(r)
    \/ Recorded(r) \/ Accepted(r) \/ SyncAnswer(r, TRUE)
    \/ MergeRead(r) \/ MergeTruncate(r) \/ MergeWrite(r)

CallbackStep(c) ==
    CbHandle(c, TRUE) \/ CbRead(c) \/ CbTruncate(c) \/ CbWrite(c)

Environment ==
    \/ \E r \in Runners : CallFails(r) \/ SyncAnswer(r, FALSE)
    \/ \E c \in Callbacks : CbHandle(c, FALSE)
    \/ \E n \in Needs : CbLost(n) \/ Decay(n)
    \/ \E rq \in [Needs -> Hashes] : Deploy(rq)
    \/ \E sel \in SUBSET Needs : NagStart(sel)
    \/ DaemonRestart \/ Reboot

Next ==
    \/ \E r \in Runners : Start(r) \/ ScriptStep(r)
    \/ \E c \in Callbacks : CallbackStep(c) \/ \E n \in Needs : CbArrive(c, n)
    \/ \E n \in Needs : CbReject(n) \/ Age(n)
    \/ NagWrite \/ NagRestart
    \/ Environment

Spec == Init /\ [][Next]_vars

\* The timer starts the script every five minutes and a started script, a
\* callback and a force-nag run on to their end; time passes; a provider that
\* owes a callback sends it. The disturbances are never required.
Fairness ==
    /\ \A r \in Runners : WF_vars(Start(r)) /\ WF_vars(ScriptStep(r))
    /\ \A c \in Callbacks : WF_vars(CallbackStep(c))
    /\ \A n \in Needs : /\ WF_vars(\E c \in Callbacks : n \in owed /\ CbArrive(c, n))
                        /\ WF_vars(CbReject(n))
                        /\ WF_vars(Age(n))
    /\ WF_vars(NagWrite) /\ WF_vars(NagRestart)

FairSpec == Spec /\ Fairness

(***************************************************************************)
(* Properties.                                                             *)
(***************************************************************************)

\* Where a script has a need in hand.
WorkingPcs == {"fread", "ftrunc", "fwrite", "decide", "call", "wait"}

\* The type invariant: every copy of the state file is a state file or an
\* empty one, a script holds a current need exactly between picking it and
\* leaving it, and a callback holds one exactly while it is handled.
TypeOK ==
    /\ file \in Contents \cup {NoFile}
    /\ req \in [Needs -> Hashes]
    /\ fresh \in [Needs -> BOOLEAN]
    /\ rpc \in [Runners -> WorkingPcs \cup {"start", "idle", "scan", "mtrunc", "mwrite"}]
    /\ cur \in [Runners -> Needs \cup {NoNeed}]
    /\ \A r \in Runners : cur[r] # NoNeed <=> rpc[r] \in WorkingPcs
    /\ todo \in [Runners -> SUBSET Needs]
    /\ reqs \in [Runners -> [Needs -> Hashes]]
    /\ due \in [Runners -> SUBSET Needs]
    /\ local \in [Runners -> Contents]
    /\ rview \in [Runners -> Contents]
    /\ needs \in SUBSET Needs
    /\ cpc \in [Callbacks -> {"idle", "handle", "read", "trunc", "write"}]
    /\ cneed \in [Callbacks -> Needs \cup {NoNeed}]
    /\ \A c \in Callbacks : cneed[c] # NoNeed <=> cpc[c] # "idle"
    /\ csat \in [Callbacks -> BOOLEAN]
    /\ cview \in [Callbacks -> States]
    /\ npc \in {"idle", "reset", "move", "restart"}
    /\ nsel \in SUBSET Needs
    /\ nview \in Contents
    /\ got \in [Needs -> Hashes]
    /\ owed \in SUBSET Needs
    /\ delivered \in SUBSET Needs
    /\ disturbed \in 0 .. MaxDisturb

\* Copy s says that need n is satisfied.
Claims(s, n) == s # NoFile /\ EntryOf(s, n).satisfied = "yes"

\* A need is marked satisfied in the state file only if its handler has
\* accepted a payload: no interleaving of scripts, callbacks and force-nags
\* over stale copies of the file invents a fulfillment (fulfill.nix:126,
\* main.go:910). A fabricated flag would silence the nag loop for good.
SatisfiedIsEarned == \A n \in Needs : Claims(file, n) => n \in delivered

\* A script is calling the provider of need n.
Seeking(n) == \E r \in Runners : rpc[r] \in {"call", "wait"} /\ cur[r] = n

\* The freshness check closes the loop: a declared need whose credential has
\* decayed gets a working one again. Its flag says satisfied, so nobody would
\* ask: the probe has to reset it (fulfill.nix:56-80), beside callbacks that
\* rewrite the file from copies made before, and the end-of-run merge, which
\* takes the file's true over the script's false (fulfill.nix:160); then the
\* call can fail, its callback be lost or overtaken by a pushed one, and the
\* daemon restart in the middle of it.
DecayRepaired ==
    \A n \in Checked : (~fresh[n] /\ req[n] # NoReq) ~> (fresh[n] \/ req[n] = NoReq)

\* Nag-based reliability: a declared need is satisfied again and again, or
\* the provider is called for it again and again; it is never forgotten while
\* unsatisfied (docs/control-plane-interfaces.md:8).
NeverForgotten ==
    \A n \in Needs : []<>(req[n] = NoReq \/ Claims(file, n) \/ Seeking(n))

\* A changed request is eventually put to the provider ("Reset satisfaction
\* if request changed", fulfill.nix:85).
ChangeReachesProvider ==
    \A n \in Needs :
        (req[n] # NoReq /\ got[n] # req[n]) ~> (got[n] = req[n] \/ req[n] = NoReq)

=============================================================================
