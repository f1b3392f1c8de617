------------------------------ MODULE Provider ------------------------------
(***************************************************************************)
(* The provider side of the control plane: one async capability of one     *)
(* host (pkgs/fort-provider/main.go).                                      *)
(*                                                                         *)
(* Three programs share /var/lib/fort/provider-state.json with no lock:    *)
(*   - the daemon, which loads it when it starts, then only ever writes it *)
(*     from its memory; its request goroutines (Workers) share that memory *)
(*     with no lock either; Boot is its initialization at start-up;        *)
(*   - `fort-provider --trigger`, one run at a time (Trigger);             *)
(*   - `fort-provider --gc`, one run at a time (Collector).                *)
(* Each of them runs the capability's handler on its own idea of the state *)
(* and sends the answers to the consumers by callbacks that are never      *)
(* retried.                                                                *)
(*                                                                         *)
(* The handler is the one of pocket-id (apps/pocket-id/provider/main.go),  *)
(* the capability for which state matters most: an entry with a cached     *)
(* response keeps it if the client still exists, any other entry gets a    *)
(* new secret, which invalidates the previous one, and clients of no entry *)
(* are deleted. A credential is the number of its issue: 1, 2, ... per key.*)
(* An entry of the state is NoResponse (a request not answered yet), a     *)
(* credential, or Err (an error answer a trigger has cached).              *)
(***************************************************************************)
EXTENDS Naturals

CONSTANTS
    Keys,           \* state keys "origin:needID", one consumer need each
    Workers,        \* requests the daemon serves at once
    Boot, Trigger, Collector,
    Absent,         \* no entry, no message
    Err,            \* a response with an "error" field
    Revoked,        \* the revocation payload {}
    NoFile, Torn,   \* the state file is missing; is empty, being written
    NoKey,          \* a worker serves nobody
    CacheResponse,  \* capConfig.CacheResponse
    HasTTL,         \* capConfig.TTL > 0
    Disturbances,   \* which kinds of disturbance may happen to a capability that
                    \* is (TRUE) or is not (FALSE) initialized at start-up
    MaxDisturb,     \* bound: how many of them in a behaviour
    MaxCred         \* bound: how many credentials are issued to a key

Kinds == {"loss", "crash", "cut", "torn", "failure", "keyerror", "savefail", "forget", "deploy", "trigger", "gc"}

DaemonProcs == Workers \cup {Boot}
Procs == DaemonProcs \cup {Trigger, Collector}

NoResponse == 0

ASSUME ConstantsAssumption ==
    /\ Boot # Trigger /\ Trigger # Collector /\ Collector # Boot
    /\ Workers \cap {Boot, Trigger, Collector} = {}
    /\ NoKey \notin Keys
    /\ {CacheResponse, HasTTL} \subseteq BOOLEAN
    /\ DOMAIN Disturbances \subseteq BOOLEAN
    /\ \A i \in DOMAIN Disturbances : Disturbances[i] \subseteq Kinds
    /\ MaxDisturb \in Nat /\ MaxCred \in Nat

Cred == 1 .. MaxCred
Responses == Cred \cup {Err}
Values == Responses \cup {NoResponse, Absent}
Stores == [Keys -> Values]
Mail == [Keys -> Responses \cup {Revoked, Absent}]

ASSUME SentinelAssumption ==
    /\ {Absent, Err, Revoked} \cap Nat = {} /\ Absent # Err /\ Err # Revoked /\ Revoked # Absent
    /\ Torn \notin Stores /\ NoFile \notin Stores /\ Torn # NoFile

Nothing == [k \in Keys |-> Absent]

VARIABLES
    \* the provider host
    initialize, \* capConfig.Triggers.Initialize, the same in all of a behaviour
    mem,        \* the daemon's providerState
    disk,       \* provider-state.json
    daemon,     \* "down", "boot" (initializeCapabilities) or "up"
    pc,         \* per process: where it is
    serving,    \* per worker: the key of its request
    input,      \* per process: the handler's input, Absent if no such entry
    out,        \* per process: the handler's output, Absent if not in it
    snap,       \* per process: the bytes it is going to write
    plan,       \* per process: the callbacks it is going to send
    mail,       \* per process: the callbacks it is waiting for
    removed,    \* the keys the running gc has removed
    rotating,   \* the running gc invokes the handler for a TTL rotation
    \* the backend
    client,     \* client[k]: the first credential of k's client, 0 if none
    valid,      \* valid[k]: the credential the backend accepts, 0 if none
    count,      \* count[k]: how many credentials were issued to k
    \* the consumers
    declared,   \* the needs the consumers declare
    sat,        \* the needs marked satisfied in their fulfillment state
    inst,       \* inst[k]: the credential installed, 0 if none
    \* history and bounds
    disturbed

procVars == <<pc, serving, input, out, snap, plan>>
gcVars   == <<removed, rotating>>
backVars == <<client, valid, count>>
consVars == <<declared, sat, inst>>
vars == <<mem, disk, daemon, procVars, mail, gcVars, backVars, consVars, disturbed, initialize>>

Disturb(kind) ==
    /\ kind \in Disturbances[initialize]
    /\ disturbed < MaxDisturb
    /\ disturbed' = disturbed + 1
    /\ UNCHANGED initialize

\* The keys of a store, and those with a response.
Entries(s) == {k \in Keys : s[k] # Absent}
Answered(s) == {k \in Keys : s[k] \in Responses}

\* The aggregate handler input: cached responses only if the capability caches.
InputOf(s, cached) ==
    [k \in Keys |-> IF s[k] = Absent THEN Absent
                    ELSE IF cached THEN s[k] ELSE NoResponse]

\* Mutant: a request that ends early keeps its key.
AbandonKeepsKey(p) ==
    /\ pc' = [pc EXCEPT ![p] = "idle"]
    /\ serving' = serving
    /\ input' = [input EXCEPT ![p] = Nothing]
    /\ out' = [out EXCEPT ![p] = Nothing]
    /\ snap' = [snap EXCEPT ![p] = Nothing]
    /\ plan' = [plan EXCEPT ![p] = Nothing]
    /\ daemon' = IF p = Boot THEN "up" ELSE daemon

\* Where a process goes when its handler run or its save did not work out: the
\* daemon goes on, a trigger or a gc exits.
Abandon(p) ==
    /\ pc' = [pc EXCEPT ![p] = "idle"]
    /\ serving' = [serving EXCEPT ![p] = NoKey]
    /\ input' = [input EXCEPT ![p] = Nothing]
    /\ out' = [out EXCEPT ![p] = Nothing]
    /\ snap' = [snap EXCEPT ![p] = Nothing]
    /\ plan' = [plan EXCEPT ![p] = Nothing]
    /\ daemon' = IF p = Boot THEN "up" ELSE daemon

(***************************************************************************)
(* The daemon.                                                             *)
(***************************************************************************)

Loaded(d) == IF d = NoFile THEN Nothing ELSE d

\* Mutant: the capabilities are not initialized.
DaemonStartsCold ==
    /\ daemon = "down"
    /\ disk # Torn
    /\ mem' = Loaded(disk)
    /\ daemon' = "up"
    /\ UNCHANGED <<disk, procVars, mail, gcVars, backVars, consVars, disturbed, initialize>>

\* NewAgentHandler: an unreadable state file is an error, and the daemon does
\* not start. Capabilities with triggers.initialize run their handler first.
DaemonStarts ==
    /\ daemon = "down"
    /\ disk # Torn
    /\ mem' = Loaded(disk)
    /\ IF initialize /\ Entries(mem') # {}
       THEN /\ daemon' = "boot"
            /\ pc' = [pc EXCEPT ![Boot] = "run"]
            /\ input' = [input EXCEPT ![Boot] = InputOf(mem', CacheResponse)]
       ELSE daemon' = "up" /\ UNCHANGED <<pc, input>>
    /\ UNCHANGED <<disk, serving, out, snap, plan, mail, gcVars, backVars, consVars, disturbed, initialize>>

\* The processes that have answers, or a sweep, to save.
Unsaved == {p \in Procs : pc[p] \in {"apply", "trunc", "write"}}

\* The daemon dies, or the whole host does; callbacks under way die with the
\* process that sends them. A "cut" is a crash after a handler's run and before
\* the write of what it answered, one inside that write leaves the file "torn".
\* (The daemon's maps are not locked either: a concurrent map access that the
\* Go runtime detects is such a crash.)
Crash(ps) ==
    /\ daemon # "down"
    /\ \/ Unsaved = {} /\ Disturb("crash")
       \/ Unsaved # {} /\ disk # Torn /\ Disturb("cut")
       \/ disk = Torn /\ Disturb("torn")
    /\ daemon' = "down"
    /\ mem' = Nothing
    /\ pc' = [p \in Procs |-> IF p \in ps THEN "idle" ELSE pc[p]]
    /\ serving' = [p \in Procs |-> IF p \in ps THEN NoKey ELSE serving[p]]
    /\ input' = [p \in Procs |-> IF p \in ps THEN Nothing ELSE input[p]]
    /\ out' = [p \in Procs |-> IF p \in ps THEN Nothing ELSE out[p]]
    /\ snap' = [p \in Procs |-> IF p \in ps THEN Nothing ELSE snap[p]]
    /\ plan' = [p \in Procs |-> IF p \in ps THEN Nothing ELSE plan[p]]
    /\ mail' = [p \in Procs |-> IF p \in ps THEN Nothing ELSE mail[p]]
    /\ IF Collector \in ps THEN removed' = {} /\ rotating' = FALSE ELSE UNCHANGED gcVars
    /\ UNCHANGED <<disk, backVars, consVars>>

\* Mutant: a new request keeps the response cached for the previous one.
RecordedKeepingResponse(s, k) == IF s[k] = Absent THEN [s EXCEPT ![k] = NoResponse] ELSE s

\* recordProviderRequest: the entry is replaced, its response with it.
RecordProviderRequest(s, k) == [s EXCEPT ![k] = NoResponse]

\* An unsatisfied consumer's request reaches a goroutine of the daemon: it is
\* recorded, and the handler input built from the shared memory.
Request(w, k) ==
    /\ daemon = "up" /\ pc[w] = "idle"
    /\ k \in declared \ sat
    /\ \A v \in Workers : serving[v] # k
    /\ mem' = RecordProviderRequest(mem, k)
    /\ pc' = [pc EXCEPT ![w] = "run"]
    /\ serving' = [serving EXCEPT ![w] = k]
    /\ input' = [input EXCEPT ![w] = InputOf(mem', CacheResponse)]
    /\ UNCHANGED <<disk, daemon, out, snap, plan, mail, gcVars, backVars, consVars, disturbed, initialize>>

\* Mutant: answers are not cached.
UpdateDropped(s, o) == s

\* updateProviderResponse: errors are not cached, unknown keys are ignored.
UpdateProviderResponses(s, o) ==
    [k \in Keys |-> IF o[k] \in Cred /\ s[k] # Absent THEN o[k] ELSE s[k]]

Changed(s, o) == {k \in Keys : o[k] # Absent /\ o[k] # s[k]}

\* Entries with a response that the handler no longer answers for.
RevokedKeys(s, o) == {k \in Answered(s) : o[k] = Absent}

Callbacks(o, changed, revoked) ==
    [k \in Keys |-> IF k \in changed THEN o[k] ELSE IF k \in revoked THEN Revoked ELSE Absent]

\* The daemon applies a handler's output to its memory and marshals it. A
\* request calls back what changed or was revoked, a boot every answer.
ApplyInDaemon(p) ==
    /\ p \in DaemonProcs /\ pc[p] = "apply"
    /\ mem' = UpdateProviderResponses(mem, out[p])
    /\ snap' = [snap EXCEPT ![p] = mem']
    /\ plan' = [plan EXCEPT ![p] =
                  IF p = Boot THEN out[p]
                  ELSE Callbacks(out[p], Changed(mem, out[p]), RevokedKeys(mem', out[p]))]
    /\ pc' = [pc EXCEPT ![p] = "trunc"]
    /\ UNCHANGED <<disk, daemon, serving, input, out, mail, gcVars, backVars, consVars, disturbed, initialize>>

(***************************************************************************)
(* Trigger and gc.                                                         *)
(***************************************************************************)

\* runTrigger reads the file; --force withholds the cached responses.
TriggerStarts(force) ==
    /\ pc[Trigger] = "idle"
    /\ disk \notin {NoFile, Torn} /\ Entries(disk) # {}
    /\ Disturb("trigger")
    /\ snap' = [snap EXCEPT ![Trigger] = disk]
    /\ input' = [input EXCEPT ![Trigger] = InputOf(disk, CacheResponse /\ ~force)]
    /\ pc' = [pc EXCEPT ![Trigger] = "run"]
    /\ UNCHANGED <<mem, disk, daemon, serving, out, plan, mail, gcVars, backVars, consVars>>

\* runTrigger caches every answer, errors included.
ApplyInTrigger ==
    LET s == snap[Trigger]
        o == out[Trigger]
        t == [k \in Keys |-> IF o[k] # Absent THEN o[k] ELSE s[k]]
    IN
    /\ pc[Trigger] = "apply"
    /\ snap' = [snap EXCEPT ![Trigger] = t]
    /\ plan' = [plan EXCEPT ![Trigger] = Callbacks(o, Changed(s, o), RevokedKeys(t, o))]
    /\ pc' = [pc EXCEPT ![Trigger] = "trunc"]
    /\ UNCHANGED <<mem, disk, daemon, serving, input, out, mail, gcVars, backVars, consVars, disturbed, initialize>>

\* runGC reads the file.
GCStarts ==
    /\ pc[Collector] = "idle"
    /\ disk \notin {NoFile, Torn} /\ Entries(disk) # {}
    /\ Disturb("gc")
    /\ snap' = [snap EXCEPT ![Collector] = disk]
    /\ pc' = [pc EXCEPT ![Collector] = "query"]
    /\ UNCHANGED <<mem, disk, daemon, serving, input, out, plan, mail, gcVars, backVars, consVars>>

\* Positive absence: of the consumers that answer, the needs not declared.
Orphans(s, reachable) == {k \in Entries(s) \cap reachable : k \notin declared}

\* The origins are asked; the others are unreachable. Orphans are removed; if
\* there are none, a TTL may be close enough to its end for a rotation.
GCQueries(reachable) ==
    LET gone == Orphans(snap[Collector], reachable) IN
    /\ pc[Collector] = "query"
    /\ removed' = gone
    /\ snap' = [snap EXCEPT ![Collector] = [k \in Keys |-> IF k \in gone THEN Absent ELSE @[k]]]
    /\ \/ gone # {} /\ pc' = [pc EXCEPT ![Collector] = "trunc"] /\ rotating' = FALSE /\ UNCHANGED input
       \/ /\ gone = {} /\ HasTTL /\ Answered(snap[Collector]) # {}
          /\ pc' = [pc EXCEPT ![Collector] = "run"]
          /\ input' = [input EXCEPT ![Collector] = InputOf(snap[Collector], CacheResponse)]
          /\ rotating' = TRUE
       \/ gone = {} /\ pc' = [pc EXCEPT ![Collector] = "done"] /\ rotating' = FALSE /\ UNCHANGED input
    /\ UNCHANGED <<mem, disk, daemon, serving, out, plan, mail, backVars, consVars, disturbed, initialize>>

\* invokeHandlerForGC: the new responses go nowhere but, in a rotation, to the
\* consumers; the state it updates is not saved.
ApplyInGC ==
    LET s == snap[Collector]
        o == out[Collector]
    IN
    /\ pc[Collector] = "apply"
    /\ plan' = [plan EXCEPT ![Collector] =
                  IF rotating THEN Callbacks(o, Changed(s, o) \cap Entries(s), {}) ELSE Nothing]
    /\ pc' = [pc EXCEPT ![Collector] = IF rotating THEN "send" ELSE "done"]
    /\ UNCHANGED <<mem, disk, daemon, serving, input, out, snap, mail, gcVars, backVars, consVars, disturbed, initialize>>

(***************************************************************************)
(* What the processes have in common.                                      *)
(***************************************************************************)

\* The cached response still names the client the backend has.
Kept(in, k) == in[k] \in Cred /\ client[k] # 0 /\ in[k] >= client[k]

\* Mutant: the collection deletes the clients that are answered from the cache.
HandlerCollectsKept(p) ==
    LET in == input[p]
        fresh == {k \in Entries(in) : ~Kept(in, k)}
    IN
    /\ pc[p] = "run"
    /\ \A k \in fresh : count[k] < MaxCred
    /\ count' = [k \in Keys |-> IF k \in fresh THEN count[k] + 1 ELSE count[k]]
    /\ valid' = [k \in Keys |-> IF k \in fresh THEN count[k] + 1 ELSE 0]
    /\ client' = [k \in Keys |-> IF k \notin fresh THEN 0
                                 ELSE IF client[k] = 0 THEN count[k] + 1 ELSE client[k]]
    /\ out' = [out EXCEPT ![p] =
                 [k \in Keys |-> IF k \in fresh THEN count[k] + 1 ELSE in[k]]]
    /\ pc' = [pc EXCEPT ![p] = "apply"]
    /\ UNCHANGED <<mem, disk, daemon, serving, input, snap, plan, mail, gcVars, consVars, disturbed, initialize>>

\* The handler runs to its end (processEntries).
HandlerRuns(p) ==
    LET in == input[p]
        fresh == {k \in Entries(in) : ~Kept(in, k)}
    IN
    /\ pc[p] = "run"
    /\ \A k \in fresh : count[k] < MaxCred
    /\ count' = [k \in Keys |-> IF k \in fresh THEN count[k] + 1 ELSE count[k]]
    /\ valid' = [k \in Keys |-> IF k \in fresh THEN count[k] + 1
                                ELSE IF in[k] = Absent THEN 0 ELSE valid[k]]
    /\ client' = [k \in Keys |-> IF in[k] = Absent THEN 0
                                 ELSE IF client[k] = 0 THEN count[k] + 1 ELSE client[k]]
    /\ out' = [out EXCEPT ![p] =
                 [k \in Keys |-> IF k \in fresh THEN count[k] + 1 ELSE in[k]]]
    /\ pc' = [pc EXCEPT ![p] = "apply"]
    /\ UNCHANGED <<mem, disk, daemon, serving, input, snap, plan, mail, gcVars, consVars, disturbed, initialize>>

\* The handler answers every entry with an error (no service key yet).
HandlerAnswersErr(p) ==
    /\ pc[p] = "run"
    /\ Disturb("keyerror")
    /\ out' = [out EXCEPT ![p] = [k \in Keys |-> IF input[p][k] = Absent THEN Absent ELSE Err]]
    /\ pc' = [pc EXCEPT ![p] = "apply"]
    /\ UNCHANGED <<mem, disk, daemon, serving, input, snap, plan, mail, gcVars, backVars, consVars>>

\* The handler exits with an error or prints no JSON: nothing is saved or sent.
HandlerFails(p) ==
    /\ pc[p] = "run"
    /\ Disturb("failure")
    /\ Abandon(p)
    /\ UNCHANGED <<mem, disk, mail, gcVars, backVars, consVars>>

\* Mutant: nothing is saved.
SaveSkipped(p) ==
    /\ pc[p] = "trunc"
    /\ pc' = [pc EXCEPT ![p] = "send"]
    /\ UNCHANGED <<mem, disk, daemon, serving, input, out, snap, plan, mail, gcVars, backVars, consVars, disturbed, initialize>>

\* os.WriteFile truncates, then writes.
SaveTruncates(p) ==
    /\ pc[p] = "trunc"
    /\ disk' = Torn
    /\ pc' = [pc EXCEPT ![p] = "write"]
    /\ UNCHANGED <<mem, daemon, serving, input, out, snap, plan, mail, gcVars, backVars, consVars, disturbed, initialize>>

\* The daemon and a trigger send their callbacks next; gc runs the handler.
SaveWrites(p) ==
    /\ pc[p] = "write"
    /\ disk' = snap[p]
    /\ IF p = Collector
       THEN /\ pc' = [pc EXCEPT ![p] = "run"]
            /\ input' = [input EXCEPT ![p] = InputOf(snap[p], CacheResponse)]
       ELSE pc' = [pc EXCEPT ![p] = "send"] /\ UNCHANGED input
    /\ UNCHANGED <<mem, daemon, serving, out, snap, plan, mail, gcVars, backVars, consVars, disturbed, initialize>>

\* The file cannot be opened: the daemon only warns, a trigger or a gc exits.
SaveFails(p) ==
    /\ pc[p] = "trunc"
    /\ Disturb("savefail")
    /\ IF p \in DaemonProcs
       THEN pc' = [pc EXCEPT ![p] = "send"] /\ UNCHANGED <<serving, input, out, snap, plan, daemon>>
       ELSE Abandon(p)
    /\ UNCHANGED <<mem, disk, mail, gcVars, backVars, consVars>>

\* dispatchCallbacks: one goroutine per callback, all awaited.
Dispatch(p) ==
    /\ pc[p] = "send"
    /\ mail' = [mail EXCEPT ![p] = plan[p]]
    /\ pc' = [pc EXCEPT ![p] = "await"]
    /\ UNCHANGED <<mem, disk, daemon, serving, input, out, snap, plan, gcVars, backVars, consVars, disturbed, initialize>>

\* Every callback has been answered or has failed: the request is answered
\* with 202, the daemon is up, the trigger or the gc is complete.
Completes(p) ==
    /\ pc[p] = "done" \/ (pc[p] = "await" /\ mail[p] = Nothing)
    /\ Abandon(p)
    /\ IF p = Collector THEN removed' = {} /\ rotating' = FALSE ELSE UNCHANGED gcVars
    /\ UNCHANGED <<mem, disk, mail, backVars, consVars, disturbed, initialize>>

(***************************************************************************)
(* The consumers, as far as the provider can tell (see Fulfillment).       *)
(***************************************************************************)

\* A callback arrives: a credential is installed, an error or a revocation
\* makes the need's handler fail. A need that is not declared answers 404.
Deliver(p, k) ==
    LET m == mail[p][k] IN
    /\ m # Absent
    /\ mail' = [mail EXCEPT ![p][k] = Absent]
    /\ IF k \in declared /\ m \in Cred
       THEN sat' = sat \cup {k} /\ inst' = [inst EXCEPT ![k] = m]
       ELSE sat' = (IF k \in declared THEN sat \ {k} ELSE sat) /\ UNCHANGED inst
    /\ UNCHANGED <<mem, disk, daemon, procVars, gcVars, backVars, declared, disturbed, initialize>>

\* A callback fails: it is logged, not retried.
Lose(p, k) ==
    /\ mail[p][k] # Absent
    /\ Disturb("loss")
    /\ mail' = [mail EXCEPT ![p][k] = Absent]
    /\ UNCHANGED <<mem, disk, daemon, procVars, gcVars, backVars, consVars>>

\* The consumer asks again: a freshness check failed, or a force-nag.
Forget(k) ==
    /\ k \in sat
    /\ Disturb("forget")
    /\ sat' = sat \ {k}
    /\ UNCHANGED <<mem, disk, daemon, procVars, mail, gcVars, backVars, declared, inst>>

\* A deploy withdraws a need or declares it again. The consumer's fulfillment
\* state keeps its entry either way.
Deploy(k) ==
    /\ Disturb("deploy")
    /\ declared' = IF k \in declared THEN declared \ {k} ELSE declared \cup {k}
    /\ UNCHANGED <<mem, disk, daemon, procVars, mail, gcVars, backVars, sat, inst>>

Init ==
    /\ initialize \in DOMAIN Disturbances
    /\ mem = Nothing /\ disk = NoFile /\ daemon = "down"
    /\ pc = [p \in Procs |-> "idle"]
    /\ serving = [p \in Procs |-> NoKey]
    /\ input = [p \in Procs |-> Nothing]
    /\ out = [p \in Procs |-> Nothing]
    /\ snap = [p \in Procs |-> Nothing]
    /\ plan = [p \in Procs |-> Nothing]
    /\ mail = [p \in Procs |-> Nothing]
    /\ removed = {} /\ rotating = FALSE
    /\ client = [k \in Keys |-> 0] /\ valid = [k \in Keys |-> 0] /\ count = [k \in Keys |-> 0]
    /\ declared = Keys /\ sat = {} /\ inst = [k \in Keys |-> 0]
    /\ disturbed = 0

ProcStep(p) ==
    \/ HandlerRuns(p) \/ ApplyInDaemon(p)
    \/ SaveTruncates(p) \/ SaveWrites(p) \/ Dispatch(p) \/ Completes(p)

Next ==
    \/ DaemonStarts
    \/ \E w \in Workers, k \in Keys : Request(w, k)
    \/ \E p \in Procs : ProcStep(p) \/ HandlerAnswersErr(p) \/ HandlerFails(p) \/ SaveFails(p)
    \/ \E force \in BOOLEAN : TriggerStarts(force)
    \/ ApplyInTrigger
    \/ GCStarts \/ ApplyInGC
    \/ \E reachable \in SUBSET Keys : GCQueries(reachable)
    \/ \E p \in Procs, k \in Keys : Deliver(p, k) \/ Lose(p, k)
    \/ \E k \in Keys : Forget(k) \/ Deploy(k)
    \/ \E ps \in {DaemonProcs, Procs} : Crash(ps)

Spec == Init /\ [][Next]_vars

\* The socket starts the daemon; goroutines and programs run on; a callback
\* is delivered or lost; a consumer nags while it is unsatisfied.
Fairness ==
    /\ WF_vars(DaemonStarts)
    /\ \A p \in Procs : WF_vars(ProcStep(p))
    /\ \A p \in Procs, k \in Keys : WF_vars(Deliver(p, k))
    /\ \A k \in Keys : SF_vars(\E w \in Workers : Request(w, k))
    /\ WF_vars(ApplyInTrigger) /\ WF_vars(ApplyInGC)
    /\ WF_vars(\E reachable \in SUBSET Keys : GCQueries(reachable))

FairSpec == Spec /\ Fairness

(***************************************************************************)
(* Calm behaviours: those in which the programs do not get into each       *)
(* other's way. Each restriction is one that the code does not enforce and *)
(* the safety properties need.                                             *)
(***************************************************************************)

\* Of all requests, boots, triggers and gc runs one is under way at a time.
OneAtATime == \A p, q \in Procs : pc[p] # "idle" /\ pc[q] # "idle" => p = q

\* A trigger, or the rotation of a gc, finds every entry answered by a
\* credential that the backend keeps, and a trigger answers no error.
NothingNew ==
    /\ \A p \in {Trigger, Collector} :
         pc[p] = "run" /\ (p = Collector => rotating) =>
            \A k \in Entries(input[p]) : Kept(input[p], k)
    /\ pc[Trigger] = "apply" => \A k \in Keys : out[Trigger][k] # Err

\* No need is declared again that its consumer still has marked satisfied.
NoStaleReturn == (declared' \ declared) \cap sat = {}

Calm == OneAtATime' /\ NothingNew' /\ NoStaleReturn

CalmSpec == Init /\ [][Next /\ Calm]_vars

(***************************************************************************)
(* Properties.                                                             *)
(***************************************************************************)

\* The type invariant: stores, inputs and outputs range over the issued
\* credentials, and a worker has a key exactly while it serves a request.
TypeOK ==
    /\ initialize \in DOMAIN Disturbances
    /\ mem \in Stores /\ disk \in Stores \cup {NoFile, Torn}
    /\ daemon \in {"down", "boot", "up"}
    /\ pc \in [Procs -> {"idle", "query", "run", "apply", "trunc", "write", "send", "await", "done"}]
    /\ serving \in [Procs -> Keys \cup {NoKey}]
    /\ \A w \in Workers : serving[w] # NoKey <=> pc[w] # "idle"
    /\ input \in [Procs -> Stores] /\ snap \in [Procs -> Stores]
    /\ out \in [Procs -> [Keys -> Responses \cup {Absent}]]
    /\ plan \in [Procs -> Mail] /\ mail \in [Procs -> Mail]
    /\ removed \in SUBSET Keys /\ rotating \in BOOLEAN
    /\ client \in [Keys -> 0 .. MaxCred] /\ valid \in [Keys -> 0 .. MaxCred]
    /\ count \in [Keys -> 0 .. MaxCred]
    /\ declared \in SUBSET Keys /\ sat \in SUBSET Keys /\ inst \in [Keys -> 0 .. MaxCred]
    /\ disturbed \in 0 .. MaxDisturb

\* Everything is done: the daemon is up, nothing runs, no callback is under way.
Quiet == daemon = "up" /\ \A p \in Procs : pc[p] = "idle" /\ mail[p] = Nothing

\* When everything is done, a consumer that stopped nagging holds the
\* credential the backend accepts: nagging is the only way a wrong credential
\* is ever repaired.
SatisfiedMeansValid ==
    Quiet => \A k \in declared \cap sat : inst[k] = valid[k]

\* When everything is done, the daemon still knows every satisfied consumer:
\* one it has forgotten is neither told of a rotation nor asks again.
SubscriberKept ==
    Quiet => \A k \in declared \cap sat : mem[k] # Absent

\* A consumer that declares a need and goes on declaring it gets a credential
\* in the end, whatever is lost, fails or runs beside its requests: the
\* request it repeats drops what is cached for it, so that it is called back.
DeclaredServed ==
    \A k \in Keys : (k \in declared) ~> (k \in sat \/ k \notin declared)


(***************************************************************************)
(* Provider implements Subscription: a consumer relies on what it has      *)
(* installed while its need is satisfied, and asks while it is not.        *)
(***************************************************************************)

Relied == [k \in Keys |-> IF k \in declared \cap sat THEN inst[k] ELSE 0]

Abstract == INSTANCE Subscription WITH issued <- count, accepted <- valid, holds <- Relied

\* A handler run, whoever asked for it and whatever crashed before it,
\* replaces or revokes credentials only of consumers that are asking; and what
\* a callback installs is what the backend accepts when it arrives.
ImplementsSubscription == Abstract!Spec

=============================================================================
