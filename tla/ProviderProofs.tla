--------------------------- MODULE ProviderProofs ---------------------------
(***************************************************************************)
(* Proofs about Provider, for any consumers, workers and bounds.           *)
(*                                                                         *)
(* SatisfiedMeansValid, SubscriberKept and ImplementsSubscription are      *)
(* proved of calm behaviours (CalmSpec) of a capability that caches its    *)
(* responses (Orderly). A need is satisfied only while the file, and the   *)
(* memory of a daemon that runs, hold its credential and the backend       *)
(* accepts it (Held); so no handler run replaces it. That a callback       *)
(* delivers such a credential is followed through the request that sends   *)
(* it (AtWork); that a boot does, which calls back all that is cached,     *)
(* from FileSafe. A trigger or a gc works on a copy of the file that loses *)
(* none of it (Beside). The step simulation of Subscription rests on the   *)
(* same invariant.                                                         *)
(***************************************************************************)
EXTENDS Provider, TLAPS

\* A capability that caches its responses, whose state file can be written. If
\* it is initialized at start-up, no crash falls between a handler's run and
\* the end of the save. Other crashes, restarts, lost callbacks, failing
\* handlers, deploys, force-nags, triggers and gc runs are allowed.
Orderly ==
    /\ CacheResponse
    /\ \A i \in DOMAIN Disturbances :
         /\ "savefail" \notin Disturbances[i]
         /\ i => Disturbances[i] \cap {"cut", "torn"} = {}

\* The consumers that declare a need and do not ask for it.
Served == declared \cap sat

\* Credential c is the one the backend accepts, and issued for its client.
Backed(k, c) == c \in Cred /\ valid[k] = c /\ client[k] \in 1 .. c

\* The responses of a store that the backend keeps are what it accepts.
Accurate(s) ==
    \A k \in Keys : s[k] \in Cred =>
        s[k] <= count[k] /\ (client[k] \in 1 .. s[k] => valid[k] = s[k])

\* What the daemon has cached is in a store too, unless a gc has removed it.
Saved(s) == daemon # "down" => \A k \in Keys : mem[k] \in Cred => s[k] \in {mem[k], Absent}

\* A client, and what is accepted for it, is not younger than the last credential.
ClientsAge == \A k \in Keys : client[k] <= count[k] /\ valid[k] <= count[k]

\* While the daemon boots it serves no request.
Manned ==
    /\ daemon = "boot" <=> pc[Boot] # "idle"
    /\ daemon = "boot" => initialize
    /\ \A w \in Workers : pc[w] # "idle" => daemon = "up"

\* What a served consumer has installed is cached, saved and accepted.
Held ==
    \A k \in Served :
        /\ Backed(k, inst[k])
        /\ disk # NoFile
        /\ disk # Torn => disk[k] = inst[k]
        /\ daemon # "down" => mem[k] = inst[k]

\* The requests and boots that have answers to save.
DaemonUnsaved == {p \in DaemonProcs : pc[p] \in {"apply", "trunc", "write"}}

\* What a boot may send is accepted: the memory, and the file as long as no
\* handler of the daemon has run that is not saved.
FileSafe ==
    /\ initialize /\ daemon # "down" => Accurate(mem)
    /\ DaemonUnsaved = {} /\ disk \notin {NoFile, Torn} =>
         Saved(disk) /\ (initialize => Accurate(disk))

\* Callbacks that carry only credentials that are cached and accepted.
Sound(m) == \A k \in Keys : m[k] \in Cred => mem[k] = m[k] /\ Backed(k, m[k])

\* A request or an initialization under way: the handler sees the memory as it
\* is, and what it answers is what is cached or what the backend now accepts;
\* the memory is saved before the callbacks are sent.
AtWork(p) ==
    /\ pc[p] \notin {"query", "done"}
    /\ pc[p] # "await" => mail[p] = Nothing
    /\ pc[p] = "run" => input[p] = mem
    /\ pc[p] = "apply" =>
         \A k \in Keys : out[p][k] \in Cred =>
            mem[k] # Absent /\ (Backed(k, out[p][k]) \/ (out[p][k] = mem[k] /\ ~initialize))
    /\ pc[p] \in {"trunc", "write"} => snap[p] = mem
    /\ pc[p] \in {"trunc", "write", "send"} => Sound(plan[p])
    /\ pc[p] \in {"send", "await"} => disk = mem
    /\ pc[p] = "await" => Sound(mail[p])

\* A copy of the file from which a gc may have removed entries.
Copy(s) ==
    /\ \A k \in Served : s[k] = inst[k]
    /\ Saved(s)
    /\ initialize => Accurate(s)

\* A trigger or a gc under way: it works on the file as it is, and sends no
\* credential.
Beside(p) ==
    /\ pc[p] # "await" => mail[p] = Nothing
    /\ pc[p] = "send" \/ (pc[p] \in {"trunc", "write"} /\ p = Trigger) =>
         \A k \in Keys : plan[p][k] \notin Cred
    /\ pc[p] = "await" => \A k \in Keys : mail[p][k] \notin Cred
    /\ pc[p] \in {"query", "run", "apply", "trunc"} => disk \in Stores
    /\ pc[p] \in {"query", "run", "apply"} => snap[p] = disk
    /\ pc[p] = "run" => input[p] = disk
    /\ pc[p] = "apply" /\ p = Trigger => out[p] = disk
    /\ pc[p] = "apply" /\ rotating => \A k \in Keys : out[p][k] \in Cred => out[p][k] = disk[k]
    /\ pc[p] = "trunc" => \A k \in Keys : snap[p][k] \in {disk[k], Absent} /\ (k \in Served => snap[p][k] = disk[k])
    /\ pc[p] = "write" => disk = Torn /\ Copy(snap[p])

AllAtWork ==
    /\ \A p \in DaemonProcs : AtWork(p)
    /\ \A p \in {Trigger, Collector} : Beside(p)

\* The inductive invariant, without its types: what calm behaviours are made
\* of, and what follows from it.
Promise == ClientsAge /\ Manned /\ Held /\ FileSafe /\ AllAtWork
CalmInv == OneAtATime /\ NothingNew /\ Promise
----------------------------------------------------------------------------
(* Facts about the operators.                                              *)

\* The sentinels differ from each other and from the credentials.
LEMMA Constants ==
    /\ MaxCred \in Nat /\ MaxDisturb \in Nat
    /\ Absent \notin Nat /\ Err \notin Nat /\ Revoked \notin Nat
    /\ Absent # Err /\ Err # Revoked /\ Revoked # Absent
    /\ NoKey \notin Keys
    /\ CacheResponse \in BOOLEAN
BY ConstantsAssumption, SentinelAssumption

\* The processes are not each other.
LEMMA Processes ==
    /\ Boot # Trigger /\ Trigger # Collector /\ Collector # Boot
    /\ Boot \notin Workers /\ Trigger \notin Workers /\ Collector \notin Workers
    /\ Boot \in Procs /\ Trigger \in Procs /\ Collector \in Procs
    /\ Workers \subseteq Procs
    /\ Procs \ Workers = {Boot, Trigger, Collector}
BY ConstantsAssumption DEF Procs, DaemonProcs

LEMMA NothingType == Nothing \in Stores /\ Nothing \in Mail /\ Nothing \in [Keys -> Responses \cup {Absent}]
BY DEF Nothing, Stores, Values, Mail

LEMMA InputType == ASSUME NEW s \in Stores, NEW cached \in BOOLEAN PROVE InputOf(s, cached) \in Stores
BY DEF InputOf, Stores, Values

\* With its responses cached, a store is its own handler input.
LEMMA InputIsStore == ASSUME NEW s \in Stores PROVE InputOf(s, TRUE) = s
BY DEF InputOf, Stores

LEMMA UpdateType ==
    ASSUME NEW s \in Stores, NEW o \in [Keys -> Responses \cup {Absent}]
    PROVE  UpdateProviderResponses(s, o) \in Stores
BY DEF UpdateProviderResponses, Stores, Values, Responses

LEMMA RecordType == ASSUME NEW s \in Stores, NEW k \in Keys PROVE RecordProviderRequest(s, k) \in Stores
BY DEF RecordProviderRequest, Stores, Values

LEMMA CallbacksType ==
    ASSUME NEW o \in [Keys -> Responses \cup {Absent}], NEW c, NEW r
    PROVE  Callbacks(o, c, r) \in Mail
BY DEF Callbacks, Mail

LEMMA LoadedType == ASSUME NEW d \in Stores \cup {NoFile, Torn}, d # Torn PROVE Loaded(d) \in Stores
BY NothingType DEF Loaded

LEMMA DisturbType == ASSUME TypeOK, NEW kind, Disturb(kind) PROVE disturbed' \in 0 .. MaxDisturb /\ UNCHANGED initialize
BY Constants DEF TypeOK, Disturb
----------------------------------------------------------------------------
(* Type correctness.                                                       *)

\* The part of the type invariant about the processes.
ProcType ==
    /\ daemon \in {"down", "boot", "up"}
    /\ pc \in [Procs -> {"idle", "query", "run", "apply", "trunc", "write", "send", "await", "done"}]
    /\ serving \in [Procs -> Keys \cup {NoKey}]
    /\ \A w \in Workers : serving[w] # NoKey <=> pc[w] # "idle"
    /\ input \in [Procs -> Stores] /\ snap \in [Procs -> Stores]
    /\ out \in [Procs -> [Keys -> Responses \cup {Absent}]]
    /\ plan \in [Procs -> Mail]

LEMMA InitType == Init => TypeOK
<1> SUFFICES ASSUME Init PROVE TypeOK
  OBVIOUS
<1>1. 0 \in 0 .. MaxCred /\ 0 \in 0 .. MaxDisturb
  BY Constants
<1>2. \A w \in Workers : serving[w] # NoKey <=> pc[w] # "idle"
  BY Processes DEF Init
<1> QED BY <1>1, <1>2, NothingType DEF Init, TypeOK

LEMMA AbandonType == ASSUME TypeOK, NEW p \in Procs, Abandon(p) PROVE ProcType'
<1>1. \A w \in Workers : (serving[w] # NoKey <=> pc[w] # "idle")'
  BY Processes DEF TypeOK, Abandon
<1>2. pc' \in [Procs -> {"idle", "query", "run", "apply", "trunc", "write", "send", "await", "done"}]
  BY DEF TypeOK, Abandon
<1>3. daemon' \in {"down", "boot", "up"} /\ serving' \in [Procs -> Keys \cup {NoKey}]
  BY DEF TypeOK, Abandon
<1>4. input' \in [Procs -> Stores] /\ snap' \in [Procs -> Stores]
      /\ out' \in [Procs -> [Keys -> Responses \cup {Absent}]] /\ plan' \in [Procs -> Mail]
  BY NothingType DEF TypeOK, Abandon
<1> QED BY <1>1, <1>2, <1>3, <1>4 DEF ProcType

LEMMA DaemonStartsType == ASSUME TypeOK, DaemonStarts PROVE TypeOK'
<1>1. mem' \in Stores
  BY LoadedType DEF TypeOK, DaemonStarts
<1>2. InputOf(mem', CacheResponse) \in Stores
  BY <1>1, InputType, Constants
<1>3. /\ daemon' \in {"down", "boot", "up"}
      /\ pc' \in [Procs -> {"idle", "query", "run", "apply", "trunc", "write", "send", "await", "done"}]
      /\ input' \in [Procs -> Stores]
  BY <1>2 DEF TypeOK, DaemonStarts
<1>4. \A w \in Workers : pc'[w] = pc[w]
  BY Processes DEF TypeOK, DaemonStarts
<1> QED BY <1>1, <1>3, <1>4 DEF TypeOK, DaemonStarts, gcVars, backVars, consVars

LEMMA CrashType == ASSUME TypeOK, NEW ps \in {DaemonProcs, Procs}, Crash(ps) PROVE TypeOK'
<1>1. disturbed' \in 0 .. MaxDisturb /\ UNCHANGED initialize
  BY DisturbType DEF Crash
<1>2. Workers \subseteq ps
  BY DEF DaemonProcs, Procs
<1>3. \A w \in Workers : serving'[w] = NoKey /\ pc'[w] = "idle"
  BY <1>2, Processes DEF Crash
<1>4. pc' \in [Procs -> {"idle", "query", "run", "apply", "trunc", "write", "send", "await", "done"}]
  BY DEF TypeOK, Crash
<1>5. serving' \in [Procs -> Keys \cup {NoKey}] /\ input' \in [Procs -> Stores] /\ snap' \in [Procs -> Stores]
  BY NothingType DEF TypeOK, Crash
<1>6. /\ out' \in [Procs -> [Keys -> Responses \cup {Absent}]]
      /\ plan' \in [Procs -> Mail] /\ mail' \in [Procs -> Mail]
  BY NothingType DEF TypeOK, Crash
<1>7. removed' \in SUBSET Keys /\ rotating' \in BOOLEAN
  BY DEF TypeOK, Crash, gcVars
<1> QED BY <1>1, <1>3, <1>4, <1>5, <1>6, <1>7, NothingType DEF TypeOK, Crash, backVars, consVars

LEMMA RequestType == ASSUME TypeOK, NEW w \in Workers, NEW k \in Keys, Request(w, k) PROVE TypeOK'
<1>1. mem' \in Stores
  BY RecordType DEF TypeOK, Request
<1>2. InputOf(mem', CacheResponse) \in Stores
  BY <1>1, InputType, Constants
<1>3. /\ pc' \in [Procs -> {"idle", "query", "run", "apply", "trunc", "write", "send", "await", "done"}]
      /\ serving' \in [Procs -> Keys \cup {NoKey}]
  BY DEF TypeOK, Request
<1>4. input' \in [Procs -> Stores]
  BY <1>2 DEF TypeOK, Request
<1>5. \A v \in Workers : (serving[v] # NoKey <=> pc[v] # "idle")'
  BY Processes, Constants DEF TypeOK, Request
<1> QED BY <1>1, <1>3, <1>4, <1>5 DEF TypeOK, Request, gcVars, backVars, consVars

LEMMA ApplyInDaemonType == ASSUME TypeOK, NEW p \in Procs, ApplyInDaemon(p) PROVE TypeOK'
<1>0. out[p] \in [Keys -> Responses \cup {Absent}]
  BY DEF TypeOK
<1>1. mem' \in Stores
  BY <1>0, UpdateType DEF TypeOK, ApplyInDaemon
<1>2. Callbacks(out[p], Changed(mem, out[p]), RevokedKeys(mem', out[p])) \in Mail
  BY <1>0, CallbacksType
<1>3. out[p] \in Mail
  BY <1>0 DEF Mail
<1>4. plan' \in [Procs -> Mail]
  BY <1>2, <1>3 DEF TypeOK, ApplyInDaemon
<1>5. snap' \in [Procs -> Stores]
  BY <1>1 DEF TypeOK, ApplyInDaemon
<1>6. /\ pc' \in [Procs -> {"idle", "query", "run", "apply", "trunc", "write", "send", "await", "done"}]
      /\ \A v \in Workers : pc'[v] # "idle" <=> pc[v] # "idle"
  BY Processes DEF TypeOK, ApplyInDaemon
<1> QED BY <1>1, <1>4, <1>5, <1>6 DEF TypeOK, ApplyInDaemon, gcVars, backVars, consVars

LEMMA TriggerType == ASSUME TypeOK, (\E force \in BOOLEAN : TriggerStarts(force)) \/ ApplyInTrigger PROVE TypeOK'
<1>1. ASSUME NEW force \in BOOLEAN, TriggerStarts(force) PROVE TypeOK'
  <2>1. disk \in Stores
    BY <1>1 DEF TypeOK, TriggerStarts
  <2>2. InputOf(disk, CacheResponse /\ ~force) \in Stores
    BY <2>1, InputType, Constants
  <2>3. snap' \in [Procs -> Stores] /\ input' \in [Procs -> Stores]
    BY <1>1, <2>1, <2>2 DEF TypeOK, TriggerStarts
  <2>4. /\ pc' \in [Procs -> {"idle", "query", "run", "apply", "trunc", "write", "send", "await", "done"}]
        /\ \A v \in Workers : pc'[v] = pc[v]
    BY <1>1, Processes DEF TypeOK, TriggerStarts
  <2>5. disturbed' \in 0 .. MaxDisturb /\ UNCHANGED initialize
    BY <1>1, DisturbType DEF TriggerStarts
  <2> QED BY <1>1, <2>3, <2>4, <2>5 DEF TypeOK, TriggerStarts, gcVars, backVars, consVars
<1>2. ASSUME ApplyInTrigger PROVE TypeOK'
  <2>0. out[Trigger] \in [Keys -> Responses \cup {Absent}] /\ snap[Trigger] \in Stores
    BY Processes DEF TypeOK
  <2>1. [k \in Keys |-> IF out[Trigger][k] # Absent THEN out[Trigger][k] ELSE snap[Trigger][k]] \in Stores
    BY <2>0 DEF Stores, Values
  <2>2. \A c, r : Callbacks(out[Trigger], c, r) \in Mail
    BY <2>0, CallbacksType
  <2>3. snap' \in [Procs -> Stores]
    BY <1>2, <2>1 DEF TypeOK, ApplyInTrigger
  <2>4. plan' \in [Procs -> Mail]
    BY <1>2, <2>2 DEF TypeOK, ApplyInTrigger
  <2>5. /\ pc' \in [Procs -> {"idle", "query", "run", "apply", "trunc", "write", "send", "await", "done"}]
        /\ \A v \in Workers : pc'[v] = pc[v]
    BY <1>2, Processes DEF TypeOK, ApplyInTrigger
  <2> QED BY <1>2, <2>3, <2>4, <2>5 DEF TypeOK, ApplyInTrigger, gcVars, backVars, consVars
<1> QED BY <1>1, <1>2

LEMMA GCType ==
    ASSUME TypeOK, GCStarts \/ ApplyInGC \/ (\E reachable \in SUBSET Keys : GCQueries(reachable))
    PROVE  TypeOK'
<1>0. out[Collector] \in [Keys -> Responses \cup {Absent}] /\ snap[Collector] \in Stores
  BY Processes DEF TypeOK
<1>1. ASSUME GCStarts PROVE TypeOK'
  <2>1. snap' \in [Procs -> Stores]
    BY <1>1 DEF TypeOK, GCStarts
  <2>2. /\ pc' \in [Procs -> {"idle", "query", "run", "apply", "trunc", "write", "send", "await", "done"}]
        /\ \A v \in Workers : pc'[v] = pc[v]
    BY <1>1, Processes DEF TypeOK, GCStarts
  <2>3. disturbed' \in 0 .. MaxDisturb /\ UNCHANGED initialize
    BY <1>1, DisturbType DEF GCStarts
  <2> QED BY <1>1, <2>1, <2>2, <2>3 DEF TypeOK, GCStarts, gcVars, backVars, consVars
<1>2. ASSUME ApplyInGC PROVE TypeOK'
  <2>1. \A c, r : Callbacks(out[Collector], c, r) \in Mail
    BY <1>0, CallbacksType
  <2>2. plan' \in [Procs -> Mail]
    BY <1>2, <2>1, NothingType DEF TypeOK, ApplyInGC
  <2>3. /\ pc' \in [Procs -> {"idle", "query", "run", "apply", "trunc", "write", "send", "await", "done"}]
        /\ \A v \in Workers : pc'[v] = pc[v]
    BY <1>2, Processes DEF TypeOK, ApplyInGC
  <2> QED BY <1>2, <2>2, <2>3 DEF TypeOK, ApplyInGC, gcVars, backVars, consVars
<1>3. ASSUME NEW reachable \in SUBSET Keys, GCQueries(reachable) PROVE TypeOK'
  <2> DEFINE gone == Orphans(snap[Collector], reachable)
  <2>1. removed' \in SUBSET Keys
    BY <1>3 DEF GCQueries, Orphans, Entries
  <2>2. [k \in Keys |-> IF k \in gone THEN Absent ELSE snap[Collector][k]] \in Stores
    <3> HIDE DEF gone
    <3> QED BY <1>0 DEF Stores, Values
  <2>3. snap' \in [Procs -> Stores]
    BY <1>3, <2>2 DEF TypeOK, GCQueries
  <2>4. InputOf(snap[Collector], CacheResponse) \in Stores
    BY <1>0, InputType, Constants
  <2>5. input' \in [Procs -> Stores]
    <3>1. PICK i \in Stores : i = InputOf(snap[Collector], CacheResponse)
      BY <2>4
    <3>2. input' = [input EXCEPT ![Collector] = i] \/ input' = input
      BY <1>3, <3>1 DEF GCQueries
    <3>3. input \in [Procs -> Stores]
      BY DEF TypeOK
    <3> QED BY <3>2, <3>3
  <2>6. /\ pc' \in [Procs -> {"idle", "query", "run", "apply", "trunc", "write", "send", "await", "done"}]
        /\ \A v \in Workers : pc'[v] = pc[v]
        /\ rotating' \in BOOLEAN
    <3>1. rotating' \in BOOLEAN
      BY <1>3 DEF GCQueries
    <3>2. PICK at \in {"trunc", "run", "done"} : pc' = [pc EXCEPT ![Collector] = at]
      BY <1>3 DEF GCQueries
    <3>3. pc \in [Procs -> {"idle", "query", "run", "apply", "trunc", "write", "send", "await", "done"}]
      BY DEF TypeOK
    <3> QED BY <3>1, <3>2, <3>3, Processes
  <2> QED BY <1>3, <2>1, <2>3, <2>5, <2>6 DEF TypeOK, GCQueries, backVars, consVars
<1> QED BY <1>1, <1>2, <1>3

\* What a handler run gives an entry: the next credential, or its cached one.
LEMMA HandlerRunsType == ASSUME TypeOK, NEW p \in Procs, HandlerRuns(p) PROVE TypeOK'
<1> DEFINE fresh == {k \in Entries(input[p]) : ~Kept(input[p], k)}
<1>1. input[p] \in Stores
  BY DEF TypeOK
<1>2. \A k \in fresh : count[k] + 1 \in Cred
  BY Constants DEF HandlerRuns, TypeOK, Cred, Entries
<1>3. \A k \in Keys \ fresh : input[p][k] = Absent \/ (input[p][k] \in Cred /\ client[k] # 0)
  BY DEF Entries, Kept
<1>4. count' = [k \in Keys |-> IF k \in fresh THEN count[k] + 1 ELSE count[k]]
  BY DEF HandlerRuns
<1>5. valid' = [k \in Keys |-> IF k \in fresh THEN count[k] + 1
                               ELSE IF input[p][k] = Absent THEN 0 ELSE valid[k]]
  BY DEF HandlerRuns
<1>6. client' = [k \in Keys |-> IF input[p][k] = Absent THEN 0
                                ELSE IF client[k] = 0 THEN count[k] + 1 ELSE client[k]]
  BY DEF HandlerRuns
<1>7. out' = [out EXCEPT ![p] = [k \in Keys |-> IF k \in fresh THEN count[k] + 1 ELSE input[p][k]]]
  BY DEF HandlerRuns
<1>8. 0 \in 0 .. MaxCred /\ \A c \in Cred : c \in 0 .. MaxCred
  BY Constants DEF Cred
<1> HIDE DEF fresh
<1>9. count' \in [Keys -> 0 .. MaxCred] /\ valid' \in [Keys -> 0 .. MaxCred]
  BY <1>2, <1>4, <1>5, <1>8 DEF TypeOK
<1>10. client' \in [Keys -> 0 .. MaxCred]
  BY <1>2, <1>3, <1>6, <1>8 DEF TypeOK
<1>11. [k \in Keys |-> IF k \in fresh THEN count[k] + 1 ELSE input[p][k]] \in [Keys -> Responses \cup {Absent}]
  BY <1>2, <1>3 DEF Responses
<1>12. out' \in [Procs -> [Keys -> Responses \cup {Absent}]]
  BY <1>7, <1>11 DEF TypeOK
<1>13. /\ pc' \in [Procs -> {"idle", "query", "run", "apply", "trunc", "write", "send", "await", "done"}]
       /\ \A v \in Workers : pc'[v] # "idle" <=> pc[v] # "idle"
  BY Processes DEF TypeOK, HandlerRuns
<1> QED BY <1>9, <1>10, <1>12, <1>13 DEF TypeOK, HandlerRuns, gcVars, consVars

LEMMA HandlerErrType ==
    ASSUME TypeOK, NEW p \in Procs, HandlerAnswersErr(p) \/ HandlerFails(p)
    PROVE  TypeOK'
<1>1. CASE HandlerAnswersErr(p)
  <2>1. [k \in Keys |-> IF input[p][k] = Absent THEN Absent ELSE Err] \in [Keys -> Responses \cup {Absent}]
    BY DEF Responses
  <2>2. out' \in [Procs -> [Keys -> Responses \cup {Absent}]]
    BY <1>1, <2>1 DEF TypeOK, HandlerAnswersErr
  <2>3. /\ pc' \in [Procs -> {"idle", "query", "run", "apply", "trunc", "write", "send", "await", "done"}]
        /\ \A v \in Workers : pc'[v] # "idle" <=> pc[v] # "idle"
    BY <1>1, Processes DEF TypeOK, HandlerAnswersErr
  <2>4. disturbed' \in 0 .. MaxDisturb /\ UNCHANGED initialize
    BY <1>1, DisturbType DEF HandlerAnswersErr
  <2> QED BY <1>1, <2>2, <2>3, <2>4 DEF TypeOK, HandlerAnswersErr, gcVars, backVars, consVars
<1>2. CASE HandlerFails(p)
  <2>1. ProcType'
    BY <1>2, AbandonType DEF HandlerFails
  <2>2. disturbed' \in 0 .. MaxDisturb /\ UNCHANGED initialize
    BY <1>2, DisturbType DEF HandlerFails
  <2> QED BY <1>2, <2>1, <2>2 DEF TypeOK, ProcType, HandlerFails, gcVars, backVars, consVars
<1> QED BY <1>1, <1>2

LEMMA SaveType ==
    ASSUME TypeOK, NEW p \in Procs, SaveTruncates(p) \/ SaveWrites(p) \/ SaveFails(p)
    PROVE  TypeOK'
<1>1. CASE SaveTruncates(p)
  <2>1. /\ pc' \in [Procs -> {"idle", "query", "run", "apply", "trunc", "write", "send", "await", "done"}]
        /\ \A v \in Workers : pc'[v] # "idle" <=> pc[v] # "idle"
    BY <1>1, Processes DEF TypeOK, SaveTruncates
  <2> QED BY <1>1, <2>1 DEF TypeOK, SaveTruncates, gcVars, backVars, consVars
<1>2. CASE SaveWrites(p)
  <2>1. /\ pc' \in [Procs -> {"idle", "query", "run", "apply", "trunc", "write", "send", "await", "done"}]
        /\ \A v \in Workers : pc'[v] # "idle" <=> pc[v] # "idle"
    BY <1>2, Processes DEF TypeOK, SaveWrites
  <2>2. snap[p] \in Stores
    BY DEF TypeOK
  <2>3. InputOf(snap[p], CacheResponse) \in Stores
    BY <2>2, InputType, Constants
  <2>4. input' \in [Procs -> Stores]
    BY <1>2, <2>3 DEF TypeOK, SaveWrites
  <2> QED BY <1>2, <2>1, <2>2, <2>4 DEF TypeOK, SaveWrites, gcVars, backVars, consVars
<1>3. CASE SaveFails(p)
  <2>1. disturbed' \in 0 .. MaxDisturb /\ UNCHANGED initialize
    BY <1>3, DisturbType DEF SaveFails
  <2>2. CASE p \in DaemonProcs
    <3>1. /\ pc' \in [Procs -> {"idle", "query", "run", "apply", "trunc", "write", "send", "await", "done"}]
          /\ \A v \in Workers : pc'[v] # "idle" <=> pc[v] # "idle"
      BY <1>3, <2>2, Processes DEF TypeOK, SaveFails
    <3> QED BY <1>3, <2>1, <2>2, <3>1 DEF TypeOK, SaveFails, gcVars, backVars, consVars
  <2>3. CASE p \notin DaemonProcs
    <3>1. ProcType'
      BY <1>3, <2>3, AbandonType DEF SaveFails
    <3> QED BY <1>3, <2>1, <3>1 DEF TypeOK, ProcType, SaveFails, gcVars, backVars, consVars
  <2> QED BY <2>2, <2>3
<1> QED BY <1>1, <1>2, <1>3

LEMMA EndType == ASSUME TypeOK, NEW p \in Procs, Dispatch(p) \/ Completes(p) PROVE TypeOK'
<1>1. CASE Dispatch(p)
  <2>1. /\ pc' \in [Procs -> {"idle", "query", "run", "apply", "trunc", "write", "send", "await", "done"}]
        /\ \A v \in Workers : pc'[v] # "idle" <=> pc[v] # "idle"
    BY <1>1, Processes DEF TypeOK, Dispatch
  <2>2. mail' \in [Procs -> Mail]
    BY <1>1 DEF TypeOK, Dispatch
  <2> QED BY <1>1, <2>1, <2>2 DEF TypeOK, Dispatch, gcVars, backVars, consVars
<1>2. CASE Completes(p)
  <2>1. ProcType'
    BY <1>2, AbandonType DEF Completes
  <2>2. removed' \in SUBSET Keys /\ rotating' \in BOOLEAN
    BY <1>2 DEF TypeOK, Completes, gcVars
  <2> QED BY <1>2, <2>1, <2>2 DEF TypeOK, ProcType, Completes, backVars, consVars
<1> QED BY <1>1, <1>2

LEMMA ConsumerType ==
    ASSUME TypeOK, NEW k \in Keys, (\E p \in Procs : Deliver(p, k) \/ Lose(p, k)) \/ Forget(k) \/ Deploy(k)
    PROVE  TypeOK'
<1>1. ASSUME NEW p \in Procs, Deliver(p, k) PROVE TypeOK'
  <2>1. mail' \in [Procs -> Mail]
    BY <1>1 DEF TypeOK, Deliver, Mail
  <2>2. sat' \in SUBSET Keys
    BY <1>1 DEF TypeOK, Deliver
  <2>3. \A c \in Cred : c \in 0 .. MaxCred
    BY Constants DEF Cred
  <2>4. inst' \in [Keys -> 0 .. MaxCred]
    BY <1>1, <2>3 DEF TypeOK, Deliver
  <2> QED BY <1>1, <2>1, <2>2, <2>4 DEF TypeOK, Deliver, procVars, gcVars, backVars
<1>2. ASSUME NEW p \in Procs, Lose(p, k) PROVE TypeOK'
  <2>1. mail' \in [Procs -> Mail]
    BY <1>2 DEF TypeOK, Lose, Mail
  <2>2. disturbed' \in 0 .. MaxDisturb /\ UNCHANGED initialize
    BY <1>2, DisturbType DEF Lose
  <2> QED BY <1>2, <2>1, <2>2 DEF TypeOK, Lose, procVars, gcVars, backVars, consVars
<1>3. CASE Forget(k)
  <2>1. disturbed' \in 0 .. MaxDisturb /\ UNCHANGED initialize
    BY <1>3, DisturbType DEF Forget
  <2> QED BY <1>3, <2>1 DEF TypeOK, Forget, procVars, gcVars, backVars
<1>4. CASE Deploy(k)
  <2>1. disturbed' \in 0 .. MaxDisturb /\ UNCHANGED initialize
    BY <1>4, DisturbType DEF Deploy
  <2> QED BY <1>4, <2>1 DEF TypeOK, Deploy, procVars, gcVars, backVars
<1> QED BY <1>1, <1>2, <1>3, <1>4

LEMMA NextType == ASSUME TypeOK, [Next]_vars PROVE TypeOK'
<1>1. CASE UNCHANGED vars
  BY <1>1 DEF TypeOK, vars, procVars, gcVars, backVars, consVars
<1>2. CASE Next
  BY <1>2, DaemonStartsType, CrashType, RequestType, ApplyInDaemonType, TriggerType, GCType,
     HandlerRunsType, HandlerErrType, SaveType, EndType, ConsumerType DEF Next, ProcStep
<1> QED BY <1>1, <1>2

\* The daemon, the trigger, the gc, the handler and the consumers only ever
\* handle issued credentials, errors and revocations, and a goroutine has a
\* request's key exactly while it serves it.
THEOREM TypeCorrect == Spec => []TypeOK
BY InitType, NextType, PTL DEF Spec
----------------------------------------------------------------------------
(* Calm behaviours.                                                        *)

LEMMA InitCalm == Init => CalmInv
<1> SUFFICES ASSUME Init PROVE CalmInv
  OBVIOUS
<1>1. ClientsAge
  <2> SUFFICES ASSUME NEW k \in Keys PROVE client[k] <= count[k] /\ valid[k] <= count[k]
    BY DEF ClientsAge
  <2>1. client[k] = 0 /\ valid[k] = 0 /\ count[k] = 0
    BY DEF Init
  <2> QED BY <2>1
<1>2. Manned
  BY Processes DEF Init, Manned
<1>3. Held /\ FileSafe
  BY DEF Init, Held, FileSafe, Served
<1>4. AllAtWork
  BY Processes DEF Init, AllAtWork, AtWork, Beside, Procs
<1>5. OneAtATime /\ NothingNew
  BY Processes DEF Init, OneAtATime, NothingNew
<1> QED BY <1>1, <1>2, <1>3, <1>4, <1>5 DEF CalmInv, Promise

\* A process that is not the daemon's is the trigger or the gc.
LEMMA Either ==
    ASSUME NEW p \in Procs
    PROVE  \/ p \in DaemonProcs /\ p # Trigger /\ p # Collector
           \/ p \notin DaemonProcs /\ p \in {Trigger, Collector} /\ p # Boot /\ p \notin Workers
BY Processes DEF DaemonProcs, Procs

\* While a request or a boot is under way, the daemon is there.
LEMMA DaemonThere ==
    ASSUME Promise, NEW p \in DaemonProcs, pc[p] # "idle"
    PROVE  daemon # "down" /\ AtWork(p)
BY DEF Promise, Manned, AllAtWork, DaemonProcs

\* While one process works, the others do not.
LEMMA OthersIdle ==
    ASSUME CalmInv, NEW p \in Procs, pc[p] # "idle", NEW q \in Procs, q # p
    PROVE  pc[q] = "idle" /\ mail[q] = Nothing
<1>1. pc[q] = "idle"
  BY DEF CalmInv, OneAtATime
<1> QED BY <1>1, Either DEF CalmInv, Promise, AllAtWork, AtWork, Beside

\* Beside a trigger or a gc, the daemon has nothing to save.
LEMMA DaemonSaved ==
    ASSUME CalmInv, NEW p \in Procs, p \notin DaemonProcs, pc[p] # "idle"
    PROVE  Beside(p) /\ DaemonUnsaved = {}
<1>1. \A q \in DaemonProcs : q \in Procs /\ q # p
  BY DEF Procs
<1>2. \A q \in DaemonProcs : pc[q] = "idle"
  BY <1>1, OthersIdle
<1> QED BY <1>2, Either DEF CalmInv, Promise, AllAtWork, DaemonUnsaved

\* The obligations of a step of one process that stay the same for each.
LEMMA OthersStay ==
    ASSUME Promise, NEW p \in Procs, pc[p] # "idle", UNCHANGED initialize,
           \A q \in Procs : q # p => pc'[q] = pc[q] /\ mail'[q] = mail[q],
           \/ pc'[p] # "idle" /\ daemon' = daemon
           \/ pc'[p] = "idle" /\ daemon' = IF p = Boot THEN "up" ELSE daemon
    PROVE  Manned'
<1>1. CASE p = Boot
  BY <1>1, Processes DEF Promise, Manned
<1>2. CASE p \in Workers
  BY <1>2, Processes DEF Promise, Manned
<1>3. CASE p # Boot /\ p \notin Workers
  BY <1>3, Processes DEF Promise, Manned
<1> QED BY <1>1, <1>2, <1>3

LEMMA OthersWork ==
    ASSUME CalmInv, NEW p \in Procs, pc[p] # "idle",
           p \in DaemonProcs => AtWork(p)', p \notin DaemonProcs => Beside(p)',
           \A q \in Procs : q # p => pc'[q] = pc[q] /\ mail'[q] = mail[q]
    PROVE  AllAtWork'
<1>1. \A q \in Procs : q # p => pc'[q] = "idle" /\ mail'[q] = Nothing
  BY OthersIdle
<1>2. ASSUME NEW q \in DaemonProcs PROVE AtWork(q)'
  <2>1. CASE q = p
    BY <2>1
  <2>2. CASE q # p
    <3>1. pc'[q] = "idle" /\ mail'[q] = Nothing
      BY <1>1, <2>2 DEF Procs
    <3> QED BY <3>1 DEF AtWork
  <2> QED BY <2>1, <2>2
<1>3. ASSUME NEW q \in {Trigger, Collector} PROVE Beside(q)'
  <2>1. q \in Procs /\ q \notin DaemonProcs
    BY Processes DEF DaemonProcs
  <2>2. CASE q = p
    BY <2>1, <2>2
  <2>3. CASE q # p
    <3>1. pc'[q] = "idle" /\ mail'[q] = Nothing
      BY <1>1, <2>1, <2>3
    <3> QED BY <3>1 DEF Beside
  <2> QED BY <2>2, <2>3
<1> QED BY <1>2, <1>3 DEF AllAtWork

\* All are idle but the one that starts.
LEMMA Starting ==
    ASSUME Promise, NEW p \in Procs, OneAtATime', pc'[p] # "idle",
           p \in DaemonProcs => AtWork(p)', p \notin DaemonProcs => Beside(p)',
           \A q \in Procs : q # p => pc'[q] = pc[q] /\ mail'[q] = mail[q]
    PROVE  AllAtWork' /\ \A q \in Procs : q # p => pc[q] = "idle"
<1>1. \A q \in Procs : q # p => pc'[q] = "idle" /\ pc[q] = "idle"
  BY DEF OneAtATime
<1>2. \A q \in Procs : q # p => mail'[q] = Nothing
  BY <1>1, Either DEF Promise, AllAtWork, AtWork, Beside
<1>3. ASSUME NEW q \in DaemonProcs PROVE AtWork(q)'
  <2>1. q \in Procs
    BY DEF Procs
  <2> QED BY <1>1, <1>2, <2>1 DEF AtWork
<1>4. ASSUME NEW q \in {Trigger, Collector} PROVE Beside(q)'
  <2>1. q \in Procs /\ q \notin DaemonProcs
    BY Processes DEF DaemonProcs
  <2> QED BY <1>1, <1>2, <2>1 DEF Beside
<1> QED BY <1>1, <1>3, <1>4 DEF AllAtWork

\* A consumer that is served stays held if nothing it rests on changes.
LEMMA HeldStays ==
    ASSUME Held, Served' \subseteq Served, UNCHANGED <<inst, backVars, disk, mem>>,
           daemon' # "down" => daemon # "down"
    PROVE  Held'
BY DEF Held, Backed, backVars

LEMMA FileStays ==
    ASSUME FileSafe, UNCHANGED <<backVars, disk, mem, initialize>>,
           daemon' # "down" => daemon # "down", DaemonUnsaved' = {} => DaemonUnsaved = {}
    PROVE  FileSafe'
BY DEF FileSafe, Accurate, Saved, backVars

LEMMA ClientsStay == ASSUME ClientsAge, UNCHANGED backVars PROVE ClientsAge'
BY DEF ClientsAge, backVars

\* What is accepted has been issued.
LEMMA BackedAge == ASSUME TypeOK, ClientsAge, NEW k \in Keys, NEW c, Backed(k, c) PROVE c \in Nat /\ c <= count[k]
BY Constants DEF ClientsAge, Backed, Cred

LEMMA DaemonStartsCalm == ASSUME Orderly, TypeOK, CalmInv, DaemonStarts, OneAtATime' PROVE Promise'
<1>1. \A p \in DaemonProcs : pc[p] = "idle" /\ mail[p] = Nothing
  <2>1. \A p \in DaemonProcs : pc[p] = "idle"
    BY DaemonThere DEF CalmInv, DaemonStarts
  <2> QED BY <2>1 DEF CalmInv, Promise, AllAtWork, AtWork
<1>2. mem' = Loaded(disk) /\ disk # Torn /\ UNCHANGED <<disk, out, snap, plan, mail, gcVars, backVars, consVars, initialize>>
  BY DEF DaemonStarts
<1>3. /\ \A p \in Procs : p # Boot => pc'[p] = pc[p] /\ input'[p] = input[p]
      /\ \/ daemon' = "up" /\ pc'[Boot] = "idle" /\ UNCHANGED <<pc, input>>
         \/ daemon' = "boot" /\ initialize /\ pc'[Boot] = "run" /\ input'[Boot] = InputOf(mem', TRUE)
  <2>1. CacheResponse = TRUE
    BY Constants DEF Orderly
  <2>2. CASE initialize /\ Entries(mem') # {}
    BY <2>1, <2>2, Processes DEF TypeOK, DaemonStarts
  <2>3. CASE ~(initialize /\ Entries(mem') # {})
    BY <1>1, <2>3, Processes DEF DaemonStarts, DaemonProcs
  <2> QED BY <2>2, <2>3
<1>4. Boot \in DaemonProcs /\ Boot \in Procs /\ \A w \in Workers : w # Boot /\ pc'[w] = "idle" /\ w \in DaemonProcs
  BY <1>1, <1>3, Processes DEF DaemonProcs
<1>5. ClientsAge'
  BY <1>2, ClientsStay DEF CalmInv, Promise
<1>6. Manned'
  BY <1>2, <1>3, <1>4 DEF Manned
<1>7. Held'
  <2> SUFFICES ASSUME NEW k \in Served
               PROVE  Backed(k, inst[k])' /\ disk' # NoFile /\ disk'[k] = inst'[k] /\ mem'[k] = inst'[k]
    BY <1>2 DEF Held, consVars, Served
  <2>1. disk # NoFile /\ disk # Torn /\ disk[k] = inst[k] /\ Backed(k, inst[k])
    BY <1>2 DEF CalmInv, Promise, Held
  <2> QED BY <1>2, <2>1 DEF Loaded, Backed, backVars, consVars
<1>8. FileSafe'
  <2>1. DaemonUnsaved = {}
    BY <1>1 DEF DaemonUnsaved
  <2>2. CASE disk = NoFile
    <3>1. \A k \in Keys : mem'[k] \notin Cred
      BY <1>2, <2>2, Constants DEF Loaded, Nothing, Cred
    <3> QED BY <1>2, <2>2, <3>1 DEF FileSafe, Accurate
  <2>3. CASE disk # NoFile
    <3>1. mem' = disk
      BY <1>2, <2>3 DEF Loaded
    <3>2. initialize => Accurate(disk)
      BY <1>2, <2>1, <2>3 DEF CalmInv, Promise, FileSafe
    <3>3. initialize => Accurate(disk)'
      BY <1>2, <3>2 DEF Accurate, backVars
    <3>4. initialize => Accurate(mem)'
      BY <1>2, <3>1, <3>3 DEF Accurate
    <3>5. Saved(disk)'
      BY <1>2, <3>1 DEF Saved
    <3> QED BY <1>2, <3>3, <3>4, <3>5 DEF FileSafe
  <2> QED BY <2>2, <2>3
<1>9. AllAtWork'
  <2>1. CASE pc'[Boot] = "run" /\ input'[Boot] = InputOf(mem', TRUE)
    <3>1. mem' \in Stores
      BY <1>2, LoadedType DEF TypeOK
    <3>2. PICK m : m = mem'
      OBVIOUS
    <3>3. InputOf(m, TRUE) = m
      BY <3>1, <3>2, InputIsStore
    <3>4. AtWork(Boot)'
      BY <1>1, <1>2, <1>4, <2>1, <3>2, <3>3 DEF AtWork
    <3> QED BY <1>2, <1>3, <1>4, <2>1, <3>4, Starting DEF CalmInv
  <2>2. CASE UNCHANGED <<pc, input>>
    <3>1. \A p \in DaemonProcs : AtWork(p)'
      BY <1>1, <1>2, <2>2 DEF AtWork
    <3>2. ASSUME NEW p \in {Trigger, Collector} PROVE Beside(p)'
      <4>1. Beside(p) /\ pc[p] # "write"
        BY <1>2 DEF CalmInv, Promise, AllAtWork, Beside
      <4>2. pc'[p] # "write"
        BY <2>2, <4>1
      <4> QED BY <1>2, <2>2, <4>1, <4>2 DEF Beside, Served, gcVars, consVars
    <3> QED BY <3>1, <3>2 DEF AllAtWork
  <2> QED BY <1>3, <2>1, <2>2
<1> QED BY <1>5, <1>6, <1>7, <1>8, <1>9 DEF Promise

LEMMA CrashCalm == ASSUME Orderly, TypeOK, CalmInv, NEW ps \in {DaemonProcs, Procs}, Crash(ps) PROVE Promise'
<1>1. DaemonProcs \subseteq ps /\ DaemonProcs \subseteq Procs
  BY DEF DaemonProcs, Procs
<1>2. UNCHANGED <<disk, backVars, consVars, initialize>> /\ daemon' = "down"
  BY DEF Crash, Disturb
<1>3. \A p \in DaemonProcs : pc'[p] = "idle" /\ mail'[p] = Nothing
  BY <1>1 DEF Crash
<1>4. ClientsAge'
  BY <1>2, ClientsStay DEF CalmInv, Promise
<1>5. Manned'
  BY <1>2, <1>3, Processes DEF Manned, DaemonProcs
<1>6. Held'
  BY <1>2 DEF CalmInv, Promise, Held, Served, Backed, backVars, consVars
<1>7. Saved(disk)'
  BY <1>2 DEF Saved
<1>8. FileSafe'
  <2> SUFFICES ASSUME initialize, disk \notin {NoFile, Torn} PROVE Accurate(disk)'
    BY <1>2, <1>7 DEF FileSafe
  <2>1. Disturbances[initialize] \cap {"cut", "torn"} = {}
    BY DEF Orderly, TypeOK
  <2>2. Unsaved = {}
    BY <2>1 DEF Crash, Disturb
  <2>3. DaemonUnsaved = {}
    BY <1>1, <2>2 DEF Unsaved, DaemonUnsaved
  <2> QED BY <1>2, <2>3 DEF CalmInv, Promise, FileSafe, Accurate, backVars
<1>9. ASSUME NEW p \in {Trigger, Collector} PROVE Beside(p)'
  <2>0. p \in Procs
    BY Processes
  <2>1. CASE p \in ps
    <3>1. pc'[p] = "idle" /\ mail'[p] = Nothing
      BY <2>0, <2>1 DEF Crash
    <3> QED BY <3>1 DEF Beside
  <2>2. CASE p \notin ps
    <3>1. Trigger \notin ps /\ Collector \notin ps
      BY <2>2, Processes DEF DaemonProcs
    <3>2. UNCHANGED <<pc[p], mail[p], plan[p], snap[p], input[p], out[p], rotating>>
      BY <2>0, <2>2, <3>1 DEF Crash, gcVars
    <3>3. Beside(p)
      BY DEF CalmInv, Promise, AllAtWork
    <3>4. Copy(snap[p]) => Copy(snap[p])'
      BY <1>2, <3>2 DEF Copy, Saved, Accurate, Served, backVars, consVars
    <3> QED BY <1>2, <3>2, <3>3, <3>4 DEF Beside, Served, consVars
  <2> QED BY <2>1, <2>2
<1>10. AllAtWork'
  BY <1>3, <1>9 DEF AllAtWork, AtWork
<1> QED BY <1>4, <1>5, <1>6, <1>8, <1>10 DEF Promise

LEMMA RequestCalm ==
    ASSUME Orderly, TypeOK, CalmInv, NEW w \in Workers, NEW k \in Keys, Request(w, k), OneAtATime'
    PROVE  Promise'
<1>1. /\ daemon = "up" /\ pc'[w] = "run" /\ w \in Procs /\ w \in DaemonProcs /\ k \notin Served
      /\ UNCHANGED <<daemon, mail, disk, backVars, consVars, initialize>>
      /\ \A p \in Procs : p # w => pc'[p] = pc[p]
  BY Processes DEF Request, TypeOK, Served, DaemonProcs
<1>2. pc[w] = "idle" /\ mail[w] = Nothing
  BY <1>1 DEF Request, CalmInv, Promise, AllAtWork, AtWork
<1>3. \A j \in Keys : mem'[j] = IF j = k THEN NoResponse ELSE mem[j]
  BY DEF Request, RecordProviderRequest, TypeOK, Stores
<1>4. NoResponse \notin Cred
  BY Constants DEF NoResponse, Cred
<1>5. ClientsAge'
  BY <1>1, ClientsStay DEF CalmInv, Promise
<1>6. Manned'
  BY <1>1, Processes DEF CalmInv, Promise, Manned
<1>7. Held'
  <2> SUFFICES ASSUME NEW j \in Served
               PROVE  Backed(j, inst[j])' /\ disk' # NoFile /\ (disk' # Torn => disk'[j] = inst'[j]) /\ mem'[j] = inst'[j]
    BY <1>1 DEF Held, consVars, Served
  <2>1. mem'[j] = mem[j]
    BY <1>1, <1>3 DEF Served, TypeOK
  <2> QED BY <1>1, <2>1 DEF CalmInv, Promise, Held, Backed, backVars, consVars
<1>8. FileSafe'
  <2>1. initialize => Accurate(mem)'
    BY <1>1, <1>3, <1>4 DEF CalmInv, Promise, FileSafe, Accurate, backVars
  <2>2. DaemonUnsaved' = {} => DaemonUnsaved = {}
    BY <1>1, <1>2 DEF DaemonUnsaved, Procs
  <2>3. Saved(disk) => Saved(disk)'
    BY <1>1, <1>3, <1>4 DEF Saved
  <2>4. Accurate(disk) => Accurate(disk)'
    BY <1>1 DEF Accurate, backVars
  <2> QED BY <1>1, <2>1, <2>2, <2>3, <2>4 DEF CalmInv, Promise, FileSafe
<1>9. AllAtWork'
  <2>1. mem' \in Stores
    BY RecordType DEF TypeOK, Request
  <2>2. PICK m : m = mem'
    OBVIOUS
  <2>3. InputOf(m, TRUE) = m
    BY <2>1, <2>2, InputIsStore
  <2>4. CacheResponse = TRUE
    BY Constants DEF Orderly
  <2>5. input'[w] = mem'
    BY <1>1, <2>2, <2>3, <2>4 DEF TypeOK, Request
  <2>6. AtWork(w)'
    BY <1>1, <1>2, <2>5 DEF AtWork
  <2> QED BY <1>1, <2>6, Starting DEF CalmInv
<1> QED BY <1>5, <1>6, <1>7, <1>8, <1>9 DEF Promise

\* What a handler run does to one entry: it deletes the client of none, keeps
\* a cached credential, or issues the next one.
Ignores(p, k) ==
    /\ input[p][k] = Absent /\ client'[k] = 0 /\ valid'[k] = 0 /\ count'[k] = count[k]
    /\ out'[p][k] = Absent
Keeps(p, k) ==
    /\ Kept(input[p], k) /\ client'[k] = client[k] /\ valid'[k] = valid[k] /\ count'[k] = count[k]
    /\ out'[p][k] = input[p][k]
Issues(p, k) ==
    /\ input[p][k] # Absent /\ ~Kept(input[p], k) /\ count[k] + 1 \in Cred
    /\ count'[k] = count[k] + 1 /\ valid'[k] = count[k] + 1 /\ out'[p][k] = count[k] + 1
    /\ client'[k] = IF client[k] = 0 THEN count[k] + 1 ELSE client[k]

LEMMA HandlerRun ==
    ASSUME TypeOK, NEW p \in Procs, HandlerRuns(p), NEW k \in Keys
    PROVE  Ignores(p, k) \/ Keeps(p, k) \/ Issues(p, k)
<1> DEFINE fresh == {j \in Entries(input[p]) : ~Kept(input[p], j)}
<1>1. k \in fresh <=> input[p][k] # Absent /\ ~Kept(input[p], k)
  BY DEF Entries
<1>2. k \in fresh => count[k] + 1 \in Cred
  BY Constants DEF HandlerRuns, Entries, TypeOK, Cred
<1>3. count' = [j \in Keys |-> IF j \in fresh THEN count[j] + 1 ELSE count[j]]
  BY DEF HandlerRuns
<1>4. valid' = [j \in Keys |-> IF j \in fresh THEN count[j] + 1
                               ELSE IF input[p][j] = Absent THEN 0 ELSE valid[j]]
  BY DEF HandlerRuns
<1>5. client' = [j \in Keys |-> IF input[p][j] = Absent THEN 0
                                ELSE IF client[j] = 0 THEN count[j] + 1 ELSE client[j]]
  BY DEF HandlerRuns
<1>6. out'[p] = [j \in Keys |-> IF j \in fresh THEN count[j] + 1 ELSE input[p][j]]
  BY DEF HandlerRuns, TypeOK
<1> HIDE DEF fresh
<1>7. CASE k \in fresh
  BY <1>1, <1>2, <1>3, <1>4, <1>5, <1>6, <1>7 DEF Issues
<1>8. CASE input[p][k] = Absent
  BY <1>1, <1>3, <1>4, <1>5, <1>6, <1>8 DEF Ignores
<1>9. CASE k \notin fresh /\ input[p][k] # Absent
  <2>1. Kept(input[p], k) /\ client[k] # 0
    BY <1>1, <1>9 DEF Kept
  <2> QED BY <1>3, <1>4, <1>5, <1>6, <1>9, <2>1 DEF Keeps
<1> QED BY <1>7, <1>8, <1>9

LEMMA Numbers ==
    ASSUME TypeOK, ClientsAge, NEW k \in Keys
    PROVE  client[k] \in Nat /\ valid[k] \in Nat /\ count[k] \in Nat /\ client[k] <= count[k] /\ valid[k] <= count[k]
<1>1. client[k] \in 0 .. MaxCred /\ valid[k] \in 0 .. MaxCred /\ count[k] \in 0 .. MaxCred
  BY DEF TypeOK
<1> QED BY <1>1, Constants DEF ClientsAge

\* The handler answers from the cache with a credential that is accepted: it
\* names the client that the backend has.
LEMMA BackedKept ==
    ASSUME TypeOK, NEW p \in Procs, HandlerRuns(p), NEW k \in Keys, Backed(k, input[p][k])
    PROVE  Keeps(p, k)
<1> DEFINE c == input[p][k]
<1>1. c \in Cred /\ c \in Nat /\ client[k] \in 1 .. c
  BY Constants DEF Backed, Cred
<1> HIDE DEF c
<1>2. client[k] # 0 /\ c >= client[k] /\ c # Absent
  BY <1>1, Constants
<1>3. Kept(input[p], k) /\ input[p][k] # Absent
  BY <1>1, <1>2 DEF Kept, c
<1> QED BY <1>3, HandlerRun DEF Ignores, Issues

\* A store whose responses the handler sees, or does not see at all, stays
\* accurate: what is answered from it is kept, what is not is older than the
\* client.
LEMMA RunAccurate ==
    ASSUME TypeOK, ClientsAge, NEW p \in Procs, HandlerRuns(p), NEW s, Accurate(s),
           \A k \in Keys : s[k] \in Cred => input[p][k] \in {s[k], Absent}
    PROVE  Accurate(s)'
<1> SUFFICES ASSUME NEW k \in Keys, s[k] \in Cred
             PROVE  s[k] <= count'[k] /\ (client'[k] \in 1 .. s[k] => valid'[k] = s[k])
  BY DEF Accurate
<1>1. s[k] \in Nat /\ s[k] <= count[k] /\ (client[k] \in 1 .. s[k] => valid[k] = s[k])
  BY Constants DEF Accurate, Cred
<1>2. client[k] \in Nat /\ valid[k] \in Nat /\ count[k] \in Nat /\ client[k] <= count[k] /\ valid[k] <= count[k]
  BY Numbers
<1>3. CASE Ignores(p, k)
  BY <1>1, <1>3 DEF Ignores
<1>4. CASE Keeps(p, k)
  BY <1>1, <1>4 DEF Keeps
<1>5. CASE Issues(p, k)
  <2>1. input[p][k] = s[k]
    BY <1>5 DEF Issues
  <2>2. ~(client[k] # 0 /\ s[k] >= client[k])
    BY <1>5, <2>1 DEF Issues, Kept
  <2>3. client'[k] \notin 1 .. s[k]
    BY <1>1, <1>2, <1>5, <2>2 DEF Issues
  <2> QED BY <1>1, <1>2, <1>5, <2>3 DEF Issues
<1> QED BY <1>3, <1>4, <1>5, HandlerRun

\* What every handler run finds: the credentials of the served consumers, all
\* that is cached but what a gc has removed, and beside the daemon the file.
LEMMA Running ==
    ASSUME TypeOK, CalmInv, NEW p \in Procs, pc[p] = "run"
    PROVE  /\ \A k \in Served : k \in Keys /\ input[p][k] = inst[k] /\ Backed(k, inst[k])
           /\ daemon # "down" => \A k \in Keys : mem[k] \in Cred => input[p][k] \in {mem[k], Absent}
           /\ p \in DaemonProcs => AtWork(p) /\ input[p] = mem /\ daemon # "down"
           /\ p \notin DaemonProcs => /\ Beside(p) /\ input[p] = disk /\ snap[p] = disk
                                      /\ disk \in Stores /\ disk \notin {NoFile, Torn} /\ DaemonUnsaved = {}
<1>1. \A k \in Served : k \in Keys
  BY DEF Served, TypeOK
<1>2. CASE p \in DaemonProcs
  <2>1. AtWork(p) /\ input[p] = mem /\ daemon # "down"
    BY <1>2, DaemonThere DEF CalmInv, AtWork
  <2> QED BY <1>1, <1>2, <2>1 DEF CalmInv, Promise, Held
<1>3. CASE p \notin DaemonProcs
  <2>1. Beside(p) /\ DaemonUnsaved = {}
    BY <1>3, DaemonSaved
  <2>2. input[p] = disk /\ snap[p] = disk /\ disk \in Stores /\ disk \notin {NoFile, Torn}
    BY <2>1, SentinelAssumption DEF Beside
  <2>3. daemon # "down" => \A k \in Keys : mem[k] \in Cred => disk[k] \in {mem[k], Absent}
    BY <2>1, <2>2 DEF CalmInv, Promise, FileSafe, Saved
  <2> QED BY <1>1, <1>3, <2>1, <2>2, <2>3 DEF CalmInv, Promise, Held
<1> QED BY <1>2, <1>3

\* A cached response the backend accepts survives a handler run; any other
\* answer is the credential it then accepts.
LEMMA HandlerRunsCalm == ASSUME Orderly, TypeOK, CalmInv, NEW p \in Procs, HandlerRuns(p) PROVE Promise'
<1>1. pc[p] = "run"
  BY DEF HandlerRuns
<1>2. /\ pc'[p] = "apply" /\ pc' = [pc EXCEPT ![p] = "apply"]
      /\ UNCHANGED <<mem, disk, daemon, snap, plan, mail, rotating, declared, sat, inst, initialize>>
      /\ \A q \in Procs : q # p => pc'[q] = pc[q] /\ mail'[q] = mail[q]
  BY DEF TypeOK, HandlerRuns, gcVars, consVars
<1>3. mail[p] = Nothing
  BY <1>1, Running DEF AtWork, Beside
<1>4. ClientsAge'
  <2> SUFFICES ASSUME NEW k \in Keys PROVE client'[k] <= count'[k] /\ valid'[k] <= count'[k]
    BY DEF ClientsAge
  <2>1. client[k] \in Nat /\ valid[k] \in Nat /\ count[k] \in Nat /\ client[k] <= count[k] /\ valid[k] <= count[k]
    BY Numbers DEF CalmInv, Promise
  <2>2. CASE Ignores(p, k) \/ Keeps(p, k)
    BY <2>1, <2>2 DEF Ignores, Keeps
  <2>3. CASE Issues(p, k)
    BY <2>1, <2>3 DEF Issues
  <2> QED BY <2>2, <2>3, HandlerRun
<1>5. Manned'
  BY <1>1, <1>2, OthersStay DEF CalmInv
<1>6. Held'
  <2> SUFFICES ASSUME NEW k \in Served PROVE Backed(k, inst[k])'
    BY <1>2 DEF CalmInv, Promise, Held, Served
  <2>1. k \in Keys /\ input[p][k] = inst[k] /\ Backed(k, inst[k])
    BY <1>1, Running
  <2>2. Keeps(p, k)
    BY <2>1, BackedKept
  <2> QED BY <1>2, <2>1, <2>2 DEF Backed, Keeps
<1>7. initialize /\ daemon # "down" => Accurate(mem)'
  <2> SUFFICES ASSUME initialize, daemon # "down" PROVE Accurate(mem)'
    OBVIOUS
  <2>1. PICK m : m = mem
    OBVIOUS
  <2>2. Accurate(m) /\ \A k \in Keys : m[k] \in Cred => input[p][k] \in {m[k], Absent}
    BY <1>1, <2>1, Running DEF CalmInv, Promise, FileSafe
  <2>3. Accurate(m)'
    BY <2>2, RunAccurate DEF CalmInv, Promise
  <2> QED BY <1>2, <2>1, <2>3
<1>8. FileSafe'
  <2>1. CASE p \in DaemonProcs
    <3>1. p \in DaemonUnsaved'
      BY <1>2, <2>1 DEF DaemonUnsaved
    <3> QED BY <1>2, <1>7, <3>1 DEF FileSafe
  <2>2. CASE p \notin DaemonProcs
    <3>1. input[p] = disk /\ disk \notin {NoFile, Torn} /\ DaemonUnsaved = {}
      BY <1>1, <2>2, Running
    <3>2. PICK m : m = disk
      OBVIOUS
    <3>3. initialize => Accurate(m)
      BY <3>1, <3>2 DEF CalmInv, Promise, FileSafe
    <3>4. initialize => Accurate(m)'
      BY <3>1, <3>2, <3>3, RunAccurate DEF CalmInv, Promise
    <3>5. initialize => Accurate(disk)'
      BY <1>2, <3>2, <3>4
    <3>6. Saved(disk)'
      BY <1>2, <3>1 DEF CalmInv, Promise, FileSafe, Saved
    <3> QED BY <1>2, <1>7, <3>5, <3>6 DEF FileSafe
  <2> QED BY <2>1, <2>2
<1>9. ASSUME p \in DaemonProcs PROVE AtWork(p)'
  <2>1. input[p] = mem /\ daemon # "down"
    BY <1>1, <1>9, Running
  <2>2. ASSUME NEW k \in Keys, out'[p][k] \in Cred
        PROVE  mem[k] # Absent /\ (Backed(k, out[p][k])' \/ (out'[p][k] = mem[k] /\ ~initialize))
    <3>1. client[k] \in Nat /\ valid[k] \in Nat /\ count[k] \in Nat /\ client[k] <= count[k] /\ valid[k] <= count[k]
      BY Numbers DEF CalmInv, Promise
    <3>2. ~Ignores(p, k)
      BY <2>2, Constants DEF Ignores, Cred
    <3>3. CASE Keeps(p, k)
      <4>1. out'[p][k] = mem[k] /\ mem[k] \in Cred /\ client[k] # 0 /\ mem[k] >= client[k]
        BY <2>1, <3>3 DEF Keeps, Kept
      <4>2. mem[k] \in Nat /\ mem[k] # Absent
        BY <4>1, Constants DEF Cred
      <4>3. CASE initialize
        <5>1. client[k] \in 1 .. mem[k]
          BY <3>1, <4>1, <4>2
        <5>2. valid[k] = mem[k]
          BY <2>1, <4>1, <4>3, <5>1 DEF CalmInv, Promise, FileSafe, Accurate
        <5> QED BY <3>3, <4>1, <4>2, <5>1, <5>2 DEF Backed, Keeps
      <4> QED BY <4>1, <4>2, <4>3
    <3>4. CASE Issues(p, k)
      <4>1. client'[k] \in 1 .. count[k] + 1
        BY <3>1, <3>4 DEF Issues
      <4> QED BY <2>1, <3>4, <4>1 DEF Backed, Issues
    <3> QED BY <3>2, <3>3, <3>4, HandlerRun
  <2> QED BY <1>2, <1>3, <2>2 DEF AtWork
<1>10. ASSUME p \notin DaemonProcs PROVE Beside(p)'
  <2>1. /\ input[p] = disk /\ snap[p] = disk /\ disk \in Stores
    BY <1>1, <1>10, Running
  <2>2. (p = Trigger \/ rotating) => \A k \in Keys : out'[p][k] = disk[k]
    <3> SUFFICES ASSUME p = Trigger \/ rotating, NEW k \in Keys PROVE out'[p][k] = disk[k]
      OBVIOUS
    <3>1. p \in {Trigger, Collector}
      BY <1>10, Either
    <3>2. \A j \in Entries(input[p]) : Kept(input[p], j)
      BY <1>1, <3>1, Processes DEF CalmInv, NothingNew
    <3>3. ~Issues(p, k)
      BY <3>2 DEF Issues, Entries
    <3> QED BY <2>1, <3>3, HandlerRun DEF Ignores, Keeps
  <2>3. p = Trigger => out'[p] = disk
    <3>1. out'[p] \in [Keys -> Responses \cup {Absent}]
      BY HandlerRunsType DEF TypeOK
    <3> QED BY <2>1, <2>2, <3>1 DEF Stores
  <2> QED BY <1>2, <1>3, <2>1, <2>2, <2>3 DEF Beside
<1>11. AllAtWork'
  BY <1>1, <1>2, <1>9, <1>10, OthersWork
<1> QED BY <1>4, <1>5, <1>6, <1>8, <1>11 DEF Promise

LEMMA HandlerErrCalm ==
    ASSUME Orderly, TypeOK, CalmInv, NEW p \in Procs, HandlerAnswersErr(p) \/ HandlerFails(p), NothingNew'
    PROVE  Promise'
<1>1. pc[p] = "run"
  BY DEF HandlerAnswersErr, HandlerFails
<1>2. UNCHANGED <<mem, disk, mail, rotating, backVars, consVars, initialize>>
  BY DEF HandlerAnswersErr, HandlerFails, Disturb, gcVars
<1>3. mail[p] = Nothing
  BY <1>1, Running DEF AtWork, Beside
<1>4. /\ \A q \in Procs : q # p => pc'[q] = pc[q] /\ mail'[q] = mail[q]
      /\ \/ pc'[p] = "apply" /\ daemon' = daemon /\ HandlerAnswersErr(p) /\ UNCHANGED snap
         \/ pc'[p] = "idle" /\ daemon' = IF p = Boot THEN "up" ELSE daemon
  BY <1>2 DEF HandlerAnswersErr, HandlerFails, Abandon, TypeOK
<1>5. p = Boot => daemon # "down"
  BY <1>1, DaemonThere DEF CalmInv, DaemonProcs
<1>6. ClientsAge' /\ Held'
  BY <1>2, <1>4, <1>5, ClientsStay, HeldStays DEF CalmInv, Promise, consVars, Served
<1>7. Manned'
  BY <1>1, <1>2, <1>4, OthersStay DEF CalmInv
<1>8. FileSafe'
  <2>1. DaemonUnsaved' = {} => DaemonUnsaved = {}
    BY <1>1, <1>4 DEF DaemonUnsaved, Procs
  <2> QED BY <1>2, <1>4, <1>5, <2>1, FileStays DEF CalmInv, Promise
<1>9. \A k \in Keys : HandlerAnswersErr(p) => out'[p][k] = (IF input[p][k] = Absent THEN Absent ELSE Err)
  BY DEF HandlerAnswersErr, TypeOK
<1>10. \A k \in Keys : HandlerAnswersErr(p) => out'[p][k] \notin Cred
  BY <1>9, Constants DEF Cred
<1>11. ASSUME p \in DaemonProcs PROVE AtWork(p)'
  BY <1>2, <1>3, <1>4, <1>10 DEF AtWork
<1>12. ASSUME p \notin DaemonProcs PROVE Beside(p)'
  <2>1. input[p] = disk /\ snap[p] = disk /\ disk \in Stores
    BY <1>1, <1>12, Running
  <2>2. CASE pc'[p] = "idle"
    BY <1>2, <1>3, <2>2 DEF Beside
  <2>3. CASE pc'[p] = "apply" /\ HandlerAnswersErr(p) /\ UNCHANGED snap
    <3>1. p = Trigger => out'[p] = disk
      <4> SUFFICES ASSUME p = Trigger PROVE out'[p] = disk
        OBVIOUS
      <4>1. \A k \in Keys : out'[p][k] # Err
        BY <2>3 DEF NothingNew
      <4>2. \A k \in Keys : out'[p][k] = disk[k]
        BY <1>9, <2>1, <2>3, <4>1
      <4>3. out'[p] \in [Keys -> Responses \cup {Absent}]
        BY <2>3, HandlerErrType DEF TypeOK
      <4> QED BY <2>1, <4>2, <4>3 DEF Stores
    <3> QED BY <1>2, <1>3, <1>10, <2>1, <2>3, <3>1 DEF Beside
  <2> QED BY <1>4, <2>2, <2>3
<1>13. AllAtWork'
  BY <1>1, <1>4, <1>11, <1>12, OthersWork
<1> QED BY <1>6, <1>7, <1>8, <1>13 DEF Promise

\* What changes is called back, and it is what is then cached; a boot calls
\* everything back, and what was cached is accepted.
LEMMA ApplyCalm == ASSUME Orderly, TypeOK, CalmInv, NEW p \in Procs, ApplyInDaemon(p) PROVE Promise'
<1>1. p \in DaemonProcs /\ pc[p] = "apply" /\ AtWork(p) /\ mail[p] = Nothing /\ daemon # "down"
  BY DaemonThere DEF CalmInv, ApplyInDaemon, AtWork
<1>2. \A k \in Keys : out[p][k] \in Cred =>
         mem[k] # Absent /\ (Backed(k, out[p][k]) \/ (out[p][k] = mem[k] /\ ~initialize))
  BY <1>1 DEF AtWork
<1>3. \A k \in Keys : mem'[k] = IF out[p][k] \in Cred THEN out[p][k] ELSE mem[k]
  BY <1>2 DEF ApplyInDaemon, UpdateProviderResponses
<1>4. /\ pc'[p] = "trunc" /\ mail'[p] = Nothing /\ snap'[p] = mem'
      /\ UNCHANGED <<disk, daemon, mail, backVars, consVars, initialize>>
      /\ \A q \in Procs : q # p => pc'[q] = pc[q] /\ mail'[q] = mail[q]
  BY <1>1 DEF ApplyInDaemon, TypeOK
<1>5. ClientsAge'
  BY <1>4, ClientsStay DEF CalmInv, Promise
<1>6. Manned'
  BY <1>1, <1>4, OthersStay DEF CalmInv
<1>7. Held'
  <2> SUFFICES ASSUME NEW k \in Served PROVE mem'[k] = inst[k]
    BY <1>1, <1>4 DEF CalmInv, Promise, Held, Served, Backed, backVars, consVars
  <2>1. k \in Keys /\ mem[k] = inst[k] /\ Backed(k, inst[k])
    BY <1>1 DEF CalmInv, Promise, Held, Served, TypeOK
  <2> QED BY <1>2, <1>3, <2>1 DEF Backed
<1>8. initialize => \A k \in Keys : mem'[k] \in Cred =>
         mem'[k] <= count[k] /\ (client[k] \in 1 .. mem'[k] => valid[k] = mem'[k])
  <2> SUFFICES ASSUME initialize, NEW k \in Keys, mem'[k] \in Cred
               PROVE  mem'[k] <= count[k] /\ (client[k] \in 1 .. mem'[k] => valid[k] = mem'[k])
    OBVIOUS
  <2>1. CASE out[p][k] \in Cred
    <3>1. mem'[k] = out[p][k] /\ Backed(k, out[p][k])
      BY <1>2, <1>3, <2>1
    <3> QED BY <3>1, BackedAge DEF CalmInv, Promise, Backed
  <2>2. CASE out[p][k] \notin Cred
    BY <1>1, <1>3, <2>2 DEF CalmInv, Promise, FileSafe, Accurate
  <2> QED BY <2>1, <2>2
<1>9. FileSafe'
  <2>1. p \in DaemonUnsaved'
    BY <1>1, <1>4 DEF DaemonUnsaved
  <2> QED BY <1>4, <1>8, <2>1 DEF FileSafe, Accurate, backVars
<1>10. \A k \in Keys : plan'[p][k] \in Cred => mem'[k] = plan'[p][k] /\ Backed(k, plan'[p][k])
  <2> SUFFICES ASSUME NEW k \in Keys, plan'[p][k] \in Cred
               PROVE  mem'[k] = plan'[p][k] /\ Backed(k, plan'[p][k])
    OBVIOUS
  <2>0. p \in Procs
    OBVIOUS
  <2>1. CASE p = Boot
    <3>1. plan'[p] = out[p]
      BY <2>1 DEF ApplyInDaemon, TypeOK
    <3>2. initialize
      BY <1>1, <2>1 DEF CalmInv, Promise, Manned
    <3> QED BY <1>2, <1>3, <3>1, <3>2
  <2>2. CASE p # Boot
    <3>1. plan'[p] = Callbacks(out[p], Changed(mem, out[p]), RevokedKeys(mem', out[p]))
      BY <2>2 DEF ApplyInDaemon, TypeOK
    <3>2. k \in Changed(mem, out[p]) /\ plan'[p][k] = out[p][k]
      BY <3>1, Constants DEF Callbacks, Cred
    <3>3. out[p][k] # mem[k] /\ out[p][k] \in Cred
      BY <3>2 DEF Changed
    <3> QED BY <1>2, <1>3, <3>2, <3>3
  <2> QED BY <2>1, <2>2
<1>11. Sound(plan[p])'
  BY <1>4, <1>10 DEF Sound, Backed, backVars
<1>12. AtWork(p)'
  BY <1>4, <1>11 DEF AtWork
<1>13. AllAtWork'
  BY <1>1, <1>4, <1>12, OthersWork
<1> QED BY <1>5, <1>6, <1>7, <1>9, <1>13 DEF Promise

\* The daemon writes its memory, a trigger or a gc its copy of the file.
LEMMA SaveCalm ==
    ASSUME Orderly, TypeOK, CalmInv, NEW p \in Procs, SaveTruncates(p) \/ SaveWrites(p)
    PROVE  Promise'
<1>1. pc[p] \in {"trunc", "write"} /\ mail[p] = Nothing
  <2>1. pc[p] \in {"trunc", "write"}
    BY DEF SaveTruncates, SaveWrites
  <2> QED BY <2>1, DaemonThere, DaemonSaved DEF CalmInv, AtWork, Beside
<1>2. /\ UNCHANGED <<mem, daemon, snap, plan, mail, out, rotating, backVars, consVars, initialize>>
      /\ \/ pc[p] = "trunc" /\ disk' = Torn /\ pc'[p] = "write"
         \/ pc[p] = "write" /\ disk' = snap[p] /\ pc'[p] = "send" /\ p # Collector
         \/ /\ pc[p] = "write" /\ disk' = snap[p] /\ pc'[p] = "run" /\ p = Collector
            /\ input'[p] = InputOf(snap[p], CacheResponse)
      /\ \A q \in Procs : q # p => pc'[q] = pc[q] /\ mail'[q] = mail[q]
  BY DEF SaveTruncates, SaveWrites, TypeOK, gcVars
<1>3. ClientsAge'
  BY <1>2, ClientsStay DEF CalmInv, Promise
<1>4. Manned'
  BY <1>1, <1>2, OthersStay DEF CalmInv
<1>5. Torn \notin Stores /\ NoFile \notin Stores /\ Torn # NoFile /\ mem \in Stores /\ snap[p] \in Stores
  BY SentinelAssumption DEF TypeOK
<1>6. ASSUME p \in DaemonProcs PROVE Held' /\ FileSafe' /\ AtWork(p)'
  <2>1. AtWork(p) /\ daemon # "down" /\ snap[p] = mem /\ Sound(plan[p])
    BY <1>1, <1>6, DaemonThere DEF CalmInv, AtWork
  <2>2. p # Collector
    BY <1>6, Either
  <2>3. \/ disk' = Torn /\ pc'[p] = "write"
        \/ disk' = mem /\ pc'[p] = "send"
    <3>1. CASE disk' = Torn /\ pc'[p] = "write"
      BY <3>1
    <3>2. CASE disk' = snap[p] /\ pc'[p] = "send"
      BY <2>1, <3>2
    <3> QED BY <1>2, <2>2, <3>1, <3>2
  <2>4. Held'
    BY <1>2, <1>5, <2>1, <2>3 DEF CalmInv, Promise, Held, Served, Backed, backVars, consVars
  <2>5. FileSafe'
    BY <1>2, <2>1, <2>3 DEF CalmInv, Promise, FileSafe, Accurate, Saved, backVars
  <2>6. Sound(plan[p])'
    BY <1>2, <2>1 DEF Sound, Backed, backVars
  <2>7. AtWork(p)'
    BY <1>1, <1>2, <2>1, <2>3, <2>6 DEF AtWork
  <2> QED BY <2>4, <2>5, <2>7
<1>7. ASSUME p \notin DaemonProcs PROVE Held' /\ FileSafe' /\ Beside(p)'
  <2>1. Beside(p) /\ DaemonUnsaved = {}
    BY <1>1, <1>7, DaemonSaved
  <2>2. CASE disk' = Torn /\ pc[p] = "trunc" /\ pc'[p] = "write"
    <3>1. /\ disk \in Stores /\ disk # Torn /\ disk # NoFile
          /\ \A k \in Keys : snap[p][k] \in {disk[k], Absent} /\ (k \in Served => snap[p][k] = disk[k])
      BY <1>5, <2>1, <2>2 DEF Beside
    <3>2. Saved(disk) /\ (initialize => Accurate(disk))
      BY <2>1, <3>1 DEF CalmInv, Promise, FileSafe
    <3>3. \A k \in Served : k \in Keys /\ disk[k] = inst[k]
      BY <3>1 DEF CalmInv, Promise, Held, Served, TypeOK
    <3>4. Saved(snap[p]) /\ (initialize => Accurate(snap[p]))
      BY <3>1, <3>2, Constants DEF Saved, Accurate, Cred
    <3>5. Copy(snap[p])'
      BY <1>2, <3>1, <3>3, <3>4 DEF Copy, Saved, Accurate, Served, backVars, consVars
    <3>6. Held' /\ FileSafe'
      BY <1>2, <1>5, <2>2 DEF CalmInv, Promise, Held, FileSafe, Accurate, Served, Backed, backVars, consVars
    <3>7. p = Trigger => \A k \in Keys : plan[p][k] \notin Cred
      BY <2>1, <2>2 DEF Beside
    <3>8. Beside(p)'
      BY <1>1, <1>2, <2>2, <3>5, <3>7 DEF Beside
    <3> QED BY <3>6, <3>8
  <2>3. CASE pc[p] = "write" /\ disk' = snap[p] /\ pc'[p] \in {"run", "send"}
    <3>1. Copy(snap[p]) /\ disk' \in Stores /\ disk' # NoFile /\ disk' # Torn
      BY <1>5, <2>1, <2>3 DEF Beside
    <3>2. Held'
      BY <1>2, <2>3, <3>1 DEF CalmInv, Promise, Held, Copy, Served, Backed, backVars, consVars
    <3>3. FileSafe'
      BY <1>2, <2>3, <3>1 DEF CalmInv, Promise, FileSafe, Copy, Saved, Accurate, backVars
    <3>4. pc'[p] = "send" => p = Trigger /\ \A k \in Keys : plan[p][k] \notin Cred
      <4>1. pc'[p] = "send" => p = Trigger
        BY <1>2, <1>7, <2>3, Either
      <4> QED BY <2>1, <2>3, <4>1 DEF Beside
    <3>5. pc'[p] = "run" => input'[p] = disk'
      <4>1. CacheResponse = TRUE
        BY Constants DEF Orderly
      <4>2. InputOf(snap[p], TRUE) = snap[p]
        BY <1>5, InputIsStore
      <4> QED BY <1>2, <2>3, <4>1, <4>2
    <3> QED BY <1>1, <1>2, <2>3, <3>1, <3>2, <3>3, <3>4, <3>5 DEF Beside
  <2> QED BY <1>2, <2>2, <2>3
<1>8. AllAtWork'
  BY <1>1, <1>2, <1>6, <1>7, OthersWork
<1> QED BY <1>3, <1>4, <1>6, <1>7, <1>8 DEF Promise

LEMMA EndCalm == ASSUME TypeOK, CalmInv, NEW p \in Procs, Dispatch(p) \/ Completes(p) PROVE Promise'
<1>1. \/ pc[p] = "send" /\ Dispatch(p)
      \/ pc[p] \in {"await", "done"} /\ mail[p] = Nothing /\ Completes(p)
  <2>1. p \in DaemonProcs /\ pc[p] # "idle" => AtWork(p)
    BY DaemonThere DEF CalmInv
  <2>2. p \notin DaemonProcs /\ pc[p] # "idle" => Beside(p)
    BY DaemonSaved
  <2> QED BY <2>1, <2>2 DEF Dispatch, Completes, AtWork, Beside
<1>2. UNCHANGED <<mem, disk, backVars, consVars, initialize>>
  BY DEF Dispatch, Completes
<1>3. /\ \A q \in Procs : q # p => pc'[q] = pc[q] /\ mail'[q] = mail[q]
      /\ \/ pc[p] = "send" /\ pc'[p] = "await" /\ mail'[p] = plan[p] /\ daemon' = daemon
         \/ pc'[p] = "idle" /\ mail'[p] = Nothing /\ daemon' = IF p = Boot THEN "up" ELSE daemon
  BY <1>1 DEF Dispatch, Completes, Abandon, TypeOK
<1>4. p = Boot => daemon # "down"
  BY <1>1, DaemonThere DEF CalmInv, DaemonProcs
<1>5. ClientsAge' /\ Held'
  BY <1>2, <1>3, <1>4, ClientsStay, HeldStays DEF CalmInv, Promise, consVars, Served
<1>6. Manned'
  BY <1>1, <1>2, <1>3, OthersStay DEF CalmInv
<1>7. FileSafe'
  <2>1. DaemonUnsaved' = {} => DaemonUnsaved = {}
    BY <1>1, <1>3 DEF DaemonUnsaved, Procs
  <2> QED BY <1>2, <1>3, <1>4, <2>1, FileStays DEF CalmInv, Promise
<1>8. ASSUME p \in DaemonProcs PROVE AtWork(p)'
  <2>1. CASE pc'[p] = "idle" /\ mail'[p] = Nothing
    BY <2>1 DEF AtWork
  <2>2. CASE pc[p] = "send" /\ pc'[p] = "await" /\ mail'[p] = plan[p]
    <3>1. Sound(plan[p]) /\ disk = mem
      BY <1>8, <2>2, DaemonThere DEF CalmInv, AtWork
    <3>2. Sound(mail[p])'
      BY <1>2, <2>2, <3>1 DEF Sound, Backed, backVars
    <3> QED BY <1>2, <2>2, <3>1, <3>2 DEF AtWork
  <2> QED BY <1>3, <2>1, <2>2
<1>9. ASSUME p \notin DaemonProcs PROVE Beside(p)'
  <2>1. CASE pc'[p] = "idle" /\ mail'[p] = Nothing
    BY <2>1 DEF Beside
  <2>2. CASE pc[p] = "send" /\ pc'[p] = "await" /\ mail'[p] = plan[p]
    <3>1. \A k \in Keys : plan[p][k] \notin Cred
      BY <1>9, <2>2, DaemonSaved DEF Beside
    <3> QED BY <2>2, <3>1 DEF Beside
  <2> QED BY <1>3, <2>1, <2>2
<1>10. AllAtWork'
  BY <1>1, <1>3, <1>8, <1>9, OthersWork
<1> QED BY <1>5, <1>6, <1>7, <1>10 DEF Promise

\* A step of a trigger or a gc that moves only what is its own.
LEMMA BesideCalm ==
    ASSUME TypeOK, CalmInv, NEW p \in {Trigger, Collector},
           pc'[p] # "idle", pc[p] # "idle" \/ OneAtATime', Beside(p)',
           \A q \in Procs : q # p => pc'[q] = pc[q],
           UNCHANGED <<mem, disk, daemon, mail, backVars, consVars, initialize>>
    PROVE  Promise'
<1>1. p \in Procs /\ p \notin DaemonProcs /\ p # Boot /\ p \notin Workers
  BY Processes DEF DaemonProcs
<1>2. ClientsAge' /\ Held'
  BY ClientsStay, HeldStays DEF CalmInv, Promise, consVars, Served
<1>3. Manned'
  BY <1>1, Processes DEF CalmInv, Promise, Manned
<1>4. DaemonUnsaved' = DaemonUnsaved
  BY <1>1 DEF DaemonUnsaved, Procs
<1>5. FileSafe'
  BY <1>4, FileStays DEF CalmInv, Promise
<1>6. AllAtWork'
  <2>1. CASE pc[p] # "idle"
    BY <1>1, <2>1, OthersWork
  <2>2. CASE OneAtATime'
    BY <1>1, <2>2, Starting DEF CalmInv
  <2> QED BY <2>1, <2>2
<1> QED BY <1>2, <1>3, <1>5, <1>6 DEF Promise

\* A trigger that nothing is new for reads the file, changes nothing of it and
\* calls nobody.
LEMMA TriggerStartsCalm ==
    ASSUME Orderly, TypeOK, CalmInv, NEW force \in BOOLEAN, TriggerStarts(force), OneAtATime', NothingNew'
    PROVE  Promise'
<1>1. /\ pc'[Trigger] = "run" /\ snap'[Trigger] = disk /\ Entries(disk) # {}
      /\ input'[Trigger] = InputOf(disk, CacheResponse /\ ~force)
      /\ \A q \in Procs : q # Trigger => pc'[q] = pc[q]
      /\ UNCHANGED <<mem, disk, daemon, mail, plan, backVars, consVars, initialize>>
  BY Processes DEF TriggerStarts, Disturb, TypeOK
<1>2. disk \in Stores /\ pc[Trigger] = "idle"
  BY DEF TriggerStarts, TypeOK
<1>3. \A k \in Entries(input'[Trigger]) : input'[Trigger][k] \in Cred
  BY <1>1, Processes DEF NothingNew, Kept
<1>4. ~force
  <2> SUFFICES ASSUME force PROVE FALSE
    OBVIOUS
  <2>1. PICK k \in Keys : disk[k] # Absent
    BY <1>1 DEF Entries
  <2>2. input'[Trigger][k] = NoResponse
    BY <1>1, <2>1 DEF InputOf
  <2>3. NoResponse # Absent /\ NoResponse \notin Cred
    BY Constants DEF NoResponse, Cred
  <2> QED BY <1>3, <2>2, <2>3 DEF Entries
<1>5. input'[Trigger] = disk
  <2>1. (CacheResponse /\ ~force) = TRUE
    BY <1>4, Constants DEF Orderly
  <2> QED BY <1>1, <1>2, <2>1, InputIsStore
<1>6. mail[Trigger] = Nothing
  BY <1>2 DEF CalmInv, Promise, AllAtWork, Beside
<1>7. Beside(Trigger)'
  BY <1>1, <1>2, <1>5, <1>6 DEF Beside
<1> QED BY <1>1, <1>7, BesideCalm

LEMMA ApplyInTriggerCalm == ASSUME TypeOK, CalmInv, ApplyInTrigger PROVE Promise'
<1> DEFINE t == [k \in Keys |-> IF out[Trigger][k] # Absent THEN out[Trigger][k] ELSE snap[Trigger][k]]
<1>1. /\ pc[Trigger] = "apply" /\ pc'[Trigger] = "trunc" /\ snap'[Trigger] = t
      /\ plan'[Trigger] = Callbacks(out[Trigger], Changed(snap[Trigger], out[Trigger]), RevokedKeys(t, out[Trigger]))
      /\ \A q \in Procs : q # Trigger => pc'[q] = pc[q]
      /\ UNCHANGED <<mem, disk, daemon, mail, backVars, consVars, initialize>>
  BY Processes DEF ApplyInTrigger, TypeOK
<1>2. Beside(Trigger) /\ mail[Trigger] = Nothing
  BY <1>1 DEF CalmInv, Promise, AllAtWork, Beside
<1>3. out[Trigger] = disk /\ snap[Trigger] = disk /\ disk \in Stores
  BY <1>1, <1>2 DEF Beside
<1>4. \A k \in Keys : t[k] = disk[k]
  BY <1>3
<1> HIDE DEF t
<1>5. \A k \in Keys : plan'[Trigger][k] \notin Cred
  <2>1. Changed(disk, disk) = {}
    BY DEF Changed
  <2>2. \A k \in Keys : plan'[Trigger][k] \in {Revoked, Absent}
    BY <1>1, <1>3, <2>1 DEF Callbacks
  <2> QED BY <2>2, Constants DEF Cred
<1>6. Beside(Trigger)'
  <2>1. \A k \in Keys : snap'[Trigger][k] = disk[k]
    BY <1>1, <1>4
  <2> QED BY <1>1, <1>2, <1>3, <1>5, <2>1 DEF Beside
<1> QED BY <1>1, <1>6, BesideCalm

\* A gc removes nothing that a served consumer needs.
LEMMA GCCalm ==
    ASSUME Orderly, TypeOK, CalmInv,
           \/ GCStarts /\ OneAtATime'
           \/ ApplyInGC
           \/ \E reachable \in SUBSET Keys : GCQueries(reachable)
    PROVE  Promise'
<1>0. Beside(Collector)
  BY DEF CalmInv, Promise, AllAtWork
<1>1. CASE GCStarts /\ OneAtATime'
  <2>1. /\ pc[Collector] = "idle" /\ pc'[Collector] = "query" /\ snap'[Collector] = disk
        /\ \A q \in Procs : q # Collector => pc'[q] = pc[q]
        /\ UNCHANGED <<mem, disk, daemon, mail, plan, backVars, consVars, initialize>>
    BY <1>1, Processes DEF GCStarts, Disturb, TypeOK
  <2>2. disk \in Stores
    BY <1>1 DEF GCStarts, TypeOK
  <2>3. Beside(Collector)'
    BY <1>0, <2>1, <2>2 DEF Beside
  <2> QED BY <1>1, <2>1, <2>3, BesideCalm
<1>2. CASE ApplyInGC
  <2>1. /\ pc[Collector] = "apply" /\ pc'[Collector] \in {"send", "done"}
        /\ pc'[Collector] = "send" => rotating
        /\ plan'[Collector] = (IF rotating
                               THEN Callbacks(out[Collector], Changed(snap[Collector], out[Collector]) \cap Entries(snap[Collector]), {})
                               ELSE Nothing)
        /\ \A q \in Procs : q # Collector => pc'[q] = pc[q]
        /\ UNCHANGED <<mem, disk, daemon, mail, backVars, consVars, initialize, out>>
    BY <1>2, Processes DEF ApplyInGC, TypeOK
  <2>2. /\ snap[Collector] = disk /\ mail[Collector] = Nothing
        /\ rotating => \A k \in Keys : out[Collector][k] \in Cred => out[Collector][k] = disk[k]
    BY <1>0, <2>1 DEF Beside
  <2>3. pc'[Collector] = "send" => \A k \in Keys : plan'[Collector][k] \notin Cred
    <3> SUFFICES ASSUME rotating, NEW k \in Keys, plan'[Collector][k] \in Cred PROVE FALSE
      BY <2>1
    <3>1. k \in Changed(disk, out[Collector]) /\ out[Collector][k] \in Cred
      BY <2>1, <2>2, Constants DEF Callbacks, Cred
    <3> QED BY <2>2, <3>1 DEF Changed
  <2>4. Beside(Collector)'
    BY <2>1, <2>2, <2>3, Processes DEF Beside
  <2> QED BY <2>1, <2>4, BesideCalm
<1>3. ASSUME NEW reachable \in SUBSET Keys, GCQueries(reachable) PROVE Promise'
  <2> DEFINE gone == Orphans(snap[Collector], reachable)
             kept == [k \in Keys |-> IF k \in gone THEN Absent ELSE snap[Collector][k]]
  <2>1. /\ pc[Collector] = "query" /\ snap' = [snap EXCEPT ![Collector] = kept]
        /\ \/ pc' = [pc EXCEPT ![Collector] = "trunc"]
           \/ /\ pc' = [pc EXCEPT ![Collector] = "run"] /\ gone = {}
              /\ input' = [input EXCEPT ![Collector] = InputOf(snap[Collector], CacheResponse)]
           \/ pc' = [pc EXCEPT ![Collector] = "done"]
        /\ UNCHANGED <<mem, disk, daemon, mail, backVars, consVars, initialize>>
    BY <1>3 DEF GCQueries
  <2>2. disk \in Stores /\ snap[Collector] = disk /\ mail[Collector] = Nothing
    BY <1>0, <2>1 DEF Beside
  <2>3. gone \cap Served = {}
    BY DEF Orphans, Served
  <2>4. \A k \in Keys : kept[k] = IF k \in gone THEN Absent ELSE disk[k]
    BY <2>2
  <2>5. gone = {} => kept = disk
    BY <2>2 DEF Stores
  <2> HIDE DEF gone, kept
  <2>6. snap'[Collector] = kept /\ pc'[Collector] \in {"trunc", "run", "done"}
        /\ \A q \in Procs : q # Collector => pc'[q] = pc[q]
    BY <2>1, Processes DEF TypeOK
  <2>7. pc'[Collector] = "run" => input'[Collector] = disk /\ snap'[Collector] = disk
    <3>1. CacheResponse = TRUE
      BY Constants DEF Orderly
    <3>2. InputOf(snap[Collector], CacheResponse) = disk
      BY <2>2, <3>1, InputIsStore
    <3>3. pc'[Collector] = "run" => gone = {} /\ input' = [input EXCEPT ![Collector] = disk]
      BY <2>1, <3>2, Processes DEF TypeOK
    <3> QED BY <2>5, <2>6, <3>3, Processes DEF TypeOK
  <2>8. pc'[Collector] = "trunc" =>
          \A k \in Keys : snap'[Collector][k] \in {disk[k], Absent} /\ (k \in Served' => snap'[Collector][k] = disk[k])
    <3>1. Served' = Served
      BY <2>1 DEF Served, consVars
    <3> QED BY <2>3, <2>4, <2>6, <3>1
  <2>9. Beside(Collector)'
    BY <2>1, <2>2, <2>6, <2>7, <2>8, Processes DEF Beside
  <2> QED BY <2>1, <2>6, <2>9, BesideCalm
<1> QED BY <1>1, <1>2, <1>3

\* Callbacks under way are those of the one process that waits for them.
LEMMA OnTheWay ==
    ASSUME TypeOK, CalmInv, NEW p \in Procs, NEW k \in Keys, mail[p][k] # Absent
    PROVE  /\ pc[p] = "await"
           /\ p \in DaemonProcs => daemon # "down" /\ disk = mem /\ Sound(mail[p])
           /\ p \notin DaemonProcs => Beside(p) /\ \A j \in Keys : mail[p][j] \notin Cred
<1>1. mail[p] # Nothing
  BY DEF Nothing
<1>2. CASE p \in DaemonProcs
  <2>1. pc[p] = "await"
    BY <1>1, <1>2 DEF CalmInv, Promise, AllAtWork, AtWork
  <2> QED BY <1>2, <2>1, DaemonThere DEF CalmInv, AtWork
<1>3. CASE p \notin DaemonProcs
  <2>1. Beside(p)
    BY <1>3, Either DEF CalmInv, Promise, AllAtWork
  <2> QED BY <1>1, <1>3, <2>1 DEF Beside
<1> QED BY <1>2, <1>3

LEMMA DeliverCalm ==
    ASSUME TypeOK, CalmInv, NEW p \in Procs, NEW k \in Keys, Deliver(p, k) \/ Lose(p, k)
    PROVE  Promise'
<1>1. /\ pc[p] = "await" /\ mail[p][k] # Absent
      /\ p \in DaemonProcs => daemon # "down" /\ disk = mem /\ Sound(mail[p])
      /\ p \notin DaemonProcs => Beside(p) /\ \A j \in Keys : mail[p][j] \notin Cred
  BY OnTheWay DEF Deliver, Lose
<1>2. /\ UNCHANGED <<pc, daemon, disk, mem, backVars, initialize, declared>>
      /\ mail' = [mail EXCEPT ![p][k] = Absent]
  BY DEF Deliver, Lose, Disturb, procVars, consVars
<1>3. ClientsAge'
  BY <1>2, ClientsStay DEF CalmInv, Promise
<1>4. /\ \A q \in Procs : q # p => pc'[q] = pc[q] /\ mail'[q] = mail[q]
      /\ \A j \in Keys : mail'[p][j] = IF j = k THEN Absent ELSE mail[p][j]
  BY <1>2 DEF TypeOK, Mail
<1>5. Manned'
  BY <1>1, <1>2, <1>4, OthersStay DEF CalmInv
<1>6. DaemonUnsaved' = DaemonUnsaved
  BY <1>2 DEF DaemonUnsaved
<1>7. FileSafe'
  BY <1>2, <1>6, FileStays DEF CalmInv, Promise
<1>8. ASSUME p \in DaemonProcs PROVE AtWork(p)'
  <2>1. Sound(mail[p])'
    BY <1>1, <1>2, <1>4, <1>8, Constants DEF Sound, Backed, backVars, Cred
  <2> QED BY <1>1, <1>2, <1>8, <2>1 DEF AtWork
<1>9. ASSUME p \notin DaemonProcs PROVE Beside(p)'
  <2>1. \A j \in Keys : mail'[p][j] \notin Cred
    BY <1>1, <1>4, <1>9, Constants DEF Cred
  <2> QED BY <1>1, <1>2, <2>1 DEF Beside
<1>10. AllAtWork'
  BY <1>1, <1>4, <1>8, <1>9, OthersWork
<1>11. CASE k \in declared /\ mail[p][k] \in Cred /\ Deliver(p, k)
  <2>1. sat' = sat \cup {k} /\ inst' = [inst EXCEPT ![k] = mail[p][k]]
    BY <1>11 DEF Deliver
  <2>2. mem[k] = mail[p][k] /\ Backed(k, mail[p][k]) /\ disk = mem
    BY <1>1, <1>11 DEF Sound
  <2>3. disk # NoFile /\ disk # Torn
    BY <2>2, SentinelAssumption DEF TypeOK
  <2>4. inst'[k] = mail[p][k] /\ \A j \in Served : j # k => inst'[j] = inst[j]
    BY <2>1 DEF TypeOK, Served
  <2>5. Held'
    <3> SUFFICES ASSUME NEW j \in Served'
                 PROVE  (/\ Backed(j, inst[j]) /\ disk # NoFile
                         /\ disk # Torn => disk[j] = inst[j]
                         /\ daemon # "down" => mem[j] = inst[j])'
      BY DEF Held
    <3>1. CASE j = k
      BY <1>2, <2>2, <2>3, <2>4, <3>1 DEF Backed, backVars
    <3>2. CASE j # k
      <4>1. j \in Served /\ inst'[j] = inst[j]
        BY <1>2, <2>1, <2>4, <3>2 DEF Served
      <4> QED BY <1>2, <4>1 DEF CalmInv, Promise, Held, Backed, backVars
    <3> QED BY <3>1, <3>2
  <2> QED BY <1>3, <1>5, <1>7, <1>10, <2>5 DEF Promise
<1>12. CASE ~(k \in declared /\ mail[p][k] \in Cred /\ Deliver(p, k))
  <2>1. sat' \subseteq sat /\ UNCHANGED inst
    BY <1>12 DEF Deliver, Lose, consVars
  <2>2. Held'
    BY <1>2, <2>1, HeldStays DEF CalmInv, Promise, Served
  <2> QED BY <1>3, <1>5, <1>7, <1>10, <2>2 DEF Promise
<1> QED BY <1>11, <1>12

\* What moves nothing at the provider, and serves nobody.
LEMMA QuietCalm ==
    ASSUME CalmInv, Served' \subseteq Served,
           UNCHANGED <<inst, backVars, disk, mem, daemon, procVars, mail, gcVars, initialize>>
    PROVE  Promise'
<1>1. ClientsAge' /\ Held'
  BY ClientsStay, HeldStays DEF CalmInv, Promise
<1>2. Manned'
  BY DEF CalmInv, Promise, Manned, procVars
<1>3. DaemonUnsaved' = DaemonUnsaved
  BY DEF DaemonUnsaved, procVars
<1>4. FileSafe'
  BY <1>3, FileStays DEF CalmInv, Promise
<1>5. ASSUME NEW p \in DaemonProcs PROVE AtWork(p)'
  <2>1. AtWork(p)
    BY DEF CalmInv, Promise, AllAtWork
  <2> QED BY <2>1 DEF AtWork, Sound, Backed, procVars, backVars
<1>6. ASSUME NEW p \in {Trigger, Collector} PROVE Beside(p)'
  <2>1. Beside(p)
    BY DEF CalmInv, Promise, AllAtWork
  <2>2. Copy(snap[p]) => Copy(snap[p])'
    BY DEF Copy, Saved, Accurate, procVars, backVars
  <2> QED BY <2>1, <2>2 DEF Beside, procVars, gcVars
<1> QED BY <1>1, <1>2, <1>4, <1>5, <1>6 DEF Promise, AllAtWork

LEMMA ConsumerCalm ==
    ASSUME CalmInv, NEW k \in Keys, Forget(k) \/ (Deploy(k) /\ NoStaleReturn)
    PROVE  Promise'
<1>1. Served' \subseteq Served
  BY DEF Served, Forget, Deploy, NoStaleReturn
<1> QED BY <1>1, QuietCalm DEF Forget, Deploy, Disturb

LEMMA NextCalm == ASSUME Orderly, TypeOK, CalmInv, [Next /\ Calm]_vars PROVE CalmInv'
<1>1. CASE UNCHANGED vars
  <2>1. Promise'
    BY <1>1, QuietCalm DEF vars, consVars, Served
  <2>2. OneAtATime' /\ NothingNew'
    BY <1>1 DEF CalmInv, OneAtATime, NothingNew, Kept, Entries, vars, procVars, gcVars, backVars
  <2> QED BY <2>1, <2>2 DEF CalmInv
<1>2. CASE Next /\ Calm
  <2>1. OneAtATime' /\ NothingNew' /\ NoStaleReturn
    BY <1>2 DEF Calm
  <2>2. \A p \in Procs : ~SaveFails(p)
    BY DEF Orderly, TypeOK, SaveFails, Disturb
  <2>3. Promise'
    BY <1>2, <2>1, <2>2, DaemonStartsCalm, CrashCalm, RequestCalm, HandlerRunsCalm, HandlerErrCalm,
       ApplyCalm, SaveCalm, EndCalm, TriggerStartsCalm, ApplyInTriggerCalm, GCCalm,
       DeliverCalm, ConsumerCalm DEF Next, ProcStep
  <2> QED BY <2>1, <2>3 DEF CalmInv
<1> QED BY <1>1, <1>2

LEMMA CalmInvariant == ASSUME Orderly PROVE CalmSpec => [](TypeOK /\ CalmInv)
<1>1. Init => TypeOK /\ CalmInv
  BY InitType, InitCalm
<1>2. TypeOK /\ CalmInv /\ [Next /\ Calm]_vars => (TypeOK /\ CalmInv)'
  BY NextType, NextCalm
<1> QED BY <1>1, <1>2, PTL DEF CalmSpec

\* In a calm behaviour, of any number of workers with triggers and gc runs, a
\* consumer that has stopped nagging holds the credential the backend accepts,
\* whatever crashes within Orderly, is lost, fails or is deployed: no later
\* handler run, that of a boot, a trigger or a gc included, replaces or revokes
\* a credential that was delivered unless its owner asks again or withdraws.
THEOREM SatisfiedAreValid == Orderly => (CalmSpec => []SatisfiedMeansValid)
<1> SUFFICES ASSUME Orderly PROVE CalmSpec => []SatisfiedMeansValid
  OBVIOUS
<1>1. CalmInv => SatisfiedMeansValid
  BY DEF CalmInv, Promise, Held, Served, Backed, SatisfiedMeansValid
<1> QED BY <1>1, CalmInvariant, PTL

\* In a calm behaviour no satisfied consumer is forgotten, across restarts,
\* triggers and gc runs either: what the daemon calls back is in the state file
\* before the callback is sent, and what a trigger or a gc saves still has it.
THEOREM SubscribersKept == Orderly => (CalmSpec => []SubscriberKept)
<1> SUFFICES ASSUME Orderly PROVE CalmSpec => []SubscriberKept
  OBVIOUS
<1>1. CalmInv => SubscriberKept
  BY Constants DEF CalmInv, Promise, Held, Served, Backed, SubscriberKept, Quiet, Cred
<1> QED BY <1>1, CalmInvariant, PTL
-----------------------------------------------------------------------------
(* Provider implements Subscription.                                       *)

\* A served consumer relies on a credential, any other on none.
LEMMA Relying ==
    ASSUME TypeOK, CalmInv
    PROVE  /\ \A k \in Served : k \in Keys /\ Relied[k] = inst[k] /\ Relied[k] # 0
           /\ Abstract!Asking = Keys \ Served
<1>1. Served \subseteq Keys
  BY DEF TypeOK, Served
<1>2. \A k \in Served : inst[k] \in Cred
  BY DEF CalmInv, Promise, Held, Backed
<1>3. 0 \notin Cred
  BY Constants DEF Cred
<1> QED BY <1>1, <1>2, <1>3 DEF Relied, Served, Abstract!Asking

\* What leaves the credentials and the consumers alone is no step there.
LEMMA Stutters ==
    ASSUME TypeOK, UNCHANGED <<backVars, declared, sat, inst>>
    PROVE  UNCHANGED Abstract!vars
BY DEF backVars, Relied, Abstract!vars

\* A handler run is a reissue to consumers that ask.
LEMMA HandlerReissues ==
    ASSUME TypeOK, CalmInv, NEW p \in Procs, HandlerRuns(p)
    PROVE  Abstract!Next
<1> DEFINE fresh == {k \in Entries(input[p]) : ~Kept(input[p], k)}
           gone == {k \in Keys : input[p][k] = Absent}
<1>1. ASSUME NEW k \in Served PROVE k \notin fresh /\ k \notin gone
  <2>1. k \in Keys /\ input[p][k] = inst[k] /\ Backed(k, inst[k])
    BY Running DEF HandlerRuns
  <2>2. Keeps(p, k)
    BY <2>1, BackedKept
  <2>3. input[p][k] # Absent
    BY <2>1, Constants DEF Backed, Cred
  <2> QED BY <2>2, <2>3 DEF Keeps
<1>2. fresh \subseteq Abstract!Asking /\ gone \subseteq Abstract!Asking
  BY <1>1, Relying DEF Entries
<1>3. count' = [k \in Keys |-> IF k \in fresh THEN count[k] + 1 ELSE count[k]]
  BY DEF HandlerRuns
<1>4. valid' = [k \in Keys |-> IF k \in fresh THEN count[k] + 1
                               ELSE IF k \in gone THEN 0 ELSE valid[k]]
  BY DEF HandlerRuns
<1>5. Relied' = Relied
  BY DEF HandlerRuns, consVars, Relied
<1> HIDE DEF fresh, gone
<1>6. Abstract!Reissue(fresh, gone)
  BY <1>2, <1>3, <1>4, <1>5 DEF Abstract!Reissue
<1> QED BY <1>2, <1>6 DEF Abstract!Next

\* A consumer that stops being served asks.
LEMMA ForgettingAsks ==
    ASSUME TypeOK, CalmInv, NEW k \in Keys, Served' = Served \ {k}, UNCHANGED <<backVars, inst>>
    PROVE  Abstract!Next \/ UNCHANGED Abstract!vars
<1>1. CASE k \notin Served
  <2>1. Relied' = Relied
    BY <1>1 DEF Relied, Served
  <2> QED BY <2>1 DEF backVars, Abstract!vars
<1>2. CASE k \in Served
  <2>1. Relied' = [Relied EXCEPT ![k] = 0]
    BY DEF Relied, Served
  <2>2. Abstract!Ask(k)
    BY <1>2, <2>1, Relying DEF Abstract!Ask, backVars
  <2> QED BY <2>2 DEF Abstract!Next
<1> QED BY <1>1, <1>2

\* A callback hands over the credential that is accepted when it arrives, or
\* makes its consumer ask.
LEMMA DeliverTakes ==
    ASSUME TypeOK, CalmInv, NEW p \in Procs, NEW k \in Keys, Deliver(p, k)
    PROVE  Abstract!Next \/ UNCHANGED Abstract!vars
<1>1. mail[p][k] # Absent /\ UNCHANGED backVars /\ declared' = declared
  BY DEF Deliver
<1>2. mail[p][k] \in Cred => Sound(mail[p])
  BY <1>1, OnTheWay
<1>3. CASE k \in declared /\ mail[p][k] \in Cred
  <2>1. sat' = sat \cup {k} /\ inst' = [inst EXCEPT ![k] = mail[p][k]]
    BY <1>3 DEF Deliver
  <2>2. mail[p][k] = valid[k] /\ valid[k] # 0
    BY <1>2, <1>3, Constants DEF Sound, Backed, Cred
  <2>3. Relied' = [Relied EXCEPT ![k] = valid[k]]
    BY <1>1, <1>3, <2>1, <2>2 DEF Relied, TypeOK
  <2>4. CASE k \in Served
    <3>1. Relied[k] = valid[k]
      BY <2>4, Relying DEF CalmInv, Promise, Held, Backed
    <3>2. Relied' = Relied
      BY <2>3, <3>1 DEF Relied
    <3> QED BY <1>1, <3>2 DEF Abstract!vars, backVars
  <2>5. CASE k \notin Served
    <3>1. Abstract!Take(k)
      BY <1>1, <2>2, <2>3, <2>5, Relying DEF Abstract!Take, backVars
    <3> QED BY <3>1 DEF Abstract!Next
  <2> QED BY <2>4, <2>5
<1>4. CASE k \in declared /\ mail[p][k] \notin Cred
  <2>1. Served' = Served \ {k} /\ UNCHANGED inst
    BY <1>1, <1>4 DEF Deliver, Served
  <2> QED BY <1>1, <2>1, ForgettingAsks
<1>5. CASE k \notin declared
  BY <1>1, <1>5, Stutters DEF Deliver
<1> QED BY <1>3, <1>4, <1>5

\* Every step of a calm behaviour is one of Subscription, or none.
LEMMA StepImplements ==
    ASSUME TypeOK, CalmInv, [Next /\ Calm]_vars
    PROVE  Abstract!Next \/ UNCHANGED Abstract!vars
<1>1. ASSUME UNCHANGED vars PROVE UNCHANGED Abstract!vars
  BY <1>1, Stutters DEF vars, consVars
<1>2. ASSUME DaemonStarts \/ (\E w \in Workers, k \in Keys : Request(w, k)) \/ (\E ps \in {DaemonProcs, Procs} : Crash(ps))
      PROVE  UNCHANGED Abstract!vars
  BY <1>2, Stutters DEF DaemonStarts, Request, Crash, consVars
<1>3. ASSUME NEW p \in Procs, ProcStep(p) \/ HandlerAnswersErr(p) \/ HandlerFails(p) \/ SaveFails(p)
      PROVE  Abstract!Next \/ UNCHANGED Abstract!vars
  <2>1. CASE HandlerRuns(p)
    BY <2>1, HandlerReissues
  <2>2. CASE ApplyInDaemon(p) \/ SaveTruncates(p) \/ SaveWrites(p) \/ Dispatch(p) \/ Completes(p)
    BY <2>2, Stutters DEF ApplyInDaemon, SaveTruncates, SaveWrites, Dispatch, Completes, consVars
  <2>3. CASE HandlerAnswersErr(p) \/ HandlerFails(p) \/ SaveFails(p)
    BY <2>3, Stutters DEF HandlerAnswersErr, HandlerFails, SaveFails, consVars
  <2> QED BY <1>3, <2>1, <2>2, <2>3 DEF ProcStep
<1>4. ASSUME (\E force \in BOOLEAN : TriggerStarts(force)) \/ ApplyInTrigger \/ GCStarts \/ ApplyInGC
             \/ (\E reachable \in SUBSET Keys : GCQueries(reachable))
      PROVE  UNCHANGED Abstract!vars
  BY <1>4, Stutters DEF TriggerStarts, ApplyInTrigger, GCStarts, ApplyInGC, GCQueries, consVars
<1>5. ASSUME NEW p \in Procs, NEW k \in Keys, Deliver(p, k) \/ Lose(p, k)
      PROVE  Abstract!Next \/ UNCHANGED Abstract!vars
  <2>1. CASE Deliver(p, k)
    BY <2>1, DeliverTakes
  <2>2. CASE Lose(p, k)
    BY <2>2, Stutters DEF Lose, consVars
  <2> QED BY <1>5, <2>1, <2>2
<1>6. ASSUME NEW k \in Keys, Forget(k) \/ (Deploy(k) /\ NoStaleReturn)
      PROVE  Abstract!Next \/ UNCHANGED Abstract!vars
  <2>1. UNCHANGED <<backVars, inst>>
    BY <1>6 DEF Forget, Deploy
  <2>2. CASE Forget(k)
    <3>1. Served' = Served \ {k}
      BY <2>2 DEF Forget, Served
    <3> QED BY <2>1, <3>1, ForgettingAsks
  <2>3. CASE Deploy(k) /\ NoStaleReturn
    <3>1. Served' = Served \ {k}
      BY <2>3 DEF Deploy, NoStaleReturn, Served
    <3> QED BY <2>1, <3>1, ForgettingAsks
  <2> QED BY <1>6, <2>2, <2>3
<1> QED BY <1>1, <1>2, <1>3, <1>4, <1>5, <1>6 DEF Next, Calm

\* In calm behaviours the daemon, its triggers and its gc keep what Subscription
\* promises: a handler run for one consumer, after a crash or beside requests,
\* replaces and revokes only credentials of consumers that ask or have withdrawn,
\* and a callback installs what the backend accepts when it arrives.
THEOREM DaemonImplementsSubscription == Orderly => (CalmSpec => ImplementsSubscription)
<1> SUFFICES ASSUME Orderly PROVE CalmSpec => Abstract!Spec
  BY DEF ImplementsSubscription
<1>1. Init => Abstract!Init
  BY DEF Init, Abstract!Init, Relied
<1>2. TypeOK /\ CalmInv /\ [Next /\ Calm]_vars => [Abstract!Next]_(Abstract!vars)
  BY StepImplements
<1> QED BY <1>1, <1>2, CalmInvariant, PTL DEF CalmSpec, Abstract!Spec
=============================================================================
