----------------------------- MODULE GitTokens ------------------------------
(***************************************************************************)
(* The git-token capability: Forgejo access tokens that are stored,        *)
(* reused, rotated and revoked by one handler (apps/forgejo/provider).     *)
(*                                                                         *)
(* The handler is a process that the provider starts over all recorded     *)
(* entries: for a consumer's request, for a TTL rotation, or after a sweep *)
(* has removed entries, in which case nobody is told its answers. Each     *)
(* step of it that touches Forgejo's database or a token file is a step    *)
(* here. What starts it is pkgs/fort-provider, with the daemon's memory    *)
(* and the state file apart; Provider.tla has that program in detail.      *)
(*                                                                         *)
(* Time is counted in ticks of several hours, and a run fits between two   *)
(* of them. A token is a number that nothing refers to any more when it is *)
(* issued: only equality of tokens matters.                                *)
(***************************************************************************)
EXTENDS Integers

CONSTANTS
    Needs,          \* entries "origin:need" of the capability
    Deployments,    \* which of them the consumers may declare at first
    Refused,        \* the needs that ask for an access their host may not have
    Files,          \* token files and token names, "origin-access"
    FileOf,         \* the file of a need: needs of one host may share it
    Runs,           \* handler runs that may be under way at once
    Due,            \* ticks until rotationThreshold, of a token and of an entry
    MaxTok,         \* bound: tokens that are referred to at once
    Disturbances,   \* which kinds of disturbance may happen
    MaxDisturb      \* bound: how many of them in a behaviour

Kinds == {"loss", "crash", "revokefail", "generatefail", "savefail", "removefail", "withdraw", "forget"}

ASSUME ConstantsAssumption ==
    /\ Refused \subseteq Needs
    /\ Deployments \subseteq SUBSET Needs
    /\ FileOf \in [Needs -> Files]
    /\ {Due, MaxTok, MaxDisturb} \subseteq Nat \ {0}
    /\ Disturbances \subseteq Kinds

Tokens == 1 .. MaxTok
None == 0               \* no token; also the "null" an error answer installs
Error == -1             \* an answer with an error
Silent == -2            \* no answer
NoFile == [tok |-> None, age |-> 0]

\* A provider entry: not recorded, recorded without a response, or the ticks
\* since its response was recorded.
Unrecorded == Due + 2
Asked == Due + 1
Entry == 0 .. Due + 2

NoRun == [pc |-> "idle", kind |-> "none", todo |-> {}, need |-> {}, new |-> None,
          clean |-> TRUE, wanted |-> {}, orphans |-> {}, out |-> [n \in Needs |-> Silent]]

VARIABLES
    mem, disk,      \* the provider's entries: the daemon's memory, the file
    run,            \* run[r]: a handler run, up to its last callback
    db,             \* db[f]: the token Forgejo accepts under the name f
    file,           \* file[f]: the stored token and its age, or NoFile
    declared, sat,  \* the consumers' needs, and the satisfied ones
    held,           \* held[n]: the token in the consumer's token file
    disturbed

provVars == <<mem, disk>>
consVars == <<declared, sat, held>>
vars == <<provVars, run, db, file, consVars, disturbed>>

Disturb(kind) ==
    /\ kind \in Disturbances
    /\ disturbed < MaxDisturb
    /\ disturbed' = disturbed + 1

Recorded(s) == {n \in Needs : s[n] # Unrecorded}
Idle(r) == run[r] = NoRun

(***************************************************************************)
(* What starts the handler.                                                *)
(***************************************************************************)

Starts(r, kind, entries) ==
    run' = [run EXCEPT ![r] = [NoRun EXCEPT !.pc = "entries", !.kind = kind, !.todo = entries]]

\* A consumer's request replaces its entry, without a response.
Request(r, n) ==
    /\ Idle(r)
    /\ n \in declared \ sat
    /\ mem' = [mem EXCEPT ![n] = Asked]
    /\ Starts(r, "request", Recorded(mem'))
    /\ UNCHANGED <<disk, db, file, consVars, disturbed>>

Undeclared == Recorded(disk) \ declared

\* gc: entries of withdrawn needs are removed from the file, which the daemon
\* does not learn, and the handler cleans up behind them.
Sweep(r) ==
    /\ Idle(r)
    /\ Undeclared # {}
    /\ disk' = [n \in Needs |-> IF n \in declared THEN disk[n] ELSE Unrecorded]
    /\ Starts(r, "sweep", Recorded(disk'))
    /\ UNCHANGED <<mem, db, file, consVars, disturbed>>

\* gc: one entry near its end rotates the capability.
Rotate(r) ==
    /\ Idle(r)
    /\ Undeclared = {}
    /\ \E n \in Needs : disk[n] = Due
    /\ Starts(r, "rotate", Recorded(disk))
    /\ UNCHANGED <<provVars, db, file, consVars, disturbed>>

(***************************************************************************)
(* processEntries.                                                         *)
(***************************************************************************)

Fresh(f) == file[f] # NoFile /\ file[f].age < Due

\* The access check refuses the request: no file is expected for it.
Refuses(r, n) ==
    /\ run[r].pc = "entries" /\ n \in run[r].todo \cap Refused
    /\ run' = [run EXCEPT ![r].todo = @ \ {n}, ![r].out[n] = Error]
    /\ UNCHANGED <<provVars, db, file, consVars, disturbed>>

\* A stored token with enough time left is answered again.
Reuses(r, n) ==
    /\ run[r].pc = "entries" /\ n \in run[r].todo \ Refused
    /\ Fresh(FileOf[n])
    /\ run' = [run EXCEPT ![r].todo = @ \ {n}, ![r].wanted = @ \cup {FileOf[n]},
                          ![r].out[n] = file[FileOf[n]].tok]
    /\ UNCHANGED <<provVars, db, file, consVars, disturbed>>

\* Mutant: the old token is not revoked before a new one of its name is made.
ReplacesUnrevoked(r, n) ==
    /\ run[r].pc = "entries" /\ n \in run[r].todo \ Refused
    /\ ~Fresh(FileOf[n])
    /\ run' = [run EXCEPT ![r].todo = @ \ {n}, ![r].wanted = @ \cup {FileOf[n]},
                          ![r].need = {n}, ![r].pc = "generate"]
    /\ UNCHANGED <<provVars, db, file, consVars, disturbed>>

\* No file, an unreadable one, or a token past the threshold.
Replaces(r, n) ==
    /\ run[r].pc = "entries" /\ n \in run[r].todo \ Refused
    /\ ~Fresh(FileOf[n])
    /\ run' = [run EXCEPT ![r].todo = @ \ {n}, ![r].wanted = @ \cup {FileOf[n]},
                          ![r].need = {n}, ![r].pc = "revoke"]
    /\ UNCHANGED <<provVars, db, file, consVars, disturbed>>

\* The need a run is at, and its file.
At(r) == CHOOSE n \in run[r].need : TRUE
AtFile(r) == FileOf[At(r)]

\* RevokeToken; a failure is written to standard output, where it spoils the
\* answers, and the run goes on.
Revokes(r) ==
    /\ run[r].pc = "revoke"
    /\ \/ /\ db' = [db EXCEPT ![AtFile(r)] = None]
          /\ run' = [run EXCEPT ![r].pc = "generate"]
          /\ UNCHANGED disturbed
       \/ /\ Disturb("revokefail")
          /\ run' = [run EXCEPT ![r].pc = "generate", ![r].clean = FALSE]
          /\ UNCHANGED db
    /\ UNCHANGED <<provVars, file, consVars>>

Referred == {db[f] : f \in Files} \cup {file[f].tok : f \in Files}
    \cup {held[n] : n \in Needs} \cup {run[r].new : r \in Runs}
    \cup UNION {{run[r].out[n] : n \in Needs} : r \in Runs}

\* GenerateToken: Forgejo has no token of this name.
Generates(r) ==
    LET t == CHOOSE x \in Tokens \ Referred : TRUE IN
    /\ run[r].pc = "generate"
    /\ db[AtFile(r)] = None
    /\ Tokens \ Referred # {}
    /\ db' = [db EXCEPT ![AtFile(r)] = t]
    /\ run' = [run EXCEPT ![r].pc = "save", ![r].new = t]
    /\ UNCHANGED <<provVars, file, consVars, disturbed>>

\* The name is taken, or the command fails.
GenerateFails(r) ==
    /\ run[r].pc = "generate"
    /\ \/ db[AtFile(r)] # None /\ UNCHANGED disturbed
       \/ db[AtFile(r)] = None /\ Disturb("generatefail")
    /\ run' = [run EXCEPT ![r].pc = "entries", ![r].need = {}, ![r].out[At(r)] = Error]
    /\ UNCHANGED <<provVars, db, file, consVars>>

\* saveStoredToken, by write and rename; a failure is only logged.
Saves(r) ==
    /\ run[r].pc = "save"
    /\ \/ /\ file' = [file EXCEPT ![AtFile(r)] = [tok |-> run[r].new, age |-> 0]]
          /\ UNCHANGED disturbed
       \/ Disturb("savefail") /\ UNCHANGED file
    /\ run' = [run EXCEPT ![r].pc = "entries", ![r].need = {}, ![r].new = None,
                          ![r].out[At(r)] = run[r].new]
    /\ UNCHANGED <<provVars, db, consVars>>

\* Mutant: the files of this run's own answers are listed as well.
CollectsAll(r) ==
    /\ run[r].pc = "entries" /\ run[r].todo = {}
    /\ run' = [run EXCEPT ![r].pc = "collect", ![r].orphans = {f \in Files : file[f] # NoFile}]
    /\ UNCHANGED <<provVars, db, file, consVars, disturbed>>

\* garbageCollect lists the files nobody asked for in this run.
Collects(r) ==
    /\ run[r].pc = "entries" /\ run[r].todo = {}
    /\ run' = [run EXCEPT ![r].pc = "collect",
                          ![r].orphans = {f \in Files \ run[r].wanted : file[f] # NoFile}]
    /\ UNCHANGED <<provVars, db, file, consVars, disturbed>>

\* Of each it revokes the token and then removes the file; ReadDir has sorted
\* them, in an order that does not matter here.
Orphan(r) == CHOOSE f \in run[r].orphans : TRUE

\* Mutant: the file is removed without the token being revoked.
ForgetsOrphan(r) ==
    /\ run[r].pc = "collect" /\ run[r].orphans # {}
    /\ run' = [run EXCEPT ![r].pc = "remove"]
    /\ UNCHANGED <<provVars, db, file, consVars, disturbed>>

\* RevokeToken again: the file is removed whether or not it worked.
RevokesOrphan(r) ==
    /\ run[r].pc = "collect" /\ run[r].orphans # {}
    /\ \/ /\ db' = [db EXCEPT ![Orphan(r)] = None]
          /\ run' = [run EXCEPT ![r].pc = "remove"]
          /\ UNCHANGED disturbed
       \/ /\ Disturb("revokefail")
          /\ run' = [run EXCEPT ![r].pc = "remove", ![r].clean = FALSE]
          /\ UNCHANGED db
    /\ UNCHANGED <<provVars, file, consVars>>

RemovesOrphan(r) ==
    /\ run[r].pc = "remove"
    /\ \/ file' = [file EXCEPT ![Orphan(r)] = NoFile] /\ UNCHANGED disturbed
       \/ Disturb("removefail") /\ UNCHANGED file
    /\ run' = [run EXCEPT ![r].pc = "collect", ![r].orphans = @ \ {Orphan(r)}]
    /\ UNCHANGED <<provVars, db, consVars>>

(***************************************************************************)
(* What the provider does with the answers.                                *)
(***************************************************************************)

\* Output that does not parse fails the run, for all consumers.
Spoiled(r) ==
    /\ run[r].pc = "collect" /\ run[r].orphans = {}
    /\ ~run[r].clean
    /\ run' = [run EXCEPT ![r] = NoRun]
    /\ UNCHANGED <<provVars, db, file, consVars, disturbed>>

\* updateProviderResponse: errors are not recorded, and an entry that is gone
\* is not brought back.
Updated(s, out) ==
    [n \in Needs |-> IF out[n] \in Tokens /\ s[n] # Unrecorded THEN 0 ELSE s[n]]

\* The answers to a request are recorded and saved; those of a rotation are
\* not. Both are sent: the ttl in an answer changes from run to run.
Answers(r) ==
    /\ run[r].pc = "collect" /\ run[r].orphans = {}
    /\ run[r].clean
    /\ IF run[r].kind = "request"
       THEN mem' = Updated(mem, run[r].out) /\ disk' = mem'
       ELSE UNCHANGED provVars
    /\ run' = [run EXCEPT ![r] = IF run[r].kind = "sweep" THEN NoRun
                                 ELSE [NoRun EXCEPT !.pc = "callback", !.out = run[r].out]]
    /\ UNCHANGED <<db, file, consVars, disturbed>>

\* The run is over with its last callback.
Sent(r, n) ==
    LET out == [run[r].out EXCEPT ![n] = Silent] IN
    run' = [run EXCEPT ![r] = IF out = NoRun.out THEN NoRun ELSE [@ EXCEPT !.out = out]]

\* Mutant: the same answer goes to every consumer of the run.
DeliverSame(r, n) ==
    \E m \in Needs :
        /\ run[r].pc = "callback" /\ run[r].out[n] # Silent /\ run[r].out[m] # Silent
        /\ IF n \in declared
           THEN /\ held' = [held EXCEPT ![n] = IF run[r].out[m] = Error THEN None ELSE run[r].out[m]]
                /\ sat' = sat \cup {n}
           ELSE UNCHANGED <<held, sat>>
        /\ Sent(r, n)
        /\ UNCHANGED <<provVars, db, file, declared, disturbed>>

\* gitTokenHandler writes whatever .token is, "null" for an error, and exits 0.
Deliver(r, n) ==
    /\ run[r].pc = "callback" /\ run[r].out[n] # Silent
    /\ IF n \in declared
       THEN /\ held' = [held EXCEPT ![n] = IF run[r].out[n] = Error THEN None ELSE run[r].out[n]]
            /\ sat' = sat \cup {n}
       ELSE UNCHANGED <<held, sat>>
    /\ Sent(r, n)
    /\ UNCHANGED <<provVars, db, file, declared, disturbed>>

Lose(r, n) ==
    /\ run[r].pc = "callback" /\ run[r].out[n] # Silent
    /\ Disturb("loss")
    /\ Sent(r, n)
    /\ UNCHANGED <<provVars, db, file, consVars>>

(***************************************************************************)
(* The environment.                                                        *)
(***************************************************************************)

\* The host restarts: runs and callbacks end where they are.
Crash ==
    /\ Disturb("crash")
    /\ run' = [r \in Runs |-> NoRun]
    /\ mem' = disk
    /\ UNCHANGED <<disk, db, file, consVars>>

Withdraw(n) ==
    /\ n \in declared
    /\ Disturb("withdraw")
    /\ declared' = declared \ {n}
    /\ UNCHANGED <<provVars, run, db, file, sat, held>>

\* A consumer's fulfillment state is lost, or it is told to ask again.
Forget(n) ==
    /\ n \in sat
    /\ Disturb("forget")
    /\ sat' = sat \ {n}
    /\ UNCHANGED <<provVars, run, db, file, declared, held>>

Older(s) == [n \in Needs |-> IF s[n] < Due THEN s[n] + 1 ELSE s[n]]

Tick ==
    /\ \A r \in Runs : Idle(r)
    /\ mem' = Older(mem) /\ disk' = Older(disk)
    /\ file' = [f \in Files |-> IF file[f] # NoFile /\ file[f].age < Due
                                THEN [file[f] EXCEPT !.age = @ + 1] ELSE file[f]]
    /\ UNCHANGED <<run, db, consVars, disturbed>>

Init ==
    /\ mem = [n \in Needs |-> Unrecorded] /\ disk = mem
    /\ run = [r \in Runs |-> NoRun]
    /\ db = [f \in Files |-> None] /\ file = [f \in Files |-> NoFile]
    /\ declared \in Deployments /\ sat = {} /\ held = [n \in Needs |-> None]
    /\ disturbed = 0

Collect(r) == Sweep(r) \/ Rotate(r)

Works(r) ==
    \/ \E n \in Needs : Refuses(r, n) \/ Reuses(r, n) \/ Replaces(r, n) \/ Deliver(r, n)
    \/ Revokes(r) \/ Generates(r) \/ GenerateFails(r) \/ Saves(r)
    \/ Collects(r) \/ RevokesOrphan(r) \/ RemovesOrphan(r) \/ Spoiled(r) \/ Answers(r)

Next ==
    \/ \E r \in Runs : Works(r) \/ Collect(r) \/ \E n \in Needs : Request(r, n) \/ Lose(r, n)
    \/ \E n \in Needs : Withdraw(n) \/ Forget(n)
    \/ Crash
    \/ Tick

\* A run goes on to its end, time passes, gc runs every hour, and consumers
\* that are not satisfied ask again and again.
Fairness ==
    /\ WF_vars(Tick)
    /\ \A r \in Runs : WF_vars(Works(r)) /\ SF_vars(Collect(r))
    /\ SF_vars(\E r \in Runs, n \in Needs : Request(r, n))

Spec == Init /\ [][Next]_vars /\ Fairness

RunType ==
    [pc : {"idle", "entries", "revoke", "generate", "save", "collect", "remove", "callback"},
     kind : {"none", "request", "sweep", "rotate"}, todo : SUBSET Needs, need : SUBSET Needs,
     new : Tokens \cup {None}, clean : BOOLEAN, wanted : SUBSET Files, orphans : SUBSET Files,
     out : [Needs -> Tokens \cup {Error, Silent}]]

\* Every variable has its type, a run works on a need exactly while it replaces
\* that need's token, and it is never about to remove a file it has answered.
TypeOK ==
    /\ mem \in [Needs -> Entry] /\ disk \in [Needs -> Entry]
    /\ run \in [Runs -> RunType]
    /\ db \in [Files -> Tokens \cup {None}]
    /\ file \in [Files -> [tok : Tokens \cup {None}, age : 0 .. Due]]
    /\ declared \subseteq Needs /\ sat \subseteq Needs
    /\ held \in [Needs -> Tokens \cup {None}]
    /\ disturbed \in 0 .. MaxDisturb
    /\ \A r \in Runs :
        /\ run[r].need # {} <=> run[r].pc \in {"revoke", "generate", "save"}
        /\ run[r].new # None <=> run[r].pc = "save"
        /\ run[r].orphans \cap run[r].wanted = {}

\* What Forgejo, the token file and the consumers have under the name f.
KeptFor(f) == {db[f], file[f].tok} \cup {held[n] : n \in {m \in Needs : FileOf[m] = f}}

\* A token is its origin's and access's own: a consumer never holds, through
\* reuses, shared files, lost saves and crashes, one that Forgejo, a file or a
\* consumer has under another name, and a need that is refused its access
\* ("rw access not permitted for this host", main.go:115) holds none.
OwnToken ==
    \A n \in Needs : held[n] # None =>
        /\ n \notin Refused
        /\ \A f \in Files \ {FileOf[n]} : held[n] \notin KeptFor(f)

\* The consumer's token is the one Forgejo accepts.
Accepted(n) == held[n] # None /\ held[n] = db[FileOf[n]]

\* Some entry has a response: the rotation looks at no other.
Rotating == \E n \in Needs : disk[n] \in 0 .. Due

\* Whatever fails on the way (a revocation, an issue, a save, a callback, the
\* process), a consumer that goes on declaring its need comes back, again and
\* again, to a token that Forgejo accepts, as long as rotations go on: nothing
\* leaves a revoked token with it for good.
AccessRestored ==
    \A n \in Needs \ Refused :
        <>[](n \in declared) /\ []<>Rotating => []<>Accepted(n)

\* No declared need is answered from the file f.
Unwanted(f) == \A n \in declared \ Refused : FileOf[n] # f

\* A run that removes files has revoked everything it tried to revoke.
RevocationsWork == \A r \in Runs : run[r].pc = "remove" => run[r].clean

\* A token with a file that is nobody's is revoked, and not only its file
\* removed (garbageCollect: "revoke tokens for files that shouldn't exist"),
\* whatever else fails or crashes on the way, as long as rotations go on. That
\* revocations work is assumed: RevokeToken returns no error, so a failed one
\* loses the file, with which the token would have been found again.
OrphansRevoked ==
    []RevocationsWork /\ []<>Rotating =>
        \A f \in Files : (file[f] # NoFile /\ Unwanted(f)) ~> (db[f] = None)
=============================================================================
