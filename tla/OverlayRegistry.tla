-------------------------- MODULE OverlayRegistry --------------------------
(***************************************************************************)
(* The overlay registry (apps/overlay-registry/main.go): which store path  *)
(* of a package is the newest. CI publishes with POST, the overlay         *)
(* managers of the hosts read all entries with GET.                        *)
(*                                                                         *)
(* A POST changes the entry in memory and saves all of them, by a write to *)
(* a temporary file and a rename, under the mutex. Store paths are         *)
(* numbered in the order CI publishes them; 0 stands for no entry.         *)
(***************************************************************************)
EXTENDS Naturals

CONSTANTS
    Packages,
    Known,          \* those published before: store paths 1 and then 2
    MaxPublish,     \* bound: the last store path
    Disturbances,   \* which kinds of disturbance may happen
    MaxDisturb      \* bound: how many of them in a behaviour

ASSUME RegistryAssumption ==
    Known \subseteq Packages /\ MaxPublish \in Nat /\ MaxPublish >= 2 /\ MaxDisturb \in Nat

Versions == 0 .. MaxPublish

VARIABLES
    entries,    \* the entries in memory
    dataFile,   \* registry.json
    posting,    \* the POST that holds the mutex: its package, if there is one
    published,  \* the store path CI has published last
    acked,      \* acked[p]: the newest store path of p answered with 200
    disturbed

registryVars == <<entries, dataFile, posting, published, acked>>

Disturb(kind) ==
    /\ kind \in Disturbances
    /\ disturbed < MaxDisturb
    /\ disturbed' = disturbed + 1

NoPost == {}

\* A POST sets the entry, before anything is saved.
Post(p) ==
    /\ posting = NoPost /\ published < MaxPublish
    /\ published' = published + 1
    /\ entries' = [entries EXCEPT ![p] = published']
    /\ posting' = {p}
    /\ UNCHANGED <<dataFile, acked, disturbed>>

\* Mutant: the answer does not wait for the save.
AnswersUnsaved ==
    /\ posting # NoPost
    /\ acked' = [p \in Packages |-> IF p \in posting THEN entries[p] ELSE acked[p]]
    /\ posting' = NoPost
    /\ UNCHANGED <<entries, dataFile, published, disturbed>>

\* save: a write to a temporary file, of which nothing is seen before it is
\* renamed; the POST is answered.
Saves ==
    /\ posting # NoPost
    /\ dataFile' = entries
    /\ acked' = [p \in Packages |-> IF p \in posting THEN entries[p] ELSE acked[p]]
    /\ posting' = NoPost
    /\ UNCHANGED <<entries, published, disturbed>>

\* The write or the rename fails: the POST is answered with 500 and the entry
\* stays in memory.
SaveFails ==
    /\ posting # NoPost
    /\ Disturb("save")
    /\ posting' = NoPost
    /\ UNCHANGED <<entries, dataFile, published, acked>>

\* The process starts again, in the middle of a POST or not (NewRegistry).
RegistryRestarts ==
    /\ Disturb("restart")
    /\ entries' = dataFile
    /\ posting' = NoPost
    /\ UNCHANGED <<dataFile, published, acked>>

\* GET waits for the mutex.
Readable == posting = NoPost

RegistryInit ==
    /\ entries = [p \in Packages |-> IF p \in Known THEN 2 ELSE 0]
    /\ dataFile = entries /\ acked = entries
    /\ posting = NoPost
    /\ published = 2
    /\ disturbed = 0

RegistryNext ==
    \/ \E p \in Packages : Post(p)
    \/ Saves \/ SaveFails \/ RegistryRestarts

RegistryTypeOK ==
    /\ {entries, dataFile, acked} \subseteq [Packages -> Versions]
    /\ posting \in {NoPost} \cup {{p} : p \in Packages}
    /\ published \in Versions
    /\ disturbed \in 0 .. MaxDisturb

\* What CI was told is published survives a restart of the registry, unless a
\* later publication of the package has replaced it (ServeHTTP answers 200
\* only after save): neither a failed save nor a crash inside one brings back
\* an older store path.
AckedSurvives ==
    \A p \in Packages : acked[p] <= dataFile[p] /\ acked[p] <= entries[p]
=============================================================================
