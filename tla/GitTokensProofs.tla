-------------------------- MODULE GitTokensProofs ---------------------------
(***************************************************************************)
(* Proofs about GitTokens, for any needs, files, runs and bounds.          *)
(*                                                                         *)
(* The type invariant is not inductive by itself: a run answers with what  *)
(* a file holds, and only a file that is there holds a token (FilesHold);  *)
(* and a run must have answered every entry before it looks for orphans    *)
(* (OrphansLast), or it would answer with one of them.                     *)
(*                                                                         *)
(* That a token stays under its own name is an invariant of all the places *)
(* it can be in (Belongs), the answers and unsaved tokens of runs          *)
(* included: a step moves tokens between the places of one name, or makes  *)
(* one that is in none.                                                    *)
(***************************************************************************)
EXTENDS GitTokens, TLAPS

\* A token file that is there holds a token.
FilesHold == \A f \in Files : file[f] # NoFile => file[f].tok \in Tokens

\* Orphans are looked for when all entries have been answered.
OrphansLast == \A r \in Runs : run[r].pc \notin {"collect", "remove"} => run[r].orphans = {}

\* What a run does and what it holds go together.
Consistent(x) ==
    /\ x.need # {} <=> x.pc \in {"revoke", "generate", "save"}
    /\ x.new # None <=> x.pc = "save"
    /\ x.orphans \cap x.wanted = {}
    /\ x.pc \notin {"collect", "remove"} => x.orphans = {}

GoodRun(x) == x \in RunType /\ Consistent(x)

RunsOK == run \in [Runs -> RunType] /\ \A r \in Runs : Consistent(run[r])

IInv == TypeOK /\ FilesHold /\ OrphansLast
----------------------------------------------------------------------------
(* Facts about the operators.                                              *)

LEMMA Constants ==
    /\ Due \in Nat \ {0} /\ MaxTok \in Nat \ {0} /\ MaxDisturb \in Nat \ {0}
    /\ Refused \subseteq Needs /\ FileOf \in [Needs -> Files] /\ Deployments \subseteq SUBSET Needs
    /\ None \notin Tokens /\ Error \notin Tokens /\ Silent \notin Tokens /\ Error # Silent
    /\ None # Error /\ None # Silent
<1>1. {Due, MaxTok, MaxDisturb} \subseteq Nat \ {0} /\ Refused \subseteq Needs /\ FileOf \in [Needs -> Files]
      /\ Deployments \subseteq SUBSET Needs
  BY ConstantsAssumption
<1>2. None \notin Tokens /\ Error \notin Tokens /\ Silent \notin Tokens /\ Error # Silent /\ None # Error /\ None # Silent
  BY DEF None, Error, Silent, Tokens
<1> QED BY <1>1, <1>2

LEMMA DisturbType == ASSUME disturbed \in 0 .. MaxDisturb, NEW kind, Disturb(kind) PROVE disturbed' \in 0 .. MaxDisturb
BY Constants DEF Disturb

LEMMA NoRunGood == GoodRun(NoRun) /\ NoRun.out \in [Needs -> Tokens \cup {Error, Silent}]
BY Constants DEF NoRun, GoodRun, RunType, Consistent

\* One run changes.
LEMMA OneRun ==
    ASSUME RunsOK, NEW r \in Runs, NEW x, GoodRun(x), run' = [run EXCEPT ![r] = x]
    PROVE  RunsOK'
BY DEF RunsOK, GoodRun

\* The fields of a run.
LEMMA Fields ==
    ASSUME IInv, NEW r \in Runs
    PROVE  /\ run[r].todo \subseteq Needs /\ run[r].need \subseteq Needs
           /\ run[r].new \in Tokens \cup {None} /\ run[r].clean \in BOOLEAN
           /\ run[r].wanted \subseteq Files /\ run[r].orphans \subseteq Files
           /\ run[r].out \in [Needs -> Tokens \cup {Error, Silent}]
           /\ run[r] \in RunType /\ GoodRun(run[r]) /\ RunsOK
BY DEF IInv, OrphansLast, TypeOK, RunType, GoodRun, RunsOK, Consistent

\* One answer of a run is set.
LEMMA OneAnswer ==
    ASSUME IInv, NEW r \in Runs, NEW n, NEW a \in Tokens \cup {Error, Silent}
    PROVE  [run[r].out EXCEPT ![n] = a] \in [Needs -> Tokens \cup {Error, Silent}]
BY Fields

LEMMA InitIInv == Init => IInv
<1> SUFFICES ASSUME Init PROVE IInv
  OBVIOUS
<1>1. Unrecorded \in Entry /\ NoFile \in [tok : Tokens \cup {None}, age : 0 .. Due] /\ 0 \in 0 .. MaxDisturb
  BY Constants DEF Unrecorded, Entry, NoFile
<1>2. run \in [Runs -> RunType] /\ \A r \in Runs : Consistent(run[r])
  BY NoRunGood DEF Init, GoodRun
<1>3. TypeOK
  BY <1>1, <1>2, Constants DEF Init, TypeOK, Consistent
<1> QED BY <1>2, <1>3 DEF Init, IInv, FilesHold, OrphansLast, Consistent

\* A step that changes one run, and perhaps db and disturbed.
LEMMA RunStep ==
    ASSUME IInv, NEW r \in Runs, NEW x, GoodRun(x), run' = [run EXCEPT ![r] = x],
           mem' \in [Needs -> Entry], disk' \in [Needs -> Entry],
           db' \in [Files -> Tokens \cup {None}], file' \in [Files -> [tok : Tokens \cup {None}, age : 0 .. Due]],
           sat' \subseteq Needs, held' \in [Needs -> Tokens \cup {None}], UNCHANGED declared,
           disturbed' \in 0 .. MaxDisturb
    PROVE  TypeOK' /\ OrphansLast'
<1>1. RunsOK'
  BY OneRun, Fields
<1> QED BY <1>1 DEF IInv, TypeOK, RunsOK, Consistent, OrphansLast
----------------------------------------------------------------------------
(* What starts a run.                                                      *)

LEMMA StartsRun ==
    ASSUME TypeOK, NEW r \in Runs, NEW kind \in {"request", "sweep", "rotate"}, NEW e \in SUBSET Needs, Starts(r, kind, e)
    PROVE  \E x : GoodRun(x) /\ run' = [run EXCEPT ![r] = x]
<1> DEFINE x == [NoRun EXCEPT !.pc = "entries", !.kind = kind, !.todo = e]
<1>1. GoodRun(x)
  BY Constants DEF GoodRun, RunType, Consistent, NoRun
<1> QED BY <1>1 DEF Starts

LEMMA StartingType ==
    ASSUME IInv, NEW r \in Runs, Collect(r) \/ \E n \in Needs : Request(r, n)
    PROVE  IInv'
<1>1. TypeOK /\ UNCHANGED <<db, file, declared, sat, held, disturbed>>
  BY DEF IInv, Collect, Sweep, Rotate, Request, consVars
<1>2. mem' \in [Needs -> Entry] /\ disk' \in [Needs -> Entry]
  <2>1. mem \in [Needs -> Entry] /\ disk \in [Needs -> Entry]
    BY DEF IInv, TypeOK
  <2>2. Unrecorded \in Entry /\ Asked \in Entry
    BY Constants DEF Entry, Unrecorded, Asked
  <2>3. CASE Sweep(r)
    BY <2>1, <2>2, <2>3 DEF Sweep
  <2>4. CASE Rotate(r)
    BY <2>1, <2>4 DEF Rotate, provVars
  <2>5. ASSUME NEW n \in Needs, Request(r, n) PROVE mem' \in [Needs -> Entry] /\ disk' \in [Needs -> Entry]
    BY <2>1, <2>2, <2>5 DEF Request
  <2> QED BY <2>3, <2>4, <2>5 DEF Collect
<1>3. \E kind \in {"request", "sweep", "rotate"}, e \in SUBSET Needs : Starts(r, kind, e)
  <2>1. \A m : Recorded(m) \in SUBSET Needs
    BY DEF Recorded
  <2>2. CASE Sweep(r)
    <3>1. PICK e : e = Recorded(disk')
      OBVIOUS
    <3> QED BY <2>1, <2>2, <3>1 DEF Sweep
  <2>3. CASE Rotate(r)
    BY <2>1, <2>3 DEF Rotate
  <2>4. ASSUME NEW n \in Needs, Request(r, n) PROVE \E e \in SUBSET Needs : Starts(r, "request", e)
    <3>1. PICK e : e = Recorded(mem')
      OBVIOUS
    <3> QED BY <2>1, <2>4, <3>1 DEF Request
  <2> QED BY <2>2, <2>3, <2>4 DEF Collect
<1>4. PICK x : GoodRun(x) /\ run' = [run EXCEPT ![r] = x]
  BY <1>1, <1>3, StartsRun
<1>5. TypeOK' /\ OrphansLast'
  BY <1>1, <1>2, <1>4, RunStep DEF TypeOK
<1> QED BY <1>1, <1>5 DEF IInv, FilesHold
----------------------------------------------------------------------------
(* The handler.                                                            *)

\* The steps that change nothing but the run.
Thinks(r) ==
    \/ \E n \in Needs : Refuses(r, n) \/ Reuses(r, n) \/ Replaces(r, n)
    \/ Collects(r) \/ Spoiled(r)

LEMMA ThinksType == ASSUME IInv, NEW r \in Runs, Thinks(r) PROVE IInv'
<1>1. TypeOK /\ UNCHANGED <<mem, disk, db, file, declared, sat, held, disturbed>>
  BY DEF IInv, Thinks, Refuses, Reuses, Replaces, Collects, Spoiled, provVars, consVars
<1> DEFINE x == run[r]
<1>2. /\ x.todo \subseteq Needs /\ x.need \subseteq Needs /\ x.wanted \subseteq Files /\ x.orphans \subseteq Files
      /\ x.out \in [Needs -> Tokens \cup {Error, Silent}] /\ GoodRun(x)
  BY <1>1, Fields
<1> HIDE DEF x
<1>3. \E y : GoodRun(y) /\ run' = [run EXCEPT ![r] = y]
  <2>1. ASSUME NEW n \in Needs, Refuses(r, n) PROVE \E y : GoodRun(y) /\ run' = [run EXCEPT ![r] = y]
    <3> DEFINE y == [x EXCEPT !.todo = @ \ {n}, !.out[n] = Error]
    <3>1. run' = [run EXCEPT ![r] = y]
      <4>1. PICK w : w = [x EXCEPT !.todo = @ \ {n}]
        OBVIOUS
      <4>2. [run EXCEPT ![r].todo = @ \ {n}] = [run EXCEPT ![r] = w]
        BY <1>1, <4>1 DEF x, TypeOK
      <4>3. run' = [[run EXCEPT ![r] = w] EXCEPT ![r].out[n] = Error]
        BY <2>1, <4>2 DEF Refuses
      <4>4. run' = [run EXCEPT ![r] = [w EXCEPT !.out[n] = Error]]
        BY <1>1, <4>3 DEF TypeOK
      <4>5. y = [w EXCEPT !.out[n] = Error]
        BY <4>1
      <4> QED BY <4>4, <4>5
    <3>2. GoodRun(y)
      BY <1>2 DEF GoodRun, RunType, Consistent
    <3> QED BY <3>1, <3>2
  <2>2. ASSUME NEW n \in Needs, Reuses(r, n) PROVE \E y : GoodRun(y) /\ run' = [run EXCEPT ![r] = y]
    <3>1. PICK t : t = file[FileOf[n]].tok
      OBVIOUS
    <3>2. t \in Tokens /\ FileOf[n] \in Files
      BY <2>2, <3>1, Constants DEF Reuses, Fresh, IInv, FilesHold
    <3> DEFINE y == [x EXCEPT !.todo = @ \ {n}, !.wanted = @ \cup {FileOf[n]}, !.out[n] = t]
    <3>3. run' = [run EXCEPT ![r] = y]
      <4>1. run' = [run EXCEPT ![r].todo = @ \ {n}, ![r].wanted = @ \cup {FileOf[n]}, ![r].out[n] = t]
        BY <2>2, <3>1 DEF Reuses
      <4>2. PICK w : w = [x EXCEPT !.todo = @ \ {n}, !.wanted = @ \cup {FileOf[n]}]
        OBVIOUS
      <4>3. [run EXCEPT ![r].todo = @ \ {n}, ![r].wanted = @ \cup {FileOf[n]}] = [run EXCEPT ![r] = w]
        BY <1>1, <4>2 DEF x, TypeOK
      <4>4. run' = [[run EXCEPT ![r] = w] EXCEPT ![r].out[n] = t]
        BY <4>1, <4>3
      <4>5. run' = [run EXCEPT ![r] = [w EXCEPT !.out[n] = t]]
        BY <1>1, <4>4 DEF TypeOK
      <4>6. y = [w EXCEPT !.out[n] = t]
        BY <4>2
      <4> QED BY <4>5, <4>6
    <3>4. GoodRun(y)
      <4>1. x.pc = "entries"
        BY <2>2 DEF Reuses, x
      <4>2. x.orphans = {} /\ x.need = {} /\ x.new = None
        BY <1>2, <4>1 DEF GoodRun, Consistent
      <4> QED BY <1>2, <3>2, <4>1, <4>2 DEF GoodRun, RunType, Consistent
    <3> QED BY <3>3, <3>4
  <2>3. ASSUME NEW n \in Needs, Replaces(r, n) PROVE \E y : GoodRun(y) /\ run' = [run EXCEPT ![r] = y]
    <3>1. FileOf[n] \in Files
      BY Constants
    <3> DEFINE y == [x EXCEPT !.todo = @ \ {n}, !.wanted = @ \cup {FileOf[n]}, !.need = {n}, !.pc = "revoke"]
    <3>2. run' = [run EXCEPT ![r] = y]
      BY <1>1, <2>3 DEF Replaces, x, TypeOK
    <3>3. GoodRun(y)
      <4>1. x.pc = "entries"
        BY <2>3 DEF Replaces, x
      <4>2. x.orphans = {} /\ x.new = None
        BY <1>2, <4>1 DEF GoodRun, Consistent
      <4> QED BY <1>2, <3>1, <4>1, <4>2 DEF GoodRun, RunType, Consistent
    <3> QED BY <3>2, <3>3
  <2>4. ASSUME Collects(r) PROVE \E y : GoodRun(y) /\ run' = [run EXCEPT ![r] = y]
    <3>1. PICK O : O = {f \in Files \ x.wanted : file[f] # NoFile}
      OBVIOUS
    <3> DEFINE y == [x EXCEPT !.pc = "collect", !.orphans = O]
    <3>2. run' = [run EXCEPT ![r] = y]
      BY <1>1, <2>4, <3>1 DEF Collects, x, TypeOK
    <3>3. O \subseteq Files \ x.wanted
      BY <3>1
    <3>4. x.pc = "entries"
      BY <2>4 DEF Collects, x
    <3>5. GoodRun(y)
      BY <1>2, <3>3, <3>4 DEF GoodRun, RunType, Consistent
    <3> QED BY <3>2, <3>5
  <2>5. ASSUME Spoiled(r) PROVE \E y : GoodRun(y) /\ run' = [run EXCEPT ![r] = y]
    BY <2>5, NoRunGood DEF Spoiled
  <2> QED BY <2>1, <2>2, <2>3, <2>4, <2>5 DEF Thinks
<1>4. PICK y : GoodRun(y) /\ run' = [run EXCEPT ![r] = y]
  BY <1>3
<1>5. TypeOK' /\ OrphansLast'
  BY <1>1, <1>4, RunStep DEF TypeOK
<1> QED BY <1>1, <1>5 DEF IInv, FilesHold

\* The need a run is at.
LEMMA AtNeed ==
    ASSUME IInv, NEW r \in Runs, run[r].pc \in {"revoke", "generate", "save"}
    PROVE  At(r) \in Needs /\ AtFile(r) \in Files
<1>1. run[r].need # {} /\ run[r].need \subseteq Needs
  BY Fields DEF IInv, TypeOK
<1>2. At(r) \in Needs
  BY <1>1 DEF At
<1> QED BY <1>2, Constants DEF AtFile

\* The steps that touch Forgejo's database: a token is revoked or issued.
LEMMA ForgejoType ==
    ASSUME IInv, NEW r \in Runs, Revokes(r) \/ Generates(r) \/ GenerateFails(r) \/ RevokesOrphan(r)
    PROVE  IInv'
<1> DEFINE x == run[r]
<1>1. /\ x.todo \subseteq Needs /\ x.need \subseteq Needs /\ x.wanted \subseteq Files /\ x.orphans \subseteq Files
      /\ x.out \in [Needs -> Tokens \cup {Error, Silent}] /\ GoodRun(x)
  BY Fields
<1>2. run \in [Runs -> RunType] /\ db \in [Files -> Tokens \cup {None}] /\ disturbed \in 0 .. MaxDisturb
  BY DEF IInv, TypeOK
<1> HIDE DEF x
<1>3. UNCHANGED <<mem, disk, file, declared, sat, held>>
  BY DEF Revokes, Generates, GenerateFails, RevokesOrphan, provVars, consVars
<1>4. disturbed' \in 0 .. MaxDisturb
  BY <1>2, DisturbType DEF Revokes, Generates, GenerateFails, RevokesOrphan
<1>5. CASE Revokes(r)
  <2>1. x.pc = "revoke" /\ x.new = None /\ x.orphans = {} /\ x.need # {}
    BY <1>1, <1>5 DEF Revokes, x, GoodRun, Consistent
  <2>2. db' \in [Files -> Tokens \cup {None}]
    BY <1>2, <1>5 DEF Revokes
  <2>3. PICK b \in BOOLEAN : run' = [run EXCEPT ![r] = [x EXCEPT !.pc = "generate", !.clean = b]]
    <3>1. CASE run' = [run EXCEPT ![r].pc = "generate"]
      <4>1. run' = [run EXCEPT ![r] = [x EXCEPT !.pc = "generate", !.clean = x.clean]]
        BY <1>1, <1>2, <3>1 DEF x, RunType
      <4>2. x.clean \in BOOLEAN
        BY Fields DEF x
      <4> QED BY <4>1, <4>2
    <3>2. CASE run' = [run EXCEPT ![r].pc = "generate", ![r].clean = FALSE]
      BY <1>2, <3>2 DEF x
    <3> QED BY <1>5, <3>1, <3>2 DEF Revokes
  <2>4. GoodRun([x EXCEPT !.pc = "generate", !.clean = b])
    BY <1>1, <2>1 DEF GoodRun, RunType, Consistent
  <2>5. TypeOK' /\ OrphansLast'
    BY <1>3, <1>4, <2>2, <2>3, <2>4, RunStep DEF IInv, TypeOK
  <2> QED BY <1>3, <2>5 DEF IInv, FilesHold
<1>6. CASE Generates(r)
  <2>1. x.pc = "generate" /\ x.orphans = {} /\ x.need # {}
    BY <1>1, <1>6 DEF Generates, x, GoodRun, Consistent
  <2>2. PICK t \in Tokens : db' = [db EXCEPT ![AtFile(r)] = t] /\ run' = [run EXCEPT ![r].pc = "save", ![r].new = t]
    BY <1>6 DEF Generates
  <2>3. db' \in [Files -> Tokens \cup {None}]
    BY <1>2, <2>2
  <2>4. run' = [run EXCEPT ![r] = [x EXCEPT !.pc = "save", !.new = t]]
    BY <1>2, <2>2 DEF x
  <2>5. GoodRun([x EXCEPT !.pc = "save", !.new = t])
    BY <1>1, <2>1, Constants DEF GoodRun, RunType, Consistent
  <2>6. TypeOK' /\ OrphansLast'
    BY <1>3, <1>4, <2>3, <2>4, <2>5, RunStep DEF IInv, TypeOK
  <2> QED BY <1>3, <2>6 DEF IInv, FilesHold
<1>7. CASE GenerateFails(r)
  <2>1. x.pc = "generate" /\ x.orphans = {} /\ x.new = None /\ UNCHANGED db
    BY <1>1, <1>7 DEF GenerateFails, x, GoodRun, Consistent
  <2> DEFINE y == [x EXCEPT !.pc = "entries", !.need = {}, !.out[At(r)] = Error]
  <2>2. run' = [run EXCEPT ![r] = y]
    <3>1. PICK w : w = [x EXCEPT !.pc = "entries", !.need = {}]
      OBVIOUS
    <3>2. [run EXCEPT ![r].pc = "entries", ![r].need = {}] = [run EXCEPT ![r] = w]
      BY <1>2, <3>1 DEF x
    <3>3. PICK n : n = At(r)
      OBVIOUS
    <3>4. run' = [[run EXCEPT ![r] = w] EXCEPT ![r].out[n] = Error]
      BY <1>7, <3>2, <3>3 DEF GenerateFails
    <3>5. run' = [run EXCEPT ![r] = [w EXCEPT !.out[n] = Error]]
      BY <1>2, <3>4
    <3> QED BY <3>1, <3>3, <3>5
  <2>3. GoodRun(y)
    BY <1>1, <2>1 DEF GoodRun, RunType, Consistent
  <2>4. TypeOK' /\ OrphansLast'
    BY <1>3, <1>4, <2>1, <2>2, <2>3, RunStep DEF IInv, TypeOK
  <2> QED BY <1>3, <2>4 DEF IInv, FilesHold
<1>8. CASE RevokesOrphan(r)
  <2>1. x.pc = "collect"
    BY <1>8 DEF RevokesOrphan, x
  <2>2. db' \in [Files -> Tokens \cup {None}]
    BY <1>2, <1>8 DEF RevokesOrphan
  <2>3. PICK b \in BOOLEAN : run' = [run EXCEPT ![r] = [x EXCEPT !.pc = "remove", !.clean = b]]
    <3>1. CASE run' = [run EXCEPT ![r].pc = "remove"]
      <4>1. run' = [run EXCEPT ![r] = [x EXCEPT !.pc = "remove", !.clean = x.clean]]
        BY <1>1, <1>2, <3>1 DEF x, RunType
      <4>2. x.clean \in BOOLEAN
        BY Fields DEF x
      <4> QED BY <4>1, <4>2
    <3>2. CASE run' = [run EXCEPT ![r].pc = "remove", ![r].clean = FALSE]
      BY <1>2, <3>2 DEF x
    <3> QED BY <1>8, <3>1, <3>2 DEF RevokesOrphan
  <2>4. GoodRun([x EXCEPT !.pc = "remove", !.clean = b])
    BY <1>1, <2>1 DEF GoodRun, RunType, Consistent
  <2>5. TypeOK' /\ OrphansLast'
    BY <1>3, <1>4, <2>2, <2>3, <2>4, RunStep DEF IInv, TypeOK
  <2> QED BY <1>3, <2>5 DEF IInv, FilesHold
<1> QED BY <1>5, <1>6, <1>7, <1>8

\* The steps that touch a token file: the new token is saved, an orphan removed.
LEMMA FilesType ==
    ASSUME IInv, NEW r \in Runs, Saves(r) \/ RemovesOrphan(r)
    PROVE  IInv'
<1> DEFINE x == run[r]
<1> DEFINE Stored == [tok : Tokens \cup {None}, age : 0 .. Due]
<1>1. /\ x.todo \subseteq Needs /\ x.need \subseteq Needs /\ x.wanted \subseteq Files /\ x.orphans \subseteq Files
      /\ x.out \in [Needs -> Tokens \cup {Error, Silent}] /\ GoodRun(x)
  BY Fields
<1>2. run \in [Runs -> RunType] /\ file \in [Files -> Stored] /\ disturbed \in 0 .. MaxDisturb
  BY DEF IInv, TypeOK
<1> HIDE DEF x
<1>3. UNCHANGED <<mem, disk, db, declared, sat, held>>
  BY DEF Saves, RemovesOrphan, provVars, consVars
<1>4. disturbed' \in 0 .. MaxDisturb
  BY <1>2, DisturbType DEF Saves, RemovesOrphan
<1>5. CASE Saves(r)
  <2>1. x.pc = "save" /\ x.orphans = {} /\ x.new \in Tokens
    BY <1>1, <1>5, Fields DEF Saves, x, GoodRun, Consistent
  <2>2. PICK t : t = x.new
    OBVIOUS
  <2>3. file' \in [Files -> Stored] /\ FilesHold'
    <3>1. PICK e : e = [tok |-> t, age |-> 0]
      OBVIOUS
    <3>2. e \in Stored /\ e.tok \in Tokens
      BY <2>1, <2>2, <3>1, Constants
    <3>3. file' = [file EXCEPT ![AtFile(r)] = e] \/ UNCHANGED file
      BY <1>5, <2>2, <3>1 DEF Saves, x
    <3>4. AtFile(r) \in Files
      BY <2>1, AtNeed DEF x
    <3> QED BY <1>2, <3>2, <3>3, <3>4 DEF IInv, FilesHold
  <2> DEFINE y == [x EXCEPT !.pc = "entries", !.need = {}, !.new = None, !.out[At(r)] = t]
  <2>4. run' = [run EXCEPT ![r] = y]
    <3>1. PICK w : w = [x EXCEPT !.pc = "entries", !.need = {}, !.new = None]
      OBVIOUS
    <3>2. [run EXCEPT ![r].pc = "entries", ![r].need = {}, ![r].new = None] = [run EXCEPT ![r] = w]
      BY <1>2, <3>1 DEF x
    <3>3. PICK n : n = At(r)
      OBVIOUS
    <3>4. run' = [[run EXCEPT ![r] = w] EXCEPT ![r].out[n] = t]
      BY <1>5, <2>2, <3>2, <3>3 DEF Saves, x
    <3>5. run' = [run EXCEPT ![r] = [w EXCEPT !.out[n] = t]]
      BY <1>2, <3>4
    <3> QED BY <3>1, <3>3, <3>5
  <2>5. GoodRun(y)
    BY <1>1, <2>1, <2>2, Constants DEF GoodRun, RunType, Consistent
  <2>6. TypeOK' /\ OrphansLast'
    BY <1>3, <1>4, <2>3, <2>4, <2>5, RunStep DEF IInv, TypeOK
  <2> QED BY <2>3, <2>6 DEF IInv
<1>6. CASE RemovesOrphan(r)
  <2>1. x.pc = "remove"
    BY <1>6 DEF RemovesOrphan, x
  <2>2. file' \in [Files -> Stored] /\ FilesHold'
    <3>1. NoFile \in Stored
      BY Constants DEF NoFile
    <3>2. file' = [file EXCEPT ![Orphan(r)] = NoFile] \/ UNCHANGED file
      BY <1>6 DEF RemovesOrphan
    <3> QED BY <1>2, <3>1, <3>2 DEF IInv, FilesHold
  <2>3. PICK f : run' = [run EXCEPT ![r] = [x EXCEPT !.pc = "collect", !.orphans = @ \ {f}]]
    BY <1>2, <1>6 DEF RemovesOrphan, x
  <2>4. GoodRun([x EXCEPT !.pc = "collect", !.orphans = @ \ {f}])
    BY <1>1, <2>1 DEF GoodRun, RunType, Consistent
  <2>5. TypeOK' /\ OrphansLast'
    BY <1>3, <1>4, <2>2, <2>3, <2>4, RunStep DEF IInv, TypeOK
  <2> QED BY <2>2, <2>5 DEF IInv
<1> QED BY <1>5, <1>6
----------------------------------------------------------------------------
(* The answers, and the environment.                                       *)

LEMMA AnswersType == ASSUME IInv, NEW r \in Runs, Answers(r) PROVE IInv'
<1>1. UNCHANGED <<db, file, declared, sat, held, disturbed>>
  BY DEF Answers, consVars
<1>2. mem' \in [Needs -> Entry] /\ disk' \in [Needs -> Entry]
  <2>1. mem \in [Needs -> Entry] /\ disk \in [Needs -> Entry]
    BY DEF IInv, TypeOK
  <2>2. Updated(mem, run[r].out) \in [Needs -> Entry]
    BY <2>1, Constants DEF Updated, Entry
  <2> QED BY <2>1, <2>2 DEF Answers, provVars
<1>3. \E x : GoodRun(x) /\ run' = [run EXCEPT ![r] = x]
  <2>1. PICK o : o = run[r].out
    OBVIOUS
  <2>2. o \in [Needs -> Tokens \cup {Error, Silent}]
    BY <2>1, Fields
  <2>3. GoodRun([NoRun EXCEPT !.pc = "callback", !.out = o])
    BY <2>2, Constants DEF GoodRun, RunType, Consistent, NoRun
  <2> QED BY <2>1, <2>3, NoRunGood DEF Answers
<1>4. PICK x : GoodRun(x) /\ run' = [run EXCEPT ![r] = x]
  BY <1>3
<1>5. TypeOK' /\ OrphansLast'
  BY <1>1, <1>2, <1>4, RunStep DEF IInv, TypeOK
<1> QED BY <1>1, <1>5 DEF IInv, FilesHold

\* A callback leaves the answers that have not been sent.
LEMMA SentRun ==
    ASSUME IInv, NEW r \in Runs, NEW n \in Needs, run[r].pc = "callback", Sent(r, n)
    PROVE  \E x : GoodRun(x) /\ run' = [run EXCEPT ![r] = x]
<1>1. PICK o : o = [run[r].out EXCEPT ![n] = Silent]
  OBVIOUS
<1>2. o \in [Needs -> Tokens \cup {Error, Silent}]
  BY <1>1, OneAnswer
<1>3. GoodRun([run[r] EXCEPT !.out = o])
  <2>1. GoodRun(run[r])
    BY Fields
  <2> QED BY <1>2, <2>1 DEF GoodRun, RunType, Consistent
<1>4. run' = [run EXCEPT ![r] = NoRun] \/ run' = [run EXCEPT ![r] = [run[r] EXCEPT !.out = o]]
  BY <1>1 DEF Sent, IInv, TypeOK
<1> QED BY <1>3, <1>4, NoRunGood

LEMMA CallbackType ==
    ASSUME IInv, NEW r \in Runs, NEW n \in Needs, Deliver(r, n) \/ Lose(r, n)
    PROVE  IInv'
<1>1. UNCHANGED <<mem, disk, db, file, declared>> /\ Sent(r, n) /\ run[r].pc = "callback" /\ run[r].out[n] # Silent
  BY DEF Deliver, Lose, provVars, consVars
<1>2. disturbed' \in 0 .. MaxDisturb
  BY DisturbType DEF Deliver, Lose, IInv, TypeOK
<1>3. sat' \subseteq Needs /\ held' \in [Needs -> Tokens \cup {None}]
  <2>1. PICK a : a = IF run[r].out[n] = Error THEN None ELSE run[r].out[n]
    OBVIOUS
  <2>2. a \in Tokens \cup {None}
    BY <1>1, <2>1, Fields
  <2>3. UNCHANGED held \/ held' = [held EXCEPT ![n] = a]
    BY <2>1 DEF Deliver, Lose, consVars
  <2>4. held' \in [Needs -> Tokens \cup {None}]
    BY <2>2, <2>3 DEF IInv, TypeOK
  <2> QED BY <2>4 DEF Deliver, Lose, consVars, IInv, TypeOK
<1>4. PICK x : GoodRun(x) /\ run' = [run EXCEPT ![r] = x]
  BY <1>1, SentRun
<1>5. TypeOK' /\ OrphansLast'
  BY <1>1, <1>2, <1>3, <1>4, RunStep DEF IInv, TypeOK
<1> QED BY <1>1, <1>5 DEF IInv, FilesHold

LEMMA EnvironmentType ==
    ASSUME IInv, Crash \/ Tick \/ \E n \in Needs : Withdraw(n) \/ Forget(n)
    PROVE  IInv'
<1>1. CASE Crash
  <2>1. RunsOK'
    BY <1>1, NoRunGood DEF Crash, RunsOK, GoodRun
  <2>2. disturbed' \in 0 .. MaxDisturb
    BY <1>1, DisturbType DEF Crash, IInv, TypeOK
  <2>3. TypeOK' /\ OrphansLast'
    BY <1>1, <2>1, <2>2 DEF Crash, consVars, IInv, TypeOK, RunsOK, Consistent, OrphansLast
  <2> QED BY <1>1, <2>3 DEF Crash, IInv, FilesHold
<1>2. ASSUME NEW n \in Needs, Withdraw(n) \/ Forget(n) PROVE IInv'
  <2>1. disturbed' \in 0 .. MaxDisturb
    BY <1>2, DisturbType DEF Withdraw, Forget, IInv, TypeOK
  <2> QED BY <1>2, <2>1 DEF Withdraw, Forget, provVars, IInv, TypeOK, FilesHold, OrphansLast
<1>3. CASE Tick
  <2> DEFINE Stored == [tok : Tokens \cup {None}, age : 0 .. Due]
  <2>1. file \in [Files -> Stored] /\ mem \in [Needs -> Entry] /\ disk \in [Needs -> Entry]
    BY DEF IInv, TypeOK
  <2>2. \A m \in [Needs -> Entry] : Older(m) \in [Needs -> Entry]
    BY Constants DEF Older, Entry
  <2>3. ASSUME NEW f \in Files PROVE file'[f] \in Stored /\ (file'[f] # NoFile => file'[f].tok \in Tokens)
    <3>1. file[f] \in Stored /\ (file[f] # NoFile => file[f].tok \in Tokens)
      BY <2>1 DEF IInv, FilesHold
    <3>2. file'[f] = IF file[f] # NoFile /\ file[f].age < Due THEN [file[f] EXCEPT !.age = @ + 1] ELSE file[f]
      BY <1>3 DEF Tick
    <3>3. CASE file[f] # NoFile /\ file[f].age < Due
      <4>1. [file[f] EXCEPT !.age = @ + 1] = [tok |-> file[f].tok, age |-> file[f].age + 1]
        BY <3>1
      <4>2. file[f].age + 1 \in 0 .. Due
        BY <3>1, <3>3, Constants
      <4> QED BY <3>1, <3>2, <3>3, <4>1, <4>2
    <3> QED BY <3>1, <3>2, <3>3
  <2>4. file' \in [Files -> Stored] /\ FilesHold'
    <3>1. file' = [f \in Files |-> file'[f]]
      BY <1>3 DEF Tick
    <3> QED BY <2>3, <3>1 DEF FilesHold
  <2> QED BY <1>3, <2>1, <2>2, <2>4 DEF Tick, consVars, IInv, TypeOK, OrphansLast
<1> QED BY <1>1, <1>2, <1>3

LEMMA NextIInv == IInv /\ [Next]_vars => IInv'
<1> SUFFICES ASSUME IInv, [Next]_vars PROVE IInv'
  OBVIOUS
<1>1. CASE UNCHANGED vars
  BY <1>1 DEF vars, provVars, consVars, IInv, TypeOK, FilesHold, OrphansLast
<1>2. ASSUME NEW r \in Runs, Works(r) PROVE IInv'
  BY <1>2, ThinksType, ForgejoType, FilesType, AnswersType, CallbackType DEF Works, Thinks
<1> QED BY <1>1, <1>2, StartingType, CallbackType, EnvironmentType DEF Next

\* The type invariant, for any needs, files, number of concurrent runs and
\* bounds: a run of the forgejo handler works on a need exactly while it
\* replaces that need's token, and whatever fails or crashes, garbageCollect is
\* never about to revoke and remove a file the same run has answered with.
THEOREM TypeCorrect == Spec => []TypeOK
<1>1. IInv => TypeOK
  BY DEF IInv
<1> QED BY <1>1, InitIInv, NextIInv, PTL DEF Spec
----------------------------------------------------------------------------
(* Whose a token is.                                                       *)

\* t is in a place that the name f has: Forgejo's database, the token file, a
\* consumer's file, an answer, or a run that is about to save it.
Belongs(t, f) ==
    \/ t = db[f] \/ t = file[f].tok
    \/ \E n \in Needs : FileOf[n] = f /\ (t = held[n] \/ \E r \in Runs : t = run[r].out[n])
    \/ \E r \in Runs : run[r].pc = "save" /\ AtFile(r) = f /\ t = run[r].new

\* No token has two names.
Apart == \A t \in Tokens, f, g \in Files : Belongs(t, f) /\ Belongs(t, g) => f = g

\* Nothing is made for a need that is refused.
RefusedInv ==
    \A n \in Refused : held[n] = None /\ \A r \in Runs : n \notin run[r].need /\ run[r].out[n] \notin Tokens

TokenInv == Apart /\ RefusedInv

\* Every token is where one of its own name was before.
FilesMoved ==
    \A f \in Files : /\ db'[f] \in Tokens => Belongs(db'[f], f)
                     /\ file'[f].tok \in Tokens => Belongs(file'[f].tok, f)
HeldMoved == \A n \in Needs : held'[n] \in Tokens => Belongs(held'[n], FileOf[n])
OutMoved == \A n \in Needs, s \in Runs : run'[s].out[n] \in Tokens => Belongs(run'[s].out[n], FileOf[n])
SaveMoved ==
    \A s \in Runs : run'[s].pc = "save" => run[s].pc = "save" /\ run'[s].need = run[s].need /\ run'[s].new = run[s].new
Moved == FilesMoved /\ HeldMoved /\ OutMoved /\ SaveMoved

\* Nothing new for a refused need.
StillRefused ==
    \A n \in Refused : held'[n] = None /\ \A r \in Runs : n \notin run'[r].need /\ run'[r].out[n] \notin Tokens

\* What a step makes of one run.
Became(r, pc, need, new, out) ==
    /\ run'[r].pc = pc /\ run'[r].need = need /\ run'[r].new = new /\ run'[r].out = out
    /\ \A s \in Runs \ {r} : run'[s] = run[s]

LEMMA MovedApart == ASSUME TokenInv, Moved, StillRefused PROVE TokenInv'
<1>1. ASSUME NEW t \in Tokens, NEW f \in Files, Belongs(t, f)' PROVE Belongs(t, f)
  <2>1. CASE t = db'[f] \/ t = file'[f].tok
    BY <2>1 DEF Moved, FilesMoved
  <2>2. ASSUME NEW n \in Needs, FileOf[n] = f, t = held'[n] PROVE Belongs(t, f)
    BY <2>2 DEF Moved, HeldMoved
  <2>3. ASSUME NEW n \in Needs, FileOf[n] = f, NEW s \in Runs, t = run'[s].out[n] PROVE Belongs(t, f)
    BY <2>3 DEF Moved, OutMoved
  <2>4. ASSUME NEW s \in Runs, run'[s].pc = "save", AtFile(s)' = f, t = run'[s].new PROVE Belongs(t, f)
    <3>1. run[s].pc = "save" /\ run'[s].need = run[s].need /\ t = run[s].new
      BY <2>4 DEF Moved, SaveMoved
    <3>2. AtFile(s) = f
      BY <2>4, <3>1 DEF AtFile, At
    <3> QED BY <3>1, <3>2 DEF Belongs
  <2> QED BY <1>1, <2>1, <2>2, <2>3, <2>4 DEF Belongs
<1>2. Apart'
  <2> SUFFICES ASSUME NEW t \in Tokens, NEW f \in Files, NEW g \in Files, Belongs(t, f)', Belongs(t, g)' PROVE f = g
    BY DEF Apart
  <2>1. Belongs(t, f) /\ Belongs(t, g)
    BY <1>1
  <2> QED BY <2>1 DEF TokenInv, Apart
<1>3. RefusedInv'
  BY DEF StillRefused, RefusedInv
<1> QED BY <1>2, <1>3 DEF TokenInv

\* What is where it is belongs there.
LEMMA InPlace ==
    /\ \A f \in Files : Belongs(db[f], f) /\ Belongs(file[f].tok, f)
    /\ \A n \in Needs : Belongs(held[n], FileOf[n])
    /\ \A n \in Needs, s \in Runs : Belongs(run[s].out[n], FileOf[n])
    /\ \A s \in Runs : run[s].pc = "save" => Belongs(run[s].new, AtFile(s))
BY DEF Belongs

LEMMA Stay ==
    /\ UNCHANGED <<db, file>> => FilesMoved
    /\ UNCHANGED held => HeldMoved
BY InPlace DEF FilesMoved, HeldMoved

\* A step that touches run r, and moves tokens to where they belong.
LEMMA RunMoves ==
    ASSUME IInv, TokenInv, NEW r \in Runs, NEW pc, NEW need, NEW new, NEW out, Became(r, pc, need, new, out),
           FilesMoved, HeldMoved, \A n \in Refused : held'[n] = None,
           \A n \in Needs : out[n] \in Tokens => n \notin Refused /\ Belongs(out[n], FileOf[n]),
           pc # "save", need \cap Refused = {}
    PROVE  TokenInv'
<1>1. OutMoved
  <2> SUFFICES ASSUME NEW n \in Needs, NEW s \in Runs, run'[s].out[n] \in Tokens PROVE Belongs(run'[s].out[n], FileOf[n])
    BY DEF OutMoved
  <2>1. CASE s = r
    BY <2>1 DEF Became
  <2>2. CASE s # r
    <3>1. run'[s] = run[s]
      BY <2>2 DEF Became
    <3> QED BY <3>1, InPlace
  <2> QED BY <2>1, <2>2
<1>2. SaveMoved
  BY DEF Became, SaveMoved
<1>3. StillRefused
  BY Constants DEF StillRefused, TokenInv, RefusedInv, Became
<1> QED BY <1>1, <1>2, <1>3, MovedApart DEF Moved

\* The fields of a run that has been replaced as a whole, and of one whose
\* answer to n was set last.
LEMMA Replaced ==
    ASSUME IInv, NEW r \in Runs, NEW y, run' = [run EXCEPT ![r] = y]
    PROVE  Became(r, y.pc, y.need, y.new, y.out)
BY DEF IInv, TypeOK, Became

LEMMA Answered ==
    ASSUME IInv, NEW r \in Runs, NEW n, NEW a, NEW w \in RunType, NEW v, v = [run EXCEPT ![r] = w], run' = [v EXCEPT ![r].out[n] = a]
    PROVE  Became(r, w.pc, w.need, w.new, [w.out EXCEPT ![n] = a])
<1>1. run' = [run EXCEPT ![r] = [w EXCEPT !.out[n] = a]]
  BY DEF IInv, TypeOK
<1>2. PICK y : y = [w EXCEPT !.out[n] = a]
  OBVIOUS
<1>3. y.pc = w.pc /\ y.need = w.need /\ y.new = w.new /\ y.out = [w.out EXCEPT ![n] = a]
  BY <1>2 DEF RunType
<1>4. Became(r, y.pc, y.need, y.new, y.out)
  BY <1>1, <1>2, Replaced
<1> QED BY <1>3, <1>4

\* What starts a run gives it no token.
LEMMA StartingTokens ==
    ASSUME IInv, TokenInv, NEW r \in Runs, Collect(r) \/ \E n \in Needs : Request(r, n)
    PROVE  TokenInv'
<1>1. UNCHANGED <<db, file, held>> /\ \E kind, e : Starts(r, kind, e)
  BY DEF Collect, Sweep, Rotate, Request, consVars
<1>2. Became(r, "entries", {}, None, NoRun.out)
  <2>1. PICK kind, e : run' = [run EXCEPT ![r] = [NoRun EXCEPT !.pc = "entries", !.kind = kind, !.todo = e]]
    BY <1>1 DEF Starts
  <2>2. PICK y : y = [NoRun EXCEPT !.pc = "entries", !.kind = kind, !.todo = e]
    OBVIOUS
  <2>3. y.pc = "entries" /\ y.need = {} /\ y.new = None /\ y.out = NoRun.out
    BY <2>2 DEF NoRun
  <2>4. Became(r, y.pc, y.need, y.new, y.out)
    BY <2>1, <2>2, Replaced
  <2> QED BY <2>3, <2>4
<1>3. \A n \in Needs : NoRun.out[n] \notin Tokens
  BY Constants DEF NoRun
<1>4. \A n \in Refused : held'[n] = None
  BY <1>1 DEF TokenInv, RefusedInv
<1> QED BY <1>1, <1>2, <1>3, <1>4, Stay, RunMoves

\* The answers of a run so far.
LEMMA Outs ==
    ASSUME IInv, TokenInv, NEW r \in Runs
    PROVE  /\ \A n \in Needs : run[r].out[n] \in Tokens => n \notin Refused /\ Belongs(run[r].out[n], FileOf[n])
           /\ run[r].need \cap Refused = {}
BY InPlace DEF TokenInv, RefusedInv

\* The handler decides on an entry, or on its orphans.
LEMMA ThinksTokens ==
    ASSUME IInv, TokenInv, NEW r \in Runs, Thinks(r) PROVE TokenInv'
<1>1. UNCHANGED <<db, file, held>>
  BY DEF Thinks, Refuses, Reuses, Replaces, Collects, Spoiled, consVars
<1>2. \A n \in Refused : held'[n] = None
  BY <1>1 DEF TokenInv, RefusedInv
<1>3. run \in [Runs -> RunType] /\ run[r] \in RunType
  BY DEF IInv, TypeOK
<1>4. ASSUME NEW n \in Needs, Refuses(r, n) PROVE TokenInv'
  <2>1. PICK w : w = [run[r] EXCEPT !.todo = @ \ {n}]
    OBVIOUS
  <2>2. PICK v : v = [run EXCEPT ![r].todo = @ \ {n}]
    OBVIOUS
  <2>3. v = [run EXCEPT ![r] = w] /\ w \in RunType
    BY <1>3, <2>1, <2>2 DEF RunType
  <2>4. run' = [v EXCEPT ![r].out[n] = Error]
    BY <1>4, <2>2 DEF Refuses
  <2>5. Became(r, "entries", run[r].need, run[r].new, [run[r].out EXCEPT ![n] = Error])
    <3>1. w.pc = "entries" /\ w.need = run[r].need /\ w.new = run[r].new /\ w.out = run[r].out
      BY <1>3, <1>4, <2>1 DEF RunType, Refuses
    <3>2. Became(r, w.pc, w.need, w.new, [w.out EXCEPT ![n] = Error])
      BY <2>3, <2>4, Answered
    <3> QED BY <3>1, <3>2
  <2>6. PICK o : o = [run[r].out EXCEPT ![n] = Error]
    OBVIOUS
  <2>7. \A m \in Needs : o[m] \in Tokens => m \notin Refused /\ Belongs(o[m], FileOf[m])
    BY <2>6, Outs, Fields, Constants
  <2> QED BY <1>1, <1>2, <2>5, <2>6, <2>7, Outs, Stay, RunMoves
<1>5. ASSUME NEW n \in Needs, Reuses(r, n) PROVE TokenInv'
  <2>1. PICK w : w = [run[r] EXCEPT !.todo = @ \ {n}, !.wanted = @ \cup {FileOf[n]}]
    OBVIOUS
  <2>2. PICK v : v = [run EXCEPT ![r].todo = @ \ {n}, ![r].wanted = @ \cup {FileOf[n]}]
    OBVIOUS
  <2>3. v = [run EXCEPT ![r] = w] /\ w \in RunType
    <3>1. v = [run EXCEPT ![r] = w]
      BY <1>3, <2>1, <2>2
    <3>2. FileOf[n] \in Files
      BY Constants
    <3>3. w \in RunType
      BY <1>3, <2>1, <3>2 DEF RunType
    <3> QED BY <3>1, <3>3
  <2>4. PICK t : t = file[FileOf[n]].tok
    OBVIOUS
  <2>5. run' = [v EXCEPT ![r].out[n] = t]
    BY <1>5, <2>2, <2>4 DEF Reuses
  <2>6. Became(r, "entries", run[r].need, run[r].new, [run[r].out EXCEPT ![n] = t])
    <3>1. w.pc = "entries" /\ w.need = run[r].need /\ w.new = run[r].new /\ w.out = run[r].out
      BY <1>3, <1>5, <2>1 DEF RunType, Reuses
    <3>2. Became(r, w.pc, w.need, w.new, [w.out EXCEPT ![n] = t])
      BY <2>3, <2>5, Answered
    <3> QED BY <3>1, <3>2
  <2>7. PICK o : o = [run[r].out EXCEPT ![n] = t]
    OBVIOUS
  <2>8. n \notin Refused /\ Belongs(t, FileOf[n])
    BY <1>5, <2>4, InPlace, Constants DEF Reuses
  <2>9. \A m \in Needs : o[m] \in Tokens => m \notin Refused /\ Belongs(o[m], FileOf[m])
    BY <2>7, <2>8, Outs, Fields
  <2> QED BY <1>1, <1>2, <2>6, <2>7, <2>9, Outs, Stay, RunMoves
<1>6. ASSUME NEW n \in Needs, Replaces(r, n) PROVE TokenInv'
  <2>1. Became(r, "revoke", {n}, run[r].new, run[r].out)
    BY <1>3, <1>6 DEF Replaces, RunType, Became
  <2>2. n \notin Refused
    BY <1>6 DEF Replaces
  <2> QED BY <1>1, <1>2, <2>1, <2>2, Outs, Stay, RunMoves
<1>7. CASE Collects(r)
  <2>1. Became(r, "collect", run[r].need, run[r].new, run[r].out)
    BY <1>3, <1>7 DEF Collects, RunType, Became
  <2> QED BY <1>1, <1>2, <2>1, Outs, Stay, RunMoves
<1>8. CASE Spoiled(r)
  <2>1. Became(r, "idle", {}, None, NoRun.out)
    <3>1. run' = [run EXCEPT ![r] = NoRun] /\ NoRun.pc = "idle" /\ NoRun.need = {} /\ NoRun.new = None
      BY <1>8 DEF Spoiled, NoRun
    <3> QED BY <3>1, Replaced
  <2>2. \A n \in Needs : NoRun.out[n] \notin Tokens
    BY Constants DEF NoRun
  <2> QED BY <1>1, <1>2, <2>1, <2>2, Stay, RunMoves
<1> QED BY <1>4, <1>5, <1>6, <1>7, <1>8 DEF Thinks

\* A token is revoked, refused by Forgejo, or its file removed.
LEMMA TakesTokens ==
    ASSUME IInv, TokenInv, NEW r \in Runs, Revokes(r) \/ GenerateFails(r) \/ RevokesOrphan(r) \/ RemovesOrphan(r)
    PROVE  TokenInv'
<1>1. UNCHANGED held /\ HeldMoved /\ \A n \in Refused : held'[n] = None
  <2>1. UNCHANGED held
    BY DEF Revokes, GenerateFails, RevokesOrphan, RemovesOrphan, consVars
  <2> QED BY <2>1, Stay DEF TokenInv, RefusedInv
<1>2. run \in [Runs -> RunType] /\ run[r] \in RunType /\ db \in [Files -> Tokens \cup {None}]
      /\ file \in [Files -> [tok : Tokens \cup {None}, age : 0 .. Due]]
  BY DEF IInv, TypeOK
<1>3. FilesMoved
  <2>1. \A f \in Files : db'[f] \in {db[f], None}
    BY <1>2 DEF Revokes, GenerateFails, RevokesOrphan, RemovesOrphan
  <2>2. \A f \in Files : file'[f] \in {file[f], NoFile}
    BY <1>2 DEF Revokes, GenerateFails, RevokesOrphan, RemovesOrphan
  <2>3. NoFile.tok \notin Tokens
    BY Constants DEF NoFile
  <2> QED BY <2>1, <2>2, <2>3, InPlace, Constants DEF FilesMoved
<1>4. CASE Revokes(r)
  <2>1. Became(r, "generate", run[r].need, run[r].new, run[r].out)
    <3>1. CASE run' = [run EXCEPT ![r].pc = "generate"]
      BY <1>2, <3>1 DEF RunType, Became
    <3>2. CASE run' = [run EXCEPT ![r].pc = "generate", ![r].clean = FALSE]
      BY <1>2, <3>2 DEF RunType, Became
    <3> QED BY <1>4, <3>1, <3>2 DEF Revokes
  <2> QED BY <1>1, <1>3, <2>1, Outs, RunMoves
<1>5. CASE RevokesOrphan(r)
  <2>1. Became(r, "remove", run[r].need, run[r].new, run[r].out)
    <3>1. CASE run' = [run EXCEPT ![r].pc = "remove"]
      BY <1>2, <3>1 DEF RunType, Became
    <3>2. CASE run' = [run EXCEPT ![r].pc = "remove", ![r].clean = FALSE]
      BY <1>2, <3>2 DEF RunType, Became
    <3> QED BY <1>5, <3>1, <3>2 DEF RevokesOrphan
  <2> QED BY <1>1, <1>3, <2>1, Outs, RunMoves
<1>6. CASE RemovesOrphan(r)
  <2>1. Became(r, "collect", run[r].need, run[r].new, run[r].out)
    BY <1>2, <1>6 DEF RemovesOrphan, RunType, Became
  <2> QED BY <1>1, <1>3, <2>1, Outs, RunMoves
<1>7. CASE GenerateFails(r)
  <2>1. PICK w : w = [run[r] EXCEPT !.pc = "entries", !.need = {}]
    OBVIOUS
  <2>2. PICK v : v = [run EXCEPT ![r].pc = "entries", ![r].need = {}]
    OBVIOUS
  <2>3. v = [run EXCEPT ![r] = w] /\ w \in RunType
    BY <1>2, <2>1, <2>2 DEF RunType
  <2>4. PICK n : n = At(r)
    OBVIOUS
  <2>5. run' = [v EXCEPT ![r].out[n] = Error]
    BY <1>7, <2>2, <2>4 DEF GenerateFails
  <2>6. Became(r, w.pc, w.need, w.new, [w.out EXCEPT ![n] = Error])
    BY <2>3, <2>5, Answered
  <2>7. w.pc = "entries" /\ w.need = {} /\ w.out = run[r].out
    BY <1>2, <2>1 DEF RunType
  <2>8. PICK o : o = [run[r].out EXCEPT ![n] = Error]
    OBVIOUS
  <2>9. \A m \in Needs : o[m] \in Tokens => m \notin Refused /\ Belongs(o[m], FileOf[m])
    BY <2>8, Outs, Fields, Constants
  <2> QED BY <1>1, <1>3, <2>6, <2>7, <2>8, <2>9, RunMoves
<1> QED BY <1>4, <1>5, <1>6, <1>7

\* The new token is saved under the name it was made for, and answered.
LEMMA SavesTokens ==
    ASSUME IInv, TokenInv, NEW r \in Runs, Saves(r) PROVE TokenInv'
<1>1. UNCHANGED <<db, held>> /\ run[r].pc = "save" /\ run \in [Runs -> RunType] /\ run[r] \in RunType
      /\ file \in [Files -> [tok : Tokens \cup {None}, age : 0 .. Due]]
  BY DEF Saves, consVars, IInv, TypeOK
<1>2. \A n \in Refused : held'[n] = None
  BY <1>1 DEF TokenInv, RefusedInv
<1>3. PICK t, n : t = run[r].new /\ n = At(r)
  OBVIOUS
<1>4. n \in Needs /\ n \notin Refused /\ AtFile(r) = FileOf[n] /\ FileOf[n] \in Files /\ Belongs(t, FileOf[n])
  <2>1. run[r].need # {} /\ n \in run[r].need /\ n \in Needs
    BY <1>1, <1>3, AtNeed, Fields DEF IInv, TypeOK, At
  <2> QED BY <1>1, <1>3, <2>1, InPlace, Constants DEF AtFile, TokenInv, RefusedInv
<1>5. FilesMoved
  <2>1. PICK e : e = [tok |-> t, age |-> 0]
    OBVIOUS
  <2>2. file' = [file EXCEPT ![FileOf[n]] = e] \/ UNCHANGED file
    BY <1>3, <1>4, <2>1 DEF Saves
  <2>3. ASSUME NEW f \in Files, file'[f].tok \in Tokens PROVE Belongs(file'[f].tok, f)
    <3>1. CASE f = FileOf[n] /\ file' = [file EXCEPT ![FileOf[n]] = e]
      <4>1. file'[f] = e /\ e.tok = t
        BY <1>1, <2>1, <3>1
      <4> QED BY <1>4, <3>1, <4>1
    <3>2. CASE file'[f] = file[f]
      BY <3>2, InPlace
    <3> QED BY <1>1, <2>2, <3>1, <3>2
  <2>4. \A f \in Files : Belongs(db'[f], f)
    BY <1>1, InPlace
  <2> QED BY <2>3, <2>4 DEF FilesMoved
<1>6. PICK w : w = [run[r] EXCEPT !.pc = "entries", !.need = {}, !.new = None]
  OBVIOUS
<1>7. PICK v : v = [run EXCEPT ![r].pc = "entries", ![r].need = {}, ![r].new = None]
  OBVIOUS
<1>8. v = [run EXCEPT ![r] = w] /\ w \in RunType
  BY <1>1, <1>6, <1>7 DEF RunType
<1>9. run' = [v EXCEPT ![r].out[n] = t]
  BY <1>3, <1>7 DEF Saves
<1>10. Became(r, w.pc, w.need, w.new, [w.out EXCEPT ![n] = t])
  BY <1>8, <1>9, Answered
<1>11. w.pc = "entries" /\ w.need = {} /\ w.out = run[r].out
  BY <1>1, <1>6 DEF RunType
<1>12. PICK o : o = [run[r].out EXCEPT ![n] = t]
  OBVIOUS
<1>13. \A m \in Needs : o[m] \in Tokens => m \notin Refused /\ Belongs(o[m], FileOf[m])
  BY <1>4, <1>12, Outs, Fields
<1> QED BY <1>1, <1>2, <1>5, <1>10, <1>11, <1>12, <1>13, Stay, RunMoves

\* A new token is nobody's yet: it belongs to the name it is made for only.
LEMMA GeneratesTokens ==
    ASSUME IInv, TokenInv, NEW r \in Runs, Generates(r) PROVE TokenInv'
<1>1. UNCHANGED <<file, held>> /\ run[r].pc = "generate" /\ run \in [Runs -> RunType] /\ db \in [Files -> Tokens \cup {None}]
  BY DEF Generates, consVars, IInv, TypeOK
<1>2. PICK t \in Tokens \ Referred : db' = [db EXCEPT ![AtFile(r)] = t] /\ run' = [run EXCEPT ![r].pc = "save", ![r].new = t]
  BY DEF Generates
<1>3. PICK h : h = AtFile(r)
  OBVIOUS
<1>4. h \in Files
  BY <1>1, <1>3, AtNeed
<1>5. ASSUME NEW f \in Files PROVE ~Belongs(t, f)
  <2>1. t # db[f] /\ t # file[f].tok
    BY <1>2 DEF Referred
  <2>2. \A n \in Needs : t # held[n]
    BY <1>2 DEF Referred
  <2>3. \A n \in Needs, s \in Runs : t # run[s].out[n]
    <3> SUFFICES ASSUME NEW n \in Needs, NEW s \in Runs PROVE run[s].out[n] \in Referred
      BY <1>2
    <3>1. run[s].out[n] \in {run[s].out[m] : m \in Needs}
      OBVIOUS
    <3>2. run[s].out[n] \in UNION {{run[x].out[m] : m \in Needs} : x \in Runs}
      BY <3>1
    <3> QED BY <3>2 DEF Referred
  <2>4. \A s \in Runs : t # run[s].new
    BY <1>2 DEF Referred
  <2> QED BY <2>1, <2>2, <2>3, <2>4 DEF Belongs
<1>6. /\ run'[r].need = run[r].need /\ run'[r].out = run[r].out /\ run'[r].new = t
      /\ \A s \in Runs \ {r} : run'[s] = run[s]
  BY <1>1, <1>2 DEF RunType
<1>7. ASSUME NEW x \in Tokens, NEW f \in Files, Belongs(x, f)' PROVE Belongs(x, f) \/ (x = t /\ f = h)
  <2>1. CASE x = db'[f]
    <3>1. db'[f] = db[f] \/ (f = h /\ db'[f] = t)
      BY <1>1, <1>2, <1>3
    <3> QED BY <2>1, <3>1, InPlace
  <2>2. CASE x = file'[f].tok
    BY <1>1, <2>2, InPlace
  <2>3. ASSUME NEW n \in Needs, FileOf[n] = f, x = held'[n] PROVE Belongs(x, f)
    BY <1>1, <2>3, InPlace
  <2>4. ASSUME NEW n \in Needs, FileOf[n] = f, NEW s \in Runs, x = run'[s].out[n] PROVE Belongs(x, f)
    <3>1. x = run[s].out[n]
      BY <1>6, <2>4
    <3> QED BY <2>4, <3>1, InPlace
  <2>5. ASSUME NEW s \in Runs, run'[s].pc = "save", AtFile(s)' = f, x = run'[s].new PROVE Belongs(x, f) \/ (x = t /\ f = h)
    <3>1. AtFile(s) = f
      BY <1>6, <2>5 DEF AtFile, At
    <3>2. CASE s = r
      BY <1>3, <1>6, <2>5, <3>1, <3>2
    <3>3. CASE s # r
      BY <1>6, <2>5, <3>1, <3>3, InPlace
    <3> QED BY <3>2, <3>3
  <2> QED BY <1>7, <2>1, <2>2, <2>3, <2>4, <2>5 DEF Belongs
<1>8. Apart'
  <2> SUFFICES ASSUME NEW x \in Tokens, NEW f \in Files, NEW g \in Files, Belongs(x, f)', Belongs(x, g)' PROVE f = g
    BY DEF Apart
  <2>1. Belongs(x, f) \/ (x = t /\ f = h)
    BY <1>7
  <2>2. Belongs(x, g) \/ (x = t /\ g = h)
    BY <1>7
  <2> QED BY <1>5, <2>1, <2>2 DEF TokenInv, Apart
<1>9. RefusedInv'
  <2>1. ASSUME NEW n \in Refused PROVE held'[n] = None /\ \A s \in Runs : n \notin run'[s].need /\ run'[s].out[n] \notin Tokens
    <3>1. held[n] = None /\ \A s \in Runs : n \notin run[s].need /\ run[s].out[n] \notin Tokens
      BY DEF TokenInv, RefusedInv
    <3> QED BY <1>1, <1>6, <3>1
  <2> QED BY <2>1 DEF RefusedInv
<1> QED BY <1>8, <1>9 DEF TokenInv

\* The answers go to the callbacks as they are.
LEMMA AnswersTokens ==
    ASSUME IInv, TokenInv, NEW r \in Runs, Answers(r) PROVE TokenInv'
<1>1. UNCHANGED <<db, file, held>>
  BY DEF Answers, consVars
<1>2. \A n \in Refused : held'[n] = None
  BY <1>1 DEF TokenInv, RefusedInv
<1>3. \A n \in Needs : NoRun.out[n] \notin Tokens
  BY Constants DEF NoRun
<1>4. Became(r, "idle", {}, None, NoRun.out) \/ Became(r, "callback", {}, None, run[r].out)
  <2>1. CASE run' = [run EXCEPT ![r] = NoRun]
    <3>1. NoRun.pc = "idle" /\ NoRun.need = {} /\ NoRun.new = None
      BY DEF NoRun
    <3> QED BY <2>1, <3>1, Replaced
  <2>2. CASE run' = [run EXCEPT ![r] = [NoRun EXCEPT !.pc = "callback", !.out = run[r].out]]
    <3>1. PICK y : y = [NoRun EXCEPT !.pc = "callback", !.out = run[r].out]
      OBVIOUS
    <3>2. y.pc = "callback" /\ y.need = {} /\ y.new = None /\ y.out = run[r].out
      BY <3>1 DEF NoRun
    <3>3. Became(r, y.pc, y.need, y.new, y.out)
      BY <2>2, <3>1, Replaced
    <3> QED BY <3>2, <3>3
  <2> QED BY <2>1, <2>2 DEF Answers
<1>5. CASE Became(r, "idle", {}, None, NoRun.out)
  BY <1>1, <1>2, <1>3, <1>5, Stay, RunMoves
<1>6. CASE Became(r, "callback", {}, None, run[r].out)
  BY <1>1, <1>2, <1>6, Outs, Stay, RunMoves
<1> QED BY <1>4, <1>5, <1>6

\* A callback brings a consumer the answer to its own need, or is lost.
LEMMA CallbackTokens ==
    ASSUME IInv, TokenInv, NEW r \in Runs, NEW n \in Needs, Deliver(r, n) \/ Lose(r, n)
    PROVE  TokenInv'
<1>1. UNCHANGED <<db, file>> /\ Sent(r, n) /\ run[r].pc = "callback" /\ run[r].out[n] # Silent
      /\ run \in [Runs -> RunType] /\ run[r] \in RunType /\ held \in [Needs -> Tokens \cup {None}]
  BY DEF Deliver, Lose, provVars, consVars, IInv, TypeOK
<1>2. PICK a : a = IF run[r].out[n] = Error THEN None ELSE run[r].out[n]
  OBVIOUS
<1>3. UNCHANGED held \/ held' = [held EXCEPT ![n] = a]
  BY <1>2 DEF Deliver, Lose, consVars
<1>4. a = None \/ (a \in Tokens /\ n \notin Refused /\ Belongs(a, FileOf[n]))
  <2>1. run[r].out[n] \in Tokens \cup {Error, Silent}
    BY Fields
  <2> QED BY <1>1, <1>2, <2>1, Outs
<1>5. HeldMoved
  <2>1. ASSUME NEW m \in Needs, held'[m] \in Tokens PROVE Belongs(held'[m], FileOf[m])
    <3>1. CASE held'[m] = held[m]
      BY <3>1, InPlace
    <3>2. CASE m = n /\ held'[m] = a
      BY <1>4, <2>1, <3>2, Constants
    <3> QED BY <1>1, <1>3, <3>1, <3>2
  <2> QED BY <2>1 DEF HeldMoved
<1>6. \A m \in Refused : held'[m] = None
  <2>1. \A m \in Refused : held[m] = None /\ m \in Needs
    BY Constants DEF TokenInv, RefusedInv
  <2> QED BY <1>1, <1>3, <1>4, <2>1
<1>7. PICK o : o = [run[r].out EXCEPT ![n] = Silent]
  OBVIOUS
<1>8. \A m \in Needs : o[m] \in Tokens => m \notin Refused /\ Belongs(o[m], FileOf[m])
  BY <1>7, Outs, Fields, Constants
<1>9. \A m \in Needs : NoRun.out[m] \notin Tokens
  BY Constants DEF NoRun
<1>10. Became(r, "idle", {}, None, NoRun.out) \/ Became(r, "callback", run[r].need, run[r].new, o)
  <2>1. CASE run' = [run EXCEPT ![r] = NoRun]
    <3>1. NoRun.pc = "idle" /\ NoRun.need = {} /\ NoRun.new = None
      BY DEF NoRun
    <3> QED BY <2>1, <3>1, Replaced
  <2>2. CASE run' = [run EXCEPT ![r] = [run[r] EXCEPT !.out = o]]
    <3>1. PICK y : y = [run[r] EXCEPT !.out = o]
      OBVIOUS
    <3>2. y.pc = "callback" /\ y.need = run[r].need /\ y.new = run[r].new /\ y.out = o
      BY <1>1, <3>1 DEF RunType
    <3>3. Became(r, y.pc, y.need, y.new, y.out)
      BY <2>2, <3>1, Replaced
    <3> QED BY <3>2, <3>3
  <2>3. run' = [run EXCEPT ![r] = NoRun] \/ run' = [run EXCEPT ![r] = [run[r] EXCEPT !.out = o]]
    BY <1>1, <1>7 DEF Sent
  <2> QED BY <2>1, <2>2, <2>3
<1>11. CASE Became(r, "idle", {}, None, NoRun.out)
  BY <1>1, <1>5, <1>6, <1>9, <1>11, Stay, RunMoves
<1>12. CASE Became(r, "callback", run[r].need, run[r].new, o)
  BY <1>1, <1>5, <1>6, <1>8, <1>12, Outs, Stay, RunMoves
<1> QED BY <1>10, <1>11, <1>12

\* Nothing else brings a token anywhere.
LEMMA EnvironmentTokens ==
    ASSUME IInv, TokenInv, Crash \/ Tick \/ (\E n \in Needs : Withdraw(n) \/ Forget(n)) \/ UNCHANGED vars
    PROVE  TokenInv'
<1>1. UNCHANGED <<db, held>> /\ \A f \in Files : file'[f].tok = file[f].tok
  <2>1. UNCHANGED <<db, held>>
    BY DEF Crash, Tick, Withdraw, Forget, vars, consVars
  <2>2. file \in [Files -> [tok : Tokens \cup {None}, age : 0 .. Due]]
    BY DEF IInv, TypeOK
  <2>3. CASE Tick
    <3> SUFFICES ASSUME NEW f \in Files PROVE file'[f].tok = file[f].tok
      BY <2>1
    <3>1. PICK e : e = file[f]
      OBVIOUS
    <3>2. e \in [tok : Tokens \cup {None}, age : 0 .. Due] /\ (file'[f] = [e EXCEPT !.age = @ + 1] \/ file'[f] = e)
      BY <2>2, <2>3, <3>1 DEF Tick
    <3> QED BY <3>1, <3>2
  <2>4. CASE UNCHANGED file
    BY <2>1, <2>4
  <2> QED BY <2>3, <2>4 DEF Crash, Withdraw, Forget, vars
<1>2. FilesMoved /\ HeldMoved
  BY <1>1, InPlace DEF FilesMoved, HeldMoved
<1>3. CASE UNCHANGED run
  <2>1. OutMoved /\ SaveMoved
    BY <1>3, InPlace DEF OutMoved, SaveMoved
  <2>2. StillRefused
    BY <1>1, <1>3 DEF StillRefused, TokenInv, RefusedInv
  <2> QED BY <1>2, <2>1, <2>2, MovedApart DEF Moved
<1>4. CASE Crash
  <2>1. \A s \in Runs : run'[s] = NoRun
    BY <1>4 DEF Crash
  <2>2. NoRun.pc = "idle" /\ NoRun.need = {} /\ \A n \in Needs : NoRun.out[n] \notin Tokens
    BY Constants DEF NoRun
  <2>3. OutMoved /\ SaveMoved
    BY <2>1, <2>2 DEF OutMoved, SaveMoved
  <2>4. StillRefused
    BY <1>1, <2>1, <2>2, Constants DEF StillRefused, TokenInv, RefusedInv
  <2> QED BY <1>2, <2>3, <2>4, MovedApart DEF Moved
<1> QED BY <1>3, <1>4 DEF Tick, Withdraw, Forget, vars

LEMMA NextTokens == IInv /\ TokenInv /\ [Next]_vars => TokenInv'
<1> SUFFICES ASSUME IInv, TokenInv, [Next]_vars PROVE TokenInv'
  OBVIOUS
<1>1. ASSUME NEW r \in Runs, Works(r) PROVE TokenInv'
  BY <1>1, ThinksTokens, TakesTokens, SavesTokens, GeneratesTokens, AnswersTokens, CallbackTokens DEF Works, Thinks
<1> QED BY <1>1, StartingTokens, CallbackTokens, EnvironmentTokens DEF Next

LEMMA InitTokens == Init => TokenInv
<1> SUFFICES ASSUME Init PROVE TokenInv
  OBVIOUS
<1>1. /\ \A r \in Runs : run[r] = NoRun
      /\ \A f \in Files : db[f] = None /\ file[f] = NoFile
      /\ \A n \in Needs : held[n] = None
  BY DEF Init
<1>2. NoRun.pc = "idle" /\ NoRun.need = {} /\ NoFile.tok = None /\ \A n \in Needs : NoRun.out[n] \notin Tokens
  BY Constants DEF NoRun, NoFile
<1>3. \A t \in Tokens, f \in Files : ~Belongs(t, f)
  BY <1>1, <1>2, Constants DEF Belongs
<1> QED BY <1>1, <1>2, <1>3, Constants DEF TokenInv, Apart, RefusedInv

\* For any needs, files and number of concurrent runs: a consumer holds no token
\* of another origin or access, and none that it was refused, whatever is lost,
\* reused, retried or crashes (processEntries answers each entry from its own
\* file; gitTokenHandler writes what it is answered).
THEOREM TokensOwn == Spec => []OwnToken
<1>1. IInv /\ TokenInv => OwnToken
  <2> SUFFICES ASSUME IInv, TokenInv, NEW n \in Needs, held[n] # None
               PROVE  n \notin Refused /\ \A f \in Files \ {FileOf[n]} : held[n] \notin KeptFor(f)
    BY DEF OwnToken
  <2>1. n \notin Refused
    BY DEF TokenInv, RefusedInv
  <2>2. held[n] \in Tokens /\ FileOf[n] \in Files /\ Belongs(held[n], FileOf[n])
    BY InPlace, Constants DEF IInv, TypeOK
  <2>3. ASSUME NEW f \in Files, held[n] \in KeptFor(f) PROVE f = FileOf[n]
    <3>1. Belongs(held[n], f)
      BY <2>3, InPlace DEF KeptFor
    <3> QED BY <2>2, <3>1 DEF TokenInv, Apart
  <2> QED BY <2>1, <2>3
<1> QED BY <1>1, InitIInv, NextIInv, InitTokens, NextTokens, PTL DEF Spec
=============================================================================
