------------------------- MODULE FulfillmentProofs -------------------------
(***************************************************************************)
(* Theorems about Fulfillment, for any set of needs, units and callbacks.  *)
(*                                                                         *)
(* SatisfiedIsEarned speaks of the file only and is not inductive: a       *)
(* satisfied flag travels through the scripts' copies, the callbacks'      *)
(* views and force-nag's temporary file before it comes back to the file.  *)
(* CopiesEarned says the same of every copy, and of the flag a callback    *)
(* carries between its handler and its write.                              *)
(***************************************************************************)
EXTENDS Fulfillment, TLAPS

\* Every need that copy s calls satisfied is in d.
EarnedIn(s, d) == \A n \in Needs : Claims(s, n) => n \in d

\* The strengthening of SatisfiedIsEarned to every copy of the state file.
CopiesEarned ==
    /\ EarnedIn(file, delivered)
    /\ \A r \in Runners : EarnedIn(local[r], delivered) /\ EarnedIn(rview[r], delivered)
    /\ \A c \in Callbacks : EarnedIn(cview[c], delivered)
    /\ \A c \in Callbacks : cpc[c] = "read" /\ csat[c] => cneed[c] \in delivered
    /\ EarnedIn(nview, delivered)

IInv == TypeOK /\ CopiesEarned

----------------------------------------------------------------------------
(* Facts about the operators on copies.                                    *)

\* The empty state is a state and claims nothing.
LEMMA EmptyFacts ==
    /\ Missing \in Entry /\ EmptyState \in States
    /\ \A d : EarnedIn(EmptyState, d)
    /\ \A n \in Needs : Claims(Torn, n) = FALSE
<1>1. Missing \in Entry
  BY DEF Missing, Entry, Hashes
<1>2. EmptyState \in States
  BY <1>1 DEF EmptyState, States
<1>3. \A n \in Needs : EmptyState[n] = Missing
  BY DEF EmptyState
<1>4. EmptyState # Torn
  BY <1>2, SentinelAssumption
<1>5. \A d : EarnedIn(EmptyState, d)
  BY <1>3, <1>4 DEF EarnedIn, Claims, EntryOf, Missing
<1>6. \A n \in Needs : Claims(Torn, n) = FALSE
  BY DEF Claims, EntryOf, Missing
<1> QED BY <1>1, <1>2, <1>5, <1>6

\* Loading the file keeps its type and its claims.
LEMMA LoadedFacts ==
    ASSUME NEW f \in Contents \cup {NoFile}, NEW d, EarnedIn(f, d)
    PROVE  Loaded(f) \in Contents /\ EarnedIn(Loaded(f), d)
BY EmptyFacts DEF Loaded, Contents

\* The record of a need is a record.
LEMMA EntryOfType ==
    ASSUME NEW s \in Contents, NEW n \in Needs
    PROVE  EntryOf(s, n) \in Entry
BY EmptyFacts DEF EntryOf, Contents, States

\* Replacing one record by one that claims only what d holds.
LEMMA WithEntryFacts ==
    ASSUME NEW s \in Contents, NEW n \in Needs, NEW e \in Entry, NEW d,
           EarnedIn(s, d), e.satisfied = "yes" => n \in d
    PROVE  WithEntry(s, n, e) \in Contents /\ EarnedIn(WithEntry(s, n, e), d)
<1>1. CASE s = Torn
  BY <1>1 DEF WithEntry
<1>2. CASE s # Torn
  <2>1. s \in States
    BY <1>2 DEF Contents
  <2>2. WithEntry(s, n, e) = [s EXCEPT ![n] = e]
    BY <1>2 DEF WithEntry
  <2>3. [s EXCEPT ![n] = e] \in States
    BY <2>1 DEF States
  <2>4. [s EXCEPT ![n] = e] # Torn
    BY <2>3, SentinelAssumption
  <2>5. ASSUME NEW m \in Needs, [s EXCEPT ![n] = e][m].satisfied = "yes"
        PROVE  m \in d
    <3>1. CASE m = n
      BY <2>1, <2>5, <3>1 DEF States
    <3>2. CASE m # n
      <4>1. s[m].satisfied = "yes"
        BY <2>1, <2>5, <3>2 DEF States
      <4>2. s # NoFile
        BY <2>1, SentinelAssumption
      <4> QED BY <4>1, <4>2, <1>2 DEF EarnedIn, Claims, EntryOf
    <3> QED BY <3>1, <3>2
  <2> QED BY <2>2, <2>3, <2>4, <2>5 DEF Contents, EarnedIn, Claims, EntryOf
<1> QED BY <1>1, <1>2

\* Resetting a flag adds no claim.
LEMMA UnsatisfiedFacts ==
    ASSUME NEW s \in Contents, NEW n \in Needs, NEW d, EarnedIn(s, d)
    PROVE  Unsatisfied(s, n) \in Contents /\ EarnedIn(Unsatisfied(s, n), d)
<1> DEFINE e == [EntryOf(s, n) EXCEPT !.satisfied = "no"]
<1>1. e \in Entry /\ e.satisfied = "no"
  BY EntryOfType DEF Entry
<1> QED BY <1>1, WithEntryFacts DEF Unsatisfied

\* Recording a request adds no claim.
LEMMA SoughtFacts ==
    ASSUME NEW s \in Contents, NEW n \in Needs, NEW h \in Hashes, NEW d, EarnedIn(s, d)
    PROVE  Sought(s, n, h) \in Contents /\ EarnedIn(Sought(s, n, h), d)
<1> DEFINE e == [satisfied |-> "no", last_sought |-> "recent", request_hash |-> h]
<1>1. e \in Entry /\ e.satisfied = "no"
  BY DEF Entry
<1> QED BY <1>1, WithEntryFacts DEF Sought

\* A merge claims no more than its two arguments.
LEMMA MergeFacts ==
    ASSUME NEW s \in States, NEW t \in States, NEW d, EarnedIn(s, d), EarnedIn(t, d)
    PROVE  Merge(s, t) \in States /\ EarnedIn(Merge(s, t), d)
<1> DEFINE m == Merge(s, t)
<1>1. ASSUME NEW n \in Needs
      PROVE  m[n] \in Entry /\ (m[n].satisfied = "yes" => s[n].satisfied = "yes" \/ t[n].satisfied = "yes")
  <2>1. s[n] \in Entry /\ t[n] \in Entry
    BY DEF States
  <2>2. CASE s[n].satisfied = "absent"
    <3>1. m[n] = Missing
      BY <2>2 DEF Merge
    <3> QED BY <3>1, EmptyFacts DEF Missing
  <2>3. CASE s[n].satisfied # "absent"
    <3>1. m[n] = [s[n] EXCEPT !.satisfied = IF t[n].satisfied = "yes" THEN "yes" ELSE @]
      BY <2>3 DEF Merge
    <3> QED BY <2>1, <3>1 DEF Entry
  <2> QED BY <2>2, <2>3
<1>2. m \in States
  BY <1>1 DEF Merge, States
<1>3. s # Torn /\ t # Torn /\ m # Torn /\ s # NoFile /\ t # NoFile
  BY <1>2, SentinelAssumption
<1> QED BY <1>1, <1>2, <1>3 DEF EarnedIn, Claims, EntryOf

\* Decoding the file in Go adds no claim.
LEMMA DecodedFacts ==
    ASSUME NEW f \in Contents \cup {NoFile}, NEW d, EarnedIn(f, d)
    PROVE  Decoded(f) \in States /\ EarnedIn(Decoded(f), d)
<1>1. CASE f \in {NoFile, Torn}
  BY <1>1, EmptyFacts DEF Decoded
<1>2. CASE f \notin {NoFile, Torn}
  <2>1. f \in States
    BY <1>2 DEF Contents
  <2> DEFINE g == Decoded(f)
  <2>2. ASSUME NEW n \in Needs
        PROVE  g[n] \in Entry /\ (g[n].satisfied = "yes" => f[n].satisfied = "yes")
    <3>1. f[n] \in Entry
      BY <2>1 DEF States
    <3>2. CASE f[n].satisfied = "absent"
      <4>1. g[n] = Missing
        BY <1>2, <3>2 DEF Decoded
      <4> QED BY <4>1, EmptyFacts DEF Missing
    <3>3. CASE f[n].satisfied # "absent"
      <4>1. g[n] = [satisfied |-> f[n].satisfied,
                    last_sought |-> IF f[n].last_sought = "null" THEN "due" ELSE f[n].last_sought,
                    request_hash |-> NoReq]
        BY <1>2, <3>3 DEF Decoded
      <4> QED BY <3>1, <4>1 DEF Entry, Hashes
    <3> QED BY <3>2, <3>3
  <2>3. g \in States
    BY <1>2, <2>2 DEF Decoded, States
  <2>4. g # Torn
    BY <2>3, SentinelAssumption
  <2> QED BY <1>2, <2>2, <2>3, <2>4 DEF EarnedIn, Claims, EntryOf
<1> QED BY <1>1, <1>2

\* A callback's update claims its need only when its handler succeeded.
LEMMA SetSatisfiedFacts ==
    ASSUME NEW s \in States, NEW n \in Needs, NEW ok \in BOOLEAN, NEW d,
           EarnedIn(s, d), ok => n \in d
    PROVE  SetSatisfied(s, n, ok) \in States /\ EarnedIn(SetSatisfied(s, n, ok), d)
<1> DEFINE e == [satisfied    |-> IF ok THEN "yes" ELSE "no",
                 last_sought  |-> IF s[n].satisfied = "absent" THEN "due" ELSE s[n].last_sought,
                 request_hash |-> NoReq]
<1>1. s[n] \in Entry /\ s # Torn
  BY SentinelAssumption DEF States
<1>2. e \in Entry
  BY <1>1 DEF Entry, Hashes
<1>3. e.satisfied = "yes" => n \in d
  OBVIOUS
<1>4. SetSatisfied(s, n, ok) = [s EXCEPT ![n] = e]
  BY DEF SetSatisfied
<1>5. [s EXCEPT ![n] = e] \in States
  BY <1>2 DEF States
<1>6. SetSatisfied(s, n, ok) = WithEntry(s, n, e)
  BY <1>1, <1>4 DEF WithEntry
<1> HIDE DEF e
<1>7. s \in Contents
  BY DEF Contents
<1> QED BY <1>2, <1>3, <1>4, <1>5, <1>6, <1>7, WithEntryFacts

\* Dropping records adds no claim.
LEMMA WithoutFacts ==
    ASSUME NEW s \in Contents, NEW sel, NEW d, EarnedIn(s, d)
    PROVE  Without(s, sel) \in Contents /\ EarnedIn(Without(s, sel), d)
<1>1. CASE s = Torn
  BY <1>1 DEF Without
<1>2. CASE s # Torn
  <2> DEFINE w == Without(s, sel)
  <2>1. s \in States
    BY <1>2 DEF Contents
  <2>2. \A n \in Needs : w[n] \in Entry /\ (w[n].satisfied = "yes" => s[n].satisfied = "yes")
    BY <1>2, <2>1, EmptyFacts DEF Without, States, Missing
  <2>3. w \in States
    BY <1>2, <2>2 DEF Without, States
  <2>4. w # Torn /\ s # NoFile
    BY <2>1, <2>3, SentinelAssumption
  <2> QED BY <1>2, <2>2, <2>3, <2>4 DEF Contents, EarnedIn, Claims, EntryOf
<1> QED BY <1>1, <1>2

\* Time adds no claim.
LEMMA AgedFacts ==
    ASSUME NEW s \in Contents, NEW n \in Needs, NEW d, EarnedIn(s, d)
    PROVE  /\ Aged(s, n) \in Contents /\ EarnedIn(Aged(s, n), d)
           /\ s \in States => Aged(s, n) \in States
<1>1. CASE ~RecentIn(s, n)
  BY <1>1 DEF Aged
<1>2. CASE RecentIn(s, n)
  <2>1. s # Torn
    BY <1>2 DEF RecentIn, EntryOf, Missing
  <2>2. s \in States /\ s[n] \in Entry
    BY <2>1 DEF Contents, States
  <2> DEFINE e == [s[n] EXCEPT !.last_sought = "due"]
  <2>3. Aged(s, n) = WithEntry(s, n, e)
    BY <1>2, <2>1, <2>2 DEF Aged, WithEntry, States
  <2>4. e \in Entry /\ e.satisfied = s[n].satisfied
    BY <2>2 DEF Entry
  <2>5. e.satisfied = "yes" => n \in d
    <3>1. s # NoFile
      BY <2>2, SentinelAssumption
    <3> QED BY <2>1, <2>4, <3>1 DEF EarnedIn, Claims, EntryOf
  <2> HIDE DEF e
  <2>6. WithEntry(s, n, e) \in States
    BY <2>1, <2>2, <2>4 DEF WithEntry, States
  <2> QED BY <2>3, <2>4, <2>5, <2>6, WithEntryFacts
<1> QED BY <1>1, <1>2

----------------------------------------------------------------------------
(* The invariant.                                                          *)

\* The initial state satisfies the invariant.
LEMMA InitHolds == Init => IInv
<1> SUFFICES ASSUME Init PROVE IInv
  OBVIOUS
<1>1. TypeOK
  BY EmptyFacts, ConstantsAssumption
     DEF Init, TypeOK, Contents, Hashes, Declared, BootUnits, WorkingPcs
<1>2. EarnedIn(NoFile, delivered)
  BY DEF EarnedIn, Claims
<1>3. CopiesEarned
  BY <1>2, EmptyFacts DEF Init, CopiesEarned
<1> QED BY <1>1, <1>3 DEF IInv

\* Claims that were earned stay earned: delivered only grows.
LEMMA EarnedGrows ==
    ASSUME NEW s, NEW d, NEW e, d \subseteq e, EarnedIn(s, d)
    PROVE  EarnedIn(s, e)
BY DEF EarnedIn

\* The disturbance counter stays within its bound.
LEMMA DisturbFacts ==
    ASSUME TypeOK, NEW kind, Disturb(kind)
    PROVE  disturbed' \in 0 .. MaxDisturb
BY ConstantsAssumption DEF TypeOK, Disturb

\* Steps of a script that leave every copy but its own alone.
LEMMA ScriptLocalSteps ==
    ASSUME IInv, NEW r \in Runners, NEW n \in Needs,
           \/ Start(r) \/ CheckFails(r, n) \/ FreshRead(r) \/ Skip(r, n) \/ Seek(r, n)
           \/ CallFails(r) \/ Recorded(r) \/ Accepted(r)
    PROVE  IInv'
<1> USE DEF IInv
<1>0. Loaded(file) \in Contents /\ EarnedIn(Loaded(file), delivered)
  BY LoadedFacts DEF TypeOK, CopiesEarned
<1>1. CASE Start(r)
  <2>1. TypeOK'
    BY <1>0, <1>1 DEF TypeOK, Start, cbVars, nagVars, provVars, Declared, WorkingPcs
  <2>2. CopiesEarned'
    BY <1>0, <1>1 DEF TypeOK, CopiesEarned, Start, cbVars, nagVars, provVars
  <2> QED BY <2>1, <2>2
<1>2. CASE CheckFails(r, n)
  <2>0. Unsatisfied(local[r], n) \in Contents /\ EarnedIn(Unsatisfied(local[r], n), delivered)
    BY UnsatisfiedFacts DEF TypeOK, CopiesEarned
  <2>1. TypeOK'
    BY <2>0, <1>2, ConstantsAssumption DEF TypeOK, CheckFails, cbVars, nagVars, provVars, WorkingPcs
  <2>2. CopiesEarned'
    BY <2>0, <1>2 DEF TypeOK, CopiesEarned, CheckFails, cbVars, nagVars, provVars
  <2> QED BY <2>1, <2>2
<1>3. CASE FreshRead(r)
  <2>0. cur[r] \in Needs
    BY <1>3 DEF TypeOK, FreshRead, WorkingPcs
  <2>1. Unsatisfied(Loaded(file), cur[r]) \in Contents /\ EarnedIn(Unsatisfied(Loaded(file), cur[r]), delivered)
    BY <1>0, <2>0, UnsatisfiedFacts
  <2>2. TypeOK'
    BY <2>1, <1>3 DEF TypeOK, FreshRead, cbVars, nagVars, provVars, WorkingPcs
  <2>3. CopiesEarned'
    BY <2>1, <1>3 DEF TypeOK, CopiesEarned, FreshRead, cbVars, nagVars, provVars
  <2> QED BY <2>2, <2>3
<1>4. CASE Skip(r, n)
  <2>1. TypeOK'
    BY <1>4 DEF TypeOK, Skip, cbVars, nagVars, provVars, WorkingPcs
  <2>2. CopiesEarned'
    BY <1>4 DEF CopiesEarned, Skip, cbVars, nagVars, provVars
  <2> QED BY <2>1, <2>2
<1>5. CASE Seek(r, n)
  <2>0. reqs[r][n] \in Hashes
    BY DEF TypeOK
  <2>1. Sought(local[r], n, reqs[r][n]) \in Contents /\ EarnedIn(Sought(local[r], n, reqs[r][n]), delivered)
    BY <2>0, SoughtFacts DEF TypeOK, CopiesEarned
  <2>2. TypeOK'
    BY <2>1, <1>5, ConstantsAssumption DEF TypeOK, Seek, cbVars, nagVars, provVars, WorkingPcs
  <2>3. CopiesEarned'
    BY <2>1, <1>5 DEF TypeOK, CopiesEarned, Seek, cbVars, nagVars, provVars
  <2> QED BY <2>2, <2>3
<1>6. CASE CallFails(r)
  <2>1. TypeOK'
    BY <1>6, ConstantsAssumption DEF TypeOK, CallFails, NextNeed, Disturb, cbVars, nagVars, provVars, WorkingPcs
  <2>2. CopiesEarned'
    BY <1>6 DEF CopiesEarned, CallFails, NextNeed, cbVars, nagVars, provVars
  <2> QED BY <2>1, <2>2
<1>7. CASE Recorded(r)
  <2>0. cur[r] \in Needs
    BY <1>7 DEF TypeOK, Recorded, WorkingPcs
  <2>1. TypeOK'
    BY <2>0, <1>7 DEF TypeOK, Recorded, cbVars, nagVars, WorkingPcs
  <2>2. CopiesEarned'
    BY <1>7 DEF CopiesEarned, Recorded, cbVars, nagVars
  <2> QED BY <2>1, <2>2
<1>8. CASE Accepted(r)
  <2>1. TypeOK'
    BY <1>8 DEF TypeOK, Accepted, NextNeed, cbVars, nagVars, provVars, WorkingPcs
  <2>2. CopiesEarned'
    BY <1>8 DEF CopiesEarned, Accepted, NextNeed, cbVars, nagVars, provVars
  <2> QED BY <2>1, <2>2
<1> QED BY <1>1, <1>2, <1>3, <1>4, <1>5, <1>6, <1>7, <1>8

\* A script that exits keeps the invariant, as far as its own variables go.
LEMMA ExitedSteps ==
    ASSUME IInv, NEW r \in Runners, NEW pc \in {"idle", "start"}, Exited(r, pc),
           UNCHANGED <<file, needs, cbVars, nagVars, provVars, delivered>>,
           req' \in [Needs -> Hashes], fresh' \in [Needs -> BOOLEAN],
           disturbed' \in 0 .. MaxDisturb
    PROVE  IInv'
<1>1. TypeOK'
  BY EmptyFacts, ConstantsAssumption
     DEF IInv, TypeOK, Exited, cbVars, nagVars, provVars, WorkingPcs, Contents, Hashes
<1>2. CopiesEarned'
  BY EmptyFacts DEF IInv, TypeOK, CopiesEarned, Exited, cbVars, nagVars, provVars
<1> QED BY <1>1, <1>2 DEF IInv

\* The script dies on a record without last_sought.
LEMMA AbortStep ==
    ASSUME IInv, NEW r \in Runners, NEW n \in Needs, Abort(r, n)
    PROVE  IInv'
BY ExitedSteps DEF IInv, TypeOK, Abort

\* The handler of a need has run: delivered grows, nothing else is claimed.
LEMMA HandledFacts ==
    ASSUME IInv, NEW n \in Needs, NEW ok \in BOOLEAN, Handled(n, ok)
    PROVE  /\ delivered' \in SUBSET Needs /\ delivered \subseteq delivered'
           /\ ok => n \in delivered'
           /\ fresh' \in [Needs -> BOOLEAN]
BY DEF IInv, TypeOK, Handled

\* A synchronous answer: the flag set in the local copy is earned.
LEMMA SyncStep ==
    ASSUME IInv, NEW r \in Runners, NEW ok \in BOOLEAN, SyncAnswer(r, ok)
    PROVE  IInv'
<1> DEFINE n == cur[r]
           e == [EntryOf(local[r], n) EXCEPT !.satisfied = "yes"]
<1>1. n \in Needs
  BY DEF IInv, TypeOK, SyncAnswer, WorkingPcs
<1>2. /\ delivered' \in SUBSET Needs /\ delivered \subseteq delivered'
      /\ ok => n \in delivered'
      /\ fresh' \in [Needs -> BOOLEAN]
  BY <1>1, HandledFacts DEF SyncAnswer
<1>3. local[r] \in Contents /\ EarnedIn(local[r], delivered')
  BY <1>2, EarnedGrows DEF IInv, TypeOK, CopiesEarned
<1>4. e \in Entry
  BY <1>1, <1>3, EntryOfType DEF Entry
<1>5. ok => WithEntry(local[r], n, e) \in Contents /\ EarnedIn(WithEntry(local[r], n, e), delivered')
  BY <1>1, <1>2, <1>3, <1>4, WithEntryFacts
<1>6. local' = IF ok THEN [local EXCEPT ![r] = WithEntry(local[r], n, e)] ELSE local
  BY DEF SyncAnswer
<1> HIDE DEF e
<1>7. local' \in [Runners -> Contents] /\ \A q \in Runners : EarnedIn(local'[q], delivered')
  BY <1>2, <1>3, <1>5, <1>6, EarnedGrows DEF IInv, TypeOK, CopiesEarned
<1>8. UNCHANGED disturbed \/ Disturb("failure")
  BY Zenon DEF SyncAnswer
<1>9. disturbed' \in 0 .. MaxDisturb
  BY <1>8, DisturbFacts DEF IInv, TypeOK
<1>10. /\ rpc' = [rpc EXCEPT ![r] = "scan"] /\ cur' = [cur EXCEPT ![r] = NoNeed]
       /\ got' = [got EXCEPT ![n] = reqs[r][n]]
       /\ UNCHANGED <<file, req, needs, todo, reqs, due, rview, cbVars, nagVars, owed>>
  BY Zenon DEF SyncAnswer, NextNeed
<1>11. TypeOK'
  BY <1>1, <1>2, <1>7, <1>9, <1>10 DEF IInv, TypeOK, cbVars, nagVars, WorkingPcs
<1>12. CopiesEarned'
  BY <1>2, <1>7, <1>10, EarnedGrows DEF IInv, TypeOK, CopiesEarned, cbVars, nagVars
<1> QED BY <1>11, <1>12 DEF IInv

\* The final merge is computed.
LEMMA MergeReadStep ==
    ASSUME IInv, NEW r \in Runners, MergeRead(r)
    PROVE  IInv'
<1>1. CASE Torn \in {local[r], file}
  BY <1>1, ExitedSteps DEF IInv, TypeOK, MergeRead
<1>2. CASE Torn \notin {local[r], file}
  <2>1. Loaded(file) \in Contents /\ EarnedIn(Loaded(file), delivered)
    BY LoadedFacts DEF IInv, TypeOK, CopiesEarned
  <2>2. local[r] \in States /\ Loaded(file) \in States
    BY <1>2, <2>1, EmptyFacts DEF IInv, TypeOK, Contents, Loaded
  <2>3. Merge(local[r], Loaded(file)) \in States /\ EarnedIn(Merge(local[r], Loaded(file)), delivered)
    BY <2>1, <2>2, MergeFacts DEF IInv, CopiesEarned
  <2>4. /\ rpc[r] = "scan" /\ rpc' = [rpc EXCEPT ![r] = "mtrunc"]
        /\ rview' = [rview EXCEPT ![r] = Merge(local[r], Loaded(file))]
        /\ UNCHANGED <<cur, todo, reqs, due, local>>
        /\ UNCHANGED <<file, req, fresh, needs, cbVars, nagVars, provVars, delivered, disturbed>>
    BY <1>2 DEF MergeRead
  <2>5. TypeOK'
    BY <2>3, <2>4 DEF IInv, TypeOK, cbVars, nagVars, provVars, WorkingPcs, Contents
  <2>6. CopiesEarned'
    BY <2>3, <2>4 DEF IInv, TypeOK, CopiesEarned, cbVars, nagVars, provVars
  <2> QED BY <2>5, <2>6 DEF IInv
<1> QED BY <1>1, <1>2

\* A truncated file claims nothing.
LEMMA TornEarned == ASSUME NEW d PROVE Torn \in Contents /\ EarnedIn(Torn, d)
BY EmptyFacts DEF Contents, EarnedIn

\* The script's writes put one of its copies into the file.
LEMMA ScriptWrites ==
    ASSUME IInv, NEW r \in Runners,
           FreshTruncate(r) \/ FreshWrite(r) \/ MergeTruncate(r) \/ MergeWrite(r)
    PROVE  IInv'
<1> USE EmptyFacts, TornEarned
<1>1. CASE FreshTruncate(r)
  <2>1. TypeOK'
    BY <1>1 DEF IInv, TypeOK, FreshTruncate, cbVars, nagVars, provVars, WorkingPcs
  <2>2. CopiesEarned'
    BY <1>1 DEF IInv, CopiesEarned, FreshTruncate, cbVars, nagVars, provVars
  <2> QED BY <2>1, <2>2 DEF IInv
<1>2. CASE FreshWrite(r)
  <2>1. TypeOK'
    BY <1>2 DEF IInv, TypeOK, FreshWrite, cbVars, nagVars, provVars, WorkingPcs, Contents
  <2>2. CopiesEarned'
    BY <1>2 DEF IInv, TypeOK, CopiesEarned, FreshWrite, cbVars, nagVars, provVars
  <2> QED BY <2>1, <2>2 DEF IInv
<1>3. CASE MergeTruncate(r)
  <2>1. TypeOK'
    BY <1>3 DEF IInv, TypeOK, MergeTruncate, cbVars, nagVars, provVars, WorkingPcs
  <2>2. CopiesEarned'
    BY <1>3 DEF IInv, CopiesEarned, MergeTruncate, cbVars, nagVars, provVars
  <2> QED BY <2>1, <2>2 DEF IInv
<1>4. CASE MergeWrite(r)
  <2>1. TypeOK'
    BY <1>4, ConstantsAssumption
       DEF IInv, TypeOK, MergeWrite, Exited, cbVars, nagVars, provVars, WorkingPcs, Contents, Hashes
  <2>2. CopiesEarned'
    BY <1>4 DEF IInv, TypeOK, CopiesEarned, MergeWrite, Exited, cbVars, nagVars, provVars
  <2> QED BY <2>1, <2>2 DEF IInv
<1> QED BY <1>1, <1>2, <1>3, <1>4

\* The steps of a callback.
LEMMA CallbackSteps ==
    ASSUME IInv, NEW c \in Callbacks, NEW n \in Needs, NEW ok \in BOOLEAN,
           CbArrive(c, n) \/ CbHandle(c, ok) \/ CbRead(c) \/ CbTruncate(c) \/ CbWrite(c)
    PROVE  IInv'
<1> USE EmptyFacts, TornEarned
<1>1. CASE CbArrive(c, n)
  <2>1. TypeOK'
    BY <1>1, ConstantsAssumption DEF IInv, TypeOK, CbArrive, Disturb, runVars, nagVars
  <2>2. CopiesEarned'
    BY <1>1 DEF IInv, TypeOK, CopiesEarned, CbArrive, runVars, nagVars
  <2> QED BY <2>1, <2>2 DEF IInv
<1>2. CASE CbHandle(c, ok)
  <2>1. cneed[c] \in Needs
    BY <1>2 DEF IInv, TypeOK, CbHandle
  <2>2. /\ delivered' \in SUBSET Needs /\ delivered \subseteq delivered'
        /\ ok => cneed[c] \in delivered'
        /\ fresh' \in [Needs -> BOOLEAN]
    BY <1>2, <2>1, HandledFacts DEF CbHandle
  <2>3. UNCHANGED disturbed \/ Disturb("failure")
    BY <1>2, Zenon DEF CbHandle
  <2>4. disturbed' \in 0 .. MaxDisturb
    BY <2>3, DisturbFacts DEF IInv, TypeOK
  <2>5. /\ cpc[c] = "handle" /\ cpc' = [cpc EXCEPT ![c] = "read"]
        /\ csat' = [csat EXCEPT ![c] = ok]
        /\ UNCHANGED <<file, req, needs, runVars, cneed, cview, nagVars, provVars>>
    BY <1>2, Zenon DEF CbHandle
  <2>6. TypeOK'
    BY <2>2, <2>4, <2>5 DEF IInv, TypeOK, runVars, nagVars, provVars
  <2>7. CopiesEarned'
    BY <2>2, <2>5, EarnedGrows DEF IInv, TypeOK, CopiesEarned, runVars, nagVars
  <2> QED BY <2>6, <2>7 DEF IInv
<1>3. CASE CbRead(c)
  <2> DEFINE v == SetSatisfied(Decoded(file), cneed[c], csat[c])
  <2>1. cneed[c] \in Needs /\ csat[c] \in BOOLEAN
    BY <1>3 DEF IInv, TypeOK, CbRead
  <2>2. Decoded(file) \in States /\ EarnedIn(Decoded(file), delivered)
    BY DecodedFacts DEF IInv, TypeOK, CopiesEarned
  <2>3. csat[c] => cneed[c] \in delivered
    BY <1>3 DEF IInv, CopiesEarned, CbRead
  <2>4. v \in States /\ EarnedIn(v, delivered)
    BY <2>1, <2>2, <2>3, SetSatisfiedFacts
  <2> HIDE DEF v
  <2>5. cview' = [cview EXCEPT ![c] = v]
    BY <1>3 DEF CbRead, v
  <2>6. TypeOK'
    BY <1>3, <2>4, <2>5 DEF IInv, TypeOK, CbRead, runVars, nagVars, provVars
  <2>7. CopiesEarned'
    BY <1>3, <2>4, <2>5 DEF IInv, TypeOK, CopiesEarned, CbRead, runVars, nagVars, provVars
  <2> QED BY <2>6, <2>7 DEF IInv
<1>4. CASE CbTruncate(c)
  <2>1. TypeOK'
    BY <1>4 DEF IInv, TypeOK, CbTruncate, runVars, nagVars, provVars
  <2>2. CopiesEarned'
    BY <1>4 DEF IInv, TypeOK, CopiesEarned, CbTruncate, runVars, nagVars, provVars
  <2> QED BY <2>1, <2>2 DEF IInv
<1>5. CASE CbWrite(c)
  <2>1. TypeOK'
    BY <1>5, ConstantsAssumption DEF IInv, TypeOK, CbWrite, runVars, nagVars, provVars, Contents
  <2>2. CopiesEarned'
    BY <1>5 DEF IInv, TypeOK, CopiesEarned, CbWrite, runVars, nagVars, provVars
  <2> QED BY <2>1, <2>2 DEF IInv
<1> QED BY <1>1, <1>2, <1>3, <1>4, <1>5

\* A callback that never becomes one of the daemon's.
LEMMA UndeliveredSteps ==
    ASSUME IInv, NEW n \in Needs, CbReject(n) \/ CbLost(n)
    PROVE  IInv'
<1>1. UNCHANGED disturbed \/ Disturb("loss")
  BY DEF CbReject, CbLost
<1>2. disturbed' \in 0 .. MaxDisturb
  BY <1>1, DisturbFacts DEF IInv, TypeOK
<1>3. owed' = owed \ {n} /\ UNCHANGED <<file, req, fresh, needs, runVars, cbVars, nagVars, got, delivered>>
  BY DEF CbReject, CbLost
<1>4. TypeOK'
  BY <1>2, <1>3 DEF IInv, TypeOK, runVars, cbVars, nagVars
<1>5. CopiesEarned'
  BY <1>3 DEF IInv, CopiesEarned, runVars, cbVars, nagVars
<1> QED BY <1>4, <1>5 DEF IInv

\* The steps of the force-nag handler.
LEMMA NagSteps ==
    ASSUME IInv, NEW sel \in SUBSET Needs, NagStart(sel) \/ NagWrite \/ NagRestart
    PROVE  IInv'
<1> USE EmptyFacts, TornEarned
<1>1. CASE NagStart(sel)
  <2>1. disturbed' \in 0 .. MaxDisturb
    BY <1>1, DisturbFacts DEF IInv, NagStart
  <2>2. file \in Contents /\ EarnedIn(file, delivered)
    BY <1>1 DEF IInv, TypeOK, CopiesEarned, NagStart
  <2>3. Without(file, sel) \in Contents /\ EarnedIn(Without(file, sel), delivered)
    BY <2>2, WithoutFacts
  <2>4. TypeOK'
    BY <1>1, <2>1, <2>3 DEF IInv, TypeOK, NagStart, runVars, cbVars, provVars, Contents
  <2>5. CopiesEarned'
    BY <1>1, <2>3 DEF IInv, CopiesEarned, NagStart, runVars, cbVars, provVars
  <2> QED BY <2>4, <2>5 DEF IInv
<1>2. CASE NagWrite
  <2>1. TypeOK'
    BY <1>2 DEF IInv, TypeOK, NagWrite, runVars, cbVars, provVars, Contents
  <2>2. CopiesEarned'
    BY <1>2 DEF IInv, CopiesEarned, NagWrite, runVars, cbVars, provVars
  <2> QED BY <2>1, <2>2 DEF IInv
<1>3. CASE NagRestart
  <2>1. TypeOK'
    BY <1>3, ConstantsAssumption
       DEF IInv, TypeOK, NagRestart, Exited, cbVars, provVars, WorkingPcs, Contents, Hashes
  <2>2. CopiesEarned'
    BY <1>3, ConstantsAssumption
       DEF IInv, TypeOK, CopiesEarned, NagRestart, Exited, cbVars, provVars
  <2> QED BY <2>1, <2>2 DEF IInv
<1> QED BY <1>1, <1>2, <1>3

\* A deploy.
LEMMA DeployStep ==
    ASSUME IInv, NEW rq \in [Needs -> Hashes], Deploy(rq)
    PROVE  IInv'
<1> USE EmptyFacts
<1>1. disturbed' \in 0 .. MaxDisturb
  BY DisturbFacts DEF IInv, Deploy
<1>2. req' \in [Needs -> Hashes]
  BY DEF Deploy
<1> QED BY <1>1, <1>2, ExitedSteps, ConstantsAssumption DEF IInv, TypeOK, Deploy

\* A credential decays.
LEMMA DecayStep ==
    ASSUME IInv, NEW n \in Needs, Decay(n)
    PROVE  IInv'
<1>1. disturbed' \in 0 .. MaxDisturb
  BY DisturbFacts DEF IInv, Decay
<1>2. TypeOK'
  BY <1>1 DEF IInv, TypeOK, Decay, runVars, cbVars, nagVars, provVars
<1>3. CopiesEarned'
  BY DEF IInv, CopiesEarned, Decay, runVars, cbVars, nagVars, provVars
<1> QED BY <1>2, <1>3 DEF IInv

\* Restarts of the daemon and reboots.
LEMMA RestartSteps ==
    ASSUME IInv, DaemonRestart \/ Reboot
    PROVE  IInv'
<1> USE EmptyFacts
<1>1. CASE DaemonRestart
  <2>1. disturbed' \in 0 .. MaxDisturb
    BY <1>1, DisturbFacts DEF IInv, DaemonRestart
  <2>2. TypeOK'
    BY <1>1, <2>1, ConstantsAssumption
       DEF IInv, TypeOK, DaemonRestart, DaemonLoads, Declared, runVars, nagVars, provVars
  <2>3. CopiesEarned'
    BY <1>1 DEF IInv, CopiesEarned, DaemonRestart, DaemonLoads, runVars, nagVars, provVars
  <2> QED BY <2>2, <2>3 DEF IInv
<1>2. CASE Reboot
  <2>1. disturbed' \in 0 .. MaxDisturb
    BY <1>2, DisturbFacts DEF IInv, Reboot
  <2>2. TypeOK'
    BY <1>2, <2>1, ConstantsAssumption
       DEF IInv, TypeOK, Reboot, DaemonLoads, Declared, BootUnits, provVars, WorkingPcs, Contents, Hashes
  <2>3. CopiesEarned'
    BY <1>2 DEF IInv, CopiesEarned, Reboot, DaemonLoads, provVars
  <2> QED BY <2>2, <2>3 DEF IInv
<1> QED BY <1>1, <1>2

\* Time passes.
LEMMA AgeStep ==
    ASSUME IInv, NEW n \in Needs, Age(n)
    PROVE  IInv'
<1>1. /\ \A r \in Runners : /\ Aged(local[r], n) \in Contents /\ EarnedIn(Aged(local[r], n), delivered)
                            /\ Aged(rview[r], n) \in Contents /\ EarnedIn(Aged(rview[r], n), delivered)
      /\ \A c \in Callbacks : Aged(cview[c], n) \in States /\ EarnedIn(Aged(cview[c], n), delivered)
      /\ Aged(nview, n) \in Contents /\ EarnedIn(Aged(nview, n), delivered)
  BY AgedFacts DEF IInv, TypeOK, CopiesEarned, Contents
<1>2. file' \in Contents \cup {NoFile} /\ EarnedIn(file', delivered)
  BY AgedFacts DEF IInv, TypeOK, CopiesEarned, Age, EarnedIn, Claims
<1>3. TypeOK'
  BY <1>1, <1>2 DEF IInv, TypeOK, Age, provVars
<1>4. CopiesEarned'
  BY <1>1, <1>2 DEF IInv, CopiesEarned, Age, provVars
<1> QED BY <1>3, <1>4 DEF IInv

\* Every step preserves the invariant.
LEMMA NextHolds == IInv /\ [Next]_vars => IInv'
<1> SUFFICES ASSUME IInv, [Next]_vars PROVE IInv'
  OBVIOUS
<1>1. CASE UNCHANGED vars
  <2>1. TypeOK'
    BY <1>1 DEF IInv, TypeOK, vars, runVars, cbVars, nagVars, provVars
  <2>2. CopiesEarned'
    BY <1>1 DEF IInv, CopiesEarned, vars, runVars, cbVars, nagVars, provVars
  <2> QED BY <2>1, <2>2 DEF IInv
<1>2. ASSUME NEW r \in Runners, Start(r) \/ ScriptStep(r) \/ CallFails(r) \/ SyncAnswer(r, FALSE) PROVE IInv'
  <2>1. \A n \in Needs : CheckFails(r, n) \/ Skip(r, n) \/ Seek(r, n) => IInv'
    BY ScriptLocalSteps
  <2>2. \A n \in Needs : Abort(r, n) => IInv'
    BY AbortStep
  <2>3. Start(r) => IInv'
    <3>1. CASE Needs = {}
      BY <3>1 DEF Start, Declared
    <3>2. CASE Needs # {}
      BY <3>2, ScriptLocalSteps
    <3> QED BY <3>1, <3>2
  <2>4. FreshRead(r) \/ CallFails(r) \/ Recorded(r) \/ Accepted(r) => IInv'
    <3>1. CASE cur[r] \in Needs
      BY <3>1, ScriptLocalSteps
    <3>2. CASE cur[r] \notin Needs
      BY <3>2 DEF IInv, TypeOK, WorkingPcs, FreshRead, CallFails, Recorded, Accepted
    <3> QED BY <3>1, <3>2
  <2>5. SyncAnswer(r, TRUE) \/ SyncAnswer(r, FALSE) => IInv'
    BY SyncStep
  <2> QED BY <1>2, <2>1, <2>2, <2>3, <2>4, <2>5, MergeReadStep, ScriptWrites DEF ScriptStep
<1>3. ASSUME NEW c \in Callbacks,
             CallbackStep(c) \/ (\E n \in Needs : CbArrive(c, n)) \/ CbHandle(c, FALSE)
      PROVE  IInv'
  <2>1. \A n \in Needs : CbArrive(c, n) => IInv'
    BY CallbackSteps
  <2>2. CallbackStep(c) \/ CbHandle(c, FALSE) => IInv'
    <3>1. CASE cneed[c] \in Needs
      BY <3>1, CallbackSteps DEF CallbackStep
    <3>2. CASE cneed[c] \notin Needs
      BY <3>2 DEF IInv, TypeOK, CallbackStep, CbHandle, CbRead, CbTruncate, CbWrite
    <3> QED BY <3>1, <3>2
  <2> QED BY <1>3, <2>1, <2>2
<1>4. ASSUME NEW n \in Needs, CbReject(n) \/ CbLost(n) \/ Age(n) \/ Decay(n) PROVE IInv'
  BY <1>4, UndeliveredSteps, AgeStep, DecayStep
<1>5. CASE NagWrite \/ NagRestart \/ \E sel \in SUBSET Needs : NagStart(sel)
  BY <1>5, NagSteps
<1>6. ASSUME NEW rq \in [Needs -> Hashes], Deploy(rq) PROVE IInv'
  BY <1>6, DeployStep
<1>7. CASE DaemonRestart \/ Reboot
  BY <1>7, RestartSteps
<1> QED BY <1>1, <1>2, <1>3, <1>4, <1>5, <1>6, <1>7 DEF Next, Environment

\* Type correctness: every copy of the state file is always a well-formed
\* state or an empty file, and scripts and callbacks hold a need exactly while
\* they work on one.
THEOREM TypeCorrect == Spec => []TypeOK
<1>1. IInv => TypeOK
  BY DEF IInv
<1> QED BY <1>1, InitHolds, NextHolds, PTL DEF Spec

\* No interleaving of scripts, callbacks, force-nags, deploys and crashes marks
\* a need satisfied whose handler never accepted a payload.
THEOREM SatisfiedEarned == Spec => []SatisfiedIsEarned
<1>1. IInv => SatisfiedIsEarned
  BY DEF IInv, CopiesEarned, EarnedIn, SatisfiedIsEarned
<1> QED BY <1>1, InitHolds, NextHolds, PTL DEF Spec

=============================================================================
