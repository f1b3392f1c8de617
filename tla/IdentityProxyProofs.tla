------------------------ MODULE IdentityProxyProofs ------------------------
(***************************************************************************)
(* Proofs about IdentityProxy, for any users, groups, addresses, requests  *)
(* in progress, lifetimes and bounds.                                      *)
(*                                                                         *)
(* None of the properties is inductive. That an answer is recent must be   *)
(* known with its age: an entry of the cache is at most as old as its age  *)
(* and one handler's delay, what a handler was told as old as its delay,   *)
(* and a cookie as old as the part of its lifetime that is over. That an   *)
(* answer follows the loaded document must be known of stale entries too,  *)
(* and rests on the cache and the handlers being empty when the document   *)
(* changes.                                                                *)
(***************************************************************************)
EXTENDS IdentityProxy, TLAPS, SequenceTheorems

NowWhois(a) == TailscaleWhois(owner[a], reachable, doc)

\* A whois could say r less than n ticks ago.
Recent(a, r, n) == \E k \in 1 .. Horizon + 1 : k <= n /\ r \in whoisWas[a][k]

\* The groups of a result are those of the loaded document.
Follows(r) == r # Failed => r.groups \in doc[r.user]

\* What is true now is noted.
PastInv ==
    /\ \A a \in Addrs : NowWhois(a) \in whoisWas[a][1]
    /\ \A u \in Users : doc[u] \in entryWas[u][1]

CacheInv ==
    \A a \in Addrs : \A e \in cache[a] :
        /\ Follows(e.result)
        /\ Fresh(e) => Recent(a, e.result, e.age + MaxDelay + 1)

HandlerInv ==
    \A h \in Handlers : handler[h].at = "told" =>
        /\ Follows(handler[h].result)
        /\ Recent(handler[h].addr, handler[h].result, handler[h].delay + 1)

\* The entry with the groups of a cookie is as old as the cookie.
SessionInv ==
    \A u \in Users : \A s \in session[u] : s.left > 0 =>
        \E k \in 1 .. MaxAge + 1 : k <= MaxAge + 2 - s.left /\ \E e \in entryWas[u][k] : s.groups \in e

IInv == TypeOK /\ PastInv /\ CacheInv /\ HandlerInv /\ SessionInv
----------------------------------------------------------------------------
(* Facts about the operators.                                              *)

\* A record of the past is shifted by a tick: the oldest is forgotten.
LEMMA Shifted ==
    ASSUME NEW S, NEW s \in Seq(S), NEW x \in S, NEW n \in Nat, Len(s) = n + 1
    PROVE  /\ <<x>> \o SubSeq(s, 1, n) \in Seq(S)
           /\ Len(<<x>> \o SubSeq(s, 1, n)) = n + 1
           /\ (<<x>> \o SubSeq(s, 1, n))[1] = x
           /\ \A k \in 1 .. n : (<<x>> \o SubSeq(s, 1, n))[k + 1] = s[k]
<1> DEFINE t == SubSeq(s, 1, n)
<1>1. \A i \in 1 .. n : s[i] \in S
  BY ElementOfSeq
<1>2. t \in Seq(S) /\ Len(t) = n /\ \A i \in 1 .. n : t[i] = s[i]
  BY <1>1, SubSeqProperties
<1>3. <<x>> \in Seq(S) /\ Len(<<x>>) = 1 /\ <<x>>[1] = x
  OBVIOUS
<1> HIDE DEF t
<1>4. /\ <<x>> \o t \in Seq(S) /\ Len(<<x>> \o t) = 1 + n
      /\ \A i \in 1 .. 1 + n : (<<x>> \o t)[i] = IF i <= 1 THEN <<x>>[i] ELSE t[i - 1]
  BY <1>2, <1>3, ConcatProperties
<1>5. \A k \in 1 .. n : (<<x>> \o t)[k + 1] = s[k]
  BY <1>2, <1>4
<1>6. (<<x>> \o t)[1] = x
  BY <1>3, <1>4
<1> QED BY <1>4, <1>5, <1>6 DEF t

\* What is noted is added to the newest record and changes no other.
LEMMA Added ==
    ASSUME NEW S, NEW s \in Seq(SUBSET S), NEW x \in S, NEW n \in Nat, Len(s) = n + 1
    PROVE  /\ [s EXCEPT ![1] = @ \cup {x}] \in Seq(SUBSET S)
           /\ Len([s EXCEPT ![1] = @ \cup {x}]) = n + 1
           /\ x \in [s EXCEPT ![1] = @ \cup {x}][1]
           /\ \A k \in 1 .. n + 1 : s[k] \subseteq [s EXCEPT ![1] = @ \cup {x}][k]
<1> DEFINE y == s[1] \cup {x}
<1>1. 1 \in 1 .. Len(s)
  OBVIOUS
<1>2. s[1] \in SUBSET S
  BY <1>1, ElementOfSeq
<1>3. y \in SUBSET S
  BY <1>2
<1>4. [s EXCEPT ![1] = @ \cup {x}] = [s EXCEPT ![1] = y]
  BY <1>1, LenProperties
<1>5. /\ [s EXCEPT ![1] = y] \in Seq(SUBSET S)
      /\ Len([s EXCEPT ![1] = y]) = Len(s)
      /\ \A j \in 1 .. Len(s) : [s EXCEPT ![1] = y][j] = IF j = 1 THEN y ELSE s[j]
  BY <1>1, <1>3, ExceptSeq
<1> QED BY <1>1, <1>4, <1>5

\* The lifetimes.
LEMMA HorizonType == /\ Horizon \in Nat /\ TTL \in Nat /\ MaxDelay \in Nat /\ MaxAge \in Nat /\ MaxDisturb \in Nat
                     /\ TTL >= 1 /\ Horizon = TTL - 1 + MaxDelay
BY ConstantsAssumption DEF Horizon

\* An entry of the document that is not empty is the set of one set of groups.
LEMMA EntryType ==
    ASSUME NEW e \in Entries, e # {}
    PROVE  UNION e \in SUBSET Groups /\ UNION e \in e
<1>1. PICK g \in SUBSET Groups : e = {g}
  BY DEF Entries
<1>2. UNION e = g
  BY <1>1
<1> QED BY <1>1, <1>2

\* A whois says what the document says of the owner, or nothing.
LEMMA WhoisType ==
    ASSUME NEW own \in Users \cup {NoUser}, NEW reach \in BOOLEAN, NEW d \in Docs
    PROVE  /\ TailscaleWhois(own, reach, d) \in Results
           /\ TailscaleWhois(own, reach, d) # Failed =>
                TailscaleWhois(own, reach, d).groups \in d[TailscaleWhois(own, reach, d).user]
<1> DEFINE r == TailscaleWhois(own, reach, d)
<1>1. CASE ~reach \/ own = NoUser \/ d[own] = {}
  BY <1>1 DEF TailscaleWhois, Results
<1>2. CASE reach /\ own # NoUser /\ d[own] # {}
  <2>1. own \in Users /\ d[own] \in Entries
    BY <1>2 DEF Docs
  <2>2. UNION d[own] \in SUBSET Groups /\ UNION d[own] \in d[own]
    BY <1>2, <2>1, EntryType
  <2>3. r = [user |-> own, groups |-> UNION d[own]]
    BY <1>2 DEF TailscaleWhois
  <2> HIDE DEF r
  <2>4. r.user = own /\ r.groups = UNION d[own] /\ r \in Results
    BY <2>1, <2>2, <2>3 DEF Results
  <2> QED BY <2>2, <2>4 DEF r
<1> QED BY <1>1, <1>2

\* The parts of the type invariant that the steps need.
LEMMA Types ==
    ASSUME TypeOK
    PROVE  /\ \A a \in Addrs : NowWhois(a) \in Results /\ Follows(NowWhois(a))
           /\ \A a \in Addrs : \A e \in cache[a] : e \in [result : Results, age : 0 .. TTL]
           /\ \A u \in Users : \A s \in session[u] : s \in [groups : SUBSET Groups, left : 0 .. MaxAge + 1]
           /\ \A h \in Handlers : handler[h].at = "asking" =>
                handler[h].addr \in Addrs /\ handler[h] \in [at : {"asking"}, addr : Addrs]
           /\ \A h \in Handlers : handler[h].at = "told" =>
                handler[h] \in [at : {"told"}, addr : Addrs, delay : 0 .. MaxDelay, result : Results]
<1>1. \A a \in Addrs : NowWhois(a) \in Results /\ Follows(NowWhois(a))
  BY WhoisType DEF TypeOK, NowWhois, Follows
<1>2. \A a \in Addrs : \A e \in cache[a] : e \in [result : Results, age : 0 .. TTL]
  <2> SUFFICES ASSUME NEW a \in Addrs, NEW e \in cache[a] PROVE e \in [result : Results, age : 0 .. TTL]
    OBVIOUS
  <2>1. cache[a] \in {{}} \cup {{x} : x \in [result : Results, age : 0 .. TTL]}
    BY DEF TypeOK
  <2> QED BY <2>1
<1>3. \A u \in Users : \A s \in session[u] : s \in [groups : SUBSET Groups, left : 0 .. MaxAge + 1]
  <2> SUFFICES ASSUME NEW u \in Users, NEW s \in session[u]
               PROVE  s \in [groups : SUBSET Groups, left : 0 .. MaxAge + 1]
    OBVIOUS
  <2>1. session[u] \in {{}} \cup {{x} : x \in [groups : SUBSET Groups, left : 0 .. MaxAge + 1]}
    BY DEF TypeOK
  <2> QED BY <2>1
<1>4. ASSUME NEW h \in Handlers
      PROVE  /\ handler[h].at = "asking" => handler[h] \in [at : {"asking"}, addr : Addrs]
             /\ handler[h].at = "told" =>
                  handler[h] \in [at : {"told"}, addr : Addrs, delay : 0 .. MaxDelay, result : Results]
  <2>1. handler[h] \in Jobs
    BY DEF TypeOK
  <2> QED BY <2>1 DEF Jobs, Idle
<1> QED BY <1>1, <1>2, <1>3, <1>4

\* The types of the past.
LEMMA PastTypes ==
    ASSUME TypeOK, NEW a \in Addrs
    PROVE  whoisWas[a] \in Seq(SUBSET Results) /\ Len(whoisWas[a]) = Horizon + 1
BY DEF TypeOK

\* The step forgets nothing of the past.
PastKept ==
    /\ \A a \in Addrs : \A k \in 1 .. Horizon + 1 : whoisWas[a][k] \subseteq whoisWas'[a][k]
    /\ \A u \in Users : \A k \in 1 .. MaxAge + 1 : entryWas[u][k] \subseteq entryWas'[u][k]

\* A change of the surroundings is noted.
LEMMA NotedPast ==
    ASSUME TypeOK, Noted, doc' \in Docs, owner' \in [Addrs -> Users \cup {NoUser}], reachable' \in BOOLEAN
    PROVE  /\ whoisWas' \in [Addrs -> Seq(SUBSET Results)] /\ \A a \in Addrs : Len(whoisWas'[a]) = Horizon + 1
           /\ entryWas' \in [Users -> Seq(SUBSET Entries)] /\ \A u \in Users : Len(entryWas'[u]) = MaxAge + 1
           /\ PastInv' /\ PastKept
<1>1. ASSUME NEW a \in Addrs
      PROVE  /\ whoisWas'[a] \in Seq(SUBSET Results) /\ Len(whoisWas'[a]) = Horizon + 1
             /\ NowWhois(a)' \in whoisWas'[a][1]
             /\ \A k \in 1 .. Horizon + 1 : whoisWas[a][k] \subseteq whoisWas'[a][k]
  <2>1. PICK x : x = TailscaleWhois(owner'[a], reachable', doc')
    OBVIOUS
  <2>2. x \in Results /\ NowWhois(a)' = x
    BY <2>1, WhoisType DEF NowWhois
  <2>3. whoisWas'[a] = [whoisWas[a] EXCEPT ![1] = @ \cup {x}]
    BY <2>1 DEF Noted
  <2>4. whoisWas[a] \in Seq(SUBSET Results) /\ Len(whoisWas[a]) = Horizon + 1 /\ Horizon \in Nat
    BY PastTypes, HorizonType
  <2> QED BY <2>2, <2>3, <2>4, Added
<1>2. ASSUME NEW u \in Users
      PROVE  /\ entryWas'[u] \in Seq(SUBSET Entries) /\ Len(entryWas'[u]) = MaxAge + 1
             /\ doc'[u] \in entryWas'[u][1]
             /\ \A k \in 1 .. MaxAge + 1 : entryWas[u][k] \subseteq entryWas'[u][k]
  <2>1. PICK x : x = doc'[u]
    OBVIOUS
  <2>2. x \in Entries
    BY <2>1 DEF Docs
  <2>3. entryWas'[u] = [entryWas[u] EXCEPT ![1] = @ \cup {x}]
    BY <2>1 DEF Noted
  <2>4. entryWas[u] \in Seq(SUBSET Entries) /\ Len(entryWas[u]) = MaxAge + 1 /\ MaxAge \in Nat
    BY HorizonType DEF TypeOK
  <2> QED BY <2>1, <2>2, <2>3, <2>4, Added
<1>3. whoisWas' = [a \in Addrs |-> whoisWas'[a]] /\ entryWas' = [u \in Users |-> entryWas'[u]]
  BY DEF Noted
<1> QED BY <1>1, <1>2, <1>3 DEF PastInv, PastKept
----------------------------------------------------------------------------
(* The inductive invariant.                                                *)

LEMMA InitInv == Init => IInv
<1> SUFFICES ASSUME Init PROVE IInv
  OBVIOUS
<1>1. Horizon + 1 \in Nat /\ MaxAge + 1 \in Nat /\ 1 \in 1 .. Horizon + 1 /\ 1 \in 1 .. MaxAge + 1
  BY HorizonType
<1>2. doc \in Docs /\ owner \in [Addrs -> Users \cup {NoUser}] /\ reachable \in BOOLEAN
  BY DEF Init
<1>3. ASSUME NEW a \in Addrs
      PROVE  /\ whoisWas[a] \in Seq(SUBSET Results) /\ Len(whoisWas[a]) = Horizon + 1
             /\ NowWhois(a) \in whoisWas[a][1]
  <2>1. PICK x : x = NowWhois(a)
    OBVIOUS
  <2>2. x \in Results
    BY <1>2, <2>1, WhoisType DEF NowWhois
  <2>3. whoisWas[a] = [k \in 1 .. Horizon + 1 |-> {x}]
    BY <2>1 DEF Init, NowWhois
  <2>4. whoisWas[a] \in [1 .. Horizon + 1 -> SUBSET Results]
    BY <2>2, <2>3
  <2>5. whoisWas[a] \in Seq(SUBSET Results)
    BY <1>1, <2>4, SeqDef
  <2>6. Len(whoisWas[a]) = Horizon + 1
    BY <1>1, <2>4, <2>5, LenProperties
  <2> QED BY <1>1, <2>1, <2>3, <2>5, <2>6
<1>4. ASSUME NEW u \in Users
      PROVE  /\ entryWas[u] \in Seq(SUBSET Entries) /\ Len(entryWas[u]) = MaxAge + 1
             /\ doc[u] \in entryWas[u][1]
  <2>1. PICK x : x = doc[u]
    OBVIOUS
  <2>2. x \in Entries
    BY <1>2, <2>1 DEF Docs
  <2>3. entryWas[u] = [k \in 1 .. MaxAge + 1 |-> {x}]
    BY <2>1 DEF Init
  <2>4. entryWas[u] \in [1 .. MaxAge + 1 -> SUBSET Entries]
    BY <2>2, <2>3
  <2>5. entryWas[u] \in Seq(SUBSET Entries)
    BY <1>1, <2>4, SeqDef
  <2>6. Len(entryWas[u]) = MaxAge + 1
    BY <1>1, <2>4, <2>5, LenProperties
  <2> QED BY <1>1, <2>1, <2>3, <2>5, <2>6
<1>5. whoisWas = [a \in Addrs |-> whoisWas[a]] /\ entryWas = [u \in Users |-> entryWas[u]]
  BY DEF Init
<1>6. \A h \in Handlers : handler[h] = Idle /\ handler[h].at # "told"
  BY DEF Init, Idle
<1>7. TypeOK
  <2>1. whoisWas \in [Addrs -> Seq(SUBSET Results)] /\ entryWas \in [Users -> Seq(SUBSET Entries)]
    BY <1>3, <1>4, <1>5
  <2>2. docFile \in Docs /\ up = TRUE /\ reachable = TRUE /\ disturbed \in 0 .. MaxDisturb
    BY HorizonType DEF Init
  <2>3. cache \in [Addrs -> {{}} \cup {{e} : e \in [result : Results, age : 0 .. TTL]}]
    BY DEF Init
  <2>4. session \in [Users -> {{}} \cup {{s} : s \in [groups : SUBSET Groups, left : 0 .. MaxAge + 1]}]
    BY DEF Init
  <2>5. handler \in [Handlers -> Jobs]
    BY DEF Init, Jobs
  <2> QED BY <1>2, <1>3, <1>4, <2>1, <2>2, <2>3, <2>4, <2>5 DEF TypeOK
<1> QED BY <1>3, <1>4, <1>6, <1>7 DEF IInv, PastInv, CacheInv, HandlerInv, SessionInv, Init

\* A disturbance stays within its bound.
LEMMA DisturbType == ASSUME TypeOK, NEW kind, Disturb(kind) PROVE disturbed' \in 0 .. MaxDisturb
BY HorizonType DEF TypeOK, Disturb

\* The results there are stay recent while nothing of the past is forgotten.
LEMMA RecentKept ==
    ASSUME PastKept, NEW a \in Addrs, NEW r, NEW n, Recent(a, r, n)
    PROVE  \E k \in 1 .. Horizon + 1 : k <= n /\ r \in whoisWas'[a][k]
BY DEF PastKept, Recent

\* So do the sessions.
LEMMA SessionKept ==
    ASSUME SessionInv, PastKept, session' = session PROVE SessionInv'
BY DEF SessionInv, PastKept

\* A miss and the answer of tailscaled.
LEMMA AskInv ==
    ASSUME IInv, NEW h \in Handlers, Whois(h) \/ \E a \in Addrs : Miss(h, a)
    PROVE  IInv'
<1>1. UNCHANGED <<up, doc, cache, worldVars, disturbed, pastVars>> /\ \A g \in Handlers : g # h => handler'[g] = handler[g]
  BY DEF Whois, Miss, IInv, TypeOK
<1>2. UNCHANGED <<docFile, session, owner, reachable, whoisWas, entryWas>>
  BY <1>1 DEF worldVars, pastVars
<1>3. PastInv' /\ CacheInv' /\ SessionInv'
  BY <1>1, <1>2 DEF IInv, PastInv, CacheInv, SessionInv, NowWhois, Follows, Recent, Fresh
<1>5. CASE \E a \in Addrs : Miss(h, a)
  <2>1. PICK a \in Addrs : Miss(h, a)
    BY <1>5
  <2>2. up /\ handler' = [handler EXCEPT ![h] = [at |-> "asking", addr |-> a]]
    BY <2>1 DEF Miss
  <2>3. handler'[h] = [at |-> "asking", addr |-> a] /\ handler'[h] \in Jobs /\ handler' \in [Handlers -> Jobs]
    BY <2>2 DEF Jobs, IInv, TypeOK
  <2>4. handler'[h].at # "told"
    BY <2>3
  <2>5. HandlerInv'
    BY <1>1, <1>2, <2>4 DEF IInv, HandlerInv, Follows, Recent
  <2>6. TypeOK'
    BY <1>1, <1>2, <2>2, <2>3 DEF IInv, TypeOK
  <2> QED BY <1>3, <2>5, <2>6 DEF IInv
<1>6. CASE Whois(h)
  <2>1. PICK a : a = handler[h].addr
    OBVIOUS
  <2>2. PICK r : r = NowWhois(a)
    OBVIOUS
  <2>3. a \in Addrs /\ r \in Results /\ Follows(r) /\ r \in whoisWas[a][1]
    BY <1>6, <2>1, <2>2, Types DEF IInv, PastInv, Whois
  <2>4. handler' = [handler EXCEPT ![h] = [at |-> "told", addr |-> a, delay |-> 0, result |-> r]]
    BY <1>6, <2>1, <2>2 DEF Whois, NowWhois, IInv, TypeOK
  <2>5. /\ handler'[h] = [at |-> "told", addr |-> a, delay |-> 0, result |-> r]
        /\ 0 \in 0 .. MaxDelay /\ 1 \in 1 .. Horizon + 1
    BY <2>4, HorizonType DEF IInv, TypeOK
  <2>6. handler'[h] \in Jobs /\ handler' \in [Handlers -> Jobs]
    BY <2>3, <2>4, <2>5 DEF Jobs, IInv, TypeOK
  <2>7. up
    BY <1>6 DEF IInv, TypeOK, Whois, Idle
  <2>8. Recent(a, r, 1)
    BY <2>3, <2>5 DEF Recent
  <2>9. /\ handler'[h].result = r /\ handler'[h].addr = a /\ handler'[h].delay + 1 = 1
    BY <2>5
  <2>10. HandlerInv'
    BY <1>1, <1>2, <2>3, <2>8, <2>9 DEF IInv, HandlerInv, Follows, Recent
  <2>11. TypeOK'
    BY <1>1, <1>2, <2>6, <2>7 DEF IInv, TypeOK
  <2> QED BY <1>3, <2>10, <2>11 DEF IInv
<1> QED BY <1>5, <1>6

\* A handler stores what it was told: the new entry is as old as the answer.
LEMMA StoreInv == ASSUME IInv, NEW h \in Handlers, Store(h) PROVE IInv'
<1>1. UNCHANGED <<up, doc, docFile, session, owner, reachable, disturbed, whoisWas, entryWas>>
  BY DEF Store, worldVars, pastVars
<1>2. PICK a, r, n : /\ a = handler[h].addr /\ r = handler[h].result /\ n = handler[h].delay
  OBVIOUS
<1>3. a \in Addrs /\ r \in Results /\ n \in 0 .. MaxDelay /\ Follows(r) /\ Recent(a, r, n + 1)
  BY <1>2, Types DEF IInv, HandlerInv, Store
<1>4. /\ cache' = [cache EXCEPT ![a] = {[result |-> r, age |-> 0]}]
      /\ handler' = [handler EXCEPT ![h] = Idle]
  BY <1>2 DEF Store
<1>5. handler' \in [Handlers -> Jobs] /\ handler'[h] = Idle /\ handler'[h].at # "told"
  BY <1>4 DEF IInv, TypeOK, Jobs, Idle
<1>6. \A g \in Handlers : g # h => handler'[g] = handler[g]
  BY <1>4 DEF IInv, TypeOK
<1>7. HandlerInv'
  BY <1>1, <1>5, <1>6 DEF IInv, HandlerInv, Follows, Recent
<1>8. [result |-> r, age |-> 0] \in [result : Results, age : 0 .. TTL]
  BY <1>3, HorizonType
<1>9. cache' \in [Addrs -> {{}} \cup {{e} : e \in [result : Results, age : 0 .. TTL]}]
  BY <1>3, <1>4, <1>8 DEF IInv, TypeOK
<1>10. Recent(a, r, 0 + MaxDelay + 1)
  BY <1>3, HorizonType DEF Recent
<1>11. cache'[a] = {[result |-> r, age |-> 0]} /\ \A b \in Addrs : b # a => cache'[b] = cache[b]
  BY <1>3, <1>4 DEF IInv, TypeOK
<1>12. \A e \in cache'[a] : e.result = r /\ e.age = 0
  BY <1>11
<1>13. CacheInv'
  BY <1>1, <1>3, <1>10, <1>11, <1>12 DEF IInv, CacheInv, Follows, Recent, Fresh
<1>14. up
  BY DEF IInv, TypeOK, Store, Idle
<1>15. TypeOK'
  BY <1>1, <1>5, <1>9, <1>14 DEF IInv, TypeOK
<1> QED BY <1>1, <1>7, <1>13, <1>15 DEF IInv, PastInv, SessionInv, NowWhois

\* A login puts the groups of the document into a new cookie.
LEMMA LoginInv == ASSUME IInv, NEW u \in Users, Login(u) PROVE IInv'
<1>1. UNCHANGED <<up, doc, cache, handler, docFile, owner, reachable, disturbed, whoisWas, entryWas>>
  BY DEF Login, procVars, pastVars
<1>2. PastInv' /\ CacheInv' /\ HandlerInv'
  BY <1>1 DEF IInv, PastInv, CacheInv, HandlerInv, NowWhois, Follows, Recent, Fresh
<1>3. CASE doc[u] = {}
  BY <1>1, <1>2, <1>3 DEF Login, IInv, TypeOK, SessionInv
<1>4. CASE doc[u] # {}
  <2>1. PICK s : s = [groups |-> UNION doc[u], left |-> MaxAge + 1]
    OBVIOUS
  <2>2. session' = [session EXCEPT ![u] = {s}]
    BY <1>4, <2>1 DEF Login
  <2>3. UNION doc[u] \in SUBSET Groups /\ UNION doc[u] \in doc[u] /\ doc[u] \in entryWas[u][1]
    BY <1>4, EntryType DEF IInv, TypeOK, Docs, PastInv
  <2>4. MaxAge + 1 \in 0 .. MaxAge + 1 /\ 1 \in 1 .. MaxAge + 1 /\ 1 <= MaxAge + 2 - (MaxAge + 1)
    BY HorizonType
  <2>5. s \in [groups : SUBSET Groups, left : 0 .. MaxAge + 1] /\ s.groups = UNION doc[u] /\ s.left = MaxAge + 1
    BY <2>1, <2>3, <2>4
  <2>6. session' \in [Users -> {{}} \cup {{x} : x \in [groups : SUBSET Groups, left : 0 .. MaxAge + 1]}]
    BY <2>2, <2>5 DEF IInv, TypeOK
  <2>7. session'[u] = {s} /\ \A v \in Users : v # u => session'[v] = session[v]
    BY <2>2 DEF IInv, TypeOK
  <2>8. \A x \in session'[u] : \E k \in 1 .. MaxAge + 1 : k <= MaxAge + 2 - x.left /\ \E e \in entryWas[u][k] : x.groups \in e
    <3>1. 1 <= MaxAge + 2 - s.left
      BY <2>4, <2>5
    <3>2. \E e \in entryWas[u][1] : s.groups \in e
      BY <2>3, <2>5
    <3> QED BY <2>4, <2>7, <3>1, <3>2
  <2>9. SessionInv'
    BY <1>1, <2>7, <2>8 DEF IInv, SessionInv
  <2>10. TypeOK'
    BY <1>1, <2>6 DEF IInv, TypeOK
  <2> QED BY <1>2, <2>9, <2>10 DEF IInv
<1> QED BY <1>3, <1>4

\* Whatever ends the process ends its requests and empties its cache.
LEMMA StopsInv ==
    ASSUME IInv, Stops, docFile' \in Docs, disturbed' \in 0 .. MaxDisturb PROVE IInv'
<1>1. /\ up' = FALSE /\ cache' = [a \in Addrs |-> {}] /\ handler' = [h \in Handlers |-> Idle]
      /\ UNCHANGED <<doc, session, owner, reachable>> /\ Noted
  BY DEF Stops
<1>2. doc' \in Docs /\ owner' \in [Addrs -> Users \cup {NoUser}] /\ reachable' \in BOOLEAN
  BY <1>1 DEF IInv, TypeOK
<1>3. /\ whoisWas' \in [Addrs -> Seq(SUBSET Results)] /\ \A a \in Addrs : Len(whoisWas'[a]) = Horizon + 1
      /\ entryWas' \in [Users -> Seq(SUBSET Entries)] /\ \A u \in Users : Len(entryWas'[u]) = MaxAge + 1
      /\ PastInv' /\ PastKept
  BY <1>1, <1>2, NotedPast DEF IInv
<1>4. \A h \in Handlers : handler'[h] = Idle /\ handler'[h].at # "told"
  BY <1>1 DEF Idle
<1>5. cache' \in [Addrs -> {{}} \cup {{e} : e \in [result : Results, age : 0 .. TTL]}]
  BY <1>1
<1>6. handler' \in [Handlers -> Jobs]
  BY <1>1 DEF Jobs
<1>7. TypeOK'
  BY <1>1, <1>2, <1>3, <1>4, <1>5, <1>6 DEF IInv, TypeOK
<1>8. CacheInv' /\ HandlerInv'
  BY <1>1, <1>4 DEF CacheInv, HandlerInv
<1> QED BY <1>1, <1>3, <1>7, <1>8, SessionKept DEF IInv

\* Another document is loaded only while there is nothing in the cache.
LEMMA StartsInv == ASSUME IInv, Starts PROVE IInv'
<1>1. /\ ~up /\ up' = TRUE /\ doc' = docFile
      /\ UNCHANGED <<cache, handler, docFile, session, owner, reachable, disturbed>> /\ Noted
  BY DEF Starts, worldVars
<1>2. doc' \in Docs /\ owner' \in [Addrs -> Users \cup {NoUser}] /\ reachable' \in BOOLEAN
  BY <1>1 DEF IInv, TypeOK
<1>3. /\ whoisWas' \in [Addrs -> Seq(SUBSET Results)] /\ \A a \in Addrs : Len(whoisWas'[a]) = Horizon + 1
      /\ entryWas' \in [Users -> Seq(SUBSET Entries)] /\ \A u \in Users : Len(entryWas'[u]) = MaxAge + 1
      /\ PastInv' /\ PastKept
  BY <1>1, <1>2, NotedPast DEF IInv
<1>4. /\ \A h \in Handlers : handler'[h] = Idle /\ handler'[h].at # "told"
      /\ \A a \in Addrs : cache'[a] = {}
  BY <1>1 DEF IInv, TypeOK, Idle
<1>5. TypeOK'
  BY <1>1, <1>2, <1>3 DEF IInv, TypeOK
<1>6. CacheInv' /\ HandlerInv'
  BY <1>4 DEF CacheInv, HandlerInv
<1> QED BY <1>1, <1>3, <1>5, <1>6, SessionKept DEF IInv

\* What happens to the tailnet is noted and changes nothing in the process.
LEMMA WorldInv ==
    ASSUME IInv, Outage \/ OutageEnds \/ \E a \in Addrs, u \in Users \cup {NoUser} : Reassign(a, u)
    PROVE  IInv'
<1>1. UNCHANGED <<up, doc, cache, handler, docFile, session>> /\ Noted /\ disturbed' \in 0 .. MaxDisturb
  BY DisturbType DEF Outage, OutageEnds, Reassign, procVars, IInv, TypeOK
<1>2. doc' \in Docs /\ owner' \in [Addrs -> Users \cup {NoUser}] /\ reachable' \in BOOLEAN
  BY <1>1 DEF IInv, TypeOK, Outage, OutageEnds, Reassign
<1>3. /\ whoisWas' \in [Addrs -> Seq(SUBSET Results)] /\ \A a \in Addrs : Len(whoisWas'[a]) = Horizon + 1
      /\ entryWas' \in [Users -> Seq(SUBSET Entries)] /\ \A u \in Users : Len(entryWas'[u]) = MaxAge + 1
      /\ PastInv' /\ PastKept
  BY <1>1, <1>2, NotedPast DEF IInv
<1>4. TypeOK'
  BY <1>1, <1>2, <1>3 DEF IInv, TypeOK
<1>5. CacheInv'
  <2> SUFFICES ASSUME NEW a \in Addrs, NEW e \in cache[a], Follows(e.result), Fresh(e) => Recent(a, e.result, e.age + MaxDelay + 1)
               PROVE  Follows(e.result)' /\ (Fresh(e) => Recent(a, e.result, e.age + MaxDelay + 1)')
    BY <1>1 DEF IInv, CacheInv, Fresh, Follows, Recent
  <2>1. Follows(e.result)'
    BY <1>1 DEF Follows
  <2> QED BY <1>3, <2>1, RecentKept DEF Recent
<1>6. HandlerInv'
  <2> SUFFICES ASSUME NEW h \in Handlers, handler[h].at = "told"
               PROVE  Follows(handler[h].result)' /\ Recent(handler[h].addr, handler[h].result, handler[h].delay + 1)'
    BY <1>1 DEF HandlerInv
  <2>1. /\ handler[h].addr \in Addrs /\ Follows(handler[h].result)
        /\ Recent(handler[h].addr, handler[h].result, handler[h].delay + 1)
    BY Types DEF IInv, HandlerInv
  <2> QED BY <1>1, <1>3, <2>1, RecentKept DEF Recent, Follows
<1> QED BY <1>1, <1>3, <1>4, <1>5, <1>6, SessionKept DEF IInv

\* With a tick everything is one tick older: entries, answers under way,
\* cookies, and what is remembered of the past.
LEMMA TickInv == ASSUME IInv, Tick PROVE IInv'
<1>1. UNCHANGED <<up, doc, docFile, owner, reachable, disturbed>>
  BY DEF Tick
<1>2. ASSUME NEW a \in Addrs
      PROVE  /\ whoisWas'[a] \in Seq(SUBSET Results) /\ Len(whoisWas'[a]) = Horizon + 1
             /\ NowWhois(a) \in whoisWas'[a][1]
             /\ \A k \in 1 .. Horizon : whoisWas'[a][k + 1] = whoisWas[a][k]
  <2>1. PICK x : x = {NowWhois(a)}
    OBVIOUS
  <2>2. x \in SUBSET Results
    BY <2>1, Types DEF IInv
  <2>3. whoisWas'[a] = <<x>> \o SubSeq(whoisWas[a], 1, Horizon)
    BY <2>1 DEF Tick, NowWhois
  <2>4. whoisWas[a] \in Seq(SUBSET Results) /\ Len(whoisWas[a]) = Horizon + 1 /\ Horizon \in Nat
    BY PastTypes, HorizonType DEF IInv
  <2> QED BY <2>1, <2>2, <2>3, <2>4, Shifted
<1>3. ASSUME NEW u \in Users
      PROVE  /\ entryWas'[u] \in Seq(SUBSET Entries) /\ Len(entryWas'[u]) = MaxAge + 1
             /\ doc[u] \in entryWas'[u][1]
             /\ \A k \in 1 .. MaxAge : entryWas'[u][k + 1] = entryWas[u][k]
  <2>1. PICK x : x = {doc[u]}
    OBVIOUS
  <2>2. x \in SUBSET Entries
    BY <2>1 DEF IInv, TypeOK, Docs
  <2>3. entryWas'[u] = <<x>> \o SubSeq(entryWas[u], 1, MaxAge)
    BY <2>1 DEF Tick
  <2>4. entryWas[u] \in Seq(SUBSET Entries) /\ Len(entryWas[u]) = MaxAge + 1 /\ MaxAge \in Nat
    BY HorizonType DEF IInv, TypeOK
  <2> QED BY <2>1, <2>2, <2>3, <2>4, Shifted
<1>4. whoisWas' = [a \in Addrs |-> whoisWas'[a]] /\ entryWas' = [u \in Users |-> entryWas'[u]]
  BY DEF Tick
<1>5. PastInv'
  BY <1>1, <1>2, <1>3 DEF PastInv, NowWhois
<1>6. ASSUME NEW a \in Addrs, NEW r, NEW n \in Nat, n <= Horizon, Recent(a, r, n)
      PROVE  \E k \in 1 .. Horizon + 1 : k <= n + 1 /\ r \in whoisWas'[a][k]
  <2>1. PICK k \in 1 .. Horizon + 1 : k <= n /\ r \in whoisWas[a][k]
    BY <1>6 DEF Recent
  <2>2. k \in 1 .. Horizon /\ k + 1 \in 1 .. Horizon + 1 /\ k + 1 <= n + 1
    BY <1>6, <2>1, HorizonType
  <2>3. r \in whoisWas'[a][k + 1]
    BY <1>2, <2>1, <2>2
  <2> QED BY <2>2, <2>3
<1>7. ASSUME NEW a \in Addrs, NEW e \in cache[a]
      PROVE  /\ Aged(e) \in [result : Results, age : 0 .. TTL] /\ Aged(e).result = e.result
             /\ Fresh(Aged(e)) => Fresh(e) /\ Aged(e).age = e.age + 1 /\ e.age + 1 < TTL
  <2>1. e \in [result : Results, age : 0 .. TTL]
    BY Types DEF IInv
  <2>2. CASE e.age < TTL
    <3>1. Aged(e) = [e EXCEPT !.age = e.age + 1]
      BY <2>1, <2>2 DEF Aged
    <3>2. e.age + 1 \in 0 .. TTL
      BY <2>1, <2>2, HorizonType
    <3>3. Aged(e) \in [result : Results, age : 0 .. TTL] /\ Aged(e).result = e.result /\ Aged(e).age = e.age + 1
      BY <2>1, <3>1, <3>2
    <3> QED BY <2>2, <3>3 DEF Fresh
  <2>3. CASE ~(e.age < TTL)
    <3>1. Aged(e) = e
      BY <2>1, <2>3 DEF Aged
    <3> QED BY <2>1, <2>3, <3>1 DEF Fresh
  <2> QED BY <2>2, <2>3
<1>8. ASSUME NEW a \in Addrs, NEW f \in cache'[a]
      PROVE  /\ Follows(f.result)
             /\ Fresh(f) => \E k \in 1 .. Horizon + 1 : k <= f.age + MaxDelay + 1 /\ f.result \in whoisWas'[a][k]
  <2>1. PICK e \in cache[a] : f = Aged(e)
    BY <1>8 DEF Tick
  <2>2. Follows(e.result) /\ (Fresh(e) => Recent(a, e.result, e.age + MaxDelay + 1))
    BY DEF IInv, CacheInv
  <2>3. ASSUME Fresh(f) PROVE \E k \in 1 .. Horizon + 1 : k <= f.age + MaxDelay + 1 /\ f.result \in whoisWas'[a][k]
    <3>1. Fresh(e) /\ f.age = e.age + 1 /\ e.age + 1 < TTL /\ f.result = e.result
      BY <1>7, <2>1, <2>3
    <3>2. e.age \in Nat
      BY Types DEF IInv
    <3>3. PICK n : n = e.age + MaxDelay + 1
      OBVIOUS
    <3>4. n \in Nat /\ n <= Horizon /\ n + 1 = f.age + MaxDelay + 1
      BY <3>1, <3>2, <3>3, HorizonType
    <3>5. Recent(a, e.result, n)
      BY <2>2, <3>1, <3>3
    <3> QED BY <1>6, <3>1, <3>4, <3>5
  <2> QED BY <1>7, <2>1, <2>2, <2>3
<1>9. CacheInv'
  BY <1>1, <1>8 DEF CacheInv, Fresh, Follows, Recent
<1>10. cache' \in [Addrs -> {{}} \cup {{e} : e \in [result : Results, age : 0 .. TTL]}]
  <2>1. ASSUME NEW a \in Addrs PROVE {Aged(e) : e \in cache[a]} \in {{}} \cup {{e} : e \in [result : Results, age : 0 .. TTL]}
    <3>1. cache[a] \in {{}} \cup {{e} : e \in [result : Results, age : 0 .. TTL]}
      BY DEF IInv, TypeOK
    <3>2. CASE cache[a] = {}
      BY <3>2
    <3>3. CASE \E e \in [result : Results, age : 0 .. TTL] : cache[a] = {e}
      <4>1. PICK e : cache[a] = {e}
        BY <3>3
      <4>2. {Aged(x) : x \in cache[a]} = {Aged(e)}
        BY <4>1
      <4>3. Aged(e) \in [result : Results, age : 0 .. TTL]
        BY <1>7, <4>1
      <4> QED BY <4>2, <4>3
    <3> QED BY <3>1, <3>2, <3>3
  <2> QED BY <2>1 DEF Tick
<1>11. ASSUME NEW h \in Handlers
       PROVE  /\ handler'[h] \in Jobs
              /\ handler[h] = Idle => handler'[h] = Idle
              /\ handler'[h].at = "told" =>
                   /\ handler[h].at = "told" /\ handler'[h].addr = handler[h].addr /\ handler'[h].result = handler[h].result
                   /\ handler'[h].delay = handler[h].delay + 1 /\ handler[h].delay < MaxDelay
  <2>1. CASE handler[h].at # "told"
    <3>1. handler'[h] = handler[h]
      BY <2>1 DEF Tick
    <3> QED BY <2>1, <3>1 DEF IInv, TypeOK
  <2>2. CASE handler[h].at = "told"
    <3>1. handler[h] \in [at : {"told"}, addr : Addrs, delay : 0 .. MaxDelay, result : Results] /\ handler[h].delay < MaxDelay
      BY <2>2, Types DEF IInv, Tick
    <3>2. PICK n : n = handler[h].delay + 1
      OBVIOUS
    <3>3. n \in 0 .. MaxDelay
      BY <3>1, <3>2, HorizonType
    <3>4. handler'[h] = [handler[h] EXCEPT !.delay = n]
      BY <2>2, <3>2 DEF Tick
    <3>5. /\ handler'[h] \in [at : {"told"}, addr : Addrs, delay : 0 .. MaxDelay, result : Results]
          /\ handler'[h].addr = handler[h].addr /\ handler'[h].result = handler[h].result /\ handler'[h].delay = n
      BY <3>1, <3>3, <3>4
    <3> QED BY <2>2, <3>1, <3>2, <3>5 DEF Jobs, Idle
  <2> QED BY <2>1, <2>2
<1>12. HandlerInv'
  <2> SUFFICES ASSUME NEW h \in Handlers, handler'[h].at = "told"
               PROVE  Follows(handler[h].result)' /\ Recent(handler[h].addr, handler[h].result, handler[h].delay + 1)'
    BY DEF HandlerInv
  <2>1. PICK a, r, n : a = handler[h].addr /\ r = handler[h].result /\ n = handler[h].delay + 1
    OBVIOUS
  <2>2. /\ handler[h].at = "told" /\ handler'[h].addr = a /\ handler'[h].result = r
        /\ handler'[h].delay = n /\ handler[h].delay < MaxDelay
    BY <1>11, <2>1
  <2>3. a \in Addrs /\ handler[h].delay \in Nat /\ Follows(r) /\ Recent(a, r, n)
    BY <2>1, <2>2, Types DEF IInv, HandlerInv
  <2>4. n \in Nat /\ n <= Horizon
    BY <2>1, <2>2, <2>3, HorizonType
  <2>5. \E k \in 1 .. Horizon + 1 : k <= n + 1 /\ r \in whoisWas'[a][k]
    BY <1>6, <2>3, <2>4
  <2> QED BY <1>1, <2>2, <2>3, <2>5 DEF Recent, Follows
<1>13. handler' \in [Handlers -> Jobs]
  <2>1. handler' = [h \in Handlers |-> handler'[h]]
    BY DEF Tick
  <2> QED BY <1>11, <2>1
<1> DEFINE Older(s) == [s EXCEPT !.left = IF @ = 0 THEN 0 ELSE @ - 1]
<1>14. ASSUME NEW u \in Users, NEW s \in session[u]
       PROVE  /\ Older(s) \in [groups : SUBSET Groups, left : 0 .. MaxAge + 1] /\ Older(s).groups = s.groups
              /\ Older(s).left > 0 => s.left > 1 /\ Older(s).left = s.left - 1
  <2>1. s \in [groups : SUBSET Groups, left : 0 .. MaxAge + 1]
    BY Types DEF IInv
  <2>2. PICK n : n = IF s.left = 0 THEN 0 ELSE s.left - 1
    OBVIOUS
  <2>3. n \in 0 .. MaxAge + 1 /\ (n > 0 => s.left > 1 /\ n = s.left - 1)
    BY <2>1, <2>2, HorizonType
  <2>4. Older(s) = [s EXCEPT !.left = n]
    BY <2>1, <2>2
  <2> QED BY <2>1, <2>3, <2>4
<1>15. \A u \in Users : session'[u] = {Older(s) : s \in session[u]}
  BY DEF Tick
<1>16. session' = [u \in Users |-> session'[u]]
  BY DEF Tick
<1> HIDE DEF Older
<1>17. ASSUME NEW u \in Users, NEW t \in session'[u], t.left > 0
       PROVE  \E k \in 1 .. MaxAge + 1 : k <= MaxAge + 2 - t.left /\ \E e \in entryWas'[u][k] : t.groups \in e
  <2>1. PICK s \in session[u] : t = Older(s)
    BY <1>15
  <2>2. s.left > 1 /\ t.left = s.left - 1 /\ t.groups = s.groups /\ s.left \in Nat
    BY <1>14, <1>17, <2>1, Types, HorizonType DEF IInv
  <2>3. s.left > 0
    BY <2>2
  <2>4. PICK k \in 1 .. MaxAge + 1 : k <= MaxAge + 2 - s.left /\ \E e \in entryWas[u][k] : s.groups \in e
    BY <2>3 DEF IInv, SessionInv
  <2>5. k \in 1 .. MaxAge /\ k + 1 \in 1 .. MaxAge + 1 /\ k + 1 <= MaxAge + 2 - t.left
    BY <2>2, <2>4, HorizonType
  <2>6. entryWas'[u][k + 1] = entryWas[u][k]
    BY <1>3, <2>5
  <2> QED BY <2>2, <2>4, <2>5, <2>6
<1>18. session' \in [Users -> {{}} \cup {{s} : s \in [groups : SUBSET Groups, left : 0 .. MaxAge + 1]}]
  <2>1. ASSUME NEW u \in Users
        PROVE  session'[u] \in {{}} \cup {{s} : s \in [groups : SUBSET Groups, left : 0 .. MaxAge + 1]}
    <3>1. session[u] \in {{}} \cup {{s} : s \in [groups : SUBSET Groups, left : 0 .. MaxAge + 1]}
      BY DEF IInv, TypeOK
    <3>2. CASE session[u] = {}
      BY <1>15, <3>2
    <3>3. CASE \E s \in [groups : SUBSET Groups, left : 0 .. MaxAge + 1] : session[u] = {s}
      <4>1. PICK s : session[u] = {s}
        BY <3>3
      <4>2. session'[u] = {Older(s)}
        BY <1>15, <4>1
      <4>3. Older(s) \in [groups : SUBSET Groups, left : 0 .. MaxAge + 1]
        BY <1>14, <4>1
      <4> QED BY <4>2, <4>3
    <3> QED BY <3>1, <3>2, <3>3
  <2> QED BY <1>16, <2>1
<1>19. ~up => (\A a \in Addrs : cache'[a] = {}) /\ (\A h \in Handlers : handler'[h] = Idle)
  <2>1. ASSUME ~up PROVE (\A a \in Addrs : cache[a] = {}) /\ (\A h \in Handlers : handler[h] = Idle)
    BY <2>1 DEF IInv, TypeOK
  <2> QED BY <1>11, <2>1 DEF Tick
<1>20. whoisWas' \in [Addrs -> Seq(SUBSET Results)] /\ entryWas' \in [Users -> Seq(SUBSET Entries)]
  BY <1>2, <1>3, <1>4
<1>21. TypeOK'
  BY <1>1, <1>2, <1>3, <1>10, <1>13, <1>18, <1>19, <1>20 DEF IInv, TypeOK
<1>22. SessionInv'
  BY <1>17 DEF SessionInv
<1> QED BY <1>5, <1>9, <1>12, <1>21, <1>22 DEF IInv

LEMMA NextInv == IInv /\ [Next]_vars => IInv'
<1> SUFFICES ASSUME IInv, [Next]_vars PROVE IInv'
  OBVIOUS
<1>1. CASE UNCHANGED vars
  <2>1. UNCHANGED <<up, doc, cache, handler, docFile, session, owner, reachable, disturbed, whoisWas, entryWas>>
    BY <1>1 DEF vars, procVars, worldVars, pastVars
  <2> QED BY <2>1 DEF IInv, TypeOK, PastInv, CacheInv, HandlerInv, SessionInv, NowWhois, Follows, Recent, Fresh
<1>2. ASSUME NEW u \in Users, NEW entry \in Entries, Deploy(u, entry) PROVE IInv'
  <2>1. docFile' \in Docs
    BY <1>2 DEF IInv, TypeOK, Docs, Deploy
  <2> QED BY <1>2, <2>1, StopsInv, DisturbType DEF Deploy, IInv
<1>3. ASSUME Crash PROVE IInv'
  <2>1. docFile' \in Docs
    BY <1>3 DEF IInv, TypeOK, Crash
  <2> QED BY <1>3, <2>1, StopsInv, DisturbType DEF Crash, IInv
<1>4. ASSUME NEW h \in Handlers, NEW a \in Addrs, Hit(h, a) PROVE UNCHANGED vars
  BY <1>4 DEF Hit
<1> QED BY <1>1, <1>2, <1>3, <1>4, AskInv, StoreInv, LoginInv, StartsInv, WorldInv, TickInv DEF Next
----------------------------------------------------------------------------
(* The theorems.                                                           *)

\* The type invariant.
THEOREM TypeCorrect == Spec => []TypeOK
<1>1. IInv => TypeOK
  BY DEF IInv
<1> QED BY <1>1, InitInv, NextInv, PTL DEF Spec

\* No answer about a tailnet address, cached, stored late by a slow handler or
\* kept over an outage, is older than the cache's lifetime and one delay
\* (WhoisCache.Lookup lets go of its mutex while it asks tailscaled).
THEOREM AnswersRecent == Spec => []AnswerIsRecent
<1>1. IInv => AnswerIsRecent
  <2> SUFFICES ASSUME IInv, NEW a \in Addrs, NEW r \in Answers(a) PROVE \E k \in 1 .. Horizon + 1 : r \in whoisWas[a][k]
    BY DEF AnswerIsRecent
  <2>1. CASE \E e \in cache[a] : Fresh(e) /\ r = e.result
    BY <2>1 DEF IInv, CacheInv, Recent
  <2>2. CASE \E h \in Handlers : handler[h].at = "told" /\ handler[h].addr = a /\ r = handler[h].result
    BY <2>2 DEF IInv, HandlerInv, Recent
  <2> QED BY <2>1, <2>2 DEF Answers
<1> QED BY <1>1, InitInv, NextInv, PTL DEF Spec

\* A request from the tailnet is let in only as the loaded document says, also
\* from the cache and also by a handler that was told before a restart
\* (a deploy restarts the process, which empties the cache).
THEOREM AnswersFollowDoc == Spec => []VpnFollowsDoc
<1>1. IInv => VpnFollowsDoc
  <2> SUFFICES ASSUME IInv, NEW a \in Addrs, NEW required \in Sites, NEW r \in Answers(a), Verdict(r, required) \in Users
               PROVE  \E groups \in doc[r.user] : CheckGroups(groups, required)
    BY DEF VpnFollowsDoc
  <2>1. r # Failed /\ CheckGroups(r.groups, required)
    BY ConstantsAssumption DEF Verdict
  <2>2. Follows(r)
    BY DEF Answers, IInv, CacheInv, HandlerInv
  <2> QED BY <2>1, <2>2 DEF Follows
<1> QED BY <1>1, InitInv, NextInv, PTL DEF Spec

\* A cookie lets a user in only with groups that the document gave the user at
\* some moment of the last SESSION_MAX_AGE (validateSession compares the expiry
\* that the login has put into the cookie).
THEOREM SessionsEnd == Spec => []SessionEnds
<1>1. IInv => SessionEnds
  <2> SUFFICES ASSUME IInv, NEW u \in Users, NEW required \in Sites, NEW r \in CookieAnswers(u), Verdict(r, required) \in Users
               PROVE  \E k \in 1 .. MaxAge + 1 : \E e \in entryWas[u][k] : \E groups \in e : CheckGroups(groups, required)
    BY DEF SessionEnds
  <2>1. r # Failed /\ CheckGroups(r.groups, required)
    BY ConstantsAssumption DEF Verdict
  <2>2. PICK s \in session[u] : ValidateSession(s) /\ r = [user |-> u, groups |-> s.groups]
    BY <2>1 DEF CookieAnswers
  <2>3. s.left > 0 /\ r.groups = s.groups
    BY <2>2 DEF ValidateSession
  <2>4. PICK k \in 1 .. MaxAge + 1 : \E e \in entryWas[u][k] : s.groups \in e
    BY <2>3 DEF IInv, SessionInv
  <2> QED BY <2>1, <2>3, <2>4
<1> QED BY <1>1, InitInv, NextInv, PTL DEF Spec
=============================================================================
