--------------------------- MODULE IdentityProxy ---------------------------
(***************************************************************************)
(* The identity proxy of one host (pkgs/identity-proxy/main.go), which     *)
(* nginx asks about every request to an identity-mode service.             *)
(*                                                                         *)
(* A request from the tailnet is answered by the owner of its address,     *)
(* which tailscaled tells and a cache remembers; any other request by its  *)
(* session cookie. Both are looked up in the identity document, which the  *)
(* process reads when it starts; a deploy that changes the document        *)
(* restarts the process.                                                   *)
(*                                                                         *)
(* Time passes in ticks and is kept as ages, so that behaviours need no    *)
(* bound. Signatures are left out: a session is what the proxy has signed. *)
(***************************************************************************)
EXTENDS Naturals, Sequences

CONSTANTS
    Users,          \* names in the identity document, each with an email
    Groups,
    Addrs,          \* tailnet addresses
    Handlers,       \* requests that can be in progress at once
    Sites,          \* the groups that a service requires, for each service
    TTL,            \* WhoisCache.ttl, in ticks
    MaxAge,         \* SESSION_MAX_AGE, in ticks
    MaxDelay,       \* ticks an answer of tailscaled may lie unprocessed
    NoUser,         \* the address belongs to nobody known to headscale
    Failed,         \* a whois that ended in an error
    Disturbances,   \* which kinds of disturbance may happen
    MaxDisturb      \* bound: how many of them in a behaviour

Kinds == {"reassign", "outage", "deploy", "crash"}

ASSUME ConstantsAssumption ==
    /\ TTL \in Nat \ {0} /\ MaxAge \in Nat /\ MaxDelay \in Nat /\ MaxDisturb \in Nat
    /\ Sites \subseteq SUBSET Groups
    /\ {NoUser, "unauthorized", "forbidden"} \cap Users = {}
    /\ Failed \notin [user : Users, groups : SUBSET Groups]
    /\ Disturbances \subseteq Kinds

\* A user's entry of the document, or {} for none: a set with the groups.
Entries == {{}} \cup {{g} : g \in SUBSET Groups}
Docs == [Users -> Entries]

\* What a whois says: a user with the groups of the loaded document.
Results == [user : Users, groups : SUBSET Groups] \cup {Failed}

\* How many ticks ago the newest fact behind an answer may have been true.
Horizon == TTL - 1 + MaxDelay

VARIABLES
    docFile,    \* the identity document on disk
    up,         \* the process serves requests
    doc,        \* the document it has loaded
    cache,      \* cache[a]: {} or an entry [result, age]
    handler,    \* what each request handler is doing
    session,    \* session[u]: {} or the cookie of u's browser, [groups, left]
    owner,      \* headscale: owner[a]
    reachable,  \* tailscaled answers
    disturbed,
    \* what the properties compare the answers with
    whoisWas,   \* whoisWas[a][k]: what a whois could say k - 1 ticks ago
    entryWas    \* entryWas[u][k]: u's entry in the loaded document then

procVars  == <<up, doc, cache, handler>>
worldVars == <<docFile, session, owner, reachable>>
pastVars  == <<whoisWas, entryWas>>
vars == <<procVars, worldVars, disturbed, pastVars>>

Disturb(kind) ==
    /\ kind \in Disturbances
    /\ disturbed < MaxDisturb
    /\ disturbed' = disturbed + 1

(***************************************************************************)
(* Decisions.                                                              *)
(***************************************************************************)

\* tailscaleWhois: the owner of the address, by headscale id, in the loaded
\* document.
TailscaleWhois(own, reach, d) ==
    IF ~reach \/ own = NoUser THEN Failed
    ELSE IF d[own] = {} THEN Failed
    ELSE [user |-> own, groups |-> UNION d[own]]

\* checkGroups: any of the required groups will do; no requirement, anyone.
CheckGroups(groups, required) == required = {} \/ groups \cap required # {}

\* handleValidate: 401, 403, or 200 with the user in the headers.
Verdict(result, required) ==
    IF result = Failed THEN "unauthorized"
    ELSE IF CheckGroups(result.groups, required) THEN result.user ELSE "forbidden"

(***************************************************************************)
(* Requests from the tailnet (WhoisCache.Lookup).                          *)
(***************************************************************************)

Idle == [at |-> "idle"]

Fresh(e) == e.age < TTL

\* Mutant: an entry that is used counts as new again.
HitRenews(h, a) ==
    /\ up /\ handler[h] = Idle
    /\ \E e \in cache[a] : Fresh(e)
    /\ cache' = [cache EXCEPT ![a] = {[e EXCEPT !.age = 0] : e \in @}]
    /\ UNCHANGED <<up, doc, handler, worldVars, disturbed, pastVars>>

\* A fresh entry, an error too, is the answer; it stays as old as it is.
Hit(h, a) ==
    /\ up /\ handler[h] = Idle
    /\ \E e \in cache[a] : Fresh(e)
    /\ UNCHANGED vars

\* No entry, or an old one: the handler lets go of the mutex and asks.
Miss(h, a) ==
    /\ up /\ handler[h] = Idle
    /\ ~ \E e \in cache[a] : Fresh(e)
    /\ handler' = [handler EXCEPT ![h] = [at |-> "asking", addr |-> a]]
    /\ UNCHANGED <<up, doc, cache, worldVars, disturbed, pastVars>>

\* tailscaled answers the handler.
Whois(h) ==
    /\ handler[h].at = "asking"
    /\ handler' = [handler EXCEPT ![h] =
         [at |-> "told", addr |-> @.addr, delay |-> 0,
          result |-> TailscaleWhois(owner[@.addr], reachable, doc)]]
    /\ UNCHANGED <<up, doc, cache, worldVars, disturbed, pastVars>>

\* The handler stores what it was told, over what another one may have stored
\* since, and answers with it.
Store(h) ==
    /\ handler[h].at = "told"
    /\ cache' = [cache EXCEPT ![handler[h].addr] = {[result |-> handler[h].result, age |-> 0]}]
    /\ handler' = [handler EXCEPT ![h] = Idle]
    /\ UNCHANGED <<up, doc, worldVars, disturbed, pastVars>>

\* What a request from the address can be answered with now.
Answers(a) ==
    {e.result : e \in {x \in cache[a] : Fresh(x)}}
    \cup {handler[h].result : h \in {x \in Handlers : handler[x].at = "told" /\ handler[x].addr = a}}

(***************************************************************************)
(* Sessions.                                                               *)
(***************************************************************************)

\* Mutant: the expiry inside the cookie is not looked at.
ValidateAnySession(s) == TRUE

\* validateSession: good until the moment it expires.
ValidateSession(s) == s.left > 0

\* handleCallback: u has authenticated with the issuer; the groups of the
\* loaded document go into the cookie.
Login(u) ==
    /\ up
    /\ session' = IF doc[u] = {} THEN session
                  ELSE [session EXCEPT ![u] = {[groups |-> UNION doc[u], left |-> MaxAge + 1]}]
    /\ UNCHANGED <<procVars, docFile, owner, reachable, disturbed, pastVars>>

\* The answers to a request from elsewhere with u's cookie.
CookieAnswers(u) ==
    {IF ValidateSession(s) THEN [user |-> u, groups |-> s.groups] ELSE Failed : s \in session[u]}

(***************************************************************************)
(* The process, its surroundings and time.                                 *)
(***************************************************************************)

\* What is true now is added to what was true in this tick.
Noted ==
    /\ whoisWas' = [a \in Addrs |->
         [whoisWas[a] EXCEPT ![1] = @ \cup {TailscaleWhois(owner'[a], reachable', doc')}]]
    /\ entryWas' = [u \in Users |-> [entryWas[u] EXCEPT ![1] = @ \cup {doc'[u]}]]

\* Mutant: the process does not wait for the requests in progress to end.
StopsBesideRequests ==
    /\ up' = FALSE
    /\ cache' = [a \in Addrs |-> {}]
    /\ UNCHANGED <<handler, doc, session, owner, reachable>>
    /\ Noted

\* The process ends: requests in progress and the cache are gone.
Stops ==
    /\ up' = FALSE
    /\ cache' = [a \in Addrs |-> {}]
    /\ handler' = [h \in Handlers |-> Idle]
    /\ UNCHANGED <<doc, session, owner, reachable>>
    /\ Noted

\* A deploy with a new document restarts the process (restartTriggers).
Deploy(u, entry) ==
    /\ Disturb("deploy") /\ docFile[u] # entry
    /\ docFile' = [docFile EXCEPT ![u] = entry]
    /\ Stops

Crash == up /\ Disturb("crash") /\ Stops /\ UNCHANGED docFile

\* Mutant: results of the old document are kept over the restart.
StartsWarm ==
    /\ ~up /\ up' = TRUE
    /\ doc' = docFile
    /\ cache' = [a \in Addrs |-> {[result |-> r, age |-> 0] : r \in {TailscaleWhois(owner[a], reachable, doc)}}]
    /\ UNCHANGED <<handler, worldVars, disturbed>>
    /\ Noted

\* main: loadIdentityDoc; sessions are still good, the cookie key is on disk.
Starts ==
    /\ ~up /\ up' = TRUE
    /\ doc' = docFile
    /\ UNCHANGED <<cache, handler, worldVars, disturbed>>
    /\ Noted

\* The address goes to another user, or to none.
Reassign(a, u) ==
    /\ Disturb("reassign") /\ owner[a] # u
    /\ owner' = [owner EXCEPT ![a] = u]
    /\ UNCHANGED <<procVars, docFile, session, reachable>>
    /\ Noted

\* tailscaled stops answering.
Outage ==
    /\ reachable /\ Disturb("outage")
    /\ reachable' = FALSE
    /\ UNCHANGED <<procVars, docFile, session, owner>>
    /\ Noted

OutageEnds ==
    /\ ~reachable /\ reachable' = TRUE
    /\ UNCHANGED <<procVars, docFile, session, owner, disturbed>>
    /\ Noted

\* An old entry stays as it is; nothing counts how old.
Aged(e) == [e EXCEPT !.age = IF @ < TTL THEN @ + 1 ELSE @]

Tick ==
    /\ \A h \in Handlers : handler[h].at = "told" => handler[h].delay < MaxDelay
    /\ handler' = [h \in Handlers |->
         IF handler[h].at = "told" THEN [handler[h] EXCEPT !.delay = @ + 1] ELSE handler[h]]
    /\ cache' = [a \in Addrs |-> {Aged(e) : e \in cache[a]}]
    /\ session' = [u \in Users |-> {[s EXCEPT !.left = IF @ = 0 THEN 0 ELSE @ - 1] : s \in session[u]}]
    /\ whoisWas' = [a \in Addrs |->
         <<{TailscaleWhois(owner[a], reachable, doc)}>> \o SubSeq(whoisWas[a], 1, Horizon)]
    /\ entryWas' = [u \in Users |-> <<{doc[u]}>> \o SubSeq(entryWas[u], 1, MaxAge)]
    /\ UNCHANGED <<up, doc, docFile, owner, reachable, disturbed>>

(***************************************************************************)
(* The specification.                                                      *)
(***************************************************************************)

Init ==
    /\ docFile \in Docs /\ doc = docFile
    /\ up = TRUE
    /\ cache = [a \in Addrs |-> {}]
    /\ handler = [h \in Handlers |-> Idle]
    /\ session = [u \in Users |-> {}]
    /\ owner \in [Addrs -> Users]
    /\ reachable = TRUE
    /\ disturbed = 0
    /\ whoisWas = [a \in Addrs |->
         [k \in 1 .. Horizon + 1 |-> {TailscaleWhois(owner[a], reachable, doc)}]]
    /\ entryWas = [u \in Users |-> [k \in 1 .. MaxAge + 1 |-> {doc[u]}]]

Next ==
    \/ \E h \in Handlers : Whois(h) \/ Store(h)
    \/ \E h \in Handlers, a \in Addrs : Hit(h, a) \/ Miss(h, a)
    \/ \E u \in Users : Login(u)
    \/ \E u \in Users, entry \in Entries : Deploy(u, entry)
    \/ \E a \in Addrs, u \in Users \cup {NoUser} : Reassign(a, u)
    \/ Crash \/ Starts \/ Outage \/ OutageEnds \/ Tick

Spec == Init /\ [][Next]_vars

(***************************************************************************)
(* Properties.                                                             *)
(***************************************************************************)

Jobs ==
    {Idle}
    \cup [at : {"asking"}, addr : Addrs]
    \cup [at : {"told"}, addr : Addrs, delay : 0 .. MaxDelay, result : Results]

\* The type invariant: at most one entry per address and one cookie per
\* browser; only a process that is up has requests or a cache.
TypeOK ==
    /\ docFile \in Docs /\ doc \in Docs
    /\ cache \in [Addrs -> {{}} \cup {{e} : e \in [result : Results, age : 0 .. TTL]}]
    /\ handler \in [Handlers -> Jobs]
    /\ ~up => (\A a \in Addrs : cache[a] = {}) /\ (\A h \in Handlers : handler[h] = Idle)
    /\ session \in [Users -> {{}} \cup {{s} : s \in [groups : SUBSET Groups, left : 0 .. MaxAge + 1]}]
    /\ owner \in [Addrs -> Users \cup {NoUser}]
    /\ {up, reachable} \subseteq BOOLEAN
    /\ disturbed \in 0 .. MaxDisturb
    /\ whoisWas \in [Addrs -> Seq(SUBSET Results)] /\ \A a \in Addrs : Len(whoisWas[a]) = Horizon + 1
    /\ entryWas \in [Users -> Seq(SUBSET Entries)] /\ \A u \in Users : Len(entryWas[u]) = MaxAge + 1

\* An answer about a tailnet address, a refusal too, is what a whois could
\* have said at most the cache's lifetime (and a handler's delay) ago: however
\* often it is asked, and whichever of two concurrent lookups stores last,
\* neither an old owner nor a passing outage of tailscaled outlives the entry.
AnswerIsRecent ==
    \A a \in Addrs, required \in Sites : \A r \in Answers(a) :
        \E k \in 1 .. Horizon + 1 : \E was \in whoisWas[a][k] :
            Verdict(r, required) = Verdict(was, required)

\* A deploy takes effect at once on the tailnet: a request that is let in
\* satisfies the document the process runs with, cached or not, because the
\* cache never outlives the document its entries point into.
VpnFollowsDoc ==
    \A a \in Addrs, required \in Sites : \A r \in Answers(a) :
        Verdict(r, required) \in Users =>
            \E groups \in doc[r.user] : CheckGroups(groups, required)

\* A cookie freezes the groups of its login: it lets a user in only if the
\* document did so at some moment of the last SESSION_MAX_AGE, over restarts
\* and later logins.
SessionEnds ==
    \A u \in Users, required \in Sites : \A r \in CookieAnswers(u) :
        Verdict(r, required) \in Users =>
            \E k \in 1 .. MaxAge + 1 : \E e \in entryWas[u][k] : \E groups \in e :
                CheckGroups(groups, required)
=============================================================================
