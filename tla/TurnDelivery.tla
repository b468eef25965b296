----------------------------- MODULE TurnDelivery -----------------------------
(***************************************************************************)
(* The delivery of TURN credentials (functions/index.js:                   *)
(* getTurnCredentials, the provider resolvers, probeLocalTurnLoad,         *)
(* getTurnConfigFromFirestore) and the admin callables                     *)
(* that work on the same state: setTurnConfigAdmin, getTurnConfigAdmin,    *)
(* checkTurnHealth, getLocalTurnStatus, getLocalTurnLoadAdmin.             *)
(*                                                                         *)
(* Every function instance keeps two things in memory: the provider        *)
(* config, and the last verdict on the local router.                       *)
(* Calls on one instance interleave at every await, so an entry may be     *)
(* written by a call that read the world long before.  A cold start is a   *)
(* call on an instance that has served none.                               *)
(*                                                                         *)
(* Time passes in ticks, never beyond the deadline of what a call waits    *)
(* for.  Firestore, Cloudflare and the body of an answer, which no timeout *)
(* of the code covers, are taken to arrive within StoreTime, CloudflareTime *)
(* and BodyTime.                                                           *)
(***************************************************************************)
EXTENDS Integers, Sequences, FiniteSets, SequencesExt

CONSTANTS
  Instances, Calls,
  None,
  Inputs,          \* what an admin may send to setTurnConfigAdmin
  Deployments,     \* what the environment configures, [api, hmac, urls]
  Exclusions,      \* what clients send as excludeProviderIds
  RouterStart,     \* the states the router may be in when the first call arrives
  ConfigTTL,       \* TURN_CONFIG_CACHE_TTL
  LoadTTL,         \* LOCAL_TURN_LOAD_CACHE_TTL_MS
  FailTTL,         \* LOCAL_TURN_LOAD_CACHE_TTL_FAIL_MS
  ProbeTimeout,    \* LOCAL_TURN_LOAD_TIMEOUT_MS
  CredTimeout,     \* DEFAULT_LOCAL_TURN_TIMEOUT_MS
  AdminTimeout,    \* of fetchLocalTurnAdminEndpoint
  StoreTime, CloudflareTime, BodyTime,
  LastCall,        \* bound on the instants at which calls arrive
  MaxTime,         \* bound on the clock
  MaxCalls,        \* bound on the calls that arrive; Calls bounds those in flight
  MaxTurns         \* bound on the changes of the router

\* "refused": connections fail or the API answers with an error; "silent": nothing
\* comes back.
RouterStates == {"up", "overloaded", "refused", "silent"}

Times == {ConfigTTL, LoadTTL, FailTTL, ProbeTimeout, CredTimeout, AdminTimeout,
          StoreTime, CloudflareTime, BodyTime}

ASSUME TurnAssumption ==
  /\ Times \subseteq Nat \ {0}
  /\ {LastCall, MaxTime, MaxCalls, MaxTurns} \subseteq Nat
  /\ FailTTL <= LoadTTL
  /\ RouterStart \subseteq RouterStates
  /\ \A d \in Deployments : d \in [api : BOOLEAN, hmac : BOOLEAN, urls : BOOLEAN]
  /\ \A input \in Inputs : IsFiniteSet(DOMAIN input)
  /\ None \notin Nat /\ None \notin {"up", "overloaded", "failed"}

(***************************************************************************)
(* Providers.  urls and secret say whether there are any.  A stored config *)
(* is a sequence: renumberProviders makes the position the priority.       *)
(***************************************************************************)
Cloudflare == "cloudflare-builtin"
LocalTurn == "local-turn-builtin"

CloudflareBuiltin ==
  [id |-> Cloudflare, type |-> "cloudflare", enabled |-> TRUE, urls |-> FALSE, secret |-> FALSE]

LocalBuiltin(d) ==
  [id |-> LocalTurn, type |-> "local-rest", enabled |-> TRUE, urls |-> d.urls, secret |-> FALSE]

\* The types that have an entry in providerResolvers.
ProviderTypes == {"cloudflare", "local-rest", "hmac-secret", "static"}

Known(p) == p.id \in {Cloudflare, LocalTurn} \/ p.type \in ProviderTypes

\* sanitizeTurnProvider: whatever claims to be Cloudflare or the local router is it.
Sanitize(p) ==
  LET builtin == IF p.id = Cloudflare \/ p.type = "cloudflare" THEN CloudflareBuiltin
                 ELSE LocalBuiltin(p)
  IN IF p.id \in {Cloudflare, LocalTurn} \/ p.type \in {"cloudflare", "local-rest"}
     THEN [builtin EXCEPT !.enabled = p.enabled]
     ELSE [id |-> p.id, type |-> p.type, enabled |-> p.enabled, urls |-> p.urls,
           secret |-> p.secret]

\* What setTurnConfigAdmin stores of its input: sorted by priority (the sort is
\* stable) and renumbered.
Stored(input) ==
  LET known == {i \in DOMAIN input : Known(input[i])}
      before(i, j) == \/ input[i].priority < input[j].priority
                      \/ input[i].priority = input[j].priority /\ i < j
      entry(n) == input[CHOOSE i \in known :
                          Cardinality({j \in known : before(j, i)}) = n - 1]
  IN [n \in 1..Cardinality(known) |-> Sanitize(entry(n))]

Submitted == {Stored(input) : input \in Inputs}

Configs == {None} \cup Submitted

Has(list, id) == \E i \in DOMAIN list : list[i].id = id

\* buildProviderList.  A stored entry has every field, so the defaults it is merged
\* with never show; a builtin that is not stored is there all the same.
BuildProviderList(config, d) ==
  LET stored == IF config = None THEN <<>> ELSE config
      withCloudflare == IF Has(stored, Cloudflare) THEN stored
                        ELSE Append(stored, CloudflareBuiltin)
  IN IF (d.api \/ d.hmac) /\ ~Has(stored, LocalTurn)
     THEN <<LocalBuiltin(d)>> \o withCloudflare
     ELSE withCloudflare

\* The providers a call tries, in the order of the list.
IsCandidate(p, exclude) == p.enabled /\ p.id \notin exclude

VARIABLES
  deploy,     \* the environment of this deployment
  clock,
  router,     \* the local TURN router and the network up to its REST API
  turns,
  leftAt,     \* ghost: when the router last left each state, None if never
  doc,        \* admin/turn_config
  heldUntil,  \* ghost: when each config was last the stored one
  configCache,  \* _turnConfigCache, _turnConfigCacheAt
  loadCache,    \* _localTurnLoadCache
  call,         \* the calls in flight
  arrivals

world == <<deploy, clock, router, turns, leftAt>>
memory == <<configCache, loadCache>>
vars == <<world, doc, heldUntil, memory, call, arrivals>>

Verdicts == {"up", "overloaded", "failed"}

Instants == 0..MaxTime

Kinds == {"turn", "read", "save", "load"}

\* A call stands at an await (get, got: the read of the config; set, saved: its
\* write; probe, body: /load; credentials; cloudflare).
Pending == {"get", "got", "set", "saved", "probe", "body", "credentials", "cloudflare"}

\* Every provider that a config lists.
Listed == UNION {Range(BuildProviderList(f, d)) : f \in Configs, d \in Deployments}

CallRecords ==
  [pc : {"idle"} \cup Pending, kind : Kinds \cup {None},
   inst : Instances \cup {None}, exclude : {{}} \cup Exclusions,
   at : Instants, by : Nat, config : Configs, left : Seq(Listed),
   load : Verdicts \cup {None}]

NoCall == [pc |-> "idle", kind |-> None, inst |-> None, exclude |-> {}, at |-> 0, by |-> 0,
           config |-> None, left |-> <<>>, load |-> None]

Init ==
  /\ deploy \in Deployments
  /\ clock = 0
  /\ router \in RouterStart
  /\ turns = 0
  /\ leftAt = [state \in RouterStates |-> None]
  /\ doc = None
  /\ heldUntil = [f \in Configs |-> 0]
  /\ configCache = [i \in Instances |-> [value |-> None, at |-> 0]]
  /\ loadCache = [i \in Instances |-> [value |-> None, at |-> 0]]
  /\ call = [c \in Calls |-> NoCall]
  /\ arrivals = 0

(***************************************************************************)
(* The world.                                                              *)
(***************************************************************************)
\* Calls still arrive.
Open == arrivals < MaxCalls /\ clock <= LastCall

\* Nothing is explored before the first call, nor when no more arrive and every call
\* has ended.
Awake == arrivals > 0 /\ (Open \/ \E c \in Calls : call[c].pc # "idle")

Tick ==
  /\ Awake
  /\ clock < MaxTime
  /\ \A c \in Calls : call[c].pc # "idle" => clock < call[c].by
  /\ clock' = clock + 1
  /\ UNCHANGED <<deploy, router, turns, leftAt, doc, heldUntil, memory, call, arrivals>>

RouterTurns(state) ==
  /\ Awake
  /\ turns < MaxTurns
  /\ state # router
  /\ router' = state
  /\ turns' = turns + 1
  /\ leftAt' = [leftAt EXCEPT ![router] = clock]
  /\ UNCHANGED <<deploy, clock, doc, heldUntil, memory, call, arrivals>>

(***************************************************************************)
(* The memory of an instance.                                              *)
(***************************************************************************)
\* Mutant of ConfigHit: the entry is still served when it is ConfigTTL old.
ConfigHitOneMore(i) ==
  /\ configCache[i].value # None
  /\ clock - configCache[i].at <= ConfigTTL

\* _turnConfigCache is null when there was no document, and null never hits.
ConfigHit(i) ==
  /\ configCache[i].value # None
  /\ clock - configCache[i].at < ConfigTTL

\* Mutant of LoadLifetime: a failure is kept as long as an answer.
LoadLifetimeOne(verdict) == LoadTTL

LoadLifetime(verdict) == IF verdict = "failed" THEN FailTTL ELSE LoadTTL

\* Mutant of LoadHit: a verdict never expires.
LoadHitForever(load) == load.value # None

LoadHit(load) == load.value # None /\ clock - load.at < LoadLifetime(load.value)

(***************************************************************************)
(* A call goes from one await to the next.                                 *)
(***************************************************************************)
Arrives(c) ==
  /\ Open
  /\ call[c].pc = "idle"
  /\ arrivals' = arrivals + 1

Begun(kind, i) == [NoCall EXCEPT !.kind = kind, !.inst = i]

\* The next await of call record r, which has to end within span.
Await(r, pc, span) ==
  [r EXCEPT !.pc = pc, !.at = clock, !.by = clock + span, !.load = None]

(***************************************************************************)
(* The loop of getTurnCredentials over the providers.  The code between    *)
(* two awaits runs undisturbed; load is the instance's cache entry.        *)
(***************************************************************************)
\* The provider is filtered out or has no resolver, or its resolver returns no
\* servers and awaits nothing before it does.
PassedOver(p, exclude, load) ==
  \/ ~IsCandidate(p, exclude) \/ p.type \notin ProviderTypes
  \/ p.type = "static" /\ ~p.urls
  \/ p.type = "hmac-secret" /\ ~(p.urls /\ p.secret)
  \/ p.type = "local-rest" /\ (~p.urls \/ ~deploy.api \/ (LoadHit(load) /\ load.value # "up"))

\* What the resolver of the first provider left comes to.  Only a router whose load
\* is known and bearable is asked for credentials.
Attempt(r, load) ==
  CASE Head(r.left).type \in {"static", "hmac-secret"} -> NoCall
    [] Head(r.left).type = "cloudflare" -> Await(r, "cloudflare", CloudflareTime)
    [] OTHER -> IF LoadHit(load) THEN Await(r, "credentials", CredTimeout + BodyTime)
                ELSE Await(r, "probe", ProbeTimeout)

\* The position of the first provider that is not passed over, 0 without one.
FirstTried(list, exclude, load) ==
  SelectInSeq(list, LAMBDA p : ~PassedOver(p, exclude, load))

\* The call goes on with the providers of list; without one it throws "internal".
Proceed(r, list, load) ==
  LET k == FirstTried(list, r.exclude, load)
  IN IF k = 0 THEN NoCall
     ELSE Attempt([r EXCEPT !.left = SubSeq(list, k, Len(list))], load)

NextProvider(r, load) == Proceed(r, Tail(r.left), load)

\* The config is known.
Starts(r, config) ==
  Proceed([r EXCEPT !.config = config], BuildProviderList(config, deploy),
          loadCache[r.inst])

(***************************************************************************)
(* getTurnCredentials.                                                     *)
(***************************************************************************)
TurnBegin(c, i, exclude) ==
  LET r == [Begun("turn", i) EXCEPT !.exclude = exclude]
  IN /\ Arrives(c)
     /\ call' = [call EXCEPT ![c] = IF ConfigHit(i) THEN Starts(r, configCache[i].value)
                                    ELSE Await(r, "get", StoreTime)]
     /\ UNCHANGED <<world, doc, heldUntil, memory>>

\* Firestore answers the get with the document as it is now.
ConfigRead(c) ==
  /\ call[c].pc = "get"
  /\ call' = [call EXCEPT ![c].pc = "got", ![c].config = doc]
  /\ UNCHANGED <<world, doc, heldUntil, memory, arrivals>>

\* The continuation of getTurnConfigFromFirestore: the entry is dated from before
\* the read.  An admin's forced read ends here.
ConfigGot(c) ==
  LET r == call[c]
  IN /\ r.pc = "got"
     /\ configCache' = [configCache EXCEPT ![r.inst] = [value |-> r.config, at |-> r.at]]
     /\ call' = [call EXCEPT ![c] = IF r.kind = "turn" THEN Starts(r, r.config)
                                    ELSE NoCall]
     /\ UNCHANGED <<world, doc, heldUntil, loadCache, arrivals>>

\* resolveCloudflareProvider, without a timeout of its own: it answers, or it throws
\* or returns no servers.
CloudflareEnds(c) ==
  LET r == call[c]
  IN /\ r.pc = "cloudflare"
     /\ \E next \in {NoCall, NextProvider(r, loadCache[r.inst])} :
          call' = [call EXCEPT ![c] = next]
     /\ UNCHANGED <<world, doc, heldUntil, memory, arrivals>>

(***************************************************************************)
(* resolveLocalRestProvider and probeLocalTurnLoad.                        *)
(***************************************************************************)
\* Mutant of ProbeAnswers: an error status is taken for an answer.
ProbeAnswersAny(c) ==
  /\ call[c].pc = "probe"
  /\ router # "silent"
  /\ call' = [call EXCEPT ![c].pc = "body", ![c].load = router, ![c].by = clock + BodyTime]
  /\ UNCHANGED <<world, doc, heldUntil, memory, arrivals>>

\* The headers of /load arrive, which ends the timeout; the body follows.
ProbeAnswers(c) ==
  /\ call[c].pc = "probe"
  /\ router \in {"up", "overloaded"}
  /\ call' = [call EXCEPT ![c].pc = "body", ![c].load = router, ![c].by = clock + BodyTime]
  /\ UNCHANGED <<world, doc, heldUntil, memory, arrivals>>

\* A call's own probe decides for it, and for others from before the probe began.
Judged(c, verdict) ==
  LET r == call[c]
      entry == [value |-> verdict, at |-> r.at]
  IN /\ loadCache' = [loadCache EXCEPT ![r.inst] = entry]
     /\ call' = [call EXCEPT ![c] =
                   IF verdict = "up" THEN Await(r, "credentials", CredTimeout + BodyTime)
                   ELSE NextProvider(r, entry)]
     /\ UNCHANGED <<world, doc, heldUntil, configCache, arrivals>>

ProbeEnds(c) ==
  /\ call[c].kind = "turn"
  /\ call[c].pc = "body"
  /\ Judged(c, call[c].load)

\* The connection fails, the API answers with an error, or the timeout aborts.
Unanswered(c) ==
  \/ call[c].pc \in {"probe", "body"} /\ router = "refused"
  \/ call[c].pc = "probe" /\ router = "silent" /\ clock = call[c].by

ProbeFails(c) ==
  /\ call[c].kind = "turn"
  /\ Unanswered(c)
  /\ Judged(c, "failed")

\* /credentials answers.
CredentialsAnswer(c) ==
  /\ call[c].pc = "credentials"
  /\ router \in {"up", "overloaded"}
  /\ call' = [call EXCEPT ![c] = NoCall]
  /\ UNCHANGED <<world, doc, heldUntil, memory, arrivals>>

\* It does not, or not with credentials: the HMAC fallback makes them here.
CredentialsFail(c) ==
  LET r == call[c]
  IN /\ r.pc = "credentials"
     /\ call' = [call EXCEPT ![c] = IF deploy.hmac THEN NoCall
                                    ELSE NextProvider(r, loadCache[r.inst])]
     /\ UNCHANGED <<world, doc, heldUntil, memory, arrivals>>

(***************************************************************************)
(* The admin's callables.                                                  *)
(***************************************************************************)
\* getTurnConfigAdmin and checkTurnHealth read past the cache and refill it.
ReadBegin(c, i) ==
  /\ Arrives(c)
  /\ call' = [call EXCEPT ![c] = Await(Begun("read", i), "get", StoreTime)]
  /\ UNCHANGED <<world, doc, heldUntil, memory>>

\* setTurnConfigAdmin.
SaveBegin(c, i, config) ==
  /\ Arrives(c)
  /\ call' = [call EXCEPT ![c] =
                [Await(Begun("save", i), "set", StoreTime) EXCEPT !.config = config]]
  /\ UNCHANGED <<world, doc, heldUntil, memory>>

\* saveTurnConfigToFirestore: the document is replaced ...
SaveSet(c) ==
  /\ call[c].pc = "set"
  /\ doc' = call[c].config
  /\ heldUntil' = [heldUntil EXCEPT ![doc] = clock]
  /\ call' = [call EXCEPT ![c].pc = "saved"]
  /\ UNCHANGED <<world, memory, arrivals>>

\* ... and then this instance's cache, dated from now.
SaveCached(c) ==
  LET r == call[c]
  IN /\ r.pc = "saved"
     /\ configCache' = [configCache EXCEPT ![r.inst] = [value |-> r.config, at |-> clock]]
     /\ call' = [call EXCEPT ![c] = NoCall]
     /\ UNCHANGED <<world, doc, heldUntil, loadCache, arrivals>>

\* Firestore fails, before or after a write took effect: the callable throws.
StoreFails(c) ==
  /\ call[c].pc \in {"get", "set", "saved"}
  /\ call' = [call EXCEPT ![c] = NoCall]
  /\ UNCHANGED <<world, doc, heldUntil, memory, arrivals>>

\* getLocalTurnStatus, getLocalTurnLoadAdmin: fetchLocalTurnAdminEndpoint asks the
\* router whatever the cache holds.
LoadBegin(c, i) ==
  /\ Arrives(c)
  /\ deploy.api
  /\ call' = [call EXCEPT ![c] = Await(Begun("load", i), "probe", AdminTimeout)]
  /\ UNCHANGED <<world, doc, heldUntil, memory>>

\* The answer refills the cache, dated from now.
LoadEnds(c) ==
  LET r == call[c]
  IN /\ r.kind = "load"
     /\ r.pc = "body"
     /\ loadCache' = [loadCache EXCEPT ![r.inst] = [value |-> r.load, at |-> clock]]
     /\ call' = [call EXCEPT ![c] = NoCall]
     /\ UNCHANGED <<world, doc, heldUntil, configCache, arrivals>>

\* A failure is reported and leaves the cache alone, and so does an answer that
\* says nothing of the load.
LoadFails(c) ==
  /\ call[c].kind = "load"
  /\ Unanswered(c) \/ call[c].pc = "body"
  /\ call' = [call EXCEPT ![c] = NoCall]
  /\ UNCHANGED <<world, doc, heldUntil, memory, arrivals>>

Next ==
  \/ Tick
  \/ \E state \in RouterStates : RouterTurns(state)
  \/ \E c \in Calls, i \in Instances :
       \/ \E exclude \in Exclusions : TurnBegin(c, i, exclude)
       \/ \E config \in Submitted : SaveBegin(c, i, config)
       \/ ReadBegin(c, i)
       \/ LoadBegin(c, i)
  \/ \E c \in Calls :
       \/ ConfigRead(c) \/ ConfigGot(c)
       \/ CloudflareEnds(c)
       \/ ProbeAnswers(c) \/ ProbeEnds(c) \/ ProbeFails(c)
       \/ CredentialsAnswer(c) \/ CredentialsFail(c)
       \/ SaveSet(c) \/ SaveCached(c) \/ StoreFails(c)
       \/ LoadEnds(c) \/ LoadFails(c)

Spec == Init /\ [][Next]_vars

(***************************************************************************)
(* Properties.                                                             *)
(***************************************************************************)
TypeOK ==
  /\ deploy \in Deployments
  /\ clock \in Instants
  /\ router \in RouterStates
  /\ turns \in 0..MaxTurns
  /\ leftAt \in [RouterStates -> Instants \cup {None}]
  /\ doc \in Configs
  /\ heldUntil \in [Configs -> Instants]
  /\ configCache \in [Instances -> [value : Configs, at : Instants]]
  /\ loadCache \in [Instances -> [value : Verdicts \cup {None}, at : Instants]]
  /\ call \in [Calls -> CallRecords]
  /\ arrivals \in 0..MaxCalls

\* The router is in the state, or was within span.
Within(state, span) ==
  router = state \/ (leftAt[state] # None /\ clock - leftAt[state] <= span)

\* How old an answer of the router may be when it is acted on: a cache entry lasts
\* LoadTTL, and an answer may have been on its way for BodyTime before it was dated.
VerdictAge == LoadTTL - 1 + BodyTime

\* Credentials of the local router are asked for or made only if it was up within
\* VerdictAge: a router that died stops being handed out, although the HMAC fallback
\* never notices, and although calls overwrite each other's verdicts out of order
\* (the health gate, index.js 683-716).
DeadRouterNotServed ==
  [][\A c \in Calls :
       call[c].pc # "credentials" /\ call'[c].pc = "credentials"
         => Within("up", VerdictAge)]_vars

\* A call that may use the local router before Cloudflare goes to Cloudflare without
\* having asked for local credentials only if the router was overloaded within
\* VerdictAge, or did not answer within the shorter life of a failure: "a recovered
\* router is picked up quickly" and costs no egress (index.js 541-547, 913-918).  A
\* failure is dated from before its probe, so that a timed-out one has lived for
\* ProbeTimeout when it is noticed: at 5 and 6 seconds it never meets a call.
LocalFirst(r) ==
  LET list == BuildProviderList(r.config, deploy)
  IN \E i \in DOMAIN list :
       /\ IsCandidate(list[i], r.exclude)
       /\ list[i].type = "local-rest" /\ list[i].urls /\ deploy.api
       /\ \A j \in 1..(i - 1) : IsCandidate(list[j], r.exclude) => list[j].type # "cloudflare"

LiveRouterNotSkipped ==
  [][\A c \in Calls :
       /\ call[c].pc \in {"idle", "got", "probe", "body"}
       /\ call'[c].pc = "cloudflare"
       /\ LocalFirst(call'[c])
       => \/ Within("overloaded", VerdictAge)
          \/ Within("refused", FailTTL - 1)
          \/ Within("silent", FailTTL - 1 - ProbeTimeout)]_vars

\* Whatever config an instance would serve was the stored one within ConfigTTL, or
\* within the time its own save took on top of it: an admin's save reaches every
\* instance, whatever reads and saves were on their way (index.js 465-497).
HeldWithin(config, span) == doc = config \/ clock - heldUntil[config] <= span

ConfigNotStale ==
  /\ \A i \in Instances :
       ConfigHit(i) => HeldWithin(configCache[i].value, ConfigTTL - 1 + StoreTime)
  /\ \A c \in Calls : call[c].pc = "got" => HeldWithin(call[c].config, StoreTime)
=============================================================================
