--------------------------- MODULE MCTurnDelivery ---------------------------
(***************************************************************************)
(* Instances of TurnDelivery for TLC.                                      *)
(***************************************************************************)
EXTENDS TurnDelivery, TLC

Entry(id, type, enabled, priority) ==
  [id |-> id, type |-> type, enabled |-> enabled, urls |-> TRUE, secret |-> TRUE,
   priority |-> priority]

\* The local router is listed first and tried after Cloudflare, by its priority;
\* beside a static provider it is switched off.  Without a stored config it is tried
\* before Cloudflare.
TwoConfigs ==
  {<<Entry("router", "local-rest", TRUE, 2), Entry(Cloudflare, "cloudflare", TRUE, 1)>>,
   <<Entry("relay", "static", TRUE, 1), Entry(LocalTurn, "local-rest", FALSE, 2)>>}

\* The local router with its REST API and the HMAC fallback.
Complete == {[api |-> TRUE, hmac |-> TRUE, urls |-> TRUE]}

NoExclusion == {{}}

\* The router is up when the first call arrives; MaxTurns takes it from there.
StartsUp == {"up"}

Symmetric == Permutations(Calls)

\* The calls tell instants apart only by how long ago they were, and not even that of
\* an entry that has expired or of a ghost older than the properties ask for: states
\* that agree on the ages that still count have the same futures, and TLC keeps one of
\* them.  The clock itself counts as long as calls arrive.
Age(instant, span) ==
  IF instant = None THEN None ELSE IF clock - instant > span THEN None ELSE clock - instant

Entries(cache, hits(_)) ==
  [i \in Instances |->
     IF hits(i) THEN <<cache[i].value, clock - cache[i].at>> ELSE <<>>]

Ages ==
  <<deploy, router, turns, doc, arrivals,
    IF Open THEN clock ELSE None,
    [state \in RouterStates |-> Age(leftAt[state], VerdictAge)],
    [f \in Configs \ {doc} |-> Age(heldUntil[f], ConfigTTL - 1 + StoreTime)],
    Entries(configCache, ConfigHit),
    Entries(loadCache, LAMBDA i : LoadHit(loadCache[i])),
    [c \in Calls |->
       IF call[c].pc = "idle" THEN <<>>
       ELSE <<[call[c] EXCEPT !.at = clock - @, !.by = @ - clock]>>]>>
=============================================================================
