------------------------------ MODULE WebLease ------------------------------
(***************************************************************************)
(* The Web Companion lease: a mobile client authorizes one browser, the    *)
(* browser keeps its lease alive by refreshing it, and firestore.rules     *)
(* admits the browser while the lease document, its ID token and the clock *)
(* agree (functions/index.js: authorizeWebClient,                          *)
(* writeActiveWebClientSession, setClientClaims, refreshWebClientAuth,     *)
(* registerMobileClient; firestore.rules: hasActiveWebSession).            *)
(*                                                                         *)
(* Each callable is a sequence of awaits, so a call in flight is a record  *)
(* that holds what it read or sampled; other calls and the clock move      *)
(* between its steps.  A call may stop after any await (instance crash,    *)
(* timeout, failed request).  The pairing document key is written once by  *)
(* the authorization and only ever compared with itself; it is left out.   *)
(***************************************************************************)
EXTENDS Integers, FiniteSets

CONSTANTS
  Mobiles,      \* uids of mobile clients
  Browsers,     \* anonymous uids of browsers
  SessionIds,   \* webSessionId values a browser presents
  Authorizers,  \* authorizeWebClient invocations in flight at one time
  Refreshers,   \* refreshWebClientAuth invocations in flight at one time
  None,         \* an absent uid, session id or claim
  Lease,        \* WEB_AUTH_LEASE_MS
  MaxAuth,      \* WEB_AUTH_MAX_MS
  MaxClock      \* bound on the clock, in Tick only

ASSUME LeaseAssumption ==
  /\ Lease \in Nat \ {0}
  /\ MaxAuth \in Nat
  /\ Lease <= MaxAuth
  /\ MaxClock \in Nat

ASSUME NoneAssumption ==
  /\ None \notin Mobiles \cup Browsers \cup SessionIds
  /\ Mobiles \cap Browsers = {}

VARIABLES
  clock,         \* Date.now() and request.time
  session,       \* web_client_sessions/{webUid}
  activeWebUid,  \* web_client_mobiles/{mobileUid}.activeWebUid
  claims,        \* custom claims on the Auth user record
  token,         \* the claims inside the ID token the client holds
  acall,         \* authorizeWebClient calls in flight
  rcall          \* refreshWebClientAuth calls in flight

vars == <<clock, session, activeWebUid, claims, token, acall, rcall>>

Uids == Mobiles \cup Browsers

Claims == [clientType : {"none", "mobile", "web"},
           webSessionId : SessionIds \cup {None}]

NoClaims == [clientType |-> "none", webSessionId |-> None]

Sessions == [status : {"none", "active", "revoked", "expired"},
             mobileUid : Mobiles \cup {None},
             webSessionId : SessionIds \cup {None},
             authorizedAt : Nat, refreshedAt : Nat,
             leaseExpiresAt : Nat, maxExpiresAt : Nat]

NoSession == [status |-> "none", mobileUid |-> None, webSessionId |-> None,
              authorizedAt |-> 0, refreshedAt |-> 0,
              leaseExpiresAt |-> 0, maxExpiresAt |-> 0]

\* "commit": verified, now sampled, transaction not yet committed;
\* "claims": committed, setClientClaims still to run.
AuthorizeCalls == [pc : {"idle", "commit", "claims"},
                   mobileUid : Mobiles \cup {None},
                   webUid : Browsers \cup {None},
                   webSessionId : SessionIds \cup {None},
                   now : Nat]

NoAuthorize == [pc |-> "idle", mobileUid |-> None, webUid |-> None,
                webSessionId |-> None, now |-> 0]

\* "read": the snapshot passed its checks; "write": nextMs is computed;
\* "expire": the computed lease has already run out.
RefreshCalls == [pc : {"idle", "read", "write", "expire"},
                 webUid : Browsers \cup {None},
                 maxMs : Nat, nextMs : Nat]

NoRefresh == [pc |-> "idle", webUid |-> None, maxMs |-> 0, nextMs |-> 0]

MinOf(a, b) == IF a < b THEN a ELSE b

Init ==
  /\ clock = 0
  /\ session = [w \in Browsers |-> NoSession]
  /\ activeWebUid = [m \in Mobiles |-> None]
  /\ claims = [u \in Uids |-> NoClaims]
  /\ token = [u \in Uids |-> NoClaims]
  /\ acall = [a \in Authorizers |-> NoAuthorize]
  /\ rcall = [r \in Refreshers |-> NoRefresh]

(***************************************************************************)
(* Clients and clock.                                                      *)
(***************************************************************************)
Tick ==
  /\ clock < MaxClock
  /\ clock' = clock + 1
  /\ UNCHANGED <<session, activeWebUid, claims, token, acall, rcall>>

\* registerMobileClient: setClientClaims(uid, {clientType: "mobile"}).
RegisterMobile(m) ==
  /\ claims' = [claims EXCEPT ![m].clientType = "mobile"]
  /\ UNCHANGED <<clock, session, activeWebUid, token, acall, rcall>>

\* The Auth SDK fetches a new ID token; until then the old claims are used.
RefreshIdToken(u) ==
  /\ token' = [token EXCEPT ![u] = claims[u]]
  /\ UNCHANGED <<clock, session, activeWebUid, claims, acall, rcall>>

(***************************************************************************)
(* authorizeWebClient.                                                     *)
(***************************************************************************)
\* requireMobileClient and verifyPremiumProof have passed; now is sampled.
AuthorizeStart(a, m, w, s) ==
  /\ acall[a].pc = "idle"
  /\ token[m].clientType = "mobile"
  /\ acall' = [acall EXCEPT ![a] = [pc |-> "commit", mobileUid |-> m,
                                    webUid |-> w, webSessionId |-> s,
                                    now |-> clock]]
  /\ UNCHANGED <<clock, session, activeWebUid, claims, token, rcall>>

\* Mutants of Revoke: a status the rules and the clients do not know; an ended
\* lease in place of an ended session.
RevokeAsReplaced(doc) == [doc EXCEPT !.status = "replaced"]

RevokeLeaseOnly(doc) == [doc EXCEPT !.leaseExpiresAt = clock]

Revoke(doc) == [doc EXCEPT !.status = "revoked"]

\* Mutant of NewSession: the first lease runs for the whole authorization.
NewSessionFullTerm(c) == [status |-> "active", mobileUid |-> c.mobileUid,
                          webSessionId |-> c.webSessionId,
                          authorizedAt |-> clock, refreshedAt |-> clock,
                          leaseExpiresAt |-> c.now + MaxAuth,
                          maxExpiresAt |-> c.now + MaxAuth]

\* A full set of the document: nothing of an earlier session survives.
NewSession(c) == [status |-> "active", mobileUid |-> c.mobileUid,
                  webSessionId |-> c.webSessionId,
                  authorizedAt |-> clock, refreshedAt |-> clock,
                  leaseExpiresAt |-> c.now + Lease,
                  maxExpiresAt |-> c.now + MaxAuth]

\* The transaction of writeActiveWebClientSession.
AuthorizeCommit(a) ==
  LET c == acall[a]
  IN /\ c.pc = "commit"
     /\ session' = [w \in Browsers |->
                      IF w = c.webUid THEN NewSession(c)
                      ELSE IF w = activeWebUid[c.mobileUid] THEN Revoke(session[w])
                      ELSE session[w]]
     /\ activeWebUid' = [activeWebUid EXCEPT ![c.mobileUid] = c.webUid]
     /\ acall' = [acall EXCEPT ![a].pc = "claims"]
     /\ UNCHANGED <<clock, claims, token, rcall>>

\* setClientClaims(webUid, {clientType: "web", webSessionId}).  The patch
\* covers both claims this code ever writes, so the getUser that precedes the
\* write cannot change its outcome and is one step with it.
AuthorizeClaims(a) ==
  LET c == acall[a]
  IN /\ c.pc = "claims"
     /\ claims' = [claims EXCEPT ![c.webUid] =
                     [clientType |-> "web", webSessionId |-> c.webSessionId]]
     /\ acall' = [acall EXCEPT ![a] = NoAuthorize]
     /\ UNCHANGED <<clock, session, activeWebUid, token, rcall>>

\* The instance dies, or an await throws: what was written stays written.
AuthorizeFails(a) ==
  /\ acall[a].pc # "idle"
  /\ acall' = [acall EXCEPT ![a] = NoAuthorize]
  /\ UNCHANGED <<clock, session, activeWebUid, claims, token, rcall>>

(***************************************************************************)
(* refreshWebClientAuth: ref.get() and ref.set() outside any transaction.  *)
(***************************************************************************)
RefreshRead(r, w) ==
  /\ rcall[r].pc = "idle"
  /\ token[w].clientType = "web"
  /\ session[w].status = "active"
  /\ session[w].webSessionId = token[w].webSessionId
  /\ rcall' = [rcall EXCEPT ![r] = [pc |-> "read", webUid |-> w,
                                    maxMs |-> session[w].maxExpiresAt,
                                    nextMs |-> 0]]
  /\ UNCHANGED <<clock, session, activeWebUid, claims, token, acall>>

RefreshCompute(r) ==
  LET nextMs == MinOf(clock + Lease, rcall[r].maxMs)
  IN /\ rcall[r].pc = "read"
     /\ rcall' = [rcall EXCEPT ![r].nextMs = nextMs,
                               ![r].pc = IF nextMs <= clock THEN "expire" ELSE "write"]
     /\ UNCHANGED <<clock, session, activeWebUid, claims, token, acall>>

\* Mutants of RefreshWrite: a refresh slides the cap along; a refresh writes the
\* whole active session it believes in.
RefreshWriteSlidesCap(r) ==
  /\ rcall[r].pc = "write"
  /\ session' = [session EXCEPT ![rcall[r].webUid].refreshedAt = clock,
                                ![rcall[r].webUid].leaseExpiresAt = rcall[r].nextMs,
                                ![rcall[r].webUid].maxExpiresAt = clock + MaxAuth]
  /\ rcall' = [rcall EXCEPT ![r] = NoRefresh]
  /\ UNCHANGED <<clock, activeWebUid, claims, token, acall>>

RefreshWriteActivates(r) ==
  /\ rcall[r].pc = "write"
  /\ session' = [session EXCEPT ![rcall[r].webUid].refreshedAt = clock,
                                ![rcall[r].webUid].leaseExpiresAt = rcall[r].nextMs,
                                ![rcall[r].webUid].status = "active"]
  /\ rcall' = [rcall EXCEPT ![r] = NoRefresh]
  /\ UNCHANGED <<clock, activeWebUid, claims, token, acall>>

\* A merge: every field but the two it names keeps the value it has now,
\* whatever has happened to the document since it was read.
RefreshWrite(r) ==
  /\ rcall[r].pc = "write"
  /\ session' = [session EXCEPT ![rcall[r].webUid].refreshedAt = clock,
                                ![rcall[r].webUid].leaseExpiresAt = rcall[r].nextMs]
  /\ rcall' = [rcall EXCEPT ![r] = NoRefresh]
  /\ UNCHANGED <<clock, activeWebUid, claims, token, acall>>

RefreshExpire(r) ==
  /\ rcall[r].pc = "expire"
  /\ session' = [session EXCEPT ![rcall[r].webUid].status = "expired"]
  /\ rcall' = [rcall EXCEPT ![r] = NoRefresh]
  /\ UNCHANGED <<clock, activeWebUid, claims, token, acall>>

RefreshFails(r) ==
  /\ rcall[r].pc # "idle"
  /\ rcall' = [rcall EXCEPT ![r] = NoRefresh]
  /\ UNCHANGED <<clock, session, activeWebUid, claims, token, acall>>

Next ==
  \/ Tick
  \/ \E m \in Mobiles : RegisterMobile(m)
  \/ \E u \in Uids : RefreshIdToken(u)
  \/ \E a \in Authorizers, m \in Mobiles, w \in Browsers, s \in SessionIds :
        AuthorizeStart(a, m, w, s)
  \/ \E a \in Authorizers : AuthorizeCommit(a)
  \/ \E a \in Authorizers : AuthorizeClaims(a)
  \/ \E a \in Authorizers : AuthorizeFails(a)
  \/ \E r \in Refreshers, w \in Browsers : RefreshRead(r, w)
  \/ \E r \in Refreshers : RefreshCompute(r)
  \/ \E r \in Refreshers : RefreshWrite(r)
  \/ \E r \in Refreshers : RefreshExpire(r)
  \/ \E r \in Refreshers : RefreshFails(r)

Spec == Init /\ [][Next]_vars

(***************************************************************************)
(* firestore.rules: hasActiveWebSession, evaluated at request.time.        *)
(***************************************************************************)
HasActiveWebSession(w) ==
  /\ token[w].clientType = "web"
  /\ session[w].status = "active"
  /\ session[w].webSessionId = token[w].webSessionId
  /\ session[w].leaseExpiresAt > clock
  /\ session[w].maxExpiresAt > clock

(***************************************************************************)
(* Properties.                                                             *)
(***************************************************************************)
\* Every variable has the shape the code gives it.
TypeOK ==
  /\ clock \in Nat
  /\ session \in [Browsers -> Sessions]
  /\ activeWebUid \in [Mobiles -> Browsers \cup {None}]
  /\ claims \in [Uids -> Claims]
  /\ token \in [Uids -> Claims]
  /\ acall \in [Authorizers -> AuthorizeCalls]
  /\ rcall \in [Refreshers -> RefreshCalls]

\* The pointer document "enforces one active Web Companion per mobile UID":
\* however authorizations of several mobiles and refreshes interleave, two
\* browsers never both hold an active session of the same mobile.
OneActivePerMobile ==
  \A v, w \in Browsers :
    /\ session[v].status = "active"
    /\ session[w].status = "active"
    /\ session[v].mobileUid = session[w].mobileUid
    => v = w

\* A browser the rules admit was authorized less than MaxAuth ago: no chain of
\* refreshes, stale or not, stretches one authorization past its cap.
AccessWithinAuthorization ==
  \A w \in Browsers :
    HasActiveWebSession(w) => clock < session[w].authorizedAt + MaxAuth

\* A browser the rules admit committed a refresh or was authorized less than
\* Lease ago: a browser that falls silent loses access within one lease, even
\* when the write of an old refresh lands late.
SilentBrowserLosesAccess ==
  \A w \in Browsers :
    HasActiveWebSession(w) => clock < session[w].refreshedAt + Lease

\* No refresh, and no authorization of another browser, brings a revoked or
\* expired session back: only the commit of a fresh authorization of it does.
OnlyAuthorizationActivates ==
  [][\A w \in Browsers :
       /\ session[w].status # "active"
       /\ session'[w].status = "active"
       => \E a \in Authorizers : acall[a].pc = "commit" /\ acall[a].webUid = w]_vars
=============================================================================
