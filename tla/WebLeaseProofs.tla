--------------------------- MODULE WebLeaseProofs ---------------------------
(***************************************************************************)
(* Safety of the Web Companion lease for every set of mobiles, browsers and *)
(* calls in flight and every lease length.                                 *)
(***************************************************************************)
EXTENDS WebLease, TLAPS

\* An active session is the one its mobile's pointer names: this is what the
\* revoking transaction relies on, since the pointer is all it reads.
ActiveIsPointed ==
  \A w \in Browsers :
    session[w].status = "active" =>
      /\ session[w].mobileUid \in Mobiles
      /\ activeWebUid[session[w].mobileUid] = w

\* What a document holds is bounded by the instants it was written at.
CapsBounded ==
  \A w \in Browsers :
    /\ session[w].maxExpiresAt <= session[w].authorizedAt + MaxAuth
    /\ session[w].leaseExpiresAt <= session[w].refreshedAt + Lease

\* A call in flight names its documents and holds no instant of the future.
CallsInThePast ==
  /\ \A a \in Authorizers :
       acall[a].pc # "idle" =>
         /\ acall[a].mobileUid \in Mobiles
         /\ acall[a].webUid \in Browsers
         /\ acall[a].now <= clock
  /\ \A r \in Refreshers :
       /\ rcall[r].pc # "idle" => rcall[r].webUid \in Browsers
       /\ rcall[r].pc = "write" => rcall[r].nextMs <= clock + Lease

IInv == TypeOK /\ CallsInThePast /\ ActiveIsPointed /\ CapsBounded

USE DEF Uids

LEMMA InitIInv == Init => IInv
<1> SUFFICES ASSUME Init PROVE IInv
  OBVIOUS
<1> USE LeaseAssumption DEF Init
<1>1. TypeOK
  BY DEF TypeOK, Sessions, NoSession, Claims, NoClaims, AuthorizeCalls,
         NoAuthorize, RefreshCalls, NoRefresh
<1>2. CallsInThePast
  BY DEF CallsInThePast, NoAuthorize, NoRefresh
<1>3. ActiveIsPointed
  BY DEF ActiveIsPointed, NoSession
<1>4. CapsBounded
  BY DEF CapsBounded, NoSession
<1> QED
  BY <1>1, <1>2, <1>3, <1>4 DEF IInv

\* The steps that leave the lease documents and the calls alone.
LEMMA ClientStep ==
  ASSUME IInv, \/ Tick
               \/ \E m \in Mobiles : RegisterMobile(m)
               \/ \E u \in Uids : RefreshIdToken(u)
               \/ UNCHANGED vars
  PROVE  IInv'
<1> USE LeaseAssumption DEF IInv
<1>1. CASE Tick
  <2>1. clock' \in Nat /\ clock <= clock'
    BY <1>1 DEF Tick, TypeOK
  <2>2. TypeOK'
    BY <1>1, <2>1 DEF Tick, TypeOK
  <2>3. CallsInThePast'
    BY <1>1, <2>1 DEF Tick, CallsInThePast, TypeOK, AuthorizeCalls, RefreshCalls
  <2> QED
    BY <1>1, <2>2, <2>3 DEF Tick, ActiveIsPointed, CapsBounded
<1>2. CASE \E m \in Mobiles : RegisterMobile(m)
  <2>1. PICK m \in Mobiles : RegisterMobile(m)
    BY <1>2
  <2>2. claims' \in [Uids -> Claims]
    BY <2>1 DEF RegisterMobile, TypeOK, Claims
  <2> QED
    BY <2>1, <2>2 DEF RegisterMobile, TypeOK, CallsInThePast, ActiveIsPointed,
                      CapsBounded
<1>3. CASE \E u \in Uids : RefreshIdToken(u)
  <2>1. PICK u \in Uids : RefreshIdToken(u)
    BY <1>3
  <2>2. token' \in [Uids -> Claims]
    BY <2>1 DEF RefreshIdToken, TypeOK
  <2> QED
    BY <2>1, <2>2 DEF RefreshIdToken, TypeOK, CallsInThePast, ActiveIsPointed,
                      CapsBounded
<1>4. CASE UNCHANGED vars
  BY <1>4 DEF vars, TypeOK, CallsInThePast, ActiveIsPointed, CapsBounded
<1> QED
  BY <1>1, <1>2, <1>3, <1>4

LEMMA AuthorizeStartStep ==
  ASSUME IInv, NEW a \in Authorizers, NEW m \in Mobiles, NEW w \in Browsers,
         NEW s \in SessionIds, AuthorizeStart(a, m, w, s)
  PROVE  IInv'
<1> USE DEF IInv
<1>1. acall' \in [Authorizers -> AuthorizeCalls]
  BY DEF AuthorizeStart, TypeOK, AuthorizeCalls
<1>2. CallsInThePast'
  BY DEF AuthorizeStart, CallsInThePast, TypeOK, AuthorizeCalls
<1> QED
  BY <1>1, <1>2 DEF AuthorizeStart, TypeOK, ActiveIsPointed, CapsBounded

\* The transaction: the one step that moves the pointer, and it revokes the
\* browser the pointer leaves in the same commit.
LEMMA AuthorizeCommitStep ==
  ASSUME IInv, NEW a \in Authorizers, AuthorizeCommit(a)
  PROVE  IInv'
<1> USE LeaseAssumption DEF IInv
<1> DEFINE c == acall[a]
<1>1. /\ c.mobileUid \in Mobiles
      /\ c.webUid \in Browsers
      /\ c.now \in Nat
      /\ c.now <= clock
      /\ c.webSessionId \in SessionIds \cup {None}
  BY DEF AuthorizeCommit, CallsInThePast, TypeOK, AuthorizeCalls
<1>2. NewSession(c) \in Sessions
  BY <1>1 DEF NewSession, Sessions, TypeOK
<1>3. ASSUME NEW w \in Browsers
      PROVE  /\ Revoke(session[w]) \in Sessions
             /\ Revoke(session[w]).status = "revoked"
             /\ Revoke(session[w]).maxExpiresAt = session[w].maxExpiresAt
             /\ Revoke(session[w]).authorizedAt = session[w].authorizedAt
             /\ Revoke(session[w]).leaseExpiresAt = session[w].leaseExpiresAt
             /\ Revoke(session[w]).refreshedAt = session[w].refreshedAt
  <2>1. session[w] \in Sessions
    BY DEF TypeOK
  <2> QED
    BY <2>1 DEF Revoke, Sessions
<1>4. ASSUME NEW w \in Browsers
      PROVE  session'[w] = IF w = c.webUid THEN NewSession(c)
                           ELSE IF w = activeWebUid[c.mobileUid] THEN Revoke(session[w])
                           ELSE session[w]
  BY DEF AuthorizeCommit
<1>5. TypeOK'
  <2>1. session' \in [Browsers -> Sessions]
    BY <1>2, <1>3 DEF AuthorizeCommit, TypeOK
  <2>2. activeWebUid' \in [Mobiles -> Browsers \cup {None}]
    BY <1>1 DEF AuthorizeCommit, TypeOK
  <2>3. acall' \in [Authorizers -> AuthorizeCalls]
    BY DEF AuthorizeCommit, TypeOK, AuthorizeCalls
  <2> QED
    BY <2>1, <2>2, <2>3 DEF AuthorizeCommit, TypeOK
<1>6. CallsInThePast'
  BY DEF AuthorizeCommit, CallsInThePast, TypeOK, AuthorizeCalls
<1>7. ActiveIsPointed'
  <2> SUFFICES ASSUME NEW w \in Browsers, session'[w].status = "active"
               PROVE  /\ session'[w].mobileUid \in Mobiles
                      /\ activeWebUid'[session'[w].mobileUid] = w
    BY DEF ActiveIsPointed
  <2>1. activeWebUid' = [activeWebUid EXCEPT ![c.mobileUid] = c.webUid]
    BY DEF AuthorizeCommit
  <2>2. CASE w = c.webUid
    <3>1. session'[w].mobileUid = c.mobileUid
      BY <2>2, <1>4 DEF NewSession
    <3> QED
      BY <3>1, <2>1, <2>2, <1>1 DEF TypeOK
  <2>3. CASE w # c.webUid
    <3>1. w # activeWebUid[c.mobileUid]
      BY <2>3, <1>3, <1>4
    <3>2. session'[w] = session[w]
      BY <2>3, <3>1, <1>4
    <3>3. /\ session[w].mobileUid \in Mobiles
          /\ activeWebUid[session[w].mobileUid] = w
      BY <3>2 DEF ActiveIsPointed
    <3> QED
      BY <3>1, <3>2, <3>3, <2>1, <1>1 DEF TypeOK
  <2> QED
    BY <2>2, <2>3
<1>8. CapsBounded'
  <2> SUFFICES ASSUME NEW w \in Browsers
               PROVE  /\ session'[w].maxExpiresAt <= session'[w].authorizedAt + MaxAuth
                      /\ session'[w].leaseExpiresAt <= session'[w].refreshedAt + Lease
    BY DEF CapsBounded
  <2>1. CASE w = c.webUid
    BY <2>1, <1>1, <1>4 DEF NewSession, TypeOK
  <2>2. CASE w # c.webUid
    BY <2>2, <1>3, <1>4 DEF CapsBounded
  <2> QED
    BY <2>1, <2>2
<1> QED
  BY <1>5, <1>6, <1>7, <1>8

LEMMA AuthorizeClaimsStep ==
  ASSUME IInv, NEW a \in Authorizers, AuthorizeClaims(a)
  PROVE  IInv'
<1> USE DEF IInv
<1>1. /\ acall' \in [Authorizers -> AuthorizeCalls]
      /\ claims' \in [Uids -> Claims]
  BY DEF AuthorizeClaims, TypeOK, AuthorizeCalls, NoAuthorize, Claims
<1>2. CallsInThePast'
  BY DEF AuthorizeClaims, CallsInThePast, TypeOK, NoAuthorize
<1> QED
  BY <1>1, <1>2 DEF AuthorizeClaims, TypeOK, ActiveIsPointed, CapsBounded

LEMMA AuthorizeFailsStep ==
  ASSUME IInv, NEW a \in Authorizers, AuthorizeFails(a)
  PROVE  IInv'
<1> USE DEF IInv
<1>1. acall' \in [Authorizers -> AuthorizeCalls]
  BY DEF AuthorizeFails, TypeOK, AuthorizeCalls, NoAuthorize
<1>2. CallsInThePast'
  BY DEF AuthorizeFails, CallsInThePast, TypeOK, NoAuthorize
<1> QED
  BY <1>1, <1>2 DEF AuthorizeFails, TypeOK, ActiveIsPointed, CapsBounded

\* The steps of a refresh that touch only the call itself.
LEMMA RefreshCallStep ==
  ASSUME IInv, NEW r \in Refreshers,
         \/ \E w \in Browsers : RefreshRead(r, w)
         \/ RefreshCompute(r)
         \/ RefreshFails(r)
  PROVE  IInv'
<1> USE LeaseAssumption DEF IInv
<1>1. CASE \E w \in Browsers : RefreshRead(r, w)
  <2>1. PICK w \in Browsers : RefreshRead(r, w)
    BY <1>1
  <2>2. session[w] \in Sessions
    BY DEF TypeOK
  <2>3. rcall' \in [Refreshers -> RefreshCalls]
    BY <2>1, <2>2 DEF RefreshRead, TypeOK, RefreshCalls, Sessions
  <2>4. CallsInThePast'
    BY <2>1 DEF RefreshRead, CallsInThePast, TypeOK, RefreshCalls
  <2> QED
    BY <2>1, <2>3, <2>4 DEF RefreshRead, TypeOK, ActiveIsPointed, CapsBounded
<1>2. CASE RefreshCompute(r)
  <2> DEFINE nextMs == MinOf(clock + Lease, rcall[r].maxMs)
  <2>1. nextMs \in Nat /\ nextMs <= clock + Lease
    BY DEF MinOf, TypeOK, RefreshCalls
  <2> HIDE DEF nextMs
  <2>2. rcall' = [rcall EXCEPT ![r].nextMs = nextMs,
                               ![r].pc = IF nextMs <= clock THEN "expire" ELSE "write"]
    BY <1>2 DEF RefreshCompute, nextMs
  <2>3. rcall' \in [Refreshers -> RefreshCalls]
    BY <2>1, <2>2 DEF TypeOK, RefreshCalls
  <2>4. CallsInThePast'
    BY <1>2, <2>1, <2>2 DEF RefreshCompute, CallsInThePast, TypeOK, RefreshCalls
  <2> QED
    BY <1>2, <2>3, <2>4 DEF RefreshCompute, TypeOK, ActiveIsPointed, CapsBounded
<1>3. CASE RefreshFails(r)
  <2>1. rcall' \in [Refreshers -> RefreshCalls]
    BY <1>3 DEF RefreshFails, TypeOK, RefreshCalls, NoRefresh
  <2>2. CallsInThePast'
    BY <1>3 DEF RefreshFails, CallsInThePast, TypeOK, NoRefresh
  <2> QED
    BY <1>3, <2>1, <2>2 DEF RefreshFails, TypeOK, ActiveIsPointed, CapsBounded
<1> QED
  BY <1>1, <1>2, <1>3

\* The merge touches two fields of a document whose state it does not know.
LEMMA RefreshWriteStep ==
  ASSUME IInv, NEW r \in Refreshers, RefreshWrite(r)
  PROVE  IInv'
<1> USE LeaseAssumption DEF IInv
<1> DEFINE v == rcall[r].webUid
<1>1. /\ v \in Browsers
      /\ rcall[r].nextMs \in Nat
      /\ rcall[r].nextMs <= clock + Lease
  BY DEF RefreshWrite, CallsInThePast, TypeOK, RefreshCalls
<1>2. /\ session' \in [Browsers -> Sessions]
      /\ rcall' \in [Refreshers -> RefreshCalls]
  <2>1. session[v] \in Sessions /\ clock \in Nat
    BY <1>1 DEF TypeOK
  <2>2. [session[v] EXCEPT !.refreshedAt = clock,
                           !.leaseExpiresAt = rcall[r].nextMs] \in Sessions
    BY <1>1, <2>1 DEF Sessions
  <2>3. NoRefresh \in RefreshCalls
    BY DEF NoRefresh, RefreshCalls
  <2> QED
    BY <1>1, <2>2, <2>3 DEF RefreshWrite, TypeOK
<1>3. ASSUME NEW w \in Browsers
      PROVE  /\ session'[w].status = session[w].status
             /\ session'[w].mobileUid = session[w].mobileUid
             /\ session'[w].maxExpiresAt = session[w].maxExpiresAt
             /\ session'[w].authorizedAt = session[w].authorizedAt
             /\ session'[w].leaseExpiresAt <= session'[w].refreshedAt + Lease
  <2>1. session[w] \in Sessions
    BY DEF TypeOK
  <2> QED
    BY <1>1, <2>1 DEF RefreshWrite, TypeOK, Sessions, CapsBounded
<1>4. CallsInThePast'
  BY DEF RefreshWrite, CallsInThePast, TypeOK, NoRefresh
<1>5. ActiveIsPointed' /\ CapsBounded'
  BY <1>3 DEF RefreshWrite, ActiveIsPointed, CapsBounded
<1> QED
  BY <1>2, <1>4, <1>5 DEF RefreshWrite, TypeOK

LEMMA RefreshExpireStep ==
  ASSUME IInv, NEW r \in Refreshers, RefreshExpire(r)
  PROVE  IInv'
<1> USE DEF IInv
<1> DEFINE v == rcall[r].webUid
<1>1. v \in Browsers
  BY DEF RefreshExpire, CallsInThePast
<1>2. /\ session' \in [Browsers -> Sessions]
      /\ rcall' \in [Refreshers -> RefreshCalls]
  <2>1. [session[v] EXCEPT !.status = "expired"] \in Sessions
    BY <1>1 DEF TypeOK, Sessions
  <2>2. NoRefresh \in RefreshCalls
    BY DEF NoRefresh, RefreshCalls
  <2> QED
    BY <1>1, <2>1, <2>2 DEF RefreshExpire, TypeOK
<1>3. ASSUME NEW w \in Browsers
      PROVE  /\ session'[w].status = "active" => session'[w] = session[w]
             /\ session'[w].maxExpiresAt = session[w].maxExpiresAt
             /\ session'[w].authorizedAt = session[w].authorizedAt
             /\ session'[w].leaseExpiresAt = session[w].leaseExpiresAt
             /\ session'[w].refreshedAt = session[w].refreshedAt
  <2>1. session[w] \in Sessions
    BY DEF TypeOK
  <2> QED
    BY <1>1, <2>1 DEF RefreshExpire, TypeOK, Sessions
<1>4. CallsInThePast'
  BY DEF RefreshExpire, CallsInThePast, TypeOK, NoRefresh
<1>5. ActiveIsPointed' /\ CapsBounded'
  BY <1>3 DEF RefreshExpire, ActiveIsPointed, CapsBounded
<1> QED
  BY <1>2, <1>4, <1>5 DEF RefreshExpire, TypeOK

LEMMA NextIInv == IInv /\ [Next]_vars => IInv'
<1> SUFFICES ASSUME IInv, [Next]_vars PROVE IInv'
  OBVIOUS
<1>1. CASE \/ Tick
           \/ \E m \in Mobiles : RegisterMobile(m)
           \/ \E u \in Uids : RefreshIdToken(u)
           \/ UNCHANGED vars
  BY <1>1, ClientStep
<1>2. CASE \E a \in Authorizers, m \in Mobiles, w \in Browsers, s \in SessionIds :
              AuthorizeStart(a, m, w, s)
  BY <1>2, AuthorizeStartStep
<1>3. CASE \E a \in Authorizers : AuthorizeCommit(a)
  BY <1>3, AuthorizeCommitStep
<1>4. CASE \E a \in Authorizers : AuthorizeClaims(a)
  BY <1>4, AuthorizeClaimsStep
<1>5. CASE \E a \in Authorizers : AuthorizeFails(a)
  BY <1>5, AuthorizeFailsStep
<1>6. CASE \E r \in Refreshers : \/ \E w \in Browsers : RefreshRead(r, w)
                                 \/ RefreshCompute(r)
                                 \/ RefreshFails(r)
  BY <1>6, RefreshCallStep
<1>7. CASE \E r \in Refreshers : RefreshWrite(r)
  BY <1>7, RefreshWriteStep
<1>8. CASE \E r \in Refreshers : RefreshExpire(r)
  BY <1>8, RefreshExpireStep
<1> QED
  BY <1>1, <1>2, <1>3, <1>4, <1>5, <1>6, <1>7, <1>8 DEF Next

LEMMA Invariance == Spec => []IInv
  BY InitIInv, NextIInv, PTL DEF Spec

\* Every variable keeps the shape of its document, claim or call.
THEOREM TypeCorrect == Spec => []TypeOK
  BY Invariance, PTL DEF IInv

\* authorizeWebClient leaves at most one active browser per mobile, for any
\* number of concurrent authorizations and refreshes, each of which may stop
\* after any of its awaits.
THEOREM OneBrowserPerMobile == Spec => []OneActivePerMobile
<1>1. IInv => OneActivePerMobile
  BY DEF IInv, ActiveIsPointed, OneActivePerMobile
<1> QED
  BY <1>1, Invariance, PTL

\* refreshWebClientAuth never stretches an authorization past WEB_AUTH_MAX_MS.
THEOREM AuthorizationCapped == Spec => []AccessWithinAuthorization
<1>1. IInv => AccessWithinAuthorization
  <2> SUFFICES ASSUME IInv, NEW w \in Browsers, HasActiveWebSession(w)
               PROVE  clock < session[w].authorizedAt + MaxAuth
    BY DEF AccessWithinAuthorization
  <2>1. session[w] \in Sessions /\ clock \in Nat
    BY DEF IInv, TypeOK
  <2> QED
    BY <2>1, LeaseAssumption DEF IInv, CapsBounded, HasActiveWebSession, Sessions
<1> QED
  BY <1>1, Invariance, PTL

\* A browser that stops refreshing is shut out within WEB_AUTH_LEASE_MS.
THEOREM SilenceEndsAccess == Spec => []SilentBrowserLosesAccess
<1>1. IInv => SilentBrowserLosesAccess
  <2> SUFFICES ASSUME IInv, NEW w \in Browsers, HasActiveWebSession(w)
               PROVE  clock < session[w].refreshedAt + Lease
    BY DEF SilentBrowserLosesAccess
  <2>1. session[w] \in Sessions /\ clock \in Nat
    BY DEF IInv, TypeOK
  <2> QED
    BY <2>1, LeaseAssumption DEF IInv, CapsBounded, HasActiveWebSession, Sessions
<1> QED
  BY <1>1, Invariance, PTL

\* A revoked or expired session comes back only through the commit of an
\* authorization that names its browser.
THEOREM RevivalNeedsAuthorization == Spec => OnlyAuthorizationActivates
<1> DEFINE Activates == \A w \in Browsers :
             /\ session[w].status # "active"
             /\ session'[w].status = "active"
             => \E a \in Authorizers : acall[a].pc = "commit" /\ acall[a].webUid = w
<1>1. IInv /\ [Next]_vars => [Activates]_vars
  <2> SUFFICES ASSUME IInv, Next, NEW w \in Browsers,
                      session[w].status # "active", session'[w].status = "active"
               PROVE  \E a \in Authorizers : acall[a].pc = "commit" /\ acall[a].webUid = w
    OBVIOUS
  <2>1. session[w] \in Sessions
    BY DEF IInv, TypeOK
  <2>2. CASE \E a \in Authorizers : AuthorizeCommit(a)
    <3>1. PICK a \in Authorizers : AuthorizeCommit(a)
      BY <2>2
    <3>2. Revoke(session[w]).status = "revoked"
      BY <2>1 DEF Revoke, Sessions
    <3>3. session'[w] \in {session[w], Revoke(session[w])} \/ w = acall[a].webUid
      BY <3>1 DEF AuthorizeCommit
    <3> QED
      BY <3>1, <3>2, <3>3 DEF AuthorizeCommit
  <2>3. CASE \E r \in Refreshers : RefreshWrite(r)
    <3>1. PICK r \in Refreshers : RefreshWrite(r)
      BY <2>3
    <3>2. session'[w].status = session[w].status
      BY <3>1, <2>1 DEF RefreshWrite, IInv, TypeOK, Sessions
    <3> QED
      BY <3>2
  <2>4. CASE \E r \in Refreshers : RefreshExpire(r)
    <3>1. PICK r \in Refreshers : RefreshExpire(r)
      BY <2>4
    <3>2. session'[w].status \in {session[w].status, "expired"}
      BY <3>1, <2>1 DEF RefreshExpire, IInv, TypeOK, Sessions
    <3> QED
      BY <3>2
  <2>5. CASE session' = session
    BY <2>5
  <2> QED
    BY <2>2, <2>3, <2>4, <2>5
    DEF Next, Tick, RegisterMobile, RefreshIdToken, AuthorizeStart, AuthorizeClaims,
        AuthorizeFails, RefreshRead, RefreshCompute, RefreshFails
<1> QED
  BY <1>1, Invariance, PTL DEF Spec, OnlyAuthorizationActivates
=============================================================================
