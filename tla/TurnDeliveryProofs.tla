-------------------------- MODULE TurnDeliveryProofs ------------------------
(***************************************************************************)
(* Proofs about the delivery of TURN credentials: how old a config or a    *)
(* verdict on the local router may be when it is acted on, for any number  *)
(* of instances and of calls that interleave at their awaits, whatever the *)
(* admin saves.  Every memory entry is dated; what is proved of it says    *)
(* how its date relates to an instant at which it was true.                *)
(***************************************************************************)
EXTENDS TurnDelivery, SequenceTheorems, FiniteSetTheorems, WellFoundedInduction, TLAPS

(***************************************************************************)
(* The inductive invariant.                                                *)
(***************************************************************************)
WasSince(state, t) == router = state \/ (leftAt[state] # None /\ leftAt[state] >= t)
HeldSince(config, t) == doc = config \/ heldUntil[config] >= t

\* A call in flight runs on an instance and is never past the end of its await;
\* one that tries a provider has it at the head of what is left.
InFlight(r) ==
  r.pc # "idle" =>
    /\ r.inst \in Instances
    /\ r.at <= clock /\ clock <= r.by
    /\ r.pc \in {"get", "got", "set", "saved"} => r.by = r.at + StoreTime
    /\ r.kind = "turn" /\ r.pc = "probe" => r.by = r.at + ProbeTimeout
    /\ r.pc = "body" => /\ r.load \in {"up", "overloaded"}
                        /\ r.at <= r.by - BodyTime /\ r.by - BodyTime <= clock
    /\ \/ r.pc \in {"cloudflare", "credentials"}
       \/ r.kind = "turn" /\ r.pc \in {"probe", "body"}
       => r.left # <<>>

CallsInFlight == \A c \in Calls : InFlight(call[c])

\* A read config was the stored one since the read began, a written one since its
\* write began, and a cached one since at most StoreTime before its date.
ConfigsHeld ==
  /\ \A i \in Instances :
       /\ configCache[i].at <= clock
       /\ HeldSince(configCache[i].value, configCache[i].at - StoreTime)
  /\ \A c \in Calls :
       call[c].pc \in {"got", "saved"} => HeldSince(call[c].config, call[c].at)

\* The router failed since t: it refused since then, or its silence was noticed
\* ProbeTimeout later or after that.
FailedSince(t) ==
  \/ WasSince("refused", t)
  \/ t + ProbeTimeout <= clock /\ WasSince("silent", t + ProbeTimeout)

\* An answer was true at most BodyTime before its date, a failure at its date or later.
VerdictsSeen ==
  /\ \A i \in Instances :
       LET entry == loadCache[i] IN
       /\ entry.at <= clock
       /\ entry.value \in {"up", "overloaded"} => WasSince(entry.value, entry.at - BodyTime)
       /\ entry.value = "failed" => FailedSince(entry.at)
  /\ \A c \in Calls :
       call[c].pc = "body" => WasSince(call[c].load, call[c].by - BodyTime)

IInv == TypeOK /\ CallsInFlight /\ ConfigsHeld /\ VerdictsSeen

(***************************************************************************)
(* Lemmas about the operators of the model.                                *)
(***************************************************************************)
\* A nonempty set of positions has a least one.
LEMMA MinOfPositions ==
  ASSUME NEW S \in SUBSET Nat, S # {}
  PROVE  Min(S) \in S /\ \A x \in S : Min(S) <= x
<1>1. S \subseteq Nat
  OBVIOUS
<1>2. PICK x \in S : \A y \in S : <<y, x>> \notin OpToRel(<, Nat)
  BY <1>1, WFMin, NatLessThanWellFounded, Zenon
<1>3. \A y \in S : ~ (y < x)
  BY <1>1, <1>2, Zenon DEF OpToRel
<1>4. \A y \in S : x <= y
  BY <1>1, <1>3
<1> QED BY <1>4 DEF Min

\* FirstTried is the position of the first provider that is not passed over.
LEMMA FirstIsTried ==
  ASSUME NEW S, NEW list \in Seq(S), NEW exclude, NEW load,
         FirstTried(list, exclude, load) # 0
  PROVE  LET k == FirstTried(list, exclude, load)
         IN /\ k \in 1..Len(list)
            /\ ~PassedOver(list[k], exclude, load)
            /\ \A j \in 1..(k - 1) : PassedOver(list[j], exclude, load)
<1> DEFINE I == {i \in 1..Len(list) : ~PassedOver(list[i], exclude, load)}
<1>1. FirstTried(list, exclude, load) = IF I # {} THEN Min(I) ELSE 0
  BY DEF FirstTried, SelectInSeq
<1>2. I # {} /\ FirstTried(list, exclude, load) = Min(I)
  BY <1>1
<1>3. I \in SUBSET Nat
  OBVIOUS
<1>4. Min(I) \in I /\ \A x \in I : Min(I) <= x
  BY <1>2, <1>3, MinOfPositions
<1>5. \A j \in 1..(Min(I) - 1) : j \in 1..Len(list) /\ j \notin I
  BY <1>4
<1> QED BY <1>2, <1>4, <1>5

\* What an admin has stored is a sequence.
LEMMA SubmittedIsSeq ==
  ASSUME NEW config \in Submitted
  PROVE  \E S : config \in Seq(S)
<1>1. PICK input \in Inputs : config = Stored(input)
  BY DEF Submitted
<1> DEFINE known == {i \in DOMAIN input : Known(input[i])}
           n == Cardinality(known)
<1>2. n \in Nat
  BY FS_Subset, FS_CardinalityType, TurnAssumption
<1>3. DOMAIN config = 1..n /\ config = [i \in 1..n |-> config[i]]
  BY <1>1 DEF Stored
<1>4. config \in [1..n -> {config[i] : i \in 1..n}]
  BY <1>3
<1>5. config \in Seq({config[i] : i \in 1..n})
  BY <1>2, <1>4, SeqDef
<1> QED BY <1>5

LEMMA ListIsSeq ==
  ASSUME NEW config \in Configs, NEW d \in Deployments
  PROVE  BuildProviderList(config, d) \in Seq(Listed)
<1> DEFINE stored == IF config = None THEN <<>> ELSE config
           list == BuildProviderList(config, d)
<1>1. PICK S : stored \in Seq(S)
  BY SubmittedIsSeq, EmptySeq DEF Configs
<1> DEFINE T == S \cup {CloudflareBuiltin, LocalBuiltin(d)}
<1>2. stored \in Seq(T)
  BY <1>1, SeqDef
<1>3. Append(stored, CloudflareBuiltin) \in Seq(T) /\ <<LocalBuiltin(d)>> \in Seq(T)
  BY <1>2, AppendProperties
<1>4. list \in Seq(T)
  BY <1>2, <1>3, ConcatProperties DEF BuildProviderList
<1>5. Len(list) \in Nat /\ DOMAIN list = 1..Len(list) /\ list = [i \in 1..Len(list) |-> list[i]]
  BY <1>4, LenProperties
<1>6. Range(list) \subseteq Listed
  BY DEF Listed
<1>7. \A i \in 1..Len(list) : list[i] \in Listed
  BY <1>5, <1>6 DEF Range
<1>8. list \in [1..Len(list) -> Listed]
  BY <1>5, <1>7
<1> QED BY <1>5, <1>8, SeqDef

\* Every time the code waits for or caches something is positive.
LEMMA TimesArePositive ==
  /\ {ConfigTTL, LoadTTL, FailTTL} \subseteq Nat \ {0}
  /\ {ProbeTimeout, CredTimeout, AdminTimeout} \subseteq Nat \ {0}
  /\ {StoreTime, CloudflareTime, BodyTime} \subseteq Nat \ {0}
  BY TurnAssumption DEF Times

LEMMA InstantsAreNat == Instants \subseteq Nat
  BY TurnAssumption DEF Instants

\* What a call waits for next.
LEMMA AwaitIs ==
  ASSUME NEW r \in CallRecords, NEW pc \in Pending, NEW span \in Nat, clock \in Instants,
         NEW q, q = Await(r, pc, span)
  PROVE  /\ q \in CallRecords
         /\ q.pc = pc /\ q.at = clock /\ q.by = clock + span /\ q.load = None
         /\ q.kind = r.kind /\ q.inst = r.inst /\ q.exclude = r.exclude
         /\ q.config = r.config /\ q.left = r.left
<1>1. clock + span \in Nat
  BY TurnAssumption DEF Instants
<1>2. PICK by \in Nat : by = clock + span
  BY <1>1
<1>3. Await(r, pc, span) = [r EXCEPT !.pc = pc, !.at = clock, !.by = by, !.load = None]
  BY <1>2 DEF Await
<1> QED BY <1>2, <1>3 DEF CallRecords

LEMMA NoCallIs == NoCall \in CallRecords /\ NoCall.pc = "idle"
<1>1. 0 \in Instants
  BY TurnAssumption DEF Instants
<1>2. <<>> \in Seq(Listed)
  BY EmptySeq
<1> QED BY <1>1, <1>2 DEF NoCall, CallRecords, Configs

\* A provider that is not passed over is asked, unless it answers at once; the
\* local router is asked for credentials only on a cached "up".
LEMMA AttemptIs ==
  ASSUME NEW r \in CallRecords, NEW load, clock \in Instants, NEW p,
         p = Head(r.left), ~PassedOver(p, r.exclude, load),
         NEW q, q = Attempt(r, load)
  PROVE  /\ q \in CallRecords
         /\ \/ q = NoCall
            \/ /\ q.pc \in {"cloudflare", "credentials", "probe"} /\ q.left = r.left
               /\ q.at = clock /\ q.by >= clock
               /\ q.kind = r.kind /\ q.inst = r.inst /\ q.exclude = r.exclude
               /\ q.config = r.config
         /\ q.pc = "credentials" => LoadHit(load) /\ load.value = "up"
         /\ q.pc = "cloudflare" => p.type = "cloudflare"
         /\ q.pc = "probe" => q.by = clock + ProbeTimeout
<1>1. p.type \in ProviderTypes
  BY Zenon DEF PassedOver
<1>2. CASE p.type \in {"static", "hmac-secret"}
  <2>1. q = NoCall
    BY <1>2 DEF Attempt
  <2> QED BY <2>1, NoCallIs
<1>3. CASE p.type = "cloudflare"
  <2>1. q = Await(r, "cloudflare", CloudflareTime)
    BY <1>3 DEF Attempt
  <2>2. PICK pc \in Pending, span \in Nat : q = Await(r, pc, span) /\ pc = "cloudflare"
    BY <2>1, TimesArePositive DEF Pending
  <2>3. /\ q \in CallRecords /\ q.pc = pc /\ q.at = clock /\ q.by = clock + span
        /\ q.kind = r.kind /\ q.inst = r.inst /\ q.exclude = r.exclude
        /\ q.config = r.config /\ q.left = r.left
    BY <2>2, AwaitIs
  <2>4. q.by >= clock
    BY <2>3, InstantsAreNat
  <2> QED BY <1>3, <2>2, <2>3, <2>4
<1>4. CASE p.type = "local-rest"
  <2>1. q = IF LoadHit(load) THEN Await(r, "credentials", CredTimeout + BodyTime)
            ELSE Await(r, "probe", ProbeTimeout)
    BY <1>4 DEF Attempt
  <2>2. LoadHit(load) => load.value = "up"
    BY <1>4, Zenon DEF PassedOver
  <2>3. PICK pc \in Pending, span \in Nat :
          /\ q = Await(r, pc, span) /\ pc \in {"credentials", "probe"}
          /\ pc = "credentials" => LoadHit(load)
          /\ pc = "probe" => span = ProbeTimeout
    BY <2>1, TimesArePositive DEF Pending
  <2>4. /\ q \in CallRecords /\ q.pc = pc /\ q.at = clock /\ q.by = clock + span
        /\ q.kind = r.kind /\ q.inst = r.inst /\ q.exclude = r.exclude
        /\ q.config = r.config /\ q.left = r.left
    BY <2>3, AwaitIs
  <2>5. q.by >= clock
    BY <2>4, InstantsAreNat
  <2> QED BY <2>2, <2>3, <2>4, <2>5
<1> QED BY <1>1, <1>2, <1>3, <1>4 DEF ProviderTypes

\* A call that goes on asks Cloudflare only when everything before it in the list
\* is passed over.
LEMMA ProceedIs ==
  ASSUME NEW r \in CallRecords, NEW list \in Seq(Listed), NEW load, clock \in Instants,
         NEW q, q = Proceed(r, list, load)
  PROVE  /\ q \in CallRecords
         /\ \/ q = NoCall
            \/ /\ q.pc \in {"cloudflare", "credentials", "probe"} /\ q.left # <<>>
               /\ q.at = clock /\ q.by >= clock
               /\ q.kind = r.kind /\ q.inst = r.inst /\ q.exclude = r.exclude
               /\ q.config = r.config
         /\ q.pc = "credentials" => LoadHit(load) /\ load.value = "up"
         /\ q.pc = "cloudflare" =>
              \E k \in 1..Len(list) :
                /\ IsCandidate(list[k], r.exclude) /\ list[k].type = "cloudflare"
                /\ \A j \in 1..(k - 1) : PassedOver(list[j], r.exclude, load)
         /\ q.pc = "probe" => q.by = clock + ProbeTimeout
<1>1. CASE FirstTried(list, r.exclude, load) = 0
  <2>1. q = NoCall
    BY <1>1 DEF Proceed
  <2> QED BY <2>1, NoCallIs
<1>2. CASE FirstTried(list, r.exclude, load) # 0
  <2>1. PICK k \in 1..Len(list) :
          /\ k = FirstTried(list, r.exclude, load)
          /\ ~PassedOver(list[k], r.exclude, load)
          /\ \A j \in 1..(k - 1) : PassedOver(list[j], r.exclude, load)
    BY <1>2, FirstIsTried
  <2>2. PICK rest \in Seq(Listed) :
          rest = SubSeq(list, k, Len(list)) /\ rest # <<>> /\ Head(rest) = list[k]
    <3>1. SubSeq(list, k, Len(list)) \in Seq(Listed)
      BY SubSeqProperties
    <3>2. Len(SubSeq(list, k, Len(list))) >= 1 /\ SubSeq(list, k, Len(list))[1] = list[k]
      BY SubSeqProperties
    <3>3. PICK rest : rest = SubSeq(list, k, Len(list))
      OBVIOUS
    <3>4. rest \in Seq(Listed) /\ Len(rest) >= 1 /\ rest[1] = list[k]
      BY <3>1, <3>2, <3>3, Zenon
    <3>5. rest # <<>> /\ Head(rest) = list[k]
      BY <3>4
    <3> QED BY <3>3, <3>4, <3>5, Zenon
  <2>3. PICK s : s = [r EXCEPT !.left = rest]
    OBVIOUS
  <2>4. q = Attempt(s, load)
    BY <1>2, <2>1, <2>2, <2>3, Zenon DEF Proceed
  <2>5. /\ s \in CallRecords /\ s.left = rest /\ s.kind = r.kind /\ s.inst = r.inst
        /\ s.exclude = r.exclude /\ s.config = r.config
    BY <2>3 DEF CallRecords
  <2>6. IsCandidate(list[k], r.exclude)
    BY <2>1, Zenon DEF PassedOver
  <2>7. PICK p : p = list[k]
    OBVIOUS
  <2>8. p = Head(s.left) /\ ~PassedOver(p, s.exclude, load)
    BY <2>1, <2>2, <2>5, <2>7
  <2>9. /\ q \in CallRecords
        /\ \/ q = NoCall
           \/ /\ q.pc \in {"cloudflare", "credentials", "probe"} /\ q.left = s.left
              /\ q.at = clock /\ q.by >= clock
              /\ q.kind = s.kind /\ q.inst = s.inst /\ q.exclude = s.exclude
              /\ q.config = s.config
        /\ q.pc = "credentials" => LoadHit(load) /\ load.value = "up"
        /\ q.pc = "cloudflare" => p.type = "cloudflare"
        /\ q.pc = "probe" => q.by = clock + ProbeTimeout
    BY <2>4, <2>5, <2>8, AttemptIs
  <2>10. q.pc = "cloudflare" =>
           \E i \in 1..Len(list) :
             /\ IsCandidate(list[i], r.exclude) /\ list[i].type = "cloudflare"
             /\ \A j \in 1..(i - 1) : PassedOver(list[j], r.exclude, load)
    BY <2>1, <2>6, <2>7, <2>9, Zenon
  <2> QED BY <2>2, <2>5, <2>9, <2>10
<1> QED BY <1>1, <1>2

\* Credentials are asked for only by a verdict that is young and good.
LEMMA CredentialsNeedUp ==
  ASSUME NEW r \in CallRecords, NEW list \in Seq(Listed), NEW load, clock \in Instants,
         NEW q, q = Proceed(r, list, load), q.pc = "credentials"
  PROVE  LoadHit(load) /\ load.value = "up"
  BY ProceedIs

\* A call that knows its config has the whole list before it.
LEMMA StartsIs ==
  ASSUME TypeOK, NEW r \in CallRecords, NEW config \in Configs
  PROVE  /\ BuildProviderList(config, deploy) \in Seq(Listed)
         /\ [r EXCEPT !.config = config] \in CallRecords
         /\ \E s \in CallRecords :
              /\ s.kind = r.kind /\ s.inst = r.inst /\ s.exclude = r.exclude
              /\ s.config = config
              /\ Starts(r, config) =
                   Proceed(s, BuildProviderList(config, deploy), loadCache[r.inst])
<1>1. BuildProviderList(config, deploy) \in Seq(Listed)
  BY ListIsSeq DEF TypeOK
<1>2. PICK s : s = [r EXCEPT !.config = config]
  OBVIOUS
<1>3. /\ s \in CallRecords /\ s.kind = r.kind /\ s.inst = r.inst
      /\ s.exclude = r.exclude /\ s.config = config
  BY <1>2 DEF CallRecords
<1>4. Starts(r, config) = Proceed(s, BuildProviderList(config, deploy), loadCache[r.inst])
  BY <1>2 DEF Starts
<1> QED BY <1>1, <1>2, <1>3, <1>4

(***************************************************************************)
(* A step of a call.                                                       *)
(***************************************************************************)
\* What a call that goes on with its providers comes to.
LEMMA TriedInFlight ==
  ASSUME NEW r \in CallRecords, r.inst \in Instances, NEW list \in Seq(Listed), NEW load,
         clock \in Instants, NEW q, q = Proceed(r, list, load)
  PROVE  /\ q \in CallRecords /\ InFlight(q)
         /\ q.pc \in {"idle", "cloudflare", "credentials", "probe"}
<1>1. /\ q \in CallRecords
      /\ \/ q = NoCall
         \/ /\ q.pc \in {"cloudflare", "credentials", "probe"} /\ q.left # <<>>
            /\ q.at = clock /\ q.by >= clock /\ q.inst = r.inst
      /\ q.pc = "probe" => q.by = clock + ProbeTimeout
  BY ProceedIs
<1>2. clock \in Nat
  BY InstantsAreNat
<1> QED BY <1>1, <1>2, NoCallIs DEF InFlight

LEMMA StartedInFlight ==
  ASSUME TypeOK, NEW r \in CallRecords, r.inst \in Instances, NEW config \in Configs,
         NEW q, q = Starts(r, config)
  PROVE  /\ q \in CallRecords /\ InFlight(q)
         /\ q.pc \in {"idle", "cloudflare", "credentials", "probe"}
<1>0. PICK load : load = loadCache[r.inst]
  OBVIOUS
<1>1. PICK list \in Seq(Listed) : list = BuildProviderList(config, deploy)
  BY StartsIs
<1>2. PICK s \in CallRecords : s.inst = r.inst /\ q = Proceed(s, list, load)
  BY <1>0, <1>1, StartsIs
<1> QED BY <1>2, TriedInFlight DEF TypeOK

LEMMA NextInFlight ==
  ASSUME TypeOK, NEW r \in CallRecords, r.inst \in Instances, r.left # <<>>, NEW load,
         NEW q, q = NextProvider(r, load)
  PROVE  /\ q \in CallRecords /\ InFlight(q)
         /\ q.pc \in {"idle", "cloudflare", "credentials", "probe"}
<1>1. Tail(r.left) \in Seq(Listed)
  <2>1. r.left \in Seq(Listed)
    BY DEF CallRecords
  <2> QED BY <2>1, HeadTailProperties
<1>2. PICK list \in Seq(Listed) : q = Proceed(r, list, load)
  BY <1>1 DEF NextProvider
<1> QED BY <1>2, TriedInFlight DEF TypeOK

\* A call that awaits the store, or the router on its own account.
LEMMA AwaitInFlight ==
  ASSUME TypeOK, NEW r \in CallRecords, r.inst \in Instances,
         NEW pc \in Pending, NEW span \in Nat,
         \/ pc \in {"get", "set"} /\ span = StoreTime
         \/ pc = "probe" /\ r.kind = "load"
         \/ pc = "credentials" /\ r.left # <<>>,
         NEW q, q = Await(r, pc, span)
  PROVE  q \in CallRecords /\ InFlight(q) /\ q.pc = pc
<1>1. clock \in Instants /\ clock \in Nat
  BY InstantsAreNat DEF TypeOK
<1>2. /\ q \in CallRecords /\ q.pc = pc /\ q.at = clock /\ q.by = clock + span
      /\ q.kind = r.kind /\ q.inst = r.inst /\ q.left = r.left
  <2>1. PICK by \in Nat : by = clock + span
    BY <1>1
  <2>2. q = [r EXCEPT !.pc = pc, !.at = clock, !.by = by, !.load = None]
    BY <2>1 DEF Await
  <2> QED BY <1>1, <2>1, <2>2 DEF CallRecords
<1>3. clock <= q.by
  BY <1>1, <1>2
<1>4. CASE pc \in {"get", "set"} /\ span = StoreTime
  BY <1>1, <1>2, <1>3, <1>4 DEF InFlight
<1>5. CASE pc = "probe" /\ r.kind = "load"
  BY <1>1, <1>2, <1>3, <1>5 DEF InFlight
<1>6. CASE pc = "credentials" /\ r.left # <<>>
  BY <1>1, <1>2, <1>3, <1>6 DEF InFlight
<1> QED BY <1>4, <1>5, <1>6

\* The record of a call that arrives.
LEMMA BegunIs ==
  ASSUME NEW kind \in Kinds, NEW i \in Instances, NEW r, r = Begun(kind, i)
  PROVE  r \in CallRecords /\ r.kind = kind /\ r.inst = i
<1>1. NoCall \in CallRecords
  BY NoCallIs
<1>2. r = [NoCall EXCEPT !.kind = kind, !.inst = i]
  BY DEF Begun
<1>3. PICK idle \in CallRecords : idle = NoCall
  BY <1>1
<1>4. r = [idle EXCEPT !.kind = kind, !.inst = i]
  BY <1>2, <1>3
<1> QED BY <1>4 DEF CallRecords

\* The call becomes q, which is in flight; only a read or a write of the document
\* leaves it past one, and only an answer of the router leaves it with a load.
Becomes(c, q) ==
  /\ call' = [call EXCEPT ![c] = q]
  /\ InFlight(q)
  /\ q.pc \in {"got", "saved"} => ConfigRead(c) \/ SaveSet(c)
  /\ q.pc = "body" => ProbeAnswers(c)

LEMMA CallArrives ==
  ASSUME TypeOK, NEW c \in Calls, NEW i \in Instances,
         \/ \E exclude \in Exclusions : TurnBegin(c, i, exclude)
         \/ \E config \in Submitted : SaveBegin(c, i, config)
         \/ ReadBegin(c, i)
         \/ LoadBegin(c, i)
  PROVE  \E q \in CallRecords : Becomes(c, q)
<1> USE TimesArePositive DEF TypeOK
<1>1. ASSUME NEW exclude \in Exclusions, TurnBegin(c, i, exclude)
      PROVE  \E q \in CallRecords : Becomes(c, q)
  <2>1. PICK b : b = Begun("turn", i)
    OBVIOUS
  <2>2. b \in CallRecords /\ b.inst = i
    BY <2>1, BegunIs DEF Kinds
  <2>3. PICK r : r = [b EXCEPT !.exclude = exclude]
    OBVIOUS
  <2>4. r \in CallRecords /\ r.inst = i
    BY <2>2, <2>3 DEF CallRecords
  <2>5. PICK q : q = IF ConfigHit(i) THEN Starts(r, configCache[i].value)
                     ELSE Await(r, "get", StoreTime)
    OBVIOUS
  <2>6. call' = [call EXCEPT ![c] = q]
    BY <1>1, <2>1, <2>3, <2>5 DEF TurnBegin
  <2>7. CASE ConfigHit(i)
    <3>1. PICK config \in Configs : config = configCache[i].value
      OBVIOUS
    <3>2. q = Starts(r, config)
      BY <2>5, <2>7, <3>1
    <3> QED BY <2>4, <2>6, <3>2, StartedInFlight DEF Becomes
  <2>8. CASE ~ConfigHit(i)
    <3>1. PICK pc \in Pending, span \in Nat :
            q = Await(r, pc, span) /\ pc = "get" /\ span = StoreTime
      BY <2>5, <2>8 DEF Pending
    <3> QED BY <2>4, <2>6, <3>1, AwaitInFlight DEF Becomes
  <2> QED BY <2>7, <2>8
<1>2. ASSUME NEW config \in Submitted, SaveBegin(c, i, config)
      PROVE  \E q \in CallRecords : Becomes(c, q)
  <2>1. PICK r : r = Begun("save", i)
    OBVIOUS
  <2>2. r \in CallRecords /\ r.inst = i
    BY <2>1, BegunIs DEF Kinds
  <2>3. PICK pc, span, s :
          /\ pc \in Pending /\ span \in Nat
          /\ s = Await(r, pc, span) /\ pc = "set" /\ span = StoreTime
          /\ s = Await(Begun("save", i), "set", StoreTime)
    BY <2>1 DEF Pending
  <2>4. s \in CallRecords /\ InFlight(s) /\ s.pc = "set"
    BY <2>2, <2>3, AwaitInFlight
  <2>5. PICK q : q = [s EXCEPT !.config = config]
    OBVIOUS
  <2>6. q \in CallRecords /\ InFlight(q) /\ q.pc = "set"
    BY <2>4, <2>5 DEF CallRecords, Configs, InFlight
  <2>7. call' = [call EXCEPT ![c] = q]
    BY <1>2, <2>3, <2>5 DEF SaveBegin
  <2> QED BY <2>6, <2>7 DEF Becomes
<1>3. CASE ReadBegin(c, i)
  <2>1. PICK r : r = Begun("read", i)
    OBVIOUS
  <2>2. r \in CallRecords /\ r.inst = i
    BY <2>1, BegunIs DEF Kinds
  <2>3. PICK pc, span, q :
          /\ pc \in Pending /\ span \in Nat
          /\ q = Await(r, pc, span) /\ pc = "get" /\ span = StoreTime
          /\ q = Await(Begun("read", i), "get", StoreTime)
    BY <2>1 DEF Pending
  <2>4. call' = [call EXCEPT ![c] = q]
    BY <1>3, <2>3 DEF ReadBegin
  <2>5. q \in CallRecords /\ InFlight(q) /\ q.pc = pc
    BY <2>2, <2>3, AwaitInFlight
  <2> QED BY <2>3, <2>4, <2>5 DEF Becomes
<1>4. CASE LoadBegin(c, i)
  <2>1. PICK r : r = Begun("load", i)
    OBVIOUS
  <2>2. r \in CallRecords /\ r.inst = i /\ r.kind = "load"
    BY <2>1, BegunIs DEF Kinds
  <2>3. PICK pc, span, q :
          /\ pc \in Pending /\ span \in Nat
          /\ q = Await(r, pc, span) /\ pc = "probe"
          /\ q = Await(Begun("load", i), "probe", AdminTimeout)
    BY <2>1 DEF Pending
  <2>4. call' = [call EXCEPT ![c] = q]
    BY <1>4, <2>3 DEF LoadBegin
  <2>5. q \in CallRecords /\ InFlight(q) /\ q.pc = pc
    BY <2>2, <2>3, AwaitInFlight
  <2> QED BY <2>3, <2>4, <2>5 DEF Becomes
<1> QED BY <1>1, <1>2, <1>3, <1>4

CallGoesOn(c) ==
  \/ ConfigRead(c) \/ ConfigGot(c)
  \/ CloudflareEnds(c)
  \/ ProbeAnswers(c) \/ ProbeEnds(c) \/ ProbeFails(c)
  \/ CredentialsAnswer(c) \/ CredentialsFail(c)
  \/ SaveSet(c) \/ SaveCached(c) \/ StoreFails(c)
  \/ LoadEnds(c) \/ LoadFails(c)

\* A call that ends.
LEMMA NoCallInFlight == NoCall \in CallRecords /\ InFlight(NoCall) /\ NoCall.pc = "idle"
  BY NoCallIs DEF InFlight

\* A call whose probe has been judged asks for credentials or goes on.
LEMMA JudgedInFlight ==
  ASSUME TypeOK, CallsInFlight, NEW c \in Calls, NEW verdict, Judged(c, verdict),
         call[c].kind = "turn", call[c].pc \in {"probe", "body"}
  PROVE  \E q \in CallRecords : Becomes(c, q)
<1> USE DEF TypeOK
<1>1. PICK r \in CallRecords : r = call[c]
  OBVIOUS
<1>2. r.inst \in Instances /\ r.left # <<>>
  BY <1>1 DEF CallsInFlight, InFlight
<1>3. PICK entry : entry = [value |-> verdict, at |-> r.at]
  OBVIOUS
<1>4. PICK q : q = IF verdict = "up" THEN Await(r, "credentials", CredTimeout + BodyTime)
                   ELSE NextProvider(r, entry)
  OBVIOUS
<1>5. call' = [call EXCEPT ![c] = q]
  BY <1>1, <1>3, <1>4 DEF Judged
<1>6. CASE verdict = "up"
  <2>1. PICK pc \in Pending, span \in Nat : q = Await(r, pc, span) /\ pc = "credentials"
    BY <1>4, <1>6, TimesArePositive DEF Pending
  <2>2. q \in CallRecords /\ InFlight(q) /\ q.pc = pc
    BY <1>2, <2>1, AwaitInFlight
  <2> QED BY <1>5, <2>1, <2>2 DEF Becomes
<1>7. CASE verdict # "up"
  <2>1. q = NextProvider(r, entry)
    BY <1>4, <1>7
  <2>2. q \in CallRecords /\ InFlight(q)
        /\ q.pc \in {"idle", "cloudflare", "credentials", "probe"}
    BY <1>2, <2>1, NextInFlight
  <2> QED BY <1>5, <2>2 DEF Becomes
<1> QED BY <1>6, <1>7

LEMMA CallContinues ==
  ASSUME TypeOK, CallsInFlight, NEW c \in Calls, CallGoesOn(c)
  PROVE  \E q \in CallRecords : Becomes(c, q)
<1> USE DEF TypeOK
<1>0. PICK r \in CallRecords : r = call[c]
  OBVIOUS
<1>1. InFlight(r) /\ (r.pc # "idle" => r.inst \in Instances)
  BY <1>0 DEF CallsInFlight, InFlight
<1>2. CASE ConfigRead(c)
  <2>1. PICK q : q = [r EXCEPT !.pc = "got", !.config = doc]
    OBVIOUS
  <2>2. call' = [call EXCEPT ![c] = q] /\ r.pc = "get"
    BY <1>0, <1>2, <2>1 DEF ConfigRead
  <2>3. /\ q \in CallRecords /\ q.pc = "got" /\ q.inst = r.inst /\ q.at = r.at
        /\ q.by = r.by
    BY <2>1 DEF CallRecords, Pending
  <2> QED BY <1>1, <1>2, <2>2, <2>3 DEF Becomes, InFlight
<1>3. CASE ConfigGot(c)
  <2>1. PICK q : q = IF r.kind = "turn" THEN Starts(r, r.config) ELSE NoCall
    OBVIOUS
  <2>2. call' = [call EXCEPT ![c] = q] /\ r.pc = "got"
    BY <1>0, <1>3, <2>1 DEF ConfigGot
  <2>3. CASE r.kind = "turn"
    <3>1. PICK config \in Configs : config = r.config
      BY DEF CallRecords
    <3>2. q = Starts(r, config)
      BY <2>1, <2>3, <3>1
    <3>3. q \in CallRecords /\ InFlight(q)
          /\ q.pc \in {"idle", "cloudflare", "credentials", "probe"}
      BY <1>1, <2>2, <3>2, StartedInFlight
    <3> QED BY <2>2, <3>3 DEF Becomes
  <2>4. CASE r.kind # "turn"
    BY <2>1, <2>2, <2>4, NoCallInFlight DEF Becomes
  <2> QED BY <2>3, <2>4
<1>4. CASE ProbeAnswers(c)
  <2>1. PICK by : by = clock + BodyTime
    OBVIOUS
  <2>2. PICK q : q = [r EXCEPT !.pc = "body", !.load = router, !.by = by]
    OBVIOUS
  <2>3. call' = [call EXCEPT ![c] = q] /\ r.pc = "probe" /\ router \in {"up", "overloaded"}
    BY <1>0, <1>4, <2>1, <2>2 DEF ProbeAnswers
  <2>4. clock \in Nat /\ by \in Nat /\ by - BodyTime = clock /\ clock <= by
    BY <2>1, InstantsAreNat, TimesArePositive
  <2>5. /\ q \in CallRecords /\ q.pc = "body" /\ q.load = router /\ q.by = by
        /\ q.inst = r.inst /\ q.at = r.at /\ q.kind = r.kind /\ q.left = r.left
    BY <2>2, <2>3, <2>4 DEF CallRecords, Pending, Verdicts
  <2>6. r.inst \in Instances /\ r.at <= clock
    BY <1>1, <2>3 DEF InFlight
  <2>7. r.kind = "turn" => r.left # <<>>
    BY <1>1, <2>3 DEF InFlight
  <2>8. InFlight(q)
    BY <2>3, <2>4, <2>5, <2>6, <2>7 DEF InFlight
  <2> QED BY <1>4, <2>3, <2>5, <2>8 DEF Becomes
<1>5. CASE SaveSet(c)
  <2>1. PICK q : q = [r EXCEPT !.pc = "saved"]
    OBVIOUS
  <2>2. call' = [call EXCEPT ![c] = q] /\ r.pc = "set"
    BY <1>0, <1>5, <2>1 DEF SaveSet
  <2>3. /\ q \in CallRecords /\ q.pc = "saved" /\ q.inst = r.inst /\ q.at = r.at
        /\ q.by = r.by
    BY <2>1 DEF CallRecords, Pending
  <2> QED BY <1>1, <1>5, <2>2, <2>3 DEF Becomes, InFlight
<1>6. ASSUME NEW load, r.pc \in {"cloudflare", "credentials"},
             call' = [call EXCEPT ![c] = NextProvider(r, load)]
      PROVE  \E q \in CallRecords : Becomes(c, q)
  <2>1. PICK q : q = NextProvider(r, load)
    OBVIOUS
  <2>2. r.left # <<>>
    BY <1>1, <1>6 DEF InFlight
  <2>3. q \in CallRecords /\ InFlight(q)
        /\ q.pc \in {"idle", "cloudflare", "credentials", "probe"}
    BY <1>1, <1>6, <2>1, <2>2, NextInFlight
  <2> QED BY <1>6, <2>1, <2>3 DEF Becomes
<1>7. ASSUME call' = [call EXCEPT ![c] = NoCall]
      PROVE  \E q \in CallRecords : Becomes(c, q)
  BY <1>7, NoCallInFlight DEF Becomes
<1>8. CASE CloudflareEnds(c)
  <2>1. PICK load : load = loadCache[r.inst]
    OBVIOUS
  <2>2. \/ call' = [call EXCEPT ![c] = NoCall]
        \/ call' = [call EXCEPT ![c] = NextProvider(r, load)] /\ r.pc = "cloudflare"
    BY <1>0, <1>8, <2>1 DEF CloudflareEnds
  <2> QED BY <1>6, <1>7, <2>2
<1>9. CASE CredentialsFail(c)
  <2>1. PICK load : load = loadCache[r.inst]
    OBVIOUS
  <2>2. \/ call' = [call EXCEPT ![c] = NoCall]
        \/ call' = [call EXCEPT ![c] = NextProvider(r, load)] /\ r.pc = "credentials"
    BY <1>0, <1>9, <2>1 DEF CredentialsFail
  <2> QED BY <1>6, <1>7, <2>2
<1>10. CASE ProbeEnds(c)
  BY <1>10, JudgedInFlight DEF ProbeEnds
<1>11. CASE ProbeFails(c)
  BY <1>11, JudgedInFlight DEF ProbeFails, Unanswered
<1>12. CASE \/ CredentialsAnswer(c) \/ SaveCached(c) \/ StoreFails(c)
            \/ LoadEnds(c) \/ LoadFails(c)
  BY <1>7, <1>12 DEF CredentialsAnswer, SaveCached, StoreFails, LoadEnds, LoadFails
<1> QED BY <1>2, <1>3, <1>4, <1>5, <1>8, <1>9, <1>10, <1>11, <1>12 DEF CallGoesOn

(***************************************************************************)
(* Preservation, one lemma per conjunct.                                   *)
(***************************************************************************)
\* Some call arrives or continues.
CallSteps ==
  \E c \in Calls :
    \/ \E i \in Instances :
         \/ \E exclude \in Exclusions : TurnBegin(c, i, exclude)
         \/ \E config \in Submitted : SaveBegin(c, i, config)
         \/ ReadBegin(c, i)
         \/ LoadBegin(c, i)
    \/ CallGoesOn(c)

LEMMA NextIs == Next => Tick \/ (\E state \in RouterStates : RouterTurns(state)) \/ CallSteps
  BY Zenon DEF Next, CallSteps, CallGoesOn

\* Only a save that reaches Firestore changes the stored config.
LEMMA DocKept ==
  ASSUME [Next]_vars, ~ \E c \in Calls : SaveSet(c)
  PROVE  doc' = doc /\ heldUntil' = heldUntil
<1>1. CASE Tick \/ (\E state \in RouterStates : RouterTurns(state)) \/ UNCHANGED vars
  BY <1>1 DEF Tick, RouterTurns, vars
<1>2. ASSUME NEW c \in Calls, NEW i \in Instances,
             \/ \E exclude \in Exclusions : TurnBegin(c, i, exclude)
             \/ \E config \in Submitted : SaveBegin(c, i, config)
             \/ ReadBegin(c, i)
             \/ LoadBegin(c, i)
      PROVE  doc' = doc /\ heldUntil' = heldUntil
  BY <1>2 DEF TurnBegin, SaveBegin, ReadBegin, LoadBegin
<1>3. ASSUME NEW c \in Calls, CallGoesOn(c)
      PROVE  doc' = doc /\ heldUntil' = heldUntil
  BY <1>3 DEF CallGoesOn, ConfigRead, ConfigGot, CloudflareEnds, ProbeAnswers, ProbeEnds,
     ProbeFails, Judged, CredentialsAnswer, CredentialsFail, SaveCached, StoreFails,
     LoadEnds, LoadFails
<1> QED
  BY <1>1, <1>2, <1>3, NextIs DEF CallSteps

LEMMA StepOfCall ==
  ASSUME TypeOK, CallsInFlight, CallSteps
  PROVE  /\ \E c \in Calls, q \in CallRecords : Becomes(c, q)
         /\ UNCHANGED <<deploy, clock, router, turns, leftAt>>
<1>1. \E c \in Calls, q \in CallRecords : Becomes(c, q)
  BY CallArrives, CallContinues DEF CallSteps
<1>2. UNCHANGED <<deploy, clock, router, turns, leftAt>>
  BY DEF CallSteps, TurnBegin, SaveBegin, ReadBegin, LoadBegin, CallGoesOn,
     ConfigRead, ConfigGot, CloudflareEnds, ProbeAnswers, ProbeEnds, ProbeFails, Judged,
     CredentialsAnswer, CredentialsFail, SaveSet, SaveCached, StoreFails, LoadEnds,
     LoadFails, world
<1> QED BY <1>1, <1>2

LEMMA CallsStep ==
  TypeOK /\ CallsInFlight /\ [Next]_vars
    => call' \in [Calls -> CallRecords] /\ CallsInFlight'
<1> SUFFICES ASSUME TypeOK, CallsInFlight, [Next]_vars
             PROVE  call' \in [Calls -> CallRecords] /\ CallsInFlight'
  OBVIOUS
<1>1. call \in [Calls -> CallRecords] /\ clock \in Nat
  BY InstantsAreNat DEF TypeOK
<1>2. CASE Tick
  <2>1. call' = call /\ clock' = clock + 1
        /\ \A c \in Calls : call[c].pc # "idle" => clock < call[c].by
    BY <1>2 DEF Tick
  <2>2. \A c \in Calls : call[c] \in CallRecords
    BY <1>1
  <2>3. ASSUME NEW c \in Calls PROVE InFlight(call[c])'
    <3>1. PICK r \in CallRecords : r = call[c] /\ r = call'[c]
      BY <2>1, <2>2
    <3>2. r.by \in Nat /\ r.at \in Nat
      BY InstantsAreNat DEF CallRecords
    <3>3. InFlight(r) /\ (r.pc # "idle" => clock < r.by)
      BY <2>1, <3>1 DEF CallsInFlight
    <3>4. r.pc # "idle" => r.at <= clock' /\ clock' <= r.by
      BY <1>1, <2>1, <3>2, <3>3 DEF InFlight
    <3>5. r.pc = "body" => r.by - BodyTime <= clock'
      BY <1>1, <2>1, <3>2, <3>3, TimesArePositive DEF InFlight
    <3>6. InFlight(r)'
      BY <3>3, <3>4, <3>5 DEF InFlight
    <3> QED BY <3>1, <3>6 DEF InFlight
  <2> QED BY <1>1, <2>1, <2>3 DEF CallsInFlight
<1>3. CASE CallSteps
  <2>1. PICK c \in Calls, q \in CallRecords : Becomes(c, q)
    BY <1>3, StepOfCall
  <2>2. clock' = clock
    BY <1>3, StepOfCall
  <2>3. call' = [call EXCEPT ![c] = q] /\ InFlight(q)
    BY <2>1 DEF Becomes
  <2> QED BY <1>1, <2>2, <2>3 DEF CallsInFlight, InFlight
<1>4. CASE UNCHANGED <<clock, call>>
  BY <1>1, <1>4 DEF CallsInFlight, InFlight
<1> QED BY <1>2, <1>3, <1>4, NextIs DEF RouterTurns, vars, world

LEMMA TypeStep == TypeOK /\ CallsInFlight /\ [Next]_vars => TypeOK'
<1> SUFFICES ASSUME TypeOK, CallsInFlight, [Next]_vars
             PROVE  TypeOK'
  OBVIOUS
<1> DEFINE Worlds == /\ deploy \in Deployments /\ clock \in Instants
                     /\ router \in RouterStates /\ turns \in 0..MaxTurns
                     /\ leftAt \in [RouterStates -> Instants \cup {None}]
<1>1. Worlds'
  <2>1. CASE Tick
    BY <2>1, TurnAssumption DEF Tick, TypeOK, Instants
  <2>2. ASSUME NEW state \in RouterStates, RouterTurns(state) PROVE Worlds'
    BY <2>2, TurnAssumption DEF RouterTurns, TypeOK
  <2>3. CASE UNCHANGED <<deploy, clock, router, turns, leftAt>>
    BY <2>3 DEF TypeOK
  <2> QED BY <2>1, <2>2, <2>3, NextIs, StepOfCall DEF vars, world
<1>2. call' \in [Calls -> CallRecords]
  BY CallsStep
<1>3. doc' \in Configs /\ heldUntil' \in [Configs -> Instants]
  <2>1. ASSUME NEW c \in Calls, SaveSet(c)
        PROVE  doc' \in Configs /\ heldUntil' \in [Configs -> Instants]
    <3>1. call[c] \in CallRecords /\ doc \in Configs /\ clock \in Instants
          /\ heldUntil \in [Configs -> Instants]
      BY DEF TypeOK
    <3>2. call[c].config \in Configs
      BY <3>1 DEF CallRecords
    <3> QED BY <2>1, <3>1, <3>2 DEF SaveSet
  <2>2. CASE doc' = doc /\ heldUntil' = heldUntil
    BY <2>2 DEF TypeOK
  <2> QED BY <2>1, <2>2, DocKept
<1>4. configCache' \in [Instances -> [value : Configs, at : Instants]]
  <2>1. ASSUME NEW c \in Calls, ConfigGot(c) \/ SaveCached(c)
        PROVE  configCache' \in [Instances -> [value : Configs, at : Instants]]
    <3>1. PICK r \in CallRecords : r = call[c]
      BY DEF TypeOK
    <3>2. PICK at \in Instants :
            configCache' = [configCache EXCEPT ![r.inst] = [value |-> r.config, at |-> at]]
      BY <2>1, <3>1 DEF ConfigGot, SaveCached, TypeOK, CallRecords
    <3>3. [value |-> r.config, at |-> at] \in [value : Configs, at : Instants]
      BY DEF CallRecords
    <3> QED BY <3>2, <3>3 DEF TypeOK
  <2>2. CASE configCache' = configCache
    BY <2>2 DEF TypeOK
  <2> QED BY <2>1, <2>2, NextIs DEF CallSteps, TurnBegin, SaveBegin, ReadBegin, LoadBegin,
         CallGoesOn, ConfigRead, CloudflareEnds, ProbeAnswers, ProbeEnds,
         ProbeFails, Judged, CredentialsAnswer, CredentialsFail, SaveSet, StoreFails,
         LoadEnds, LoadFails, Tick, RouterTurns, vars, memory
<1>5. loadCache' \in [Instances -> [value : Verdicts \cup {None}, at : Instants]]
  <2>1. ASSUME NEW c \in Calls, ProbeEnds(c) \/ ProbeFails(c) \/ LoadEnds(c)
        PROVE  loadCache' \in [Instances -> [value : Verdicts \cup {None}, at : Instants]]
    <3>1. PICK r \in CallRecords : r = call[c]
      BY DEF TypeOK
    <3>2. PICK at \in Instants, verdict \in Verdicts \cup {None} :
            loadCache' = [loadCache EXCEPT ![r.inst] = [value |-> verdict, at |-> at]]
      <4>1. r.load \in Verdicts \cup {None} /\ "failed" \in Verdicts /\ r.at \in Instants
            /\ clock \in Instants
        BY DEF CallRecords, Verdicts, TypeOK
      <4>2. CASE LoadEnds(c)
        BY <3>1, <4>1, <4>2 DEF LoadEnds
      <4>3. CASE ProbeEnds(c)
        BY <3>1, <4>1, <4>3 DEF ProbeEnds, Judged
      <4>4. CASE ProbeFails(c)
        BY <3>1, <4>1, <4>4 DEF ProbeFails, Judged
      <4> QED BY <2>1, <4>2, <4>3, <4>4
    <3> QED BY <3>2 DEF TypeOK
  <2>2. CASE loadCache' = loadCache
    BY <2>2 DEF TypeOK
  <2> QED BY <2>1, <2>2, NextIs DEF CallSteps, TurnBegin, SaveBegin, ReadBegin, LoadBegin,
         CallGoesOn, ConfigRead, ConfigGot, CloudflareEnds, ProbeAnswers,
         CredentialsAnswer, CredentialsFail, SaveSet, SaveCached, StoreFails,
         LoadFails, Tick, RouterTurns, vars, memory
<1>6. arrivals' \in 0..MaxCalls
  <2>1. ASSUME NEW c \in Calls, Arrives(c) PROVE arrivals' \in 0..MaxCalls
    BY <2>1, TurnAssumption DEF Arrives, Open, TypeOK
  <2>2. CASE arrivals' = arrivals
    BY <2>2 DEF TypeOK
  <2> QED BY <2>1, <2>2, NextIs DEF CallSteps, TurnBegin, SaveBegin, ReadBegin, LoadBegin,
         CallGoesOn, ConfigRead, ConfigGot, CloudflareEnds, ProbeAnswers, ProbeEnds,
         ProbeFails, Judged, CredentialsAnswer, CredentialsFail, SaveSet, SaveCached,
         StoreFails, LoadEnds, LoadFails, Tick, RouterTurns, vars
<1> QED BY <1>1, <1>2, <1>3, <1>4, <1>5, <1>6 DEF TypeOK

\* What was true since an instant of the past stays so.
LEMMA HeldKept ==
  ASSUME TypeOK, [Next]_vars, NEW f \in Configs, NEW t \in Int, t <= clock, HeldSince(f, t)
  PROVE  HeldSince(f, t)'
<1>1. ASSUME NEW c \in Calls, SaveSet(c) PROVE HeldSince(f, t)'
  <2>1. heldUntil' = [heldUntil EXCEPT ![doc] = clock]
    BY <1>1 DEF SaveSet
  <2>2. heldUntil \in [Configs -> Instants] /\ doc \in Configs
    BY DEF TypeOK
  <2>3. CASE f = doc
    BY <2>1, <2>2, <2>3 DEF HeldSince
  <2>4. CASE f # doc
    BY <2>1, <2>2, <2>4 DEF HeldSince
  <2> QED BY <2>3, <2>4
<1>2. CASE doc' = doc /\ heldUntil' = heldUntil
  BY <1>2 DEF HeldSince
<1> QED BY <1>1, <1>2, DocKept

LEMMA WasKept ==
  ASSUME TypeOK, CallsInFlight, [Next]_vars, NEW state \in RouterStates,
         NEW t \in Int, t <= clock, WasSince(state, t)
  PROVE  WasSince(state, t)'
<1>1. ASSUME NEW next \in RouterStates, RouterTurns(next) PROVE WasSince(state, t)'
  <2>1. leftAt' = [leftAt EXCEPT ![router] = clock]
    BY <1>1 DEF RouterTurns
  <2>2. clock # None
    BY TurnAssumption, InstantsAreNat DEF TypeOK
  <2> QED BY <2>1, <2>2 DEF WasSince, TypeOK
<1>2. CASE UNCHANGED <<router, leftAt>>
  BY <1>2 DEF WasSince
<1> QED BY <1>1, <1>2, NextIs, StepOfCall DEF Tick, vars, world

LEMMA ClockOnward ==
  ASSUME TypeOK, CallsInFlight, [Next]_vars
  PROVE  clock \in Nat /\ clock' \in Nat /\ clock <= clock'
<1>1. clock \in Nat
  BY InstantsAreNat DEF TypeOK
<1>2. clock' = clock + 1 \/ clock' = clock
  <2>1. CASE CallSteps
    BY <2>1, StepOfCall
  <2>2. CASE ~ CallSteps
    BY <2>2, NextIs DEF Tick, RouterTurns, vars, world
  <2> QED BY <2>1, <2>2
<1> QED BY <1>1, <1>2

LEMMA FailedKept ==
  ASSUME TypeOK, CallsInFlight, [Next]_vars, NEW t \in Nat, t <= clock, FailedSince(t)
  PROVE  FailedSince(t)'
<1>1. CASE WasSince("refused", t)
  BY <1>1, WasKept DEF FailedSince, RouterStates
<1>2. CASE t + ProbeTimeout <= clock /\ WasSince("silent", t + ProbeTimeout)
  <2>1. PICK u \in Int : u = t + ProbeTimeout
    BY TimesArePositive
  <2>2. u <= clock /\ WasSince("silent", u)
    BY <1>2, <2>1
  <2>3. WasSince("silent", u)'
    BY <2>2, WasKept DEF RouterStates
  <2>4. u <= clock'
    BY <2>2, ClockOnward
  <2> QED BY <2>1, <2>3, <2>4 DEF FailedSince, WasSince
<1> QED BY <1>1, <1>2 DEF FailedSince

LEMMA ConfigsStep == IInv /\ [Next]_vars => ConfigsHeld'
<1> SUFFICES ASSUME IInv, [Next]_vars
             PROVE  ConfigsHeld'
  OBVIOUS
<1> USE DEF IInv
<1>1. clock \in Nat /\ clock' \in Nat /\ clock <= clock'
  <2>1. clock \in Nat
    BY InstantsAreNat DEF TypeOK
  <2>2. clock' = clock + 1 \/ clock' = clock
    <3>1. CASE CallSteps
      BY <3>1, StepOfCall
    <3>2. CASE ~ CallSteps
      BY <3>2, NextIs DEF Tick, RouterTurns, vars, world
    <3> QED BY <3>1, <3>2
  <2> QED BY <2>1, <2>2
<1>2. ASSUME NEW d \in Calls, call'[d].pc \in {"got", "saved"}
      PROVE  HeldSince(call[d].config, call[d].at)'
  <2>1. PICK r \in CallRecords : r = call'[d]
    BY CallsStep DEF TypeOK
  <2>2. r.config \in Configs /\ r.at \in Int
    <3>1. r.config \in Configs /\ r.at \in Instants
      BY DEF CallRecords
    <3>2. r.at \in Nat
      BY <3>1, InstantsAreNat
    <3> QED BY <3>1, <3>2
  <2>3. CASE r = call[d]
    <3>1. HeldSince(r.config, r.at) /\ r.at <= clock
      BY <1>2, <2>1, <2>3 DEF ConfigsHeld, CallsInFlight, InFlight
    <3>2. HeldSince(r.config, r.at)'
      BY <2>2, <3>1, HeldKept
    <3> QED BY <2>1, <3>2 DEF HeldSince
  <2>4. CASE r # call[d]
    <3>1. CallSteps
      BY <2>1, <2>4, NextIs DEF Tick, RouterTurns, vars
    <3>2. PICK c \in Calls, q \in CallRecords : Becomes(c, q)
      BY <3>1, StepOfCall
    <3>3. c = d /\ q = r
      BY <2>1, <2>4, <3>2 DEF Becomes, TypeOK
    <3>4. ConfigRead(d) \/ SaveSet(d)
      BY <1>2, <2>1, <3>2, <3>3 DEF Becomes
    <3>5. call'[d].config = doc'
      BY <3>4 DEF ConfigRead, SaveSet, TypeOK, CallRecords
    <3> QED BY <3>5 DEF HeldSince
  <2> QED BY <2>3, <2>4
<1>3. ASSUME NEW i \in Instances
      PROVE  /\ configCache'[i].at <= clock'
             /\ HeldSince(configCache[i].value, configCache[i].at - StoreTime)'
  <2>1. CASE configCache'[i] = configCache[i]
    <3>1. PICK entry \in [value : Configs, at : Instants] : entry = configCache[i]
      BY DEF TypeOK
    <3>2. /\ entry.at <= clock /\ HeldSince(entry.value, entry.at - StoreTime)
          /\ entry.at \in Nat
      BY <3>1, InstantsAreNat DEF ConfigsHeld
    <3>3. entry.at - StoreTime \in Int /\ entry.at - StoreTime <= clock
      BY <1>1, <3>2, TimesArePositive
    <3>4. HeldSince(entry.value, entry.at - StoreTime)'
      BY <3>2, <3>3, HeldKept
    <3> QED BY <1>1, <2>1, <3>1, <3>2, <3>4 DEF HeldSince
  <2>2. CASE configCache'[i] # configCache[i]
    <3>1. PICK c \in Calls : ConfigGot(c) \/ SaveCached(c)
      BY <2>2, NextIs DEF CallSteps, TurnBegin, SaveBegin, ReadBegin, LoadBegin,
         CallGoesOn, ConfigRead, CloudflareEnds, ProbeAnswers, ProbeEnds,
         ProbeFails, Judged, CredentialsAnswer, CredentialsFail, SaveSet, StoreFails,
         LoadEnds, LoadFails, Tick, RouterTurns, vars, memory
    <3>2. PICK r \in CallRecords : r = call[c]
      BY DEF TypeOK
    <3>3. /\ r.at \in Nat /\ r.by \in Nat /\ r.at <= clock /\ clock <= r.by
          /\ r.by = r.at + StoreTime /\ HeldSince(r.config, r.at)
      BY <3>1, <3>2, InstantsAreNat
         DEF ConfigGot, SaveCached, CallsInFlight, InFlight, ConfigsHeld, CallRecords
    <3>4. PICK at \in {r.at, clock} :
            configCache' = [configCache EXCEPT ![r.inst] = [value |-> r.config, at |-> at]]
      BY <3>1, <3>2 DEF ConfigGot, SaveCached
    <3>5. configCache'[i] = [value |-> r.config, at |-> at]
      BY <2>2, <3>4 DEF TypeOK
    <3>6. at \in Nat /\ at <= clock /\ at - StoreTime <= r.at
      BY <1>1, <3>3, TimesArePositive
    <3>7. doc' = doc /\ heldUntil' = heldUntil /\ r.config \in Configs
      BY <3>1 DEF ConfigGot, SaveCached, CallRecords
    <3>8. heldUntil[r.config] \in Nat
      BY <3>7, InstantsAreNat DEF TypeOK
    <3>9. HeldSince(r.config, at - StoreTime)
      BY <3>3, <3>6, <3>8, TimesArePositive DEF HeldSince
    <3> QED BY <1>1, <3>5, <3>6, <3>7, <3>9 DEF HeldSince
  <2> QED BY <2>1, <2>2
<1> QED BY <1>2, <1>3 DEF ConfigsHeld

LEMMA VerdictsStep == IInv /\ [Next]_vars => VerdictsSeen'
<1> SUFFICES ASSUME IInv, [Next]_vars
             PROVE  VerdictsSeen'
  OBVIOUS
<1> USE DEF IInv
<1>1. clock \in Nat /\ clock' \in Nat /\ clock <= clock'
  BY ClockOnward
<1>2. ASSUME NEW d \in Calls, call'[d].pc = "body"
      PROVE  WasSince(call[d].load, call[d].by - BodyTime)'
  <2>1. PICK r \in CallRecords : r = call'[d]
    BY CallsStep DEF TypeOK
  <2>2. CASE r = call[d]
    <3>1. PICK t \in Int : t = r.by - BodyTime
      <4>1. r.by \in Nat
        BY DEF CallRecords
      <4> QED BY <4>1, TimesArePositive
    <3>2. t <= clock /\ WasSince(r.load, t) /\ r.load \in RouterStates
      BY <1>2, <2>1, <2>2, <3>1 DEF VerdictsSeen, CallsInFlight, InFlight, RouterStates
    <3>3. WasSince(r.load, t)'
      BY <3>2, WasKept
    <3> QED BY <2>1, <3>1, <3>3 DEF WasSince
  <2>3. CASE r # call[d]
    <3>1. CallSteps
      BY <2>1, <2>3, NextIs DEF Tick, RouterTurns, vars
    <3>2. PICK c \in Calls, q \in CallRecords : Becomes(c, q)
      BY <3>1, StepOfCall
    <3>3. c = d /\ q = r
      BY <2>1, <2>3, <3>2 DEF Becomes, TypeOK
    <3>4. ProbeAnswers(d)
      BY <1>2, <2>1, <3>2, <3>3 DEF Becomes
    <3>5. call'[d].load = router /\ router' = router
      BY <3>4 DEF ProbeAnswers, TypeOK, CallRecords, world
    <3> QED BY <3>5 DEF WasSince
  <2> QED BY <2>2, <2>3
<1>3. ASSUME NEW i \in Instances
      PROVE  /\ loadCache'[i].at <= clock'
             /\ loadCache'[i].value \in {"up", "overloaded"}
                  => WasSince(loadCache[i].value, loadCache[i].at - BodyTime)'
             /\ loadCache'[i].value = "failed" => FailedSince(loadCache[i].at)'
  <2>1. CASE loadCache'[i] = loadCache[i]
    <3>1. PICK entry \in [value : Verdicts \cup {None}, at : Instants] : entry = loadCache[i]
      BY DEF TypeOK
    <3>2. PICK t \in Int : t = entry.at - BodyTime /\ entry.at \in Nat
      <4>1. entry.at \in Nat
        BY InstantsAreNat
      <4> QED BY <4>1, TimesArePositive
    <3>3. entry.at <= clock
      BY <3>1 DEF VerdictsSeen
    <3>4. t <= clock
      BY <1>1, <3>2, <3>3, TimesArePositive
    <3>5. entry.value \in {"up", "overloaded"} => WasSince(entry.value, t)'
      <4>1. entry.value \in {"up", "overloaded"}
              => WasSince(entry.value, t) /\ entry.value \in RouterStates
        BY <3>1, <3>2 DEF VerdictsSeen, RouterStates
      <4> QED BY <3>4, <4>1, WasKept
    <3>6. entry.value = "failed" => FailedSince(entry.at)'
      <4>1. PICK at \in Nat : at = entry.at
        BY <3>2
      <4>2. entry.value = "failed" => FailedSince(at)
        BY <3>1, <4>1 DEF VerdictsSeen
      <4>3. entry.value = "failed" => FailedSince(at)'
        BY <3>3, <4>1, <4>2, FailedKept
      <4> QED BY <4>1, <4>3 DEF FailedSince, WasSince
    <3> QED BY <1>1, <2>1, <3>1, <3>2, <3>3, <3>5, <3>6 DEF WasSince, FailedSince
  <2>2. CASE loadCache'[i] # loadCache[i]
    <3>1. PICK c \in Calls : ProbeEnds(c) \/ ProbeFails(c) \/ LoadEnds(c)
      BY <2>2, NextIs DEF CallSteps, TurnBegin, SaveBegin, ReadBegin, LoadBegin,
         CallGoesOn, ConfigRead, ConfigGot, CloudflareEnds, ProbeAnswers,
         CredentialsAnswer, CredentialsFail, SaveSet, SaveCached, StoreFails,
         LoadFails, Tick, RouterTurns, vars, memory
    <3>2. PICK r \in CallRecords : r = call[c]
      BY DEF TypeOK
    <3>3. r.at \in Nat /\ r.by \in Nat
      BY InstantsAreNat DEF CallRecords
    <3>4. r.pc \in {"probe", "body"} /\ UNCHANGED <<clock, router, leftAt>>
      BY <3>1, <3>2 DEF ProbeEnds, ProbeFails, LoadEnds, Unanswered, Judged, world
    <3>5. r.at <= clock /\ clock <= r.by
      BY <3>2, <3>4 DEF CallsInFlight, InFlight
    <3>6. r.pc = "body" => r.load \in {"up", "overloaded"} /\ WasSince(r.load, r.by - BodyTime)
      BY <3>2 DEF CallsInFlight, InFlight, VerdictsSeen
    <3>7. PICK at \in {r.at, clock}, verdict \in {r.load, "failed"} :
            /\ loadCache' = [loadCache EXCEPT ![r.inst] = [value |-> verdict, at |-> at]]
            /\ \/ r.pc = "body" /\ verdict = r.load
               \/ verdict = "failed" /\ router = "refused"
               \/ /\ verdict = "failed" /\ router = "silent"
                  /\ at = r.at /\ clock = r.by /\ r.kind = "turn" /\ r.pc = "probe"
      <4>1. CASE ProbeEnds(c)
        BY <3>2, <4>1 DEF ProbeEnds, Judged
      <4>2. CASE ProbeFails(c)
        BY <3>2, <4>2 DEF ProbeFails, Judged, Unanswered
      <4>3. CASE LoadEnds(c)
        BY <3>2, <4>3 DEF LoadEnds
      <4> QED BY <3>1, <4>1, <4>2, <4>3
    <3>8. loadCache'[i] = [value |-> verdict, at |-> at]
      BY <2>2, <3>7 DEF TypeOK
    <3>9. at \in Nat /\ at <= clock /\ at - BodyTime <= r.by - BodyTime
      BY <1>1, <3>3, <3>5, TimesArePositive
    <3>10. \A state \in RouterStates : leftAt[state] \in Nat \cup {None}
      BY InstantsAreNat DEF TypeOK
    <3>11. verdict \in {"up", "overloaded"} => WasSince(verdict, at - BodyTime)
      BY <3>3, <3>6, <3>7, <3>9, <3>10, TimesArePositive DEF WasSince, RouterStates
    <3>12. verdict = "failed" => FailedSince(at)
      <4>1. router = "silent" /\ at = r.at /\ clock = r.by /\ r.kind = "turn" /\ r.pc = "probe"
              => at + ProbeTimeout <= clock
        BY <1>1, <3>2, <3>3, TimesArePositive DEF CallsInFlight, InFlight
      <4>2. verdict = "failed" => router = "refused" \/ (router = "silent" /\ at + ProbeTimeout <= clock)
        BY <3>6, <3>7, <4>1
      <4> QED BY <4>2 DEF FailedSince, WasSince
    <3> QED BY <1>1, <3>4, <3>8, <3>9, <3>11, <3>12 DEF WasSince, FailedSince
  <2> QED BY <2>1, <2>2
<1> QED BY <1>2, <1>3 DEF VerdictsSeen

LEMMA Invariance == Spec => []IInv
<1>1. Init => IInv
  <2> SUFFICES ASSUME Init PROVE IInv
    OBVIOUS
  <2>1. 0 \in Instants
    BY TurnAssumption DEF Instants
  <2>2. TypeOK
    BY <2>1, NoCallIs, TurnAssumption DEF Init, TypeOK, Configs
  <2>3. CallsInFlight
    BY NoCallInFlight DEF Init, CallsInFlight
  <2>4. ConfigsHeld
    BY NoCallIs DEF Init, ConfigsHeld, HeldSince
  <2>5. VerdictsSeen
    BY NoCallIs, TurnAssumption DEF Init, VerdictsSeen
  <2> QED BY <2>2, <2>3, <2>4, <2>5 DEF IInv
<1>2. IInv /\ [Next]_vars => IInv'
  BY TypeStep, CallsStep, ConfigsStep, VerdictsStep DEF IInv
<1> QED BY <1>1, <1>2, PTL DEF Spec

\* Every variable keeps its type: in particular no call ever waits in a state, or
\* tries a provider, that its code does not know.
THEOREM TypeCorrect == Spec => []TypeOK
<1>1. IInv => TypeOK
  BY DEF IInv
<1> QED BY <1>1, Invariance, PTL

\* Whatever config an instance would serve was the stored one within ConfigTTL and
\* StoreTime, whatever reads and saves overtake each other.
THEOREM ConfigIsFresh == Spec => []ConfigNotStale
<1>1. IInv => ConfigNotStale
  <2> SUFFICES ASSUME IInv PROVE ConfigNotStale
    OBVIOUS
  <2> USE DEF IInv
  <2>0. clock \in Nat
    BY InstantsAreNat DEF TypeOK
  <2>1. ASSUME NEW i \in Instances, ConfigHit(i)
        PROVE  HeldWithin(configCache[i].value, ConfigTTL - 1 + StoreTime)
    <3>1. PICK entry \in [value : Configs, at : Instants] : entry = configCache[i]
      BY DEF TypeOK
    <3>2. entry.at \in Nat /\ heldUntil[entry.value] \in Nat
      BY InstantsAreNat DEF TypeOK
    <3>3. HeldSince(entry.value, entry.at - StoreTime)
      BY <3>1 DEF ConfigsHeld
    <3>4. clock - entry.at < ConfigTTL
      BY <2>1, <3>1 DEF ConfigHit
    <3>5. HeldWithin(entry.value, ConfigTTL - 1 + StoreTime)
      BY <2>0, <3>2, <3>3, <3>4, TimesArePositive DEF HeldSince, HeldWithin
    <3> QED BY <3>1, <3>5
  <2>2. ASSUME NEW c \in Calls, call[c].pc = "got"
        PROVE  HeldWithin(call[c].config, StoreTime)
    <3>1. PICK r \in CallRecords : r = call[c]
      BY DEF TypeOK
    <3>2. r.at \in Nat /\ heldUntil[r.config] \in Nat
      BY InstantsAreNat DEF TypeOK, CallRecords
    <3>3. clock <= r.by /\ r.by = r.at + StoreTime /\ HeldSince(r.config, r.at)
      BY <2>2, <3>1 DEF CallsInFlight, InFlight, ConfigsHeld
    <3>4. HeldWithin(r.config, StoreTime)
      BY <2>0, <3>2, <3>3, TimesArePositive DEF HeldSince, HeldWithin
    <3> QED BY <3>1, <3>4
  <2> QED BY <2>1, <2>2 DEF ConfigNotStale
<1> QED BY <1>1, Invariance, PTL

(***************************************************************************)
(* How old a verdict may be when it is acted on.                           *)
(***************************************************************************)
\* What may make a call pass the local router over.
SkipsForCause ==
  \/ Within("overloaded", VerdictAge)
  \/ Within("refused", FailTTL - 1)
  \/ Within("silent", FailTTL - 1 - ProbeTimeout)

\* A cached verdict that hits was true within VerdictAge, a failure within its life.
LEMMA CachedVerdict ==
  ASSUME IInv, NEW i \in Instances, LoadHit(loadCache[i])
  PROVE  /\ loadCache[i].value = "up" => Within("up", VerdictAge)
         /\ loadCache[i].value # "up" => SkipsForCause
<1> USE DEF IInv
<1>1. PICK entry \in [value : Verdicts \cup {None}, at : Instants] : entry = loadCache[i]
  BY DEF TypeOK
<1>2. /\ entry.at \in Nat /\ clock \in Nat
      /\ \A state \in RouterStates : leftAt[state] \in Nat \cup {None}
  BY InstantsAreNat DEF TypeOK
<1>3. entry.value \in {"up", "overloaded", "failed"}
      /\ clock - entry.at < LoadLifetime(entry.value)
  BY <1>1 DEF LoadHit, Verdicts
<1>4. CASE entry.value \in {"up", "overloaded"}
  <2>1. WasSince(entry.value, entry.at - BodyTime)
    BY <1>1, <1>4 DEF VerdictsSeen
  <2>2. clock - entry.at < LoadTTL
    BY <1>3, <1>4 DEF LoadLifetime
  <2>3. Within(entry.value, VerdictAge)
    BY <1>2, <1>4, <2>1, <2>2, TimesArePositive DEF WasSince, Within, VerdictAge, RouterStates
  <2> QED BY <1>1, <1>4, <2>3 DEF SkipsForCause
<1>5. CASE entry.value = "failed"
  <2>1. FailedSince(entry.at)
    BY <1>1, <1>5 DEF VerdictsSeen
  <2>2. clock - entry.at < FailTTL
    BY <1>3, <1>5 DEF LoadLifetime
  <2>3. CASE WasSince("refused", entry.at)
    <3>1. Within("refused", FailTTL - 1)
      BY <1>2, <2>2, <2>3, TimesArePositive DEF WasSince, Within, RouterStates
    <3> QED BY <1>1, <1>5, <3>1 DEF SkipsForCause
  <2>4. CASE WasSince("silent", entry.at + ProbeTimeout)
    <3>1. Within("silent", FailTTL - 1 - ProbeTimeout)
      BY <1>2, <2>2, <2>4, TimesArePositive DEF WasSince, Within, RouterStates
    <3> QED BY <1>1, <1>5, <3>1 DEF SkipsForCause
  <2> QED BY <2>1, <2>3, <2>4 DEF FailedSince
<1> QED BY <1>3, <1>4, <1>5

\* The answer to a call's own probe was true within BodyTime.
LEMMA OwnVerdict ==
  ASSUME IInv, NEW state \in RouterStates, WasSince(state, clock - BodyTime)
  PROVE  Within(state, VerdictAge)
<1>1. clock \in Nat /\ leftAt[state] \in Nat \cup {None}
  BY InstantsAreNat DEF IInv, TypeOK
<1> QED BY <1>1, TimesArePositive DEF WasSince, Within, VerdictAge

\* A call goes on with a list of providers, on what its instance remembers; one that
\* has just learnt its config has the whole list before it.
GoesOnFromCache(c) ==
  /\ call[c].pc \notin {"probe", "body"}
  /\ \E r \in CallRecords, list \in Seq(Listed), i \in Instances :
       /\ call'[c] = Proceed(r, list, loadCache[i])
       /\ call[c].pc \in {"idle", "got"} => list = BuildProviderList(r.config, deploy)

\* A call goes on with what its own probe said.
GoesOnFromProbe(c) ==
  \/ call'[c].pc = "credentials" /\ Within("up", VerdictAge)
  \/ /\ SkipsForCause
     /\ \E r \in CallRecords, list \in Seq(Listed) : \E load :
          call'[c] = Proceed(r, list, load) /\ load.value # "up"

LEMMA StartsFromCache ==
  ASSUME TypeOK, NEW c \in Calls, NEW r \in CallRecords, r.inst \in Instances,
         NEW config \in Configs, call[c].pc \in {"idle", "got"},
         call' = [call EXCEPT ![c] = Starts(r, config)]
  PROVE  GoesOnFromCache(c)
<1>1. PICK list \in Seq(Listed) : list = BuildProviderList(config, deploy)
  BY StartsIs
<1>2. PICK s \in CallRecords :
        s.config = config /\ Starts(r, config) = Proceed(s, list, loadCache[r.inst])
  BY <1>1, StartsIs
<1>3. call'[c] = Proceed(s, list, loadCache[r.inst])
  BY <1>2 DEF TypeOK
<1> QED BY <1>1, <1>2, <1>3 DEF GoesOnFromCache

LEMMA JudgedFromProbe ==
  ASSUME IInv, NEW c \in Calls, NEW verdict, Judged(c, verdict),
         call[c].kind = "turn", call[c].pc \in {"probe", "body"},
         verdict = "up" => Within("up", VerdictAge),
         verdict # "up" => SkipsForCause
  PROVE  GoesOnFromProbe(c)
<1> USE DEF IInv
<1>1. PICK r \in CallRecords : r = call[c]
  BY DEF TypeOK
<1>2. r.inst \in Instances /\ r.left # <<>>
  BY <1>1 DEF CallsInFlight, InFlight
<1>3. PICK entry : entry = [value |-> verdict, at |-> r.at]
  OBVIOUS
<1>4. call'[c] = IF verdict = "up" THEN Await(r, "credentials", CredTimeout + BodyTime)
                 ELSE NextProvider(r, entry)
  BY <1>1, <1>3 DEF Judged, TypeOK
<1>5. CASE verdict = "up"
  <2>1. PICK pc \in Pending, span \in Nat :
          call'[c] = Await(r, pc, span) /\ pc = "credentials"
    BY <1>4, <1>5, TimesArePositive DEF Pending
  <2>2. PICK q : q = Await(r, pc, span)
    OBVIOUS
  <2>3. q.pc = pc
    BY <2>2, AwaitIs DEF TypeOK
  <2> QED BY <1>5, <2>1, <2>2, <2>3 DEF GoesOnFromProbe
<1>6. CASE verdict # "up"
  <2>1. Tail(r.left) \in Seq(Listed)
    <3>1. r.left \in Seq(Listed)
      BY DEF CallRecords
    <3> QED BY <1>2, <3>1, HeadTailProperties
  <2>2. PICK list \in Seq(Listed) : call'[c] = Proceed(r, list, entry)
    BY <1>4, <1>6, <2>1 DEF NextProvider
  <2>3. entry.value # "up"
    BY <1>3, <1>6
  <2> QED BY <1>6, <2>2, <2>3 DEF GoesOnFromProbe
<1> QED BY <1>5, <1>6

\* A call that begins to ask for credentials of the local router or of Cloudflare
\* does so on the instance's memory or on its own probe.
LEMMA CallAsks ==
  ASSUME IInv, [Next]_vars, NEW d \in Calls, call[d].pc # call'[d].pc,
         call'[d].pc \in {"credentials", "cloudflare"}
  PROVE  GoesOnFromCache(d) \/ GoesOnFromProbe(d)
<1> USE DEF IInv
<1>1. CallSteps
  BY NextIs DEF Tick, RouterTurns, vars
<1>2. PICK c \in Calls :
        \/ \E i \in Instances :
             \/ \E exclude \in Exclusions : TurnBegin(c, i, exclude)
             \/ \E config \in Submitted : SaveBegin(c, i, config)
             \/ ReadBegin(c, i)
             \/ LoadBegin(c, i)
        \/ CallGoesOn(c)
  BY <1>1 DEF CallSteps
<1>3. c = d
  <2>1. \E q \in CallRecords : Becomes(c, q)
    BY <1>2, CallArrives, CallContinues
  <2> QED BY <2>1 DEF Becomes, TypeOK
<1>4. PICK r \in CallRecords : r = call[d]
  BY DEF TypeOK
<1>5. InFlight(r) /\ (r.pc # "idle" => r.inst \in Instances)
  BY <1>4 DEF CallsInFlight, InFlight
<1>6. ASSUME NEW pc \in Pending, NEW span \in Nat, NEW s \in CallRecords,
             pc \notin {"credentials", "cloudflare"}, call'[d] = Await(s, pc, span)
      PROVE  FALSE
  <2>1. PICK q : q = Await(s, pc, span)
    OBVIOUS
  <2>2. q.pc = pc
    BY <2>1, AwaitIs DEF TypeOK
  <2> QED BY <1>6, <2>1, <2>2
<1>7. ASSUME NEW i \in Instances, NEW exclude \in Exclusions, TurnBegin(d, i, exclude)
      PROVE  GoesOnFromCache(d)
  <2>1. PICK b \in CallRecords : b = Begun("turn", i) /\ b.inst = i
    BY BegunIs DEF Kinds
  <2>2. PICK s : s = [b EXCEPT !.exclude = exclude]
    OBVIOUS
  <2>3. s \in CallRecords /\ s.inst = i
    BY <2>1, <2>2 DEF CallRecords
  <2>4. /\ call[d].pc = "idle"
        /\ call' = [call EXCEPT ![d] = IF ConfigHit(i) THEN Starts(s, configCache[i].value)
                                       ELSE Await(s, "get", StoreTime)]
    BY <1>7, <2>1, <2>2 DEF TurnBegin, Arrives
  <2>5. CASE ConfigHit(i)
    <3>1. PICK config \in Configs : config = configCache[i].value
      BY DEF TypeOK
    <3>2. call' = [call EXCEPT ![d] = Starts(s, config)]
      BY <2>4, <2>5, <3>1
    <3> QED BY <2>3, <2>4, <3>2, StartsFromCache
  <2>6. CASE ~ConfigHit(i)
    <3>1. PICK pc \in Pending, span \in Nat :
            call'[d] = Await(s, pc, span) /\ pc = "get"
      BY <2>4, <2>6, TimesArePositive DEF Pending, TypeOK
    <3> QED BY <1>6, <2>3, <3>1
  <2> QED BY <2>5, <2>6
<1>8. ASSUME NEW i \in Instances, NEW config \in Submitted, SaveBegin(d, i, config)
      PROVE  FALSE
  <2>1. PICK b \in CallRecords : b = Begun("save", i)
    BY BegunIs DEF Kinds
  <2>2. PICK pc, span, s :
          /\ pc \in Pending /\ span \in Nat
          /\ s = Await(b, pc, span) /\ pc = "set" /\ span = StoreTime
    BY TimesArePositive DEF Pending
  <2>3. s \in CallRecords /\ s.pc = "set"
    BY <2>2, AwaitIs DEF TypeOK
  <2>4. call'[d] = [s EXCEPT !.config = config]
    BY <1>8, <2>1, <2>2 DEF SaveBegin, TypeOK
  <2>5. call'[d].pc = "set"
    BY <2>3, <2>4 DEF CallRecords
  <2> QED BY <2>5
<1>9. ASSUME NEW i \in Instances, ReadBegin(d, i) \/ LoadBegin(d, i)
      PROVE  FALSE
  <2>1. PICK b \in CallRecords, pc \in Pending, span \in Nat :
          call'[d] = Await(b, pc, span) /\ pc \in {"get", "probe"}
    BY <1>9, BegunIs, TimesArePositive DEF ReadBegin, LoadBegin, Kinds, Pending, TypeOK
  <2> QED BY <1>6, <2>1
<1>10. CASE ConfigGot(d)
  <2>1. r.pc = "got" /\ r.inst \in Instances
    BY <1>4, <1>5, <1>10 DEF ConfigGot
  <2>2. r.kind = "turn"
    BY <1>4, <1>10, NoCallIs DEF ConfigGot, TypeOK
  <2>3. PICK config \in Configs : config = r.config
    BY DEF CallRecords
  <2>4. call' = [call EXCEPT ![d] = Starts(r, config)]
    BY <1>4, <1>10, <2>2, <2>3 DEF ConfigGot
  <2> QED BY <1>4, <2>1, <2>4, StartsFromCache
<1>11. CASE CloudflareEnds(d)
  <2>1. r.pc = "cloudflare" /\ r.inst \in Instances
    BY <1>4, <1>5, <1>11 DEF CloudflareEnds
  <2>2. Tail(r.left) \in Seq(Listed)
    <3>1. r.left \in Seq(Listed) /\ r.left # <<>>
      BY <1>5, <2>1 DEF CallRecords, InFlight
    <3> QED BY <3>1, HeadTailProperties
  <2>3. call'[d] = Proceed(r, Tail(r.left), loadCache[r.inst])
    BY <1>4, <1>11, NoCallIs DEF CloudflareEnds, NextProvider, TypeOK
  <2> QED BY <1>4, <2>1, <2>2, <2>3 DEF GoesOnFromCache
<1>12. CASE CredentialsFail(d)
  <2>1. r.pc = "credentials" /\ r.inst \in Instances
    BY <1>4, <1>5, <1>12 DEF CredentialsFail
  <2>2. Tail(r.left) \in Seq(Listed)
    <3>1. r.left \in Seq(Listed) /\ r.left # <<>>
      BY <1>5, <2>1 DEF CallRecords, InFlight
    <3> QED BY <3>1, HeadTailProperties
  <2>3. call'[d] = Proceed(r, Tail(r.left), loadCache[r.inst])
    BY <1>4, <1>12, NoCallIs DEF CredentialsFail, NextProvider, TypeOK
  <2> QED BY <1>4, <2>1, <2>2, <2>3 DEF GoesOnFromCache
<1>13. CASE ProbeEnds(d)
  <2>1. /\ r.pc = "body" /\ r.kind = "turn" /\ Judged(d, r.load)
        /\ r.load \in {"up", "overloaded"} /\ clock <= r.by
        /\ WasSince(r.load, r.by - BodyTime)
    BY <1>4, <1>5, <1>13 DEF ProbeEnds, InFlight, VerdictsSeen
  <2>2. /\ r.by \in Nat /\ clock \in Nat
        /\ \A state \in RouterStates : leftAt[state] \in Nat \cup {None}
    BY InstantsAreNat DEF CallRecords, TypeOK
  <2>3. WasSince(r.load, clock - BodyTime) /\ r.load \in RouterStates
    BY <2>1, <2>2, TimesArePositive DEF WasSince, RouterStates
  <2>4. Within(r.load, VerdictAge)
    BY <2>3, OwnVerdict
  <2> QED BY <1>4, <2>1, <2>4, JudgedFromProbe DEF SkipsForCause
<1>14. CASE ProbeFails(d)
  <2>1. /\ Judged(d, "failed") /\ call[d].kind = "turn" /\ call[d].pc \in {"probe", "body"}
        /\ router \in {"refused", "silent"}
    BY <1>14 DEF ProbeFails, Unanswered
  <2>2. PICK verdict : verdict = "failed"
    OBVIOUS
  <2>3. Judged(d, verdict) /\ verdict # "up" /\ SkipsForCause
    BY <2>1, <2>2 DEF SkipsForCause, Within
  <2> QED BY <2>1, <2>3, JudgedFromProbe
<1>15. CASE \/ CredentialsAnswer(d) \/ SaveCached(d) \/ StoreFails(d)
            \/ LoadEnds(d) \/ LoadFails(d)
  <2>1. call' = [call EXCEPT ![d] = NoCall]
    BY <1>15 DEF CredentialsAnswer, SaveCached, StoreFails, LoadEnds, LoadFails
  <2> QED BY <2>1, NoCallIs DEF TypeOK
<1>16. CASE ConfigRead(d) \/ ProbeAnswers(d) \/ SaveSet(d)
  <2>1. call'[d].pc \in {"got", "body", "saved"}
    BY <1>4, <1>16 DEF ConfigRead, ProbeAnswers, SaveSet, TypeOK, CallRecords
  <2> QED BY <2>1
<1> QED BY <1>2, <1>3, <1>7, <1>8, <1>9, <1>10, <1>11, <1>12, <1>13, <1>14, <1>15, <1>16
       DEF CallGoesOn

\* The health gate: a router that died stops being handed out within VerdictAge,
\* although calls overwrite each other's verdicts out of order.
THEOREM DeadRouterRests == Spec => DeadRouterNotServed
<1>1. IInv /\ [Next]_vars =>
        [\A c \in Calls :
           call[c].pc # "credentials" /\ call'[c].pc = "credentials"
             => Within("up", VerdictAge)]_vars
  <2> SUFFICES ASSUME IInv, [Next]_vars, NEW c \in Calls,
                      call[c].pc # "credentials", call'[c].pc = "credentials"
               PROVE  Within("up", VerdictAge)
    OBVIOUS
  <2>1. clock \in Instants
    BY DEF IInv, TypeOK
  <2>2. CASE GoesOnFromCache(c)
    <3>1. PICK r \in CallRecords, list \in Seq(Listed), i \in Instances :
            call'[c] = Proceed(r, list, loadCache[i])
      BY <2>2 DEF GoesOnFromCache
    <3>2. PICK q, load : q = Proceed(r, list, load) /\ load = loadCache[i] /\ q = call'[c]
      BY <3>1
    <3>3. LoadHit(load) /\ load.value = "up"
      BY <2>1, <3>2, CredentialsNeedUp
    <3> QED BY <3>2, <3>3, CachedVerdict
  <2>3. CASE GoesOnFromProbe(c)
    <3>1. ASSUME NEW r \in CallRecords, NEW list \in Seq(Listed), NEW load,
                 call'[c] = Proceed(r, list, load)
          PROVE  load.value = "up"
      <4>1. PICK q : q = Proceed(r, list, load)
        OBVIOUS
      <4>2. q.pc = "credentials" => LoadHit(load) /\ load.value = "up"
        BY <2>1, <4>1, ProceedIs
      <4> QED BY <3>1, <4>1, <4>2
    <3> QED BY <2>3, <3>1 DEF GoesOnFromProbe
  <2> QED BY <2>2, <2>3, CallAsks
<1> QED BY <1>1, Invariance, PTL DEF Spec, DeadRouterNotServed

\* The router is not left aside for Cloudflare once the last overload is VerdictAge
\* back and the last failure as long as a failure is remembered.
THEOREM LiveRouterServes == Spec => LiveRouterNotSkipped
<1>1. IInv /\ [Next]_vars =>
        [\A c \in Calls :
           /\ call[c].pc \in {"idle", "got", "probe", "body"}
           /\ call'[c].pc = "cloudflare"
           /\ LocalFirst(call'[c])
           => \/ Within("overloaded", VerdictAge)
              \/ Within("refused", FailTTL - 1)
              \/ Within("silent", FailTTL - 1 - ProbeTimeout)]_vars
  <2> SUFFICES ASSUME IInv, [Next]_vars, NEW c \in Calls,
                      call[c].pc \in {"idle", "got", "probe", "body"},
                      call'[c].pc = "cloudflare", LocalFirst(call'[c])
               PROVE  SkipsForCause
    BY DEF SkipsForCause
  <2>1. clock \in Instants
    BY DEF IInv, TypeOK
  <2>2. CASE GoesOnFromCache(c)
    <3>1. PICK r \in CallRecords, list \in Seq(Listed), i \in Instances :
            /\ call'[c] = Proceed(r, list, loadCache[i])
            /\ list = BuildProviderList(r.config, deploy)
      BY <2>2 DEF GoesOnFromCache
    <3>2. PICK q, load : q = Proceed(r, list, load) /\ load = loadCache[i] /\ q = call'[c]
      BY <3>1
    <3>3. PICK k \in 1..Len(list) :
            /\ IsCandidate(list[k], r.exclude) /\ list[k].type = "cloudflare"
            /\ \A j \in 1..(k - 1) : PassedOver(list[j], r.exclude, load)
      <4>1. q.pc = "cloudflare"
        BY <3>2
      <4>2. q.pc = "cloudflare" =>
              \E k \in 1..Len(list) :
                /\ IsCandidate(list[k], r.exclude) /\ list[k].type = "cloudflare"
                /\ \A j \in 1..(k - 1) : PassedOver(list[j], r.exclude, load)
        BY <2>1, <3>2, ProceedIs
      <4> QED BY <4>1, <4>2, Zenon
    <3>4. q.exclude = r.exclude /\ q.config = r.config
      <4>1. \/ q = NoCall
            \/ q.exclude = r.exclude /\ q.config = r.config
        BY <2>1, <3>2, ProceedIs
      <4>2. q.pc = "cloudflare"
        BY <3>2
      <4> QED BY <4>1, <4>2, NoCallIs
    <3>5. PICK n \in DOMAIN list :
            /\ IsCandidate(list[n], r.exclude)
            /\ list[n].type = "local-rest" /\ list[n].urls /\ deploy.api
            /\ \A j \in 1..(n - 1) :
                 IsCandidate(list[j], r.exclude) => list[j].type # "cloudflare"
      <4>1. LocalFirst(q)
        BY <3>2
      <4>2. list = BuildProviderList(q.config, deploy)
        BY <3>1, <3>4
      <4> QED BY <3>4, <4>1, <4>2, Zenon DEF LocalFirst
    <3>6. n \in 1..(k - 1)
      <4>1. DOMAIN list = 1..Len(list) /\ Len(list) \in Nat
        BY LenProperties
      <4>2. n # k /\ ~ (k \in 1..(n - 1))
        BY <3>3, <3>5
      <4> QED BY <4>1, <4>2
    <3>7. PassedOver(list[n], r.exclude, load)
      BY <3>3, <3>6
    <3>8. list[n].type \in ProviderTypes /\ list[n].type \notin {"static", "hmac-secret"}
      BY <3>5 DEF ProviderTypes
    <3>9. LoadHit(load) /\ load.value # "up"
      BY <3>5, <3>7, <3>8, Zenon DEF PassedOver
    <3> QED BY <3>2, <3>9, CachedVerdict
  <2>3. CASE GoesOnFromProbe(c)
    BY <2>3 DEF GoesOnFromProbe
  <2> QED BY <2>2, <2>3, CallAsks
<1> QED BY <1>1, Invariance, PTL DEF Spec, LiveRouterNotSkipped

=============================================================================
