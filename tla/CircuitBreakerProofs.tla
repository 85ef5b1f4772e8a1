------------------------ MODULE CircuitBreakerProofs ------------------------
(***************************************************************************)
(* Theorems about CircuitBreaker, for every number of fetches and every    *)
(* threshold.                                                              *)
(*                                                                         *)
(* A probe is counted twice: by halfOpenRequests, which the code keeps and *)
(* never lowers within a period, and by the history variable probes.       *)
(* ProbeLimit bounds the second by the first (Periods).  LockoutNeedsLeak  *)
(* bounds the first by the second, the successes, and the probes whose     *)
(* result nobody recorded (SlotsAccounted).                                *)
(***************************************************************************)
EXTENDS CircuitBreaker, TLAPS, FiniteSetTheorems

USE ConstantsAssumption

(* The parts of TypeOK and Periods, each kept for reasons of its own. *)

Booleans == known \in BOOLEAN /\ elapsed \in BOOLEAN /\ healthy \in BOOLEAN

Counters ==
  /\ state \in {"closed", "open", "halfOpen"}
  /\ failureCount \in 0 .. FailureThreshold
  /\ successCount \in 0 .. SuccessThreshold
  /\ halfOpenRequests \in 0 .. HalfOpenMaxRequests

Fetches ==
  /\ pc \in [Request -> {"idle", "waiting", "sent"}]
  /\ probes \subseteq {r \in Request : pc[r] # "idle"}
  /\ leaked \in Nat

UnknownIsClosed == ~known => state = "closed"
NoProbesOutside == state # "halfOpen" => probes = {} /\ leaked = 0
GoesOn == state = "halfOpen" => successCount < SuccessThreshold
Limited == state = "halfOpen" => leaked + Cardinality(probes) <= halfOpenRequests

Inv ==
  /\ Booleans /\ Counters /\ Fetches
  /\ UnknownIsClosed /\ NoProbesOutside /\ GoesOn /\ Limited

LEMMA InvIsTypeAndPeriods == Inv <=> TypeOK /\ Periods
  BY DEF Inv, Booleans, Counters, Fetches, UnknownIsClosed, NoProbesOutside, GoesOn,
         Limited, TypeOK, Periods

\* What adding a fetch to the probes, or taking one away, does to their number.
LEMMA ProbesCount ==
  ASSUME Fetches, NEW r \in Request
  PROVE  /\ Cardinality(probes) \in Nat
         /\ Cardinality(probes \cup {r}) \in Nat
         /\ Cardinality(probes \cup {r}) <= Cardinality(probes) + 1
         /\ r \notin probes => Cardinality(probes \cup {r}) = Cardinality(probes) + 1
         /\ Cardinality(probes \ {r}) \in Nat
         /\ Cardinality(probes \ {r}) <= Cardinality(probes)
         /\ Cardinality(probes \ {r}) >= Cardinality(probes) - 1
         /\ r \in probes => Cardinality(probes \ {r}) = Cardinality(probes) - 1
         /\ r \notin probes => Cardinality(probes \ {r}) = Cardinality(probes)
         /\ Cardinality({}) = 0 /\ Cardinality({r}) = 1
  <1>1. IsFiniteSet(probes)
    <2>1. probes \in SUBSET Request
      BY DEF Fetches
    <2> QED BY <2>1, FS_Subset
  <1>2. Cardinality(probes) \in Nat
    BY <1>1, FS_CardinalityType
  <1>3. Cardinality(probes \cup {r}) =
          IF r \in probes THEN Cardinality(probes) ELSE Cardinality(probes) + 1
    BY <1>1, FS_AddElement
  <1>4. Cardinality(probes \ {r}) \in Nat
    BY <1>1, FS_RemoveElement, FS_CardinalityType
  <1>5. Cardinality(probes \ {r}) =
          IF r \in probes THEN Cardinality(probes) - 1 ELSE Cardinality(probes)
    BY <1>1, FS_RemoveElement
  <1>6. Cardinality({}) = 0 /\ Cardinality({r}) = 1
    BY FS_EmptySet, FS_Singleton
  <1> QED BY <1>2, <1>3, <1>4, <1>5, <1>6

-----------------------------------------------------------------------------
(* The limit on probes *)

LEMMA BooleansKept == Booleans /\ [Next]_vars => Booleans'
  BY DEF Booleans, Next, vars, Fetch, Ask, Allow, Send, GiveUp, Answer, AnswerSuccess,
         AnswerFailure, AnswerUnrecorded, RecordSuccess, RecordFailure, Elapse, Reset,
         HostChanges, Entry, host, StartProbing, TakeSlot, SuccessWhileHalfOpen,
         Succeed, NoProbes, Unrecorded, period

LEMMA UnknownIsClosedKept ==
  Booleans /\ Counters /\ UnknownIsClosed /\ [Next]_vars => UnknownIsClosed'
  BY DEF Booleans, Counters, UnknownIsClosed, Next, vars, Fetch, Ask, Allow, Send,
         GiveUp, Answer, AnswerSuccess, AnswerFailure, AnswerUnrecorded, RecordSuccess,
         RecordFailure, Elapse, Reset, HostChanges, Entry, host, StartProbing,
         TakeSlot, SuccessWhileHalfOpen, Succeed, NoProbes, Unrecorded, period

LEMMA NoProbesOutsideKept ==
  Counters /\ UnknownIsClosed /\ NoProbesOutside /\ [Next]_vars => NoProbesOutside'
  BY DEF Counters, UnknownIsClosed, NoProbesOutside, Next, vars, Fetch, Ask, Allow,
         Send, GiveUp, Answer, AnswerSuccess, AnswerFailure, AnswerUnrecorded,
         RecordSuccess, RecordFailure, Elapse, Reset, HostChanges, Entry, host, period,
         StartProbing, TakeSlot, SuccessWhileHalfOpen, Succeed, NoProbes, Unrecorded

LEMMA CountersKept == Counters /\ GoesOn /\ [Next]_vars => Counters' /\ GoesOn'
  BY DEF Counters, GoesOn, Next, vars, Fetch, Ask, Allow, Send, GiveUp, Answer,
         AnswerSuccess, AnswerFailure, AnswerUnrecorded, RecordSuccess, RecordFailure,
         Elapse, Reset, HostChanges, Entry, host, StartProbing, TakeSlot,
         SuccessWhileHalfOpen, Succeed, OneMore, NoProbes, Unrecorded, period

\* A fetch that has been answered is no probe: outside a half-open period there
\* are none, and inside one the answer takes it away.
LEMMA FetchesKept ==
  Fetches /\ UnknownIsClosed /\ NoProbesOutside /\ [Next]_vars => Fetches'
  <1> SUFFICES ASSUME Fetches, UnknownIsClosed, NoProbesOutside, [Next]_vars
               PROVE  Fetches'
    OBVIOUS
  <1>0. leaked' \in Nat
    <2>1. leaked' = 0 \/ leaked' = leaked \/ \E r \in Request : Unrecorded(r)
      BY DEF Next, vars, Fetch, Ask, Allow, Send, GiveUp, Answer, AnswerSuccess,
             AnswerFailure, AnswerUnrecorded, RecordSuccess, RecordFailure, Elapse,
             Reset, HostChanges, period, StartProbing, TakeSlot, SuccessWhileHalfOpen,
             Succeed, NoProbes
    <2>2. ASSUME NEW r \in Request, Unrecorded(r)
          PROVE  leaked' \in Nat
      BY <2>2 DEF Unrecorded, Fetches
    <2> QED BY <2>1, <2>2 DEF Fetches
  <1>1. ASSUME NEW r \in Request, Ask(r)
        PROVE  Fetches'
    <2>1. probes' \subseteq probes \cup {r}
      BY <1>1 DEF Ask, Allow, StartProbing, TakeSlot, period
    <2>2. pc' = [pc EXCEPT ![r] = "waiting"]
      BY <1>1 DEF Ask, Goto
    <2> QED BY <1>0, <2>1, <2>2 DEF Fetches
  <1>2. ASSUME NEW r \in Request, Send(r)
        PROVE  Fetches'
    BY <1>0, <1>2 DEF Fetches, Send, Goto, period
  <1>3. ASSUME NEW r \in Request, Answer(r)
        PROVE  Fetches'
    <2>1. probes' \subseteq probes \ {r}
      BY <1>3 DEF Answer, AnswerSuccess, AnswerFailure, AnswerUnrecorded,
                  RecordSuccess, RecordFailure, SuccessWhileHalfOpen, Succeed,
                  UnknownIsClosed, NoProbesOutside, NoProbes, Unrecorded, period
    <2>2. pc' = [pc EXCEPT ![r] = "idle"]
      BY <1>3 DEF Answer, AnswerSuccess, AnswerFailure, AnswerUnrecorded, Goto
    <2> QED BY <1>0, <2>1, <2>2 DEF Fetches
  <1>4. ASSUME NEW r \in Request, GiveUp(r)
        PROVE  Fetches'
    BY <1>0, <1>4 DEF Fetches, GiveUp, Goto, Unrecorded
  <1>5. CASE UNCHANGED pc /\ probes' \subseteq probes
    BY <1>0, <1>5 DEF Fetches
  <1> QED BY <1>1, <1>2, <1>3, <1>4, <1>5
          DEF Next, Fetch, Elapse, Reset, HostChanges, vars, period, NoProbes

\* A fetch that ends without a record moves from the probes to the leaks.
LEMMA UnrecordedMoves ==
  ASSUME Fetches, NEW r \in Request, Unrecorded(r)
  PROVE  /\ leaked' \in Nat /\ Cardinality(probes') \in Nat
         /\ leaked' + Cardinality(probes') = leaked + Cardinality(probes)
  <1>1. /\ Cardinality(probes) \in Nat /\ Cardinality(probes \ {r}) \in Nat
        /\ r \in probes => Cardinality(probes \ {r}) = Cardinality(probes) - 1
        /\ r \notin probes => Cardinality(probes \ {r}) = Cardinality(probes)
    BY ProbesCount
  <1>2. leaked \in Nat /\ probes' = probes \ {r}
    BY DEF Unrecorded, Fetches
  <1>3. CASE r \in probes
    <2>1. leaked' = leaked + 1
      BY <1>3 DEF Unrecorded
    <2> QED BY <1>1, <1>2, <1>3, <2>1
  <1>4. CASE r \notin probes
    <2>1. leaked' = leaked
      BY <1>2, <1>4 DEF Unrecorded
    <2> QED BY <1>1, <1>2, <1>4, <2>1
  <1> QED BY <1>3, <1>4

\* A period never has more probes and leaks than slots taken: Allow adds one of
\* each, the rest of a period turns probes into leaks or takes them away.
LEMMA LimitedKept ==
  ASSUME Inv, [Next]_vars
  PROVE  Limited'
  <1> USE DEF Limited
  <1>a. Fetches /\ Counters /\ Limited
    BY DEF Inv
  <1>0. leaked \in Nat
    BY <1>a DEF Fetches
  <1>1. ASSUME NEW r \in Request, Ask(r)
        PROVE  Limited'
    <2>1. CASE state' # "halfOpen"
      BY <2>1
    <2>2. CASE state = "open" /\ StartProbing(r)
      <3>1. halfOpenRequests' = 1 /\ probes' = {r} /\ leaked' = 0
        BY <2>2 DEF StartProbing, Entry
      <3>2. Cardinality({r}) = 1
        BY FS_Singleton
      <3> QED BY <3>1, <3>2
    <2>3. CASE state = "halfOpen" /\ TakeSlot(r)
      <3>1. /\ Cardinality(probes) \in Nat /\ Cardinality(probes \cup {r}) \in Nat
            /\ Cardinality(probes \cup {r}) <= Cardinality(probes) + 1
        BY <1>a, ProbesCount
      <3>2. leaked + Cardinality(probes) <= halfOpenRequests /\ halfOpenRequests \in Nat
        BY <1>a, <2>3 DEF Counters
      <3>3. leaked + Cardinality(probes \cup {r}) <= halfOpenRequests + 1
        BY <1>0, <3>1, <3>2
      <3>4. /\ probes' = probes \cup {r} /\ leaked' = leaked
            /\ halfOpenRequests' = halfOpenRequests + 1
        BY <2>3 DEF TakeSlot, Entry
      <3> QED BY <3>3, <3>4
    <2>4. CASE UNCHANGED <<host, period>>
      BY <1>a, <2>4 DEF host, period
    <2> QED BY <1>1, <2>1, <2>2, <2>3, <2>4 DEF Ask, Allow, Entry
  <1>2. ASSUME NEW r \in Request, Unrecorded(r), UNCHANGED host
        PROVE  Limited'
    <2>1. leaked' + Cardinality(probes') = leaked + Cardinality(probes)
      BY <1>a, <1>2, UnrecordedMoves
    <2> QED BY <1>a, <1>2, <2>1 DEF host
  <1>3. ASSUME NEW r \in Request, Answer(r)
        PROVE  Limited'
    <2>1. CASE state' # "halfOpen"
      BY <2>1
    <2>2. CASE state = "halfOpen" /\ halfOpenRequests' = halfOpenRequests
               /\ probes' = probes \ {r} /\ leaked' = leaked
      <3>1. /\ Cardinality(probes) \in Nat /\ Cardinality(probes \ {r}) \in Nat
            /\ Cardinality(probes \ {r}) <= Cardinality(probes)
        BY <1>a, ProbesCount
      <3>2. leaked + Cardinality(probes) <= halfOpenRequests /\ halfOpenRequests \in Nat
        BY <1>a, <2>2 DEF Counters
      <3> QED BY <1>0, <2>2, <3>1, <3>2
    <2>3. CASE halfOpenRequests' = 0 /\ probes' = {} /\ leaked' = 0
      BY <2>3, FS_EmptySet
    <2>4. CASE Unrecorded(r) /\ UNCHANGED host
      BY <1>2, <2>4
    <2> QED BY <1>3, <2>1, <2>2, <2>3, <2>4
            DEF Answer, AnswerSuccess, AnswerFailure, AnswerUnrecorded, RecordSuccess,
                RecordFailure, SuccessWhileHalfOpen, Succeed, Entry, host
  <1>4. ASSUME UNCHANGED <<host, period>>
        PROVE  Limited'
    BY <1>a, <1>4 DEF host, period
  <1>5. CASE Reset
    BY <1>5 DEF Reset, Entry
  <1> QED BY <1>1, <1>2, <1>3, <1>4, <1>5
          DEF Next, Fetch, Send, GiveUp, Elapse, HostChanges, vars

LEMMA InvInductive == Inv /\ [Next]_vars => Inv'
  BY BooleansKept, CountersKept, FetchesKept, UnknownIsClosedKept, NoProbesOutsideKept,
     LimitedKept DEF Inv

LEMMA InvBegins == Init => Inv
  <1>1. Init => Booleans
    BY DEF Init, Booleans
  <1>2. Init => Counters /\ Fetches
    BY DEF Init, Counters, Fetches
  <1>3. Init => UnknownIsClosed /\ NoProbesOutside /\ GoesOn /\ Limited
    BY DEF Init, UnknownIsClosed, NoProbesOutside, GoesOn, Limited
  <1> QED BY <1>1, <1>2, <1>3 DEF Inv

LEMMA InvHolds == Spec => []Inv
  BY InvBegins, InvInductive, PTL DEF Spec

\* The variables keep their types, for all thresholds (circuit_breaker.go).
THEOREM TypeCorrect == Spec => []TypeOK
  BY InvHolds, InvIsTypeAndPeriods, PTL

\* However fetches, answers, resets and the passing of time interleave, and
\* whatever the thresholds, no half-open period has more fetches under way than
\* HalfOpenMaxRequests (Allow, RecordSuccess and RecordFailure).
THEOREM ProbeLimitHolds == Spec => []ProbeLimit
  <1>1. Inv => ProbeLimit
    <2> SUFFICES ASSUME Inv
                 PROVE  Cardinality(probes) <= HalfOpenMaxRequests
      BY DEF ProbeLimit
    <2>1. Cardinality(probes) \in Nat
      <3>1. probes \in SUBSET Request
        BY DEF Inv, Fetches
      <3> QED BY <3>1, FS_Subset, FS_CardinalityType
    <2>2. CASE state = "halfOpen"
      <3>1. leaked + Cardinality(probes) <= halfOpenRequests
        BY <2>2 DEF Inv, Limited
      <3>2. /\ halfOpenRequests \in Nat /\ halfOpenRequests <= HalfOpenMaxRequests
            /\ leaked \in Nat
        BY DEF Inv, Counters, Fetches
      <3> QED BY <2>1, <3>1, <3>2
    <2>3. CASE state # "halfOpen"
      BY <2>3, FS_EmptySet DEF Inv, NoProbesOutside
    <2> QED BY <2>2, <2>3
  <1> QED BY <1>1, InvHolds, PTL

-----------------------------------------------------------------------------
(* The end of every half-open period *)

LEMMA SlotsAccountedKept ==
  ASSUME Inv, SlotsAccounted, [Next]_vars
  PROVE  SlotsAccounted'
  <1> USE DEF SlotsAccounted
  <1>a. Fetches /\ Counters
    BY DEF Inv
  <1>0. leaked \in Nat
    BY <1>a DEF Fetches
  <1>1. ASSUME NEW r \in Request, Ask(r)
        PROVE  SlotsAccounted'
    <2>1. CASE state' # "halfOpen"
      BY <2>1
    <2>2. CASE state = "open" /\ StartProbing(r)
      <3>1. /\ halfOpenRequests' = 1 /\ successCount' = 0
            /\ probes' = {r} /\ leaked' = 0
        BY <2>2 DEF StartProbing, Entry
      <3>2. Cardinality({r}) = 1
        BY FS_Singleton
      <3> QED BY <3>1, <3>2
    <2>3. CASE state = "halfOpen" /\ TakeSlot(r)
      <3>1. r \notin probes
        BY <1>a, <1>1 DEF Ask, Fetches
      <3>2. /\ Cardinality(probes) \in Nat
            /\ Cardinality(probes \cup {r}) = Cardinality(probes) + 1
        BY <1>a, <3>1, ProbesCount
      <3>3. /\ halfOpenRequests <= successCount + leaked + Cardinality(probes)
            /\ halfOpenRequests \in Nat /\ successCount \in Nat
        BY <1>a, <2>3 DEF Counters
      <3>4. /\ probes' = probes \cup {r} /\ halfOpenRequests' = halfOpenRequests + 1
            /\ successCount' = successCount /\ leaked' = leaked
        BY <2>3 DEF TakeSlot, Entry
      <3>5. halfOpenRequests + 1 <= successCount + leaked + (Cardinality(probes) + 1)
        BY <1>0, <3>2, <3>3
      <3> QED BY <3>2, <3>4, <3>5
    <2>4. CASE UNCHANGED <<host, period>>
      BY <2>4 DEF host, period
    <2> QED BY <1>1, <2>1, <2>2, <2>3, <2>4 DEF Ask, Allow, Entry
  <1>2. ASSUME NEW r \in Request, Unrecorded(r), UNCHANGED host
        PROVE  SlotsAccounted'
    <2>1. /\ leaked' + Cardinality(probes') = leaked + Cardinality(probes)
          /\ leaked' \in Nat /\ Cardinality(probes') \in Nat
      BY <1>a, <1>2, UnrecordedMoves
    <2>2. successCount \in Nat /\ halfOpenRequests \in Nat
      BY <1>a DEF Counters
    <2>4. Cardinality(probes) \in Nat
      BY <1>a, ProbesCount
    <2>3. /\ state' = state /\ successCount' = successCount
          /\ halfOpenRequests' = halfOpenRequests
      BY <1>2 DEF host
    <2> QED BY <1>0, <2>1, <2>2, <2>3, <2>4
  <1>3. ASSUME NEW r \in Request, Answer(r)
        PROVE  SlotsAccounted'
    <2>1. CASE state' # "halfOpen"
      BY <2>1
    <2>2. CASE /\ state = "halfOpen" /\ halfOpenRequests' = halfOpenRequests
               /\ successCount' = successCount + 1 /\ probes' = probes \ {r}
               /\ leaked' = leaked
      <3>1. /\ Cardinality(probes) \in Nat /\ Cardinality(probes \ {r}) \in Nat
            /\ Cardinality(probes \ {r}) >= Cardinality(probes) - 1
        BY <1>a, ProbesCount
      <3>2. /\ halfOpenRequests <= successCount + leaked + Cardinality(probes)
            /\ halfOpenRequests \in Nat /\ successCount \in Nat
        BY <1>a, <2>2 DEF Counters
      <3>3. halfOpenRequests <= (successCount + 1) + leaked + Cardinality(probes \ {r})
        BY <1>0, <3>1, <3>2
      <3> QED BY <2>2, <3>3
    <2>3. CASE halfOpenRequests' = 0 /\ successCount' = 1 /\ probes' = {} /\ leaked' = 0
      BY <2>3, FS_EmptySet
    <2>4. CASE Unrecorded(r) /\ UNCHANGED host
      BY <1>2, <2>4
    <2> QED BY <1>3, <2>1, <2>2, <2>3, <2>4
            DEF Answer, AnswerSuccess, AnswerFailure, AnswerUnrecorded, RecordSuccess,
                RecordFailure, SuccessWhileHalfOpen, Succeed, Entry, host
  <1>4. ASSUME UNCHANGED <<host, period>>
        PROVE  SlotsAccounted'
    BY <1>4 DEF host, period
  <1>5. CASE Reset
    BY <1>5 DEF Reset, Entry
  <1> QED BY <1>1, <1>2, <1>3, <1>4, <1>5
          DEF Next, Fetch, Send, GiveUp, Elapse, HostChanges, vars

\* The slots of a half-open period are fetches under way, counted successes and
\* leaks, whatever answers come late (Allow, RecordSuccess and RecordFailure).
THEOREM SlotsAccountedHolds == Spec => []SlotsAccounted
  <1>1. Init => SlotsAccounted
    BY DEF Init, SlotsAccounted
  <1>2. Inv /\ SlotsAccounted /\ [Next]_vars => SlotsAccounted'
    BY SlotsAccountedKept
  <1> QED BY <1>1, <1>2, InvHolds, PTL DEF Spec

\* If the half-open period has at least as many slots as successes it waits for,
\* a period that refuses everybody has a probe under way, or the result of one
\* was never recorded: nothing else uses slots up (Allow, RecordSuccess).
THEOREM LockoutNeedsLeakHolds ==
  ASSUME SuccessThreshold <= HalfOpenMaxRequests
  PROVE  Spec => []LockoutNeedsLeak
  <1>1. Inv /\ SlotsAccounted => LockoutNeedsLeak
    <2> SUFFICES ASSUME Inv, SlotsAccounted, state = "halfOpen",
                        halfOpenRequests >= HalfOpenMaxRequests, probes = {},
                        ~(leaked > 0)
                 PROVE  FALSE
      BY DEF LockoutNeedsLeak, Refusing
    <2>1. leaked = 0
      BY DEF Inv, Fetches
    <2>2. halfOpenRequests <= successCount + 0 + 0
      BY <2>1, FS_EmptySet DEF SlotsAccounted
    <2>3. halfOpenRequests \in Nat /\ successCount \in Nat /\ successCount < SuccessThreshold
      BY DEF Inv, Counters, GoesOn
    <2> QED BY <2>2, <2>3
  <1> QED BY <1>1, SlotsAccountedHolds, InvHolds, PTL
=============================================================================
