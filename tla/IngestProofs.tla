---------------------------- MODULE IngestProofs ----------------------------
(***************************************************************************)
(* Ingest's safety, for any sources, any order, any penalties and any      *)
(* concurrency.                                                            *)
(*                                                                         *)
(* The properties of steps (when a source is asked, what a skip is for)    *)
(* rest on Inv, which ties the registry to the history: between two polls  *)
(* of a source, what it has sat out and what it has left to sit out add up *)
(* to its penalty (Owed), what is left of a wait is what is left of the    *)
(* wait it asked for (WaitAsked), and a source that did not fail owes      *)
(* nothing (HealthyOwesNothing).                                           *)
(*                                                                         *)
(* The penalties themselves are powers of two; how they grow is proved by  *)
(* counting subsets, and is what lets the model stop counting failures at  *)
(* MaxStreak.  UndatedFallsBack does not hold: what a rate limit without a *)
(* number of seconds really costs is proved at the end.                    *)
(***************************************************************************)
EXTENDS Ingest, SumProofs

\* Only a poll that is publishing has events, requests and outcomes.
PollLocal ==
  pc # "publishing" => fetched = 0 /\ queued = 0 /\ inflight = 0 /\ tally = NoTally

\* The registry counts the failures there were.
FailuresCounted == failures = streak

WaitAsked == wait = asked

HealthyOwesNothing ==
  \A s \in Sources : last[s] \in {"none", "success"} => skips[s] = 0 /\ wait[s] = 0

\* What a failed poll costs: some of it served, the rest to come.
Owed ==
  \A s \in Sources : last[s] = "failed" =>
    /\ streak[s] >= 1 /\ wait[s] = 0
    /\ quiet[s] + skips[s] = Penalty(streak[s])

RegistryTyped ==
  /\ failures \in [Sources -> 0..MaxStreak]
  /\ skips \in [Sources -> 0..MaxSkip]
  /\ wait \in [Sources -> 0..MaxDelay]
  /\ last \in [Sources -> Endings]
  /\ streak \in [Sources -> 0..MaxStreak]
  /\ quiet \in [Sources -> 0..(MaxSkip + 1)]
  /\ asked \in [Sources -> 0..MaxDelay]

RegistrySound ==
  RegistryTyped /\ FailuresCounted /\ WaitAsked /\ HealthyOwesNothing /\ Owed

Inv == TypeOK /\ TallyExact /\ PollLocal /\ RegistrySound

-----------------------------------------------------------------------------
(* Facts about the helpers *)

LEMMA PowerTyped == \A n \in Nat : 2^n \in Nat
<1> SUFFICES ASSUME NEW n \in Nat PROVE 2^n \in Nat
  OBVIOUS
<1>1. IsFiniteSet(1..n) /\ Cardinality(1..n) = n
  BY FS_Interval
<1>2. IsFiniteSet(SUBSET (1..n)) /\ Cardinality(SUBSET (1..n)) = 2^n
  BY <1>1, FS_SUBSET
<1> QED BY <1>2, FS_CardinalityType

\* A penalty is at most the cap.
LEMMA PenaltyTyped == \A k \in 1..MaxStreak : Penalty(k) \in 0..MaxSkip
<1> SUFFICES ASSUME NEW k \in 1..MaxStreak PROVE Penalty(k) \in 0..MaxSkip
  OBVIOUS
<1> DEFINE power == 2^(k - 1)
           p == FirstSkip * power
<1>1. power \in Nat
  <2>1. k - 1 \in Nat
    BY IngestConstants
  <2> QED BY <2>1, PowerTyped
<1>2. p \in Nat
  <2> HIDE DEF power
  <2> QED BY <1>1, IngestConstants
<1> HIDE DEF p
<1>3. Penalty(k) = IF p < MaxSkip THEN p ELSE MaxSkip
  BY DEF Penalty, p
<1> QED BY <1>2, <1>3, IngestConstants

LEMMA UptoTyped ==
  \A bound \in Nat : \A n \in 0..bound :
    /\ Upto(n + 1, bound) \in 0..bound
    /\ bound > 0 => Upto(n + 1, bound) \in 1..bound
    /\ n < bound => Upto(n + 1, bound) = n + 1
BY DEF Upto

-----------------------------------------------------------------------------
(* The ends of a poll *)

\* A failure that the upstream gave no wait for.
LEMMA FailureKeeps ==
  ASSUME RegistrySound, NEW s \in Sources, RecordFailure(s), Ended(s, "failed", 0)
  PROVE  RegistrySound'
<1>0. RegistryTyped /\ FailuresCounted /\ WaitAsked /\ HealthyOwesNothing /\ Owed
  BY DEF RegistrySound
<1> DEFINE k == Upto(failures[s] + 1, MaxStreak)
<1>1. k \in 1..MaxStreak /\ Penalty(k) \in 0..MaxSkip
  BY <1>0, UptoTyped, PenaltyTyped, IngestConstants DEF RegistryTyped
<1>2. k = Upto(streak[s] + 1, MaxStreak)
  BY <1>0 DEF FailuresCounted
<1> HIDE DEF k
<1>3. /\ failures' = [failures EXCEPT ![s] = k]
      /\ skips' = [skips EXCEPT ![s] = Penalty(k)]
      /\ wait' = [wait EXCEPT ![s] = 0]
  BY DEF RecordFailure, k
<1>4. /\ last' = [last EXCEPT ![s] = "failed"]
      /\ streak' = [streak EXCEPT ![s] = k]
      /\ quiet' = [quiet EXCEPT ![s] = 0]
      /\ asked' = [asked EXCEPT ![s] = 0]
  BY <1>2 DEF Ended
<1> HIDE DEF Penalty
<1>5. RegistryTyped'
  BY <1>0, <1>1, <1>3, <1>4, IngestConstants DEF RegistryTyped, Endings
<1>6. FailuresCounted' /\ WaitAsked'
  BY <1>0, <1>3, <1>4 DEF FailuresCounted, WaitAsked
<1>7. HealthyOwesNothing'
  BY <1>0, <1>3, <1>4 DEF RegistryTyped, HealthyOwesNothing
<1>8. Owed'
  BY <1>0, <1>1, <1>3, <1>4 DEF RegistryTyped, Owed
<1> QED BY <1>5, <1>6, <1>7, <1>8 DEF RegistrySound

\* A poll that worked.
LEMMA SuccessKeeps ==
  ASSUME RegistrySound, NEW s \in Sources, RecordSuccess(s), Ended(s, "success", 0)
  PROVE  RegistrySound'
<1>0. RegistryTyped /\ FailuresCounted /\ WaitAsked /\ HealthyOwesNothing /\ Owed
  BY DEF RegistrySound
<1>1. /\ failures' = [failures EXCEPT ![s] = 0]
      /\ skips' = [skips EXCEPT ![s] = 0]
      /\ wait' = [wait EXCEPT ![s] = 0]
      /\ last' = [last EXCEPT ![s] = "success"]
      /\ streak' = [streak EXCEPT ![s] = 0]
      /\ quiet' = [quiet EXCEPT ![s] = 0]
      /\ asked' = [asked EXCEPT ![s] = 0]
  BY DEF RecordSuccess, Ended
<1>2. RegistryTyped'
  BY <1>0, <1>1, IngestConstants DEF RegistryTyped, Endings
<1>3. FailuresCounted' /\ WaitAsked'
  BY <1>0, <1>1 DEF FailuresCounted, WaitAsked
<1>4. HealthyOwesNothing'
  BY <1>0, <1>1 DEF RegistryTyped, HealthyOwesNothing
<1>5. Owed'
  BY <1>0, <1>1 DEF RegistryTyped, Owed
<1> QED BY <1>2, <1>3, <1>4, <1>5 DEF RegistrySound

\* A rate limit, with a wait or without.
LEMMA DelayKeeps ==
  ASSUME RegistrySound, NEW s \in Sources, NEW d \in 0..MaxDelay, NEW ending \in {"delayed", "undated"},
         RecordDelay(s, d), Ended(s, ending, d)
  PROVE  RegistrySound'
<1>0. RegistryTyped /\ FailuresCounted /\ WaitAsked /\ HealthyOwesNothing /\ Owed
  BY DEF RegistrySound
<1> DEFINE k == Upto(failures[s] + 1, MaxStreak)
<1>1. k \in 0..MaxStreak
  BY <1>0, UptoTyped, IngestConstants DEF RegistryTyped
<1>2. k = Upto(streak[s] + 1, MaxStreak)
  BY <1>0 DEF FailuresCounted
<1> HIDE DEF k
<1>3. /\ failures' = [failures EXCEPT ![s] = k]
      /\ skips' = [skips EXCEPT ![s] = 0]
      /\ wait' = [wait EXCEPT ![s] = d]
  BY DEF RecordDelay, k
<1>4. /\ last' = [last EXCEPT ![s] = ending]
      /\ streak' = [streak EXCEPT ![s] = k]
      /\ quiet' = [quiet EXCEPT ![s] = 0]
      /\ asked' = [asked EXCEPT ![s] = d]
  BY <1>2 DEF Ended
<1>5. RegistryTyped'
  BY <1>0, <1>1, <1>3, <1>4, IngestConstants DEF RegistryTyped, Endings
<1>6. FailuresCounted' /\ WaitAsked'
  BY <1>0, <1>3, <1>4 DEF FailuresCounted, WaitAsked
<1>7. HealthyOwesNothing'
  BY <1>0, <1>3, <1>4 DEF RegistryTyped, HealthyOwesNothing
<1>8. Owed'
  BY <1>0, <1>3, <1>4 DEF RegistryTyped, Owed
<1> QED BY <1>5, <1>6, <1>7, <1>8 DEF RegistrySound

-----------------------------------------------------------------------------
(* The invariant *)

\* What the loop, the poll under way and the registry keep apart.
LoopTyped ==
  /\ pc \in {"deciding", "fetching", "publishing", "pausing", "stopped"}
  /\ turn \in 1..(Len(Order) + 1)
  /\ pc \in {"deciding", "fetching", "publishing"} => turn <= Len(Order)
  /\ shutdown \in BOOLEAN

PollTyped ==
  /\ fetched \in 0..MaxFeed
  /\ queued \in 0..MaxFeed
  /\ inflight \in 0..Concurrency
  /\ tally \in [Outcomes -> 0..MaxFeed]

LEMMA TypeParts == TypeOK <=> LoopTyped /\ PollTyped /\ RegistryTyped
BY DEF TypeOK, LoopTyped, PollTyped, RegistryTyped

LEMMA InvInit == Init => Inv
<1> SUFFICES ASSUME Init PROVE Inv
  OBVIOUS
<1>1. LoopTyped
  <2>1. Len(Order) \in Nat
    BY IngestConstants
  <2>2. pc = "pausing" /\ turn = Len(Order) + 1 /\ shutdown = FALSE
    BY DEF Init
  <2>3. turn \in 1..(Len(Order) + 1)
    <3> DEFINE n == Len(Order)
    <3> SUFFICES n + 1 \in 1..(n + 1)
      BY <2>2
    <3> HIDE DEF n
    <3> QED BY <2>1 DEF n
  <2> QED BY <2>2, <2>3 DEF LoopTyped
<1>2. PollTyped /\ PollLocal
  BY IngestConstants DEF Init, PollTyped, PollLocal, NoTally
<1>3. TallyExact
  BY DEF Init, TallyExact
<1>4. RegistryTyped
  BY IngestConstants DEF Init, RegistryTyped, Endings
<1>5. FailuresCounted /\ WaitAsked /\ HealthyOwesNothing /\ Owed
  BY DEF Init, FailuresCounted, WaitAsked, HealthyOwesNothing, Owed
<1> QED BY <1>1, <1>2, <1>3, <1>4, <1>5, TypeParts DEF Inv, RegistrySound

\* Steps that leave the registry alone.
LEMMA RegistryUntouched ==
  ASSUME RegistrySound, UNCHANGED <<backoffVars, historyVars>>
  PROVE  RegistrySound'
BY DEF RegistrySound, RegistryTyped, FailuresCounted, WaitAsked, HealthyOwesNothing, Owed,
       backoffVars, historyVars

\* Time takes as much from the wait as from what was asked for.
LEMMA TickKeeps ==
  ASSUME RegistrySound, Tick
  PROVE  RegistrySound'
<1>1. /\ RegistryTyped /\ FailuresCounted /\ WaitAsked /\ HealthyOwesNothing /\ Owed
      /\ UNCHANGED <<failures, skips, last, streak, quiet>>
  BY DEF RegistrySound, Tick
<1>2. /\ wait' = [s \in Sources |-> IF wait[s] > 0 THEN wait[s] - 1 ELSE 0]
      /\ asked' = [s \in Sources |-> IF asked[s] > 0 THEN asked[s] - 1 ELSE 0]
  BY DEF Tick
<1>3. wait' \in [Sources -> 0..MaxDelay] /\ asked' \in [Sources -> 0..MaxDelay]
  <2>1. \A s \in Sources : wait[s] \in 0..MaxDelay /\ asked[s] \in 0..MaxDelay
    BY <1>1 DEF RegistryTyped
  <2>2. \A s \in Sources : /\ (IF wait[s] > 0 THEN wait[s] - 1 ELSE 0) \in 0..MaxDelay
                           /\ (IF asked[s] > 0 THEN asked[s] - 1 ELSE 0) \in 0..MaxDelay
    BY <2>1, IngestConstants
  <2> QED BY <1>2, <2>2
<1>4. RegistryTyped'
  BY <1>1, <1>3 DEF RegistryTyped
<1>5. FailuresCounted' /\ WaitAsked'
  BY <1>1, <1>2 DEF FailuresCounted, WaitAsked
<1>6. HealthyOwesNothing'
  BY <1>1, <1>2 DEF HealthyOwesNothing
<1>7. Owed'
  BY <1>1, <1>2 DEF Owed
<1> QED BY <1>4, <1>5, <1>6, <1>7 DEF RegistrySound

\* One poll sat out is one less to sit out, unless a wait made the source sit it out.
LEMMA SkipKeeps ==
  ASSUME RegistrySound, Skip, Source \in Sources
  PROVE  RegistrySound'
<1>1. /\ RegistryTyped /\ FailuresCounted /\ WaitAsked /\ HealthyOwesNothing /\ Owed
      /\ UNCHANGED <<failures, wait, last, streak, asked>>
  BY DEF RegistrySound, Skip
<1> DEFINE s == Source
           n == Upto(quiet[s] + 1, MaxSkip + 1)
<1>2. quiet' = [quiet EXCEPT ![s] = n]
  BY DEF Skip
<1>3. /\ n \in 0..(MaxSkip + 1)
      /\ quiet[s] < MaxSkip + 1 => n = quiet[s] + 1
  <2>1. quiet[s] \in 0..(MaxSkip + 1) /\ MaxSkip + 1 \in Nat
    BY <1>1, IngestConstants DEF RegistryTyped
  <2> QED BY <2>1, UptoTyped
<1> HIDE DEF n
<1>4. \/ wait[s] > 0 /\ skips' = skips
      \/ wait[s] = 0 /\ skips[s] > 0 /\ skips' = [skips EXCEPT ![s] = @ - 1]
  BY DEF Skip
<1> HIDE DEF s
<1>5. s \in Sources
  BY DEF s
<1>6. RegistryTyped'
  <2>1. skips' \in [Sources -> 0..MaxSkip]
    <3>1. skips[s] \in 0..MaxSkip
      BY <1>1, <1>5 DEF RegistryTyped
    <3>2. skips[s] > 0 => skips[s] - 1 \in 0..MaxSkip
      BY <3>1, IngestConstants
    <3> QED BY <1>1, <1>4, <3>2 DEF RegistryTyped
  <2>2. quiet' \in [Sources -> 0..(MaxSkip + 1)]
    BY <1>1, <1>2, <1>3 DEF RegistryTyped
  <2> QED BY <1>1, <2>1, <2>2 DEF RegistryTyped
<1>7. FailuresCounted' /\ WaitAsked'
  BY <1>1 DEF FailuresCounted, WaitAsked
<1>8. HealthyOwesNothing'
  BY <1>1, <1>4, <1>5 DEF HealthyOwesNothing, RegistryTyped
<1>9. Owed'
  <2> SUFFICES ASSUME NEW x \in Sources, last[x] = "failed"
               PROVE  /\ streak[x] >= 1 /\ wait[x] = 0
                      /\ quiet'[x] + skips'[x] = Penalty(streak[x])
    BY <1>1 DEF Owed
  <2>1. /\ streak[x] >= 1 /\ wait[x] = 0
        /\ quiet[x] + skips[x] = Penalty(streak[x])
    BY <1>1 DEF Owed
  <2>2. CASE x # s
    BY <1>1, <1>2, <1>4, <1>5, <2>1, <2>2 DEF RegistryTyped
  <2>3. CASE x = s
    <3>1. Penalty(streak[s]) \in 0..MaxSkip
      BY <1>1, <1>5, <2>1, <2>3, PenaltyTyped DEF RegistryTyped
    <3>2. skips[s] > 0 /\ skips'[s] = skips[s] - 1
      BY <1>1, <1>4, <1>5, <2>1, <2>3 DEF RegistryTyped
    <3>3. quiet[s] < MaxSkip + 1
      <4>1. quiet[s] \in Nat /\ skips[s] \in Nat
        BY <1>1, <1>5, IngestConstants DEF RegistryTyped
      <4>2. quiet[s] + skips[s] = Penalty(streak[s])
        BY <2>1, <2>3
      <4> HIDE DEF Penalty
      <4> QED BY <3>1, <3>2, <4>1, <4>2, IngestConstants
    <3>4. quiet'[s] = quiet[s] + 1
      BY <1>1, <1>2, <1>3, <1>5, <3>3 DEF RegistryTyped
    <3> QED BY <1>1, <1>5, <2>1, <2>3, <3>2, <3>4 DEF RegistryTyped
  <2> QED BY <2>2, <2>3
<1> QED BY <1>6, <1>7, <1>8, <1>9 DEF RegistrySound

\* The steps of a poll.
LEMMA PollKeeps ==
  ASSUME LoopTyped, PollTyped, PollLocal, TallyExact,
         \/ \E n \in 0..MaxFeed : FetchSucceeds(n)
         \/ Post
         \/ \E o \in Outcomes : Answer(o)
  PROVE  LoopTyped' /\ PollTyped' /\ PollLocal' /\ TallyExact'
<1> USE IngestConstants
<1> DEFINE Sum == tally["accepted"] + tally["duplicate"] + tally["rejected"] + tally["failed"]
<1>t. /\ tally["accepted"] \in 0..MaxFeed /\ tally["duplicate"] \in 0..MaxFeed
      /\ tally["rejected"] \in 0..MaxFeed /\ tally["failed"] \in 0..MaxFeed
  BY DEF PollTyped, Outcomes
<1>1. CASE \E n \in 0..MaxFeed : FetchSucceeds(n)
  <2>1. PICK n \in 0..MaxFeed : FetchSucceeds(n)
    BY <1>1
  <2>2. /\ fetched' = n /\ queued' = n /\ inflight' = 0 /\ tally' = NoTally
        /\ pc' = "publishing" /\ pc = "fetching" /\ UNCHANGED <<turn, shutdown>>
    BY <2>1 DEF FetchSucceeds, PollLocal
  <2>3. LoopTyped' /\ PollLocal'
    BY <2>2 DEF LoopTyped, PollLocal
  <2>4. PollTyped'
    BY <2>2 DEF PollTyped, NoTally
  <2>5. TallyExact'
    BY <2>2 DEF TallyExact, NoTally, Outcomes
  <2> QED BY <2>3, <2>4, <2>5
<1>2. CASE Post
  <2>1. /\ pc = "publishing" /\ queued > 0 /\ inflight < Concurrency
        /\ queued' = queued - 1 /\ inflight' = inflight + 1
        /\ UNCHANGED <<pc, turn, shutdown, fetched, tally>>
    BY <1>2 DEF Post, loopVars
  <2>2. LoopTyped' /\ PollTyped' /\ PollLocal'
    BY <2>1 DEF LoopTyped, PollTyped, PollLocal
  <2>3. TallyExact'
    BY <1>t, <2>1 DEF TallyExact, PollTyped
  <2> QED BY <2>2, <2>3
<1>3. CASE \E o \in Outcomes : Answer(o)
  <2>1. PICK o \in Outcomes : Answer(o)
    BY <1>3
  <2>2. /\ pc = "publishing" /\ inflight > 0 /\ inflight' = inflight - 1
        /\ tally' = [tally EXCEPT ![o] = @ + 1]
        /\ UNCHANGED <<pc, turn, shutdown, fetched, queued>>
    BY <2>1 DEF Answer, loopVars
  <2>3. LoopTyped' /\ PollLocal'
    BY <2>2 DEF LoopTyped, PollLocal
  <2>4. fetched = queued + inflight + Sum
    <3> DEFINE a == tally["accepted"]  d == tally["duplicate"]
               r == tally["rejected"]  f == tally["failed"]
    <3>1. a \in Int /\ d \in Int /\ r \in Int /\ f \in Int /\ queued \in Int /\ inflight \in Int
      BY <1>t DEF PollTyped, Outcomes
    <3>2. fetched = queued + inflight + a + d + r + f
      BY <2>2 DEF TallyExact
    <3>3. Sum = a + d + r + f
      OBVIOUS
    <3> HIDE DEF Sum, a, d, r, f
    <3> QED BY <3>1, <3>2, <3>3
  <2>5. tally[o] + 1 \in 0..MaxFeed
    BY <1>t, <2>2, <2>4 DEF PollTyped, Outcomes
  <2>6. PollTyped'
    BY <2>2, <2>5 DEF PollTyped
  <2>7. tally'["accepted"] + tally'["duplicate"] + tally'["rejected"] + tally'["failed"] = Sum + 1
    BY <1>t, <2>2 DEF PollTyped, Outcomes
  <2>8. TallyExact'
    <3> DEFINE a == tally'["accepted"]  d == tally'["duplicate"]
               r == tally'["rejected"]  f == tally'["failed"]
               q == queued'  n == inflight'
    <3>1. Sum \in Int /\ queued \in Int /\ inflight \in Int
      BY <1>t DEF PollTyped
    <3>2. a \in Int /\ d \in Int /\ r \in Int /\ f \in Int
      BY <2>6 DEF PollTyped, Outcomes
    <3>3. a + d + r + f = Sum + 1
      BY <2>7
    <3>4. fetched' = queued + inflight + Sum /\ q = queued /\ n = inflight - 1
      BY <2>2, <2>4
    <3>5. fetched' = q + n + a + d + r + f
      <4> HIDE DEF Sum, a, d, r, f, q, n
      <4> QED BY <3>1, <3>2, <3>3, <3>4
    <3> QED BY <3>5 DEF TallyExact
  <2> QED BY <2>3, <2>6, <2>8
<1> QED BY <1>1, <1>2, <1>3

\* The ends of a poll leave nothing of it.
LEMMA PollEnds ==
  ASSUME LoopTyped, PollTyped, PollLocal, turn <= Len(Order), Advance, shutdown' = shutdown,
         \/ UNCHANGED pollVars /\ pc # "publishing"
         \/ fetched' = 0 /\ queued' = 0 /\ inflight' = 0 /\ tally' = NoTally
  PROVE  LoopTyped' /\ PollTyped' /\ PollLocal' /\ TallyExact'
<1> USE IngestConstants
<1>1. /\ turn' = turn + 1
      /\ pc' = IF turn < Len(Order) THEN "deciding" ELSE "pausing"
  BY DEF Advance
<1>2. fetched' = 0 /\ queued' = 0 /\ inflight' = 0 /\ tally' = NoTally
  BY DEF PollLocal, pollVars
<1>3. LoopTyped'
  BY <1>1 DEF LoopTyped
<1>4. PollTyped' /\ PollLocal'
  BY <1>2 DEF PollTyped, PollLocal, NoTally
<1>5. TallyExact'
  BY <1>1 DEF TallyExact
<1> QED BY <1>3, <1>4, <1>5

LEMMA InvStep == Inv /\ [Next]_vars => Inv'
<1> SUFFICES ASSUME Inv, [Next]_vars PROVE Inv'
  OBVIOUS
<1>0. LoopTyped /\ PollTyped /\ PollLocal /\ TallyExact /\ RegistrySound
  BY TypeParts DEF Inv
<1>s. ASSUME pc \in {"deciding", "fetching", "publishing"}
      PROVE  Source \in Sources /\ turn <= Len(Order)
  BY <1>0, <1>s, IngestConstants DEF LoopTyped, Source
<1> SUFFICES LoopTyped' /\ PollTyped' /\ PollLocal' /\ TallyExact' /\ RegistrySound'
  BY DEF Inv, RegistrySound, TypeOK, LoopTyped, PollTyped, RegistryTyped
<1>1. CASE Skip
  <2>1. pc = "deciding" /\ Advance /\ shutdown' = shutdown /\ UNCHANGED pollVars
    BY <1>1 DEF Skip
  <2> QED BY <1>0, <1>1, <1>s, <2>1, PollEnds, SkipKeeps
<1>2. CASE FetchFails
  <2>1. /\ pc = "fetching" /\ Advance /\ shutdown' = shutdown /\ UNCHANGED pollVars
        /\ RecordFailure(Source) /\ Ended(Source, "failed", 0)
    BY <1>2 DEF FetchFails
  <2> QED BY <1>0, <1>s, <2>1, PollEnds, FailureKeeps
<1>3. CASE \E d \in 0..MaxDelay : FetchDelayed(d)
  <2>1. PICK d \in 0..MaxDelay : FetchDelayed(d)
    BY <1>3
  <2>2. /\ pc = "fetching" /\ Advance /\ shutdown' = shutdown /\ UNCHANGED pollVars
        /\ RecordDelay(Source, d) /\ Ended(Source, "delayed", d)
    BY <2>1 DEF FetchDelayed
  <2> QED BY <1>0, <1>s, <2>2, PollEnds, DelayKeeps
<1>4. CASE FetchUndated
  <2>1. /\ pc = "fetching" /\ Advance /\ shutdown' = shutdown /\ UNCHANGED pollVars
        /\ RecordDelay(Source, 0) /\ Ended(Source, "undated", 0)
    BY <1>4 DEF FetchUndated
  <2>2. 0 \in 0..MaxDelay
    BY IngestConstants
  <2> QED BY <1>0, <1>s, <2>1, <2>2, PollEnds, DelayKeeps
<1>5. CASE EndPoll
  <2>1. /\ pc = "publishing" /\ Advance /\ shutdown' = shutdown
        /\ fetched' = 0 /\ queued' = 0 /\ inflight' = 0 /\ tally' = NoTally
        /\ \/ RecordSuccess(Source) /\ Ended(Source, "success", 0)
           \/ RecordFailure(Source) /\ Ended(Source, "failed", 0)
    BY <1>5 DEF EndPoll
  <2> QED BY <1>0, <1>s, <2>1, PollEnds, SuccessKeeps, FailureKeeps
<1>6. CASE \/ \E n \in 0..MaxFeed : FetchSucceeds(n)
           \/ Post
           \/ \E o \in Outcomes : Answer(o)
  <2>1. UNCHANGED <<backoffVars, historyVars>>
    BY <1>6 DEF FetchSucceeds, Post, Answer
  <2> QED BY <1>0, <1>6, <2>1, PollKeeps, RegistryUntouched
<1>7. CASE Fetch \/ NextRound \/ Stop \/ Signal \/ UNCHANGED vars
  <2>1. UNCHANGED <<pollVars, backoffVars, historyVars>>
    BY <1>7 DEF Fetch, NextRound, Stop, Signal, vars
  <2>2. RegistrySound'
    BY <1>0, <2>1, RegistryUntouched
  <2>3. pc' = "publishing" <=> pc = "publishing"
    BY <1>7 DEF Fetch, NextRound, Stop, Signal, vars, loopVars
  <2>4. LoopTyped'
    <3>1. Len(Order) \in Nat /\ (Order # <<>> => Len(Order) >= 1)
      BY IngestConstants
    <3>2. CASE Fetch
      BY <1>0, <3>1, <3>2 DEF LoopTyped, Fetch
    <3>3. CASE NextRound
      BY <1>0, <3>1, <3>3 DEF LoopTyped, NextRound
    <3>4. CASE Stop \/ Signal
      BY <1>0, <3>1, <3>4 DEF LoopTyped, Stop, Signal
    <3>5. CASE UNCHANGED vars
      BY <1>0, <3>5 DEF LoopTyped, vars, loopVars
    <3> QED BY <1>7, <3>2, <3>3, <3>4, <3>5
  <2>5. PollTyped' /\ PollLocal' /\ TallyExact'
    BY <1>0, <2>1, <2>3 DEF PollTyped, PollLocal, TallyExact, pollVars
  <2> QED BY <2>2, <2>4, <2>5
<1>8. CASE Tick
  <2>1. UNCHANGED <<loopVars, pollVars>>
    BY <1>8 DEF Tick
  <2>2. LoopTyped' /\ PollTyped' /\ PollLocal' /\ TallyExact'
    BY <1>0, <2>1 DEF LoopTyped, PollTyped, PollLocal, TallyExact, loopVars, pollVars
  <2> QED BY <1>0, <1>8, <2>2, TickKeeps
<1> QED BY <1>1, <1>2, <1>3, <1>4, <1>5, <1>6, <1>7, <1>8 DEF Next, Loop

LEMMA InvHolds == Spec => []Inv
<1> QED BY InvInit, InvStep, PTL DEF Spec

-----------------------------------------------------------------------------
(* Theorems *)

\* The types of the loop, the registry and the poll hold: no penalty or wait
\* exceeds its cap, no more requests are under way than the semaphore lets.
THEOREM IngestTypeCorrect == Spec => []TypeOK
<1>1. Inv => TypeOK
  BY DEF Inv
<1> QED BY <1>1, InvHolds, PTL

\* Every event that a poll fetched waits, is under way, or is in the tally once,
\* whatever its publish and the others' end in (poll_once).
THEOREM PollsTallied == Spec => []TallyExact
<1>1. Inv => TallyExact
  BY DEF Inv
<1> QED BY <1>1, InvHolds, PTL

\* A source that failed sits out exactly its penalty, between any polls, skips,
\* failures and waits of the others (backoff.py).
THEOREM PenaltyServedHolds == Spec => PenaltyServed
<1>1. Inv /\ [Next]_vars =>
        [\A s \in Sources :
           Fetch /\ Source = s /\ last[s] = "failed" => quiet[s] = Penalty(streak[s])]_vars
  <2> SUFFICES ASSUME Inv, NEW s \in Sources, Fetch, Source = s, last[s] = "failed"
               PROVE  quiet[s] = Penalty(streak[s])
    OBVIOUS
  <2>1. skips[s] = 0
    BY DEF Fetch
  <2>2. quiet[s] + skips[s] = Penalty(streak[s]) /\ quiet[s] \in Nat
    BY DEF Inv, RegistrySound, RegistryTyped, Owed
  <2> QED BY <2>1, <2>2
<1> QED BY <1>1, InvHolds, PTL DEF Spec, PenaltyServed

\* No upstream is asked before the wait it named is over (should_skip).
THEOREM RetryAfterHonouredHolds == Spec => RetryAfterHonoured
<1>1. Inv /\ [Next]_vars => [\A s \in Sources : Fetch /\ Source = s => asked[s] = 0]_vars
  BY DEF Inv, RegistrySound, WaitAsked, Fetch
<1> QED BY <1>1, InvHolds, PTL DEF Spec, RetryAfterHonoured

\* A source is skipped only if its own last poll failed, or it was told to wait
\* (backoff.py:8-9).
THEOREM HealthyNeverSkippedHolds == Spec => HealthyNeverSkipped
<1>1. Inv /\ [Next]_vars =>
        [\A s \in Sources : quiet'[s] > quiet[s] => last[s] \notin {"none", "success"}]_vars
  <2> SUFFICES ASSUME Inv, Next, NEW s \in Sources, quiet'[s] > quiet[s]
               PROVE  last[s] \notin {"none", "success"}
    BY DEF Inv
  <2>0. RegistryTyped /\ HealthyOwesNothing
    BY DEF Inv, RegistrySound
  <2>1. CASE Skip
    <3>1. quiet' = [quiet EXCEPT ![Source] = Upto(@ + 1, MaxSkip + 1)]
      BY <2>1 DEF Skip
    <3>2. wait[Source] > 0 \/ skips[Source] > 0
      BY <2>1 DEF Skip
    <3>3. s = Source
      BY <2>0, <3>1 DEF RegistryTyped
    <3> QED BY <2>0, <3>2, <3>3 DEF HealthyOwesNothing
  <2>2. CASE UNCHANGED quiet
    BY <2>0, <2>2 DEF RegistryTyped
  <2>3. CASE \E x : quiet' = [quiet EXCEPT ![x] = 0]
    <3>1. PICK x : quiet' = [quiet EXCEPT ![x] = 0]
      BY <2>3
    <3> QED BY <2>0, <3>1 DEF RegistryTyped
  <2>4. UNCHANGED quiet \/ Skip \/ \E x : quiet' = [quiet EXCEPT ![x] = 0]
    BY DEF Next, Loop, Fetch, FetchFails, FetchUndated, FetchSucceeds, FetchDelayed, Post,
           EndPoll, NextRound, Stop, Answer, Signal, Tick, Ended, historyVars
  <2> QED BY <2>1, <2>2, <2>3, <2>4
<1> QED BY <1>1, InvHolds, PTL DEF Spec, HealthyNeverSkipped

-----------------------------------------------------------------------------
(* What the penalties are *)

\* Powers of two, counted as the subsets of an interval.
LEMMA PowerOfZero == 2^0 = 1
<1>1. IsFiniteSet(1..0) /\ Cardinality(1..0) = 0
  BY FS_Interval
<1>2. Cardinality(SUBSET (1..0)) = 2^0
  BY <1>1, FS_SUBSET
<1>3. SUBSET (1..0) = {{}}
  OBVIOUS
<1> QED BY <1>2, <1>3, FS_Singleton

\* Half of the subsets of 1..(n + 1) have n + 1 in them, the others are those of
\* 1..n.
LEMMA PowerDoubles ==
  ASSUME NEW n \in Nat
  PROVE  2^(n + 1) = 2 * 2^n
<1> DEFINE without == SUBSET (1..n)
           with == {s \cup {n + 1} : s \in without}
           extend == [s \in without |-> s \cup {n + 1}]
<1>1. IsFiniteSet(1..n) /\ Cardinality(1..n) = n
  BY FS_Interval
<1>2. IsFiniteSet(1..(n + 1)) /\ Cardinality(1..(n + 1)) = n + 1
  BY FS_Interval
<1>3. IsFiniteSet(without) /\ Cardinality(without) = 2^n
  BY <1>1, FS_SUBSET
<1>4. Cardinality(SUBSET (1..(n + 1))) = 2^(n + 1)
  BY <1>2, FS_SUBSET
<1>5. extend \in Bijection(without, with)
  <2>1. extend \in Surjection(without, with)
    BY DEF Surjection
  <2>2. \A s, t \in without : extend[s] = extend[t] => s = t
    <3> SUFFICES ASSUME NEW s \in without, NEW t \in without, s \cup {n + 1} = t \cup {n + 1}
                 PROVE  s = t
      OBVIOUS
    <3>1. n + 1 \notin s /\ n + 1 \notin t
      OBVIOUS
    <3> QED BY <3>1
  <2> QED BY <2>1, <2>2 DEF Bijection, Injection, IsInjective, Surjection
<1>6. IsFiniteSet(with) /\ Cardinality(with) = Cardinality(without)
  <2>1. ExistsBijection(without, with)
    BY <1>5 DEF ExistsBijection
  <2> HIDE DEF with, without
  <2> QED BY <1>3, <2>1, FS_Bijection
<1>7. SUBSET (1..(n + 1)) = without \cup with
  <2>1. ASSUME NEW s \in SUBSET (1..(n + 1))
        PROVE  s \in without \cup with
    <3>1. CASE n + 1 \in s
      <4>1. s \ {n + 1} \in without
        OBVIOUS
      <4>2. s = (s \ {n + 1}) \cup {n + 1}
        BY <3>1
      <4> QED BY <4>1, <4>2
    <3>2. CASE n + 1 \notin s
      BY <3>2
    <3> QED BY <3>1, <3>2
  <2>2. \A s \in without : s \in SUBSET (1..(n + 1)) /\ s \cup {n + 1} \in SUBSET (1..(n + 1))
    OBVIOUS
  <2>3. \A s \in with : s \in SUBSET (1..(n + 1))
    BY <2>2
  <2>4. without \subseteq SUBSET (1..(n + 1)) /\ with \subseteq SUBSET (1..(n + 1))
    BY <2>2, <2>3
  <2> HIDE DEF without, with
  <2> QED BY <2>1, <2>4
<1>8. without \cap with = {}
  OBVIOUS
<1>9. Cardinality(without \cup with) = Cardinality(without) + Cardinality(with)
  <2>1. Cardinality(without \cap with) = 0
    BY <1>8, FS_EmptySet
  <2>2. Cardinality(without \cup with)
          = Cardinality(without) + Cardinality(with) - Cardinality(without \cap with)
    <3> HIDE DEF without, with
    <3> QED BY <1>3, <1>6, FS_Union
  <2>3. Cardinality(without) \in Nat
    BY <1>3, PowerTyped
  <2> HIDE DEF without, with
  <2> QED BY <1>6, <2>1, <2>2, <2>3
<1>10. Cardinality(without \cup with) = 2 * 2^n
  <2>1. 2^n \in Nat
    BY PowerTyped
  <2> HIDE DEF without, with
  <2> QED BY <1>3, <1>6, <1>9, <2>1
<1> QED BY <1>4, <1>7, <1>10

\* The first failure costs FIRST_SKIP_POLLS, and each one more twice as much as
\* the one before it, up to MAX_SKIP_POLLS (backoff.py:89).
THEOREM PenaltyDoubles ==
  /\ Penalty(1) = FirstSkip
  /\ \A k \in Nat \ {0} : Penalty(k + 1) = Upto(2 * Penalty(k), MaxSkip)
<1>1. Penalty(1) = FirstSkip
  BY PowerOfZero, IngestConstants DEF Penalty
<1>2. ASSUME NEW k \in Nat \ {0}
      PROVE  Penalty(k + 1) = Upto(2 * Penalty(k), MaxSkip)
  <2> DEFINE power == 2^(k - 1)
             p == FirstSkip * power
             q == FirstSkip * 2^((k + 1) - 1)
  <2>1. power \in Nat /\ 2^((k + 1) - 1) = 2 * power
    <3>1. k - 1 \in Nat /\ (k - 1) + 1 = (k + 1) - 1
      OBVIOUS
    <3> QED BY <3>1, PowerTyped, PowerDoubles
  <2>2. p \in Nat /\ q = 2 * p
    <3> HIDE DEF power
    <3> QED BY <2>1, IngestConstants
  <2>3. /\ Penalty(k) = IF p < MaxSkip THEN p ELSE MaxSkip
        /\ Penalty(k + 1) = IF q < MaxSkip THEN q ELSE MaxSkip
    BY DEF Penalty
  <2> HIDE DEF p, q
  <2> QED BY <2>2, <2>3, IngestConstants DEF Upto
<1> QED BY <1>1, <1>2

\* No failure costs nothing, and more failures never cost less.
THEOREM PenaltyGrows ==
  \A k \in Nat \ {0} :
    /\ Penalty(k) \in FirstSkip..MaxSkip
    /\ Penalty(k) <= Penalty(k + 1)
<1> DEFINE wrong == {k \in Nat \ {0} : Penalty(k) \notin FirstSkip..MaxSkip}
<1>1. wrong = {}
  <2> SUFFICES ASSUME wrong # {} PROVE FALSE
    OBVIOUS
  <2>1. PICK k \in wrong : \A j \in wrong : k <= j
    <3>1. wrong \in SUBSET Nat
      OBVIOUS
    <3> HIDE DEF wrong
    <3> QED BY <3>1, LeastExists
  <2>2. k # 1
    <3>1. Penalty(1) \in FirstSkip..MaxSkip
      <4>1. Penalty(1) = FirstSkip
        BY PenaltyDoubles
      <4>2. FirstSkip \in FirstSkip..MaxSkip
        BY IngestConstants
      <4> QED BY <4>1, <4>2
    <3> HIDE DEF Penalty
    <3> QED BY <2>1, <3>1
  <2>3. k - 1 \in Nat \ {0} /\ (k - 1) + 1 = k
    BY <2>1, <2>2
  <2>4. Penalty(k - 1) \in FirstSkip..MaxSkip
    <3>1. k - 1 \notin wrong
      BY <2>1, <2>3
    <3> QED BY <2>3, <3>1
  <2>5. Penalty(k) = Upto(2 * Penalty(k - 1), MaxSkip)
    BY <2>3, PenaltyDoubles
  <2>6. Penalty(k) \in FirstSkip..MaxSkip
    <3> HIDE DEF Penalty
    <3> QED BY <2>4, <2>5, IngestConstants DEF Upto
  <2> QED BY <2>1, <2>6
<1>2. ASSUME NEW k \in Nat \ {0}
      PROVE  Penalty(k) \in FirstSkip..MaxSkip /\ Penalty(k) <= Penalty(k + 1)
  <2>1. Penalty(k) \in FirstSkip..MaxSkip
    BY <1>1
  <2>2. Penalty(k + 1) = Upto(2 * Penalty(k), MaxSkip)
    BY PenaltyDoubles
  <2> HIDE DEF Penalty
  <2> QED BY <2>1, <2>2, IngestConstants DEF Upto
<1> QED BY <1>2

\* Once the cap is reached it is kept, so failures need not be counted beyond it.
\* This is why the model may count no further than MaxStreak: any failure more
\* would cost what the last one did.
THEOREM PenaltyStaysCapped ==
  \A k \in Nat : k >= MaxStreak => Penalty(k) = MaxSkip
<1> DEFINE wrong == {k \in Nat : k >= MaxStreak /\ Penalty(k) # MaxSkip}
<1> SUFFICES ASSUME wrong # {} PROVE FALSE
  OBVIOUS
<1>1. PICK k \in wrong : \A j \in wrong : k <= j
  <2>1. wrong \in SUBSET Nat
    OBVIOUS
  <2> HIDE DEF wrong
  <2> QED BY <2>1, LeastExists
<1>2. k # MaxStreak
  BY <1>1, IngestConstants
<1>3. /\ k - 1 \in Nat \ {0} /\ k - 1 >= MaxStreak /\ (k - 1) + 1 = k
  BY <1>1, <1>2, IngestConstants
<1>4. Penalty(k - 1) = MaxSkip
  <2>1. k - 1 \notin wrong
    BY <1>1, <1>3
  <2> QED BY <1>3, <2>1
<1>5. Penalty(k) = Upto(2 * MaxSkip, MaxSkip)
  <2>1. Penalty((k - 1) + 1) = Upto(2 * Penalty(k - 1), MaxSkip)
    BY <1>3, PenaltyDoubles
  <2> QED BY <1>3, <1>4, <2>1
<1>6. Penalty(k) = MaxSkip
  BY <1>5, IngestConstants DEF Upto
<1> QED BY <1>1, <1>6

-----------------------------------------------------------------------------
(* A rate limit without a number of seconds *)

\* It leaves the source nothing to sit out.
UndatedOwesNothing ==
  \A s \in Sources : last[s] = "undated" =>
    /\ skips[s] = 0 /\ wait[s] = 0 /\ quiet[s] = 0
    /\ streak[s] >= 1

\* Another source, or a poll of this one that ends in another way.
LEMMA UndatedApart ==
  ASSUME RegistryTyped, UndatedOwesNothing, NEW s \in Sources, NEW ending, ending # "undated",
         NEW delay, Ended(s, ending, delay),
         \E m, n : /\ skips' = [skips EXCEPT ![s] = m]
                  /\ wait' = [wait EXCEPT ![s] = n]
  PROVE  UndatedOwesNothing'
BY DEF RegistryTyped, UndatedOwesNothing, Ended

\* rate_limit_delay's 0.0 clears both deadlines.
LEMMA UndatedEnds ==
  ASSUME RegistryTyped, UndatedOwesNothing, NEW s \in Sources,
         RecordDelay(s, 0), Ended(s, "undated", 0)
  PROVE  UndatedOwesNothing'
<1> DEFINE k == Upto(streak[s] + 1, MaxStreak)
<1>1. k >= 1
  BY IngestConstants DEF RegistryTyped, Upto
<1> HIDE DEF k
<1>2. /\ skips' = [skips EXCEPT ![s] = 0] /\ wait' = [wait EXCEPT ![s] = 0]
      /\ last' = [last EXCEPT ![s] = "undated"] /\ quiet' = [quiet EXCEPT ![s] = 0]
      /\ streak' = [streak EXCEPT ![s] = k]
  BY DEF RecordDelay, Ended, k
<1> QED BY <1>1, <1>2 DEF RegistryTyped, UndatedOwesNothing

LEMMA UndatedStep == Inv /\ UndatedOwesNothing /\ [Next]_vars => UndatedOwesNothing'
<1> SUFFICES ASSUME Inv, UndatedOwesNothing, [Next]_vars PROVE UndatedOwesNothing'
  OBVIOUS
<1>0. RegistryTyped
  BY DEF Inv, RegistrySound
<1>1. pc \in {"deciding", "fetching", "publishing"} => Source \in Sources
  BY IngestConstants DEF Inv, TypeOK, Source
<1>2. CASE UNCHANGED <<skips, wait, last, quiet, streak>>
  BY <1>2 DEF UndatedOwesNothing
<1>3. CASE Tick
  BY <1>3 DEF Tick, UndatedOwesNothing
<1>4. CASE Skip
  <2>1. /\ Source \in Sources
        /\ wait[Source] > 0 \/ skips[Source] > 0
        /\ skips' = skips \/ skips' = [skips EXCEPT ![Source] = @ - 1]
        /\ \E n : quiet' = [quiet EXCEPT ![Source] = n]
        /\ UNCHANGED <<wait, last, streak>>
    BY <1>1, <1>4 DEF Skip
  <2>2. last[Source] # "undated"
    BY <2>1 DEF UndatedOwesNothing
  <2> QED BY <1>0, <2>1, <2>2 DEF RegistryTyped, UndatedOwesNothing
<1>5. CASE FetchUndated
  BY <1>0, <1>1, <1>5, UndatedEnds DEF FetchUndated
<1>6. CASE FetchFails
  BY <1>0, <1>1, <1>6, UndatedApart DEF FetchFails, RecordFailure
<1>7. CASE \E d \in 0..MaxDelay : FetchDelayed(d)
  BY <1>0, <1>1, <1>7, UndatedApart DEF FetchDelayed, RecordDelay
<1>8. CASE EndPoll
  BY <1>0, <1>1, <1>8, UndatedApart DEF EndPoll, RecordSuccess, RecordFailure
<1>9. ASSUME Fetch \/ Post \/ NextRound \/ Stop \/ Signal \/ UNCHANGED vars
             \/ (\E n \in 0..MaxFeed : FetchSucceeds(n)) \/ (\E o \in Outcomes : Answer(o))
      PROVE  UNCHANGED <<skips, wait, last, quiet, streak>>
  BY <1>9 DEF Fetch, Post, NextRound, Stop, Signal, vars, FetchSucceeds, Answer,
              backoffVars, historyVars
<1> QED
  BY <1>2, <1>3, <1>4, <1>5, <1>6, <1>7, <1>8, <1>9 DEF Next, Loop

\* What UndatedFallsBack says never comes true: each time a source that named no
\* number of seconds is asked again, it has sat out nothing, less than the
\* exponential backoff would have cost (main.py:35-37 says that it falls through
\* to it).
THEOREM UndatedNeverFallsBack ==
  Spec => [][\A s \in Sources :
               Fetch /\ Source = s /\ last[s] = "undated" =>
                 quiet[s] = 0 /\ quiet[s] < Penalty(streak[s])]_vars
<1>1. Init => UndatedOwesNothing
  BY DEF Init, UndatedOwesNothing
<1>2. Inv /\ UndatedOwesNothing =>
        \A s \in Sources : last[s] = "undated" =>
          quiet[s] = 0 /\ quiet[s] < Penalty(streak[s])
  <2> SUFFICES ASSUME Inv, UndatedOwesNothing, NEW s \in Sources, last[s] = "undated"
               PROVE  quiet[s] = 0 /\ quiet[s] < Penalty(streak[s])
    OBVIOUS
  <2>1. quiet[s] = 0 /\ streak[s] \in Nat \ {0}
    BY DEF UndatedOwesNothing, Inv, TypeOK
  <2>2. Penalty(streak[s]) \in FirstSkip..MaxSkip
    BY <2>1, PenaltyGrows
  <2> HIDE DEF Penalty
  <2> QED BY <2>1, <2>2, IngestConstants
<1>3. Inv /\ UndatedOwesNothing =>
        [\A s \in Sources :
           Fetch /\ Source = s /\ last[s] = "undated" =>
             quiet[s] = 0 /\ quiet[s] < Penalty(streak[s])]_vars
  BY <1>2
<1> QED BY <1>1, <1>3, UndatedStep, InvHolds, PTL DEF Spec

=============================================================================
