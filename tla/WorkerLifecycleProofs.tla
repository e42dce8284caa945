------------------------ MODULE WorkerLifecycleProofs ------------------------
(***************************************************************************)
(* Theorems about WorkerLifecycle, for any number of starts, callers of    *)
(* Stop and slots.                                                         *)
(***************************************************************************)
EXTENDS WorkerLifecycle, TLAPS

(* A loop exists from its start on, and ends only when cancelled.          *)
LoopsAreStarted ==
  \A w \in Workers :
    /\ loop[w] = "none" <=> w > starts
    /\ loop[w] = "none" => attempts[w] = 0
    /\ loop[w] = "ended" => w \in cancelled

(* What a call of Stop holds: a worker exactly while it is under way, and  *)
(* a cancelled one once it waits.                                          *)
StopsAreOrderly ==
  \A s \in Stoppers :
    /\ stop[s] = "idle" <=> stopping[s] = 0
    /\ stop[s] = "cancel" => stopping[s] \notin cancelled
    /\ stop[s] = "wait" => stopping[s] \in cancelled

(* A cancelled worker whose loop has not ended is waited for.              *)
CancelledAreAwaited ==
  \A w \in cancelled :
    \/ loop[w] = "ended"
    \/ \E s \in Stoppers : stopping[s] = w /\ stop[s] = "wait"

IInv ==
  /\ TypeOK
  /\ LoopsAreStarted
  /\ StopsAreOrderly
  /\ CancelledAreAwaited
  /\ NoWorkerIsLeaked

(* A setting ends up in its range, however it is set.                      *)
LEMMA SettingInRange ==
  ASSUME NEW raw \in Raw, NEW default \in Int, NEW min \in Int, NEW max \in Int,
         min <= default, default <= max
  PROVE  envInt(raw, default, min, max) \in min..max
<1>1. CASE raw \in {Unset, Malformed}
  BY <1>1 DEF envInt
<1>2. CASE raw \notin {Unset, Malformed}
  <2>1. raw \in Int
    BY <1>2 DEF Raw
  <2>2. envInt(raw, default, min, max) = IF raw < min THEN min ELSE IF raw > max THEN max ELSE raw
    BY <1>2, <2>1 DEF envInt
  <2> QED BY <2>1, <2>2
<1> QED BY <1>1, <1>2

(* A worker has 1 to 16 slots.                                             *)
LEMMA SlotsAreSane ==
  ASSUME NEW raw \in RawConcurrency
  PROVE  envInt(raw, 2, 1, 16) \in 1..16
<1>1. raw \in Raw
  BY LifecycleAssumption
<1> QED BY <1>1, SettingInRange

LEMMA InitIInv == Init => IInv
<1> SUFFICES ASSUME Init PROVE IInv
  OBVIOUS
<1> USE LifecycleAssumption DEF Init
<1>1. TypeOK
  BY DEF TypeOK, Workers, Started, LoopStates
<1>2. LoopsAreStarted /\ StopsAreOrderly /\ CancelledAreAwaited
  BY DEF LoopsAreStarted, StopsAreOrderly, CancelledAreAwaited, Workers
<1>3. NoWorkerIsLeaked
  BY DEF NoWorkerIsLeaked, Started
<1> QED BY <1>1, <1>2, <1>3 DEF IInv

(* A new worker is nobody's yet.                                           *)
LEMMA StartIInv ==
  ASSUME IInv, NEW raw \in RawConcurrency, Start(raw)
  PROVE  IInv'
<1> USE LifecycleAssumption DEF IInv, Start, Workers, Started
<1>0. envInt(raw, 2, 1, 16) \in 1..16
  BY SlotsAreSane
<1>1. TypeOK'
  BY <1>0 DEF TypeOK, LoopStates, LoopsAreStarted
<1>2. LoopsAreStarted'
  BY DEF TypeOK, LoopsAreStarted
<1>3. StopsAreOrderly'
  BY DEF StopsAreOrderly
<1>4. CancelledAreAwaited'
  BY DEF TypeOK, CancelledAreAwaited
<1>5. NoWorkerIsLeaked'
  <2>1. current' = starts + 1 /\ starts + 1 \notin cancelled /\ starts \in Nat
    BY DEF TypeOK
  <2>2. {s \in Stoppers : stopping'[s] = starts + 1} = {}
    BY <2>1 DEF TypeOK
  <2>3. \A w : Holders(w)' = Holders(w)
    BY DEF Holders
  <2>4. ASSUME NEW w \in Started' \ cancelled', w # current'
        PROVE  \E s \in Stoppers : Holders(w)' = {s} /\ stop'[s] = "cancel"
    <3>1. w \in Started \ cancelled /\ w # current
      BY <2>1, <2>4
    <3>2. PICK s \in Stoppers : Holders(w) = {s} /\ stop[s] = "cancel"
      BY <3>1 DEF NoWorkerIsLeaked
    <3> QED BY <2>3, <3>2
  <2>5. current' \notin cancelled'
    BY <2>1
  <2>6. Holders(current)' = {}
    BY <2>1, <2>2 DEF Holders
  <2> QED BY <2>4, <2>5, <2>6 DEF NoWorkerIsLeaked
<1> QED BY <1>1, <1>2, <1>3, <1>4, <1>5

(* The worker passes from the variable to the call.                        *)
LEMMA StopTakesIInv ==
  ASSUME IInv, NEW s \in Stoppers, StopTakes(s)
  PROVE  IInv'
<1> USE LifecycleAssumption DEF IInv, StopTakes, workerVars, Workers, Started
<1>1. TypeOK'
  BY DEF TypeOK
<1>2. LoopsAreStarted'
  BY DEF LoopsAreStarted
<1>3. StopsAreOrderly'
  BY DEF TypeOK, StopsAreOrderly, NoWorkerIsLeaked
<1>4. CancelledAreAwaited'
  BY DEF TypeOK, CancelledAreAwaited, StopsAreOrderly
<1>5. NoWorkerIsLeaked'
  <2>1. stopping[s] = 0 /\ Holders(current) = {}
    BY DEF TypeOK, StopsAreOrderly, NoWorkerIsLeaked
  <2>2. {r \in Stoppers : stopping'[r] = current} = {s}
    BY <2>1 DEF TypeOK, Holders
  <2>3. \A w \in Started \ {current} : Holders(w)' = Holders(w)
    BY <2>1 DEF TypeOK, Holders
  <2>4. stop'[s] = "cancel" /\ \A r \in Stoppers \ {s} : stop'[r] = stop[r]
    BY DEF TypeOK
  <2>5. \A w \in Started \ cancelled : w # current => \E r \in Stoppers : Holders(w)' = {r} /\ stop'[r] = "cancel"
    <3> SUFFICES ASSUME NEW w \in Started \ cancelled, w # current
                 PROVE  \E r \in Stoppers : Holders(w)' = {r} /\ stop'[r] = "cancel"
      OBVIOUS
    <3>1. PICK r \in Stoppers : Holders(w) = {r} /\ stop[r] = "cancel"
      BY DEF NoWorkerIsLeaked
    <3>2. Holders(w)' = {r} /\ stop'[r] = "cancel"
      BY <2>3, <2>4, <3>1
    <3> QED BY <3>2
  <2>6. current' = 0 /\ 0 \notin Started /\ 0 \notin cancelled /\ UNCHANGED <<starts, cancelled>>
    BY DEF TypeOK
  <2>7. ASSUME NEW w \in Started \ cancelled
        PROVE  \E r \in Stoppers : Holders(w)' = {r} /\ stop'[r] = "cancel"
    <3>1. CASE w = current
      BY <2>2, <2>4, <3>1 DEF Holders
    <3> QED BY <2>5, <3>1
  <2> QED BY <2>6, <2>7 DEF NoWorkerIsLeaked
<1> QED BY <1>1, <1>2, <1>3, <1>4, <1>5

LEMMA StopCancelsIInv ==
  ASSUME IInv, NEW s \in Stoppers, StopCancels(s)
  PROVE  IInv'
<1> USE LifecycleAssumption DEF IInv, StopCancels, Workers, Started
<1>0. stopping[s] \in Started /\ stopping[s] \notin cancelled
  BY DEF TypeOK, StopsAreOrderly
<1>1. TypeOK'
  BY <1>0 DEF TypeOK
<1>2. LoopsAreStarted'
  BY DEF LoopsAreStarted
<1>3. \A r \in Stoppers \ {s} : stopping[r] # stopping[s]
  BY <1>0 DEF NoWorkerIsLeaked, Holders
<1>4. StopsAreOrderly'
  BY <1>3 DEF TypeOK, StopsAreOrderly
<1>5. CancelledAreAwaited'
  BY DEF TypeOK, CancelledAreAwaited
<1>6. NoWorkerIsLeaked'
  <2>1. \A w \in Started : Holders(w)' = Holders(w)
    BY DEF Holders
  <2>2. s \in Holders(stopping[s]) /\ stopping[s] # current
    BY <1>0 DEF NoWorkerIsLeaked, Holders
  <2>3. \A r \in Stoppers \ {s} : stop'[r] = stop[r]
    BY DEF TypeOK
  <2>4. ASSUME NEW w \in Started \ cancelled', w # current
        PROVE  \E r \in Stoppers : Holders(w)' = {r} /\ stop'[r] = "cancel"
    <3>1. PICK r \in Stoppers : Holders(w) = {r} /\ stop[r] = "cancel"
      BY <2>4 DEF NoWorkerIsLeaked
    <3>2. r # s
      BY <2>4, <3>1 DEF Holders
    <3> QED BY <2>1, <2>3, <3>1, <3>2
  <2> QED BY <2>1, <2>2, <2>4 DEF NoWorkerIsLeaked
<1> QED BY <1>1, <1>2, <1>4, <1>5, <1>6

LEMMA StopReturnsIInv ==
  ASSUME IInv, NEW s \in Stoppers, StopReturns(s)
  PROVE  IInv'
<1> USE LifecycleAssumption DEF IInv, StopReturns, workerVars, Workers, Started
<1>0. stopping[s] \in Started /\ stopping[s] \in cancelled
  BY DEF TypeOK, StopsAreOrderly
<1>1. TypeOK'
  BY DEF TypeOK
<1>2. LoopsAreStarted'
  BY DEF LoopsAreStarted
<1>3. StopsAreOrderly'
  BY DEF TypeOK, StopsAreOrderly
<1>4. CancelledAreAwaited'
  BY DEF TypeOK, CancelledAreAwaited
<1>5. NoWorkerIsLeaked'
  <2>1. \A w \in Started \ cancelled : Holders(w)' = Holders(w) /\ s \notin Holders(w)
    BY <1>0 DEF TypeOK, Holders
  <2>2. \A r \in Stoppers \ {s} : stop'[r] = stop[r]
    BY DEF TypeOK
  <2>3. ASSUME NEW w \in Started \ cancelled, w # current
        PROVE  \E r \in Stoppers : Holders(w)' = {r} /\ stop'[r] = "cancel"
    <3>1. PICK r \in Stoppers : Holders(w) = {r} /\ stop[r] = "cancel"
      BY <2>3 DEF NoWorkerIsLeaked
    <3> QED BY <2>1, <2>2, <3>1
  <2> QED BY <2>1, <2>3 DEF NoWorkerIsLeaked
<1> QED BY <1>1, <1>2, <1>3, <1>4, <1>5

(* Loops and attempts leave it to Start and Stop who is current.           *)
LEMMA WorkerIInv ==
  ASSUME IInv, NEW w \in Workers, LoopNext(w) \/ AttemptEnds(w)
  PROVE  IInv'
<1> USE DEF IInv, Workers, Started
<1>1. /\ UNCHANGED <<starts, current, cancelled, slots, stop, stopping>>
      /\ attempts' \in [Workers -> Nat]
      /\ \A v \in Workers : attempts'[v] <= slots[v]
      /\ loop' \in [Workers -> LoopStates]
      /\ \A v \in Workers : loop[v] = "none" <=> loop'[v] = "none"
      /\ \A v \in Workers : loop[v] = "none" => attempts'[v] = 0
      /\ \A v \in Workers : loop[v] = "ended" => loop'[v] = "ended"
      /\ \A v \in Workers : loop'[v] = "ended" => v \in cancelled
  <2>1. CASE CheckContext(w)
    BY <2>1 DEF CheckContext, Step, TypeOK, LoopStates, LoopsAreStarted
  <2>2. CASE Claim(w)
    BY <2>2 DEF Claim, Step, TypeOK, LoopStates, LoopsAreStarted
  <2>3. CASE Wait(w)
    BY <2>3 DEF Wait, Step, TypeOK, LoopStates, LoopsAreStarted
  <2>4. CASE Acquire(w)
    <3>0. attempts[w] \in Nat /\ slots[w] \in 0..16 /\ attempts[w] < slots[w]
      <4> HIDE DEF Workers
      <4> QED BY <2>4 DEF Acquire, TypeOK
    <3>1. slots[w] \in Nat /\ attempts[w] + 1 <= slots[w]
      BY <3>0
    <3>2. attempts' = [attempts EXCEPT ![w] = @ + 1] /\ loop[w] = "acquire"
      BY <2>4 DEF Acquire, Step
    <3>3. loop' = [loop EXCEPT ![w] = "check"]
      BY <2>4 DEF Acquire, Step
    <3>4. UNCHANGED <<starts, current, cancelled, slots, stop, stopping>>
      BY <2>4 DEF Acquire, Step
    <3> HIDE DEF Workers, Started
    <3> QED BY <3>0, <3>1, <3>2, <3>3, <3>4 DEF TypeOK, LoopStates, LoopsAreStarted
  <2>5. CASE AttemptEnds(w)
    <3>1. attempts[w] \in Nat /\ slots[w] \in Nat /\ attempts[w] - 1 \in Nat
      BY <2>5 DEF AttemptEnds, TypeOK
    <3>2. attempts' = [attempts EXCEPT ![w] = @ - 1]
      BY <2>5 DEF AttemptEnds
    <3>3. UNCHANGED <<starts, current, cancelled, loop, slots, stop, stopping>>
      BY <2>5 DEF AttemptEnds
    <3>4. loop[w] # "none"
      BY <3>1, <2>5 DEF AttemptEnds, LoopsAreStarted
    <3> HIDE DEF Workers, Started
    <3>5. attempts' \in [Workers -> Nat] /\ \A v \in Workers : attempts'[v] <= slots[v]
      BY <3>1, <3>2 DEF TypeOK
    <3>6. \A v \in Workers : loop[v] = "none" => attempts'[v] = 0
      BY <3>2, <3>4 DEF TypeOK, LoopsAreStarted
    <3> QED BY <3>3, <3>5, <3>6 DEF TypeOK, LoopsAreStarted
  <2> QED BY <2>1, <2>2, <2>3, <2>4, <2>5 DEF LoopNext
<1>2. TypeOK'
  BY <1>1 DEF TypeOK
<1>3. LoopsAreStarted'
  BY <1>1 DEF LoopsAreStarted
<1>4. StopsAreOrderly' /\ NoWorkerIsLeaked'
  BY <1>1 DEF StopsAreOrderly, NoWorkerIsLeaked, Holders
<1>5. CancelledAreAwaited'
  <2>1. cancelled \subseteq Workers
    BY LifecycleAssumption DEF TypeOK
  <2> QED BY <1>1, <2>1 DEF CancelledAreAwaited
<1> QED BY <1>2, <1>3, <1>4, <1>5

LEMMA StepIInv == IInv /\ [Next]_vars => IInv'
<1> SUFFICES ASSUME IInv, [Next]_vars PROVE IInv'
  OBVIOUS
<1>1. CASE UNCHANGED vars
  BY <1>1 DEF IInv, vars, workerVars, TypeOK, LoopsAreStarted, StopsAreOrderly,
              CancelledAreAwaited, NoWorkerIsLeaked, Holders, Started
<1>2. CASE Next
  BY <1>2, StartIInv, StopTakesIInv, StopCancelsIInv, StopReturnsIInv, WorkerIInv
     DEF Next, StopNext
<1> QED BY <1>1, <1>2

(* IInv always holds: the invariant the theorems below rest on.            *)
THEOREM Invariant == Spec => []IInv
<1> QED BY InitIInv, StepIInv, PTL DEF Spec

(* Every reachable state is well typed; in particular no worker ever runs  *)
(* more attempts than its semaphore has slots.                             *)
THEOREM TypeCorrect == Spec => []TypeOK
<1>1. IInv => TypeOK
  BY DEF IInv
<1> QED BY <1>1, Invariant, PTL

(* NoWorkerIsLeaked holds however many starts and stops interleave.        *)
THEOREM NoLeak == Spec => []NoWorkerIsLeaked
<1>1. IInv => NoWorkerIsLeaked
  BY DEF IInv
<1> QED BY <1>1, Invariant, PTL

(* StoppedMeansQuiet: once the last Stop has returned and until the next   *)
(* start, no worker issues a statement under a context that is not         *)
(* cancelled.                                                              *)
THEOREM QuietAfterStop == Spec => []StoppedMeansQuiet
<1>1. IInv => StoppedMeansQuiet
  <2> SUFFICES ASSUME IInv, current = 0, \A s \in Stoppers : stop[s] = "idle",
                      NEW w \in Started
               PROVE  loop[w] = "ended" /\ w \in cancelled
    BY DEF StoppedMeansQuiet
  <2>1. w \in cancelled
    BY DEF IInv, TypeOK, NoWorkerIsLeaked, Started
  <2>2. loop[w] = "ended"
    BY <2>1 DEF IInv, CancelledAreAwaited
  <2> QED BY <2>1, <2>2
<1> QED BY <1>1, Invariant, PTL
-----------------------------------------------------------------------------
(* The retry policy                                                        *)

LEMMA Configuration ==
  ASSUME NEW env \in Environments
  PROVE  LET cfg == loadDeploymentQueueConfig(env)
         IN  cfg.maxAttempts \in 1..10 /\ cfg.retryBase \in 1..60 /\ cfg.retryMax \in 5..600
<1>1. env.maxAttempts \in Raw /\ env.retryBase \in Raw /\ env.retryMax \in Raw
  BY LifecycleAssumption
<1>2. /\ envInt(env.maxAttempts, 3, 1, 10) \in 1..10
      /\ envInt(env.retryBase, 2, 1, 60) \in 1..60
      /\ envInt(env.retryMax, 60, 5, 600) \in 5..600
  BY <1>1, SettingInRange
<1> QED BY <1>2 DEF loadDeploymentQueueConfig

(* The rounds of the loop, one after the other.                            *)
Round2(cfg)  == Doubled(cfg.retryBase, cfg)
Round3(cfg)  == Doubled(Round2(cfg), cfg)
Round4(cfg)  == Doubled(Round3(cfg), cfg)
Round5(cfg)  == Doubled(Round4(cfg), cfg)
Round6(cfg)  == Doubled(Round5(cfg), cfg)
Round7(cfg)  == Doubled(Round6(cfg), cfg)
Round8(cfg)  == Doubled(Round7(cfg), cfg)
Round9(cfg)  == Doubled(Round8(cfg), cfg)
Round10(cfg) == Doubled(Round9(cfg), cfg)

Rounds(i, cfg) ==
  IF i = 1 THEN cfg.retryBase ELSE IF i = 2 THEN Round2(cfg) ELSE IF i = 3 THEN Round3(cfg)
  ELSE IF i = 4 THEN Round4(cfg) ELSE IF i = 5 THEN Round5(cfg) ELSE IF i = 6 THEN Round6(cfg)
  ELSE IF i = 7 THEN Round7(cfg) ELSE IF i = 8 THEN Round8(cfg) ELSE IF i = 9 THEN Round9(cfg)
  ELSE Round10(cfg)

LEMMA RoundsFollow ==
  ASSUME NEW cfg, NEW i \in 2..10
  PROVE  Rounds(i, cfg) = Doubled(Rounds(i - 1, cfg), cfg)
<1>1. i \in {2, 3, 4, 5, 6, 7, 8, 9, 10}
  OBVIOUS
<1> QED BY <1>1 DEF Rounds, Round2, Round3, Round4, Round5, Round6, Round7, Round8, Round9, Round10

(* The recursion of LoopDelays has a solution, so that LoopDelays is one;  *)
(* and there is only one.                                                  *)
LEMMA Recursion ==
  ASSUME NEW cfg, NEW n \in 1..10
  PROVE  LoopDelays(n, cfg)[n] = Rounds(n, cfg)
<1> DEFINE f == [i \in 1..n |-> Rounds(i, cfg)]
           g == LoopDelays(n, cfg)
<1>1. f = [i \in 1..n |-> IF i = 1 THEN cfg.retryBase ELSE Doubled(f[i - 1], cfg)]
  <2>1. ASSUME NEW i \in 1..n, i # 1
        PROVE  Rounds(i, cfg) = Doubled(f[i - 1], cfg)
    <3>1. i \in 2..10 /\ i - 1 \in 1..n
      BY <2>1
    <3> QED BY <3>1, RoundsFollow
  <2>2. Rounds(1, cfg) = cfg.retryBase
    BY DEF Rounds
  <2> QED BY <2>1, <2>2
<1> HIDE DEF f
<1>2. g = [i \in 1..n |-> IF i = 1 THEN cfg.retryBase ELSE Doubled(g[i - 1], cfg)]
  BY <1>1, Zenon DEF LoopDelays
<1> HIDE DEF g
<1>3. /\ g[1] = cfg.retryBase
      /\ \A i \in 2..n : g[i] = Doubled(g[i - 1], cfg)
  BY <1>2
<1>4. g[1] = Rounds(1, cfg)
  BY <1>3 DEF Rounds
<1>5. \A i \in 2..n : g[i - 1] = Rounds(i - 1, cfg) => g[i] = Rounds(i, cfg)
  BY <1>3, RoundsFollow
<1>6. /\ 2 <= n => g[2] = Rounds(2, cfg)
      /\ 3 <= n => g[3] = Rounds(3, cfg)
      /\ 4 <= n => g[4] = Rounds(4, cfg)
      /\ 5 <= n => g[5] = Rounds(5, cfg)
      /\ 6 <= n => g[6] = Rounds(6, cfg)
      /\ 7 <= n => g[7] = Rounds(7, cfg)
      /\ 8 <= n => g[8] = Rounds(8, cfg)
      /\ 9 <= n => g[9] = Rounds(9, cfg)
      /\ 10 <= n => g[10] = Rounds(10, cfg)
  BY <1>4, <1>5
<1>7. n \in {1, 2, 3, 4, 5, 6, 7, 8, 9, 10}
  OBVIOUS
<1>8. g[n] = Rounds(n, cfg)
  BY <1>4, <1>6, <1>7
<1> QED BY <1>8 DEF g

(* p is 2^(n-1), spelt out.                                                *)
IsPower(p, n) ==
  /\ n = 1 => p = 1
  /\ n = 2 => p = 2
  /\ n = 3 => p = 4
  /\ n = 4 => p = 8
  /\ n = 5 => p = 16
  /\ n = 6 => p = 32
  /\ n = 7 => p = 64
  /\ n = 8 => p = 128
  /\ n = 9 => p = 256
  /\ n = 10 => p = 512

LEMMA Powers ==
  ASSUME NEW n \in Nat
  PROVE  IsPower(2 ^ (n - 1), n)
<1>1. n = 1 => 2 ^ (n - 1) = 1
  OBVIOUS
<1>2. n = 2 => 2 ^ (n - 1) = 2
  OBVIOUS
<1>3. n = 3 => 2 ^ (n - 1) = 4
  OBVIOUS
<1>4. n = 4 => 2 ^ (n - 1) = 8
  OBVIOUS
<1>5. n = 5 => 2 ^ (n - 1) = 16
  OBVIOUS
<1>6. n = 6 => 2 ^ (n - 1) = 32
  OBVIOUS
<1>7. n = 7 => 2 ^ (n - 1) = 64
  OBVIOUS
<1>8. n = 8 => 2 ^ (n - 1) = 128
  OBVIOUS
<1>9. n = 9 => 2 ^ (n - 1) = 256
  OBVIOUS
<1>10. n = 10 => 2 ^ (n - 1) = 512
  OBVIOUS
<1> QED BY <1>1, <1>2, <1>3, <1>4, <1>5, <1>6, <1>7, <1>8, <1>9, <1>10, Zenon DEF IsPower

(* What the rounds come to.                                                *)
LEMMA RoundsAreCapped ==
  ASSUME NEW cfg, cfg.retryBase \in 1..60, cfg.retryMax \in 5..600, NEW n \in 1..10
  PROVE  LET exponential == cfg.retryBase * 2 ^ (n - 1)
         IN  (IF Rounds(n, cfg) > cfg.retryMax THEN cfg.retryMax ELSE Rounds(n, cfg)) =
               (IF exponential > cfg.retryMax THEN cfg.retryMax ELSE exponential)
<1> DEFINE b == cfg.retryBase  m == cfg.retryMax
           Capped(x) == IF x >= m THEN m ELSE x
<1>1. b \in 1..60 /\ m \in 5..600
  OBVIOUS
<1>2. \A x : Doubled(x, cfg) = IF 2 * x >= m THEN m ELSE 2 * x
  BY DEF Doubled
<1> HIDE DEF b, m
<1>3. \A k \in Nat : Doubled(Capped(k), cfg) = Capped(2 * k)
  BY <1>1, <1>2
<1>4. Round2(cfg) = Capped(2 * b)
  BY <1>2 DEF Round2, b
<1> HIDE DEF Capped
<1>5. Round3(cfg) = Capped(4 * b)
  BY <1>1, <1>3, <1>4 DEF Round3
<1>6. Round4(cfg) = Capped(8 * b)
  BY <1>1, <1>3, <1>5 DEF Round4
<1>7. Round5(cfg) = Capped(16 * b)
  BY <1>1, <1>3, <1>6 DEF Round5
<1>8. Round6(cfg) = Capped(32 * b)
  BY <1>1, <1>3, <1>7 DEF Round6
<1>9. Round7(cfg) = Capped(64 * b)
  BY <1>1, <1>3, <1>8 DEF Round7
<1>10. Round8(cfg) = Capped(128 * b)
  BY <1>1, <1>3, <1>9 DEF Round8
<1>11. Round9(cfg) = Capped(256 * b)
  BY <1>1, <1>3, <1>10 DEF Round9
<1>12. Round10(cfg) = Capped(512 * b)
  BY <1>1, <1>3, <1>11 DEF Round10
<1>13. \E p \in Nat : p = 2 ^ (n - 1) /\ (n = 1 => p = 1) /\ (n # 1 => Rounds(n, cfg) = Capped(p * b))
  <2>2. n \in {1, 2, 3, 4, 5, 6, 7, 8, 9, 10}
    OBVIOUS
  <2> DEFINE p == 2 ^ (n - 1)
  <2>3. IsPower(p, n)
    BY Powers
  <2> HIDE DEF p
  <2>4. /\ n = 2 => Rounds(n, cfg) = Capped(2 * b)
        /\ n = 3 => Rounds(n, cfg) = Capped(4 * b)
        /\ n = 4 => Rounds(n, cfg) = Capped(8 * b)
        /\ n = 5 => Rounds(n, cfg) = Capped(16 * b)
        /\ n = 6 => Rounds(n, cfg) = Capped(32 * b)
        /\ n = 7 => Rounds(n, cfg) = Capped(64 * b)
        /\ n = 8 => Rounds(n, cfg) = Capped(128 * b)
        /\ n = 9 => Rounds(n, cfg) = Capped(256 * b)
        /\ n = 10 => Rounds(n, cfg) = Capped(512 * b)
    <3>1. /\ Rounds(2, cfg) = Round2(cfg) /\ Rounds(3, cfg) = Round3(cfg)
          /\ Rounds(4, cfg) = Round4(cfg) /\ Rounds(5, cfg) = Round5(cfg)
          /\ Rounds(6, cfg) = Round6(cfg) /\ Rounds(7, cfg) = Round7(cfg)
          /\ Rounds(8, cfg) = Round8(cfg) /\ Rounds(9, cfg) = Round9(cfg)
          /\ Rounds(10, cfg) = Round10(cfg)
      BY DEF Rounds
    <3> QED BY <1>4, <1>5, <1>6, <1>7, <1>8, <1>9, <1>10, <1>11, <1>12, <3>1, Zenon
  <2>5. p \in Nat /\ (n = 1 => p = 1) /\ (n # 1 => Rounds(n, cfg) = Capped(p * b))
    BY <2>2, <2>3, <2>4 DEF IsPower
  <2> QED BY <2>5 DEF p
<1>14. PICK p \in Nat : /\ p = 2 ^ (n - 1) /\ (n = 1 => p = 1)
                        /\ (n # 1 => Rounds(n, cfg) = Capped(p * b))
  BY <1>13
<1>15. b * p = p * b /\ p * b \in Nat /\ (p = 1 => p * b = b)
  BY <1>1
<1>16. n = 1 => Rounds(n, cfg) = p * b
  BY <1>14, <1>15 DEF Rounds, b
<1>17. (IF Rounds(n, cfg) > m THEN m ELSE Rounds(n, cfg)) = (IF p * b > m THEN m ELSE p * b)
  BY <1>1, <1>14, <1>15, <1>16 DEF Capped
<1> QED BY <1>14, <1>15, <1>17 DEF b, m

(* For every environment the delay is base * 2^(n-1), or the maximum.      *)
THEOREM DelaysAreExponential == Spec => []DelayIsCappedExponential
<1>1. ASSUME NEW env \in Environments, NEW n \in 1..10
      PROVE  LET cfg == loadDeploymentQueueConfig(env)
                 exponential == cfg.retryBase * 2 ^ (n - 1)
             IN  retryDelaySeconds(n, cfg) =
                   IF exponential > cfg.retryMax THEN cfg.retryMax ELSE exponential
  <2> DEFINE cfg == loadDeploymentQueueConfig(env)
  <2>1. cfg.retryBase \in 1..60 /\ cfg.retryMax \in 5..600
    BY Configuration
  <2> HIDE DEF cfg
  <2>2. LoopDelays(n, cfg)[n] = Rounds(n, cfg)
    BY Recursion
  <2>3. retryDelaySeconds(n, cfg) =
          IF Rounds(n, cfg) > cfg.retryMax THEN cfg.retryMax ELSE Rounds(n, cfg)
    BY <2>2 DEF retryDelaySeconds
  <2>4. LET exponential == cfg.retryBase * 2 ^ (n - 1)
        IN  retryDelaySeconds(n, cfg) =
              IF exponential > cfg.retryMax THEN cfg.retryMax ELSE exponential
    BY <2>1, <2>3, RoundsAreCapped
  <2> QED BY <2>4 DEF cfg
<1>2. DelayIsCappedExponential
  BY <1>1 DEF DelayIsCappedExponential
<1> QED BY <1>2, PTL

(* For every environment there is an attempt and a second between two.     *)
THEOREM RetriesAreSane == Spec => []RetriesAreBounded
<1>1. ASSUME NEW env \in Environments
      PROVE  LET cfg == loadDeploymentQueueConfig(env)
             IN  /\ cfg.maxAttempts \in 1..10
                 /\ \A n \in 0..10 : retryDelaySeconds(n, cfg) \in 1..cfg.retryMax
  <2> DEFINE cfg == loadDeploymentQueueConfig(env)
  <2>1. cfg.maxAttempts \in 1..10 /\ cfg.retryBase \in 1..60 /\ cfg.retryMax \in 5..600
    BY Configuration
  <2> HIDE DEF cfg
  <2>2. ASSUME NEW n \in 1..10
        PROVE  (IF Rounds(n, cfg) > cfg.retryMax THEN cfg.retryMax ELSE Rounds(n, cfg))
                 \in 1..cfg.retryMax
    <3> DEFINE b == cfg.retryBase  m == cfg.retryMax  p == 2 ^ (n - 1)
    <3>1. n \in Nat /\ n \in {1, 2, 3, 4, 5, 6, 7, 8, 9, 10}
      OBVIOUS
    <3>2. p \in {1, 2, 4, 8, 16, 32, 64, 128, 256, 512}
      <4>1. IsPower(p, n)
        BY <3>1, Powers
      <4> HIDE DEF p
      <4> QED BY <3>1, <4>1, Zenon DEF IsPower
    <3>3. (IF Rounds(n, cfg) > m THEN m ELSE Rounds(n, cfg)) = (IF b * p > m THEN m ELSE b * p)
      BY <2>1, RoundsAreCapped
    <3> HIDE DEF p
    <3>4. b * p \in Nat \ {0}
      BY <2>1, <3>2
    <3> QED BY <2>1, <3>3, <3>4
  <2>3. ASSUME NEW n \in 0..10
        PROVE  retryDelaySeconds(n, cfg) \in 1..cfg.retryMax
    <3> DEFINE m == IF n <= 0 THEN 1 ELSE n
    <3>1. m \in 1..10
      OBVIOUS
    <3>2. retryDelaySeconds(n, cfg) =
            IF LoopDelays(m, cfg)[m] > cfg.retryMax THEN cfg.retryMax ELSE LoopDelays(m, cfg)[m]
      BY DEF retryDelaySeconds
    <3> HIDE DEF m
    <3> QED BY <2>2, <3>1, <3>2, Recursion
  <2>4. /\ cfg.maxAttempts \in 1..10
        /\ \A n \in 0..10 : retryDelaySeconds(n, cfg) \in 1..cfg.retryMax
    BY <2>1, <2>3
  <2> QED BY <2>4 DEF cfg
<1>2. RetriesAreBounded
  BY <1>1 DEF RetriesAreBounded
<1> QED BY <1>2, PTL

(* For every environment the injected failures cost one attempt each.      *)
THEOREM InjectionIsExact == Spec => []InjectionMeetsRetries
<1>1. ASSUME NEW env \in Environments
      PROVE  LET cfg == loadDeploymentQueueConfig(env)
                 k == forcedTransientFailures(env.transients)
             IN  Outcome(env.transients, cfg) =
                   IF k < cfg.maxAttempts THEN [attempts |-> k + 1, status |-> "succeeded"]
                   ELSE [attempts |-> cfg.maxAttempts, status |-> "failed"]
  <2> DEFINE cfg == loadDeploymentQueueConfig(env)
             raw == env.transients
             k == forcedTransientFailures(raw)
             m == cfg.maxAttempts
  <2>1. m \in 1..10
    BY Configuration
  <2>2. k \in 0..10
    <3>1. raw \in Raw
      BY LifecycleAssumption
    <3> HIDE DEF raw
    <3> QED BY <3>1 DEF forcedTransientFailures, Raw
  <2>3. \A n : Transient(raw, n) <=> k >= n
    BY DEF Transient
  <2> DEFINE Last(n) == ~Transient(raw, n) \/ n >= m
             First(n) == Last(n) /\ \A j \in 1..(n - 1) : ~Last(j)
             last == CHOOSE n \in 1..m : First(n)
             e == IF k < m THEN k + 1 ELSE m
  <2> HIDE DEF cfg, raw, k
  <2>4. Outcome(raw, cfg) =
          [attempts |-> last, status |-> IF Transient(raw, last) THEN "failed" ELSE "succeeded"]
    BY DEF Outcome
  <2> HIDE DEF m
  <2>5. e \in 1..m
    BY <2>1, <2>2
  <2>6. \A n \in 1..m : First(n) <=> n = e
    <3>1. \A n \in 1..m : Last(n) <=> n > k \/ n >= m
      BY <2>1, <2>2, <2>3
    <3> HIDE DEF Last
    <3>2. ASSUME NEW n \in 1..m, First(n)
          PROVE  n = e
      <4>1. n > k \/ n >= m
        BY <3>1, <3>2
      <4>2. n - 1 \in 1..m => ~(n - 1 > k \/ n - 1 >= m)
        <5>1. n - 1 \in 1..m => n - 1 \in 1..(n - 1)
          BY <2>1
        <5> QED BY <3>1, <3>2, <5>1
      <4> QED BY <2>1, <2>2, <4>1, <4>2
    <3>3. First(e)
      <4>1. Last(e)
        BY <2>1, <2>2, <2>5, <3>1
      <4>2. ASSUME NEW j \in 1..(e - 1)
            PROVE  ~Last(j)
        <5>1. j \in 1..m /\ j <= k /\ j < m
          BY <2>1, <2>2
        <5> QED BY <2>1, <2>2, <3>1, <5>1
      <4> QED BY <4>1, <4>2
    <3> HIDE DEF First, e
    <3> QED BY <3>2, <3>3
  <2> HIDE DEF First
  <2>7. last = e
    <3> HIDE DEF e
    <3> QED BY <2>5, <2>6
  <2>8. Outcome(raw, cfg) = IF k < m THEN [attempts |-> k + 1, status |-> "succeeded"]
                            ELSE [attempts |-> m, status |-> "failed"]
    <3> HIDE DEF last
    <3> QED BY <2>1, <2>2, <2>3, <2>4, <2>7
  <2> QED BY <2>8 DEF cfg, raw, k, m
<1>2. InjectionMeetsRetries
  BY <1>1 DEF InjectionMeetsRetries
<1> QED BY <1>2, PTL

=============================================================================
