------------------------ MODULE TemplateWatcherProofs ------------------------
(***************************************************************************)
(* Proofs, for every instance of the constants, of the invariants of       *)
(* TemplateWatcher and of its implementation of TemplateSource.            *)
(***************************************************************************)
EXTENDS TemplateWatcher, TLAPS

\* Everything that carries a version was written when the chain had it, and a
\* fetch in progress leads to a template no older than the tip the poll reported
\* and than the template it replaces.
Versions ==
  /\ seen <= version
  /\ pc = "connect" => seen = 0
  /\ reply # NoReply => reply.version <= version
  /\ draft # NoTemplate => draft.version <= version
  /\ cache # NoTemplate => cache.version <= version
  /\ pc \in Fetching /\ reply # NoReply =>
       /\ seen <= reply.version
       /\ cache # NoTemplate => cache.version <= reply.version
  /\ draft # NoTemplate =>
       /\ seen <= draft.version
       /\ cache # NoTemplate => cache.version <= draft.version

\* How old the template may be at each point of the round in progress.
Allowance == TemplateRefreshSecs + missed * Round
Ages ==
  /\ pc = "connect" => age = 0 /\ timer = 0
  /\ pc = "sleep" => age + timer <= Allowance + HeightCheckSecs
  /\ pc = "height" => age + timer <= Allowance + HeightCheckSecs + TemplateTimeoutSecs
  /\ pc \in Fetching => age + timer <= Allowance + Round
  /\ pc \in Ended => age <= Allowance + Round /\ timer = 0

\* What num_failures counts.
Counts ==
  /\ heightFails <= num_failures
  /\ num_failures <= heightFails + 1
  /\ num_failures <= MaxTemplateFailures + 1
  /\ pc = "connect" => num_failures = 0
  /\ pc \in Calling => num_failures <= MaxTemplateFailures
  /\ pc \in Fetching => num_failures = 0
  /\ pc = "failed" => num_failures > MaxTemplateFailures

\* How long a shutdown has waited at each point of the round in progress: a poll
\* is begun only before it, so what is left of the round is what it waits for.
Waits ==
  /\ ~shutdown \/ pc = "connect" => waited = 0
  /\ pc = "sleep" => waited + timer <= Round
  /\ pc = "height" => waited + timer <= TemplateTimeoutSecs
  /\ pc \in Fetching => waited + timer <= 2 * TemplateTimeoutSecs
  /\ pc \in {"connect"} \cup Ended => waited <= Round /\ timer = 0

\* The inductive invariant.
Inv ==
  /\ TypeOK
  /\ Versions
  /\ TemplateCoversTip
  /\ config.address_valid => Ages
  /\ Counts
  /\ Waits
-----------------------------------------------------------------------------
\* The rounds and the cap on age are numbers.
LEMMA BoundsAreNat == Round \in Nat /\ AgeCap \in Nat /\ MaxFaults * Round \in Nat
  <1>1. Round \in Nat
    BY ConfigAssumption DEF Round
  <1>2. \A m, n \in Nat : m * n \in Nat
    OBVIOUS
  <1> QED
    BY <1>1, <1>2, ConfigAssumption DEF AgeCap

\* The first state satisfies every part of the invariant.
LEMMA InitInv == Init => Inv
  <1> SUFFICES ASSUME Init PROVE Inv
    OBVIOUS
  <1>1. chain \in Tips /\ curr \in Tips
    BY DEF Init, TipsOf, Tips, NoTip
  <1>2. TypeOK
    <2>1. 0 \in 0 .. AgeCap /\ 0 \in 0 .. MaxFaults /\ 0 \in 0 .. MaxVersion
          /\ 0 \in 0 .. MaxTemplateFailures + 2 /\ 1 \in 1 .. MaxVersion
          /\ 0 \in 0 .. Round + 1
      BY ConfigAssumption, BoundsAreNat
    <2>2. 0 \in 0 .. 0 /\ 0 \in Nat
      OBVIOUS
    <2> QED
      BY <1>1, <2>1, <2>2 DEF Init, TypeOK
  <1>3. Versions /\ TemplateCoversTip
    BY ConfigAssumption DEF Init, Versions, TemplateCoversTip, Fetching
  <1>4. Ages /\ Counts /\ Waits
    BY ConfigAssumption, BoundsAreNat
    DEF Init, Ages, Counts, Waits, Calling, Fetching, Ended
  <1> QED
    BY <1>2, <1>3, <1>4 DEF Inv

\* The state keeps its types: every step of the task and of its environment.
LEMMA TypeStep == TypeOK /\ [Next]_vars => TypeOK'
  <1> SUFFICES ASSUME TypeOK, [Next]_vars PROVE TypeOK'
    OBVIOUS
  <1> USE ConfigAssumption, HashAssumption, NoneAssumption
  <1>1. CASE ChainMoves
    <2>1. TipsOf(config) \subseteq Tips
      BY DEF TipsOf, Tips
    <2> QED
      BY <1>1, <2>1 DEF ChainMoves, TypeOK, task, history
  <1>2. CASE NodeReplies
    <2>1. [tip |-> chain, version |-> version] \in Template
      BY DEF TypeOK, Template
    <2>2. reply' \in Template
      BY <1>2, <2>1 DEF NodeReplies, TypeOK
    <2> QED
      BY <1>2, <2>2 DEF NodeReplies, TypeOK, env, history
  <1>3. CASE TriggerShutdown
    BY <1>3 DEF TriggerShutdown, TypeOK, task, history
  <1>4. CASE Tick
    BY <1>4, BoundsAreNat DEF Tick, TypeOK, env, history
  <1>5. CASE AddressPanics
    BY <1>5 DEF AddressPanics, End, TypeOK, env, history, Calling, Fetching, Ended
  <1>6. CASE Connect
    BY <1>6, BoundsAreNat DEF Connect, GoToSleep, TypeOK, env, history
  <1>7. CASE GiveUp
    BY <1>7 DEF GiveUp, Awake, End, TypeOK, env, history, Ended
  <1>8. CASE Stop
    BY <1>8 DEF Stop, Awake, End, TypeOK, env, history, Ended
  <1>9. CASE PollHeight
    BY <1>9 DEF PollHeight, Awake, Call, TypeOK, env, history, Calling
  <1>10. CASE HeightFails
    BY <1>10 DEF HeightFails, GoToSleep, TypeOK, env
  <1>11. HeightArrives => /\ curr' \in Tips
                         /\ seen' \in 0 .. MaxVersion
    BY DEF HeightArrives, TypeOK, Template
  <1>12. CASE HeightUnchanged
    BY <1>11, <1>12 DEF HeightUnchanged, HeightArrives, GoToSleep, TypeOK, env
  <1>13. CASE HeightRefresh
    <2>1. pc' \in Fetching /\ (pc' = "newblock" <=> config.p2pool_enabled)
      BY <1>13 DEF HeightRefresh, Call, Fetching
    <2> QED
      BY <1>11, <1>13, <2>1 DEF HeightRefresh, HeightArrives, Call, TypeOK, env,
         Calling, Fetching
  <1>14. CASE HeightRefreshBadAddress
    BY <1>11, <1>14 DEF HeightRefreshBadAddress, HeightArrives, GoToSleep,
       OneMoreTemplateFails, TypeOK, env
  <1>15. CASE TemplateArrives
    BY <1>15 DEF TemplateArrives, TypeOK, env, history, Calling, Fetching
  <1>16. CASE NewBlockArrives
    BY <1>16, BoundsAreNat DEF NewBlockArrives, GoToSleep, TypeOK, env
  <1>17. CASE FetchFails
    BY <1>17 DEF FetchFails, GoToSleep, OneMoreTemplateFails, TypeOK, env
  <1>18. CASE FetchPanics
    BY <1>18 DEF FetchPanics, End, TypeOK, env, Ended
  <1>19. CASE UNCHANGED vars
    BY <1>19 DEF vars, env, task, history, TypeOK
  <1> QED
    BY <1>1, <1>2, <1>3, <1>4, <1>5, <1>6, <1>7, <1>8, <1>9, <1>10, <1>12, <1>13,
       <1>14, <1>15, <1>16, <1>17, <1>18, <1>19 DEF Next, Watcher, Terminated

\* The state of the task keeps its type in every behaviour.
THEOREM TypeCorrect == Spec => []TypeOK
  <1>1. Init => TypeOK
    BY InitInv DEF Inv
  <1> QED
    BY <1>1, TypeStep, PTL DEF Spec
-----------------------------------------------------------------------------
\* What is in flight or cached stays ordered by version.
LEMMA VersionsStep == TypeOK /\ Versions /\ [Next]_vars => Versions'
  <1> SUFFICES ASSUME TypeOK, Versions, [Next]_vars PROVE Versions'
    OBVIOUS
  <1> USE ConfigAssumption, NoneAssumption, BoundsAreNat DEF TypeOK, Versions, Template
  <1>1. CASE ChainMoves
    BY <1>1 DEF ChainMoves, task, history
  <1>2. CASE NodeReplies
    BY <1>2 DEF NodeReplies, env, history, Calling, Fetching
  <1>3. CASE TriggerShutdown
    BY <1>3 DEF TriggerShutdown, task, history
  <1>4. CASE Tick
    BY <1>4 DEF Tick, env, history
  <1>5. CASE AddressPanics
    BY <1>5 DEF AddressPanics, End, env, history, Fetching
  <1>6. CASE Connect
    BY <1>6 DEF Connect, GoToSleep, env, history, Fetching
  <1>7. CASE GiveUp
    BY <1>7 DEF GiveUp, Awake, End, env, history, Fetching
  <1>8. CASE Stop
    BY <1>8 DEF Stop, Awake, End, env, history, Fetching
  <1>9. CASE PollHeight
    BY <1>9 DEF PollHeight, Awake, Call, env, history, Fetching
  <1>10. CASE HeightFails
    BY <1>10 DEF HeightFails, GoToSleep, env, Fetching
  <1>11. CASE HeightUnchanged
    BY <1>11 DEF HeightUnchanged, HeightArrives, GoToSleep, env, Fetching
  <1>12. CASE HeightRefresh
    BY <1>12 DEF HeightRefresh, HeightArrives, Call, env, Fetching
  <1>13. CASE HeightRefreshBadAddress
    BY <1>13 DEF HeightRefreshBadAddress, HeightArrives, GoToSleep, OneMoreTemplateFails, env, Fetching
  <1>14. CASE TemplateArrives
    BY <1>14 DEF TemplateArrives, env, history, Fetching
  <1>15. CASE NewBlockArrives
    BY <1>15 DEF NewBlockArrives, GoToSleep, env, Fetching
  <1>16. CASE FetchFails
    BY <1>16 DEF FetchFails, GoToSleep, OneMoreTemplateFails, env, Fetching
  <1>17. CASE FetchPanics
    BY <1>17 DEF FetchPanics, End, env, Fetching
  <1>18. CASE UNCHANGED vars
    BY <1>18 DEF vars, env, task, history
  <1> QED
    BY <1>1, <1>2, <1>3, <1>4, <1>5, <1>6, <1>7, <1>8, <1>9,
       <1>10, <1>11, <1>12, <1>13, <1>14, <1>15, <1>16, <1>17, <1>18
    DEF Next, Watcher, Terminated

\* num_failures keeps counting the polls that failed in a row.
LEMMA CountsStep == TypeOK /\ Counts /\ [Next]_vars => Counts'
  <1> SUFFICES ASSUME TypeOK, Counts, [Next]_vars PROVE Counts'
    OBVIOUS
  <1> USE ConfigAssumption, NoneAssumption, BoundsAreNat DEF TypeOK, Counts, Calling, Fetching, Ended
  <1>1. CASE ChainMoves
    BY <1>1 DEF ChainMoves, task, history
  <1>2. CASE NodeReplies
    BY <1>2 DEF NodeReplies, env, history, Calling, Fetching
  <1>3. CASE TriggerShutdown
    BY <1>3 DEF TriggerShutdown, task, history
  <1>4. CASE Tick
    BY <1>4 DEF Tick, env, history
  <1>5. CASE AddressPanics
    BY <1>5 DEF AddressPanics, End, env, history, Fetching
  <1>6. CASE Connect
    BY <1>6 DEF Connect, GoToSleep, env, history, Fetching
  <1>7. CASE GiveUp
    BY <1>7 DEF GiveUp, Awake, End, env, history, Fetching
  <1>8. CASE Stop
    BY <1>8 DEF Stop, Awake, End, env, history, Fetching
  <1>9. CASE PollHeight
    BY <1>9 DEF PollHeight, Awake, Call, env, history, Fetching
  <1>10. CASE HeightFails
    BY <1>10 DEF HeightFails, GoToSleep, env, Fetching
  <1>11. CASE HeightUnchanged
    BY <1>11 DEF HeightUnchanged, HeightArrives, GoToSleep, env, Fetching
  <1>12. CASE HeightRefresh
    BY <1>12 DEF HeightRefresh, HeightArrives, Call, env, Fetching
  <1>13. CASE HeightRefreshBadAddress
    BY <1>13 DEF HeightRefreshBadAddress, HeightArrives, GoToSleep, OneMoreTemplateFails, env, Fetching
  <1>14. CASE TemplateArrives
    BY <1>14 DEF TemplateArrives, env, history, Fetching
  <1>15. CASE NewBlockArrives
    BY <1>15 DEF NewBlockArrives, GoToSleep, env, Fetching
  <1>16. CASE FetchFails
    BY <1>16 DEF FetchFails, GoToSleep, OneMoreTemplateFails, env, Fetching
  <1>17. CASE FetchPanics
    BY <1>17 DEF FetchPanics, End, env, Fetching
  <1>18. CASE UNCHANGED vars
    BY <1>18 DEF vars, env, task, history
  <1> QED
    BY <1>1, <1>2, <1>3, <1>4, <1>5, <1>6, <1>7, <1>8, <1>9,
       <1>10, <1>11, <1>12, <1>13, <1>14, <1>15, <1>16, <1>17, <1>18
    DEF Next, Watcher, Terminated

\* The template never outlives its allowance.
LEMMA AgesStep == TypeOK /\ Ages /\ config.address_valid /\ [Next]_vars => Ages'
  <1> SUFFICES ASSUME TypeOK, Ages, config.address_valid, [Next]_vars PROVE Ages'
    OBVIOUS
  <1> USE ConfigAssumption, NoneAssumption, BoundsAreNat DEF TypeOK, Ages, Calling, Fetching, Ended
  <1>a. Round = HeightCheckSecs + 2 * TemplateTimeoutSecs
    BY DEF Round
  <1>b. Allowance \in Nat
    <2>1. \A m, n \in Nat : m * n \in Nat
      OBVIOUS
    <2> QED
      BY <2>1 DEF Allowance
  <1>c. missed' = missed => Allowance' = Allowance
    BY DEF Allowance
  <1>d. missed' = missed + 1 => Allowance' = Allowance + Round
    <2>1. \A m, n \in Nat : (m + 1) * n = m * n + n
      OBVIOUS
    <2>2. missed \in Nat /\ missed * Round \in Nat
      OBVIOUS
    <2>3. (missed + 1) * Round = missed * Round + Round
      BY <2>1, <2>2
    <2> QED
      BY <2>2, <2>3 DEF Allowance
  <1>e. missed' = 0 => Allowance' = TemplateRefreshSecs
    <2>1. \A n \in Nat : 0 * n = 0
      OBVIOUS
    <2> QED
      BY <2>1 DEF Allowance
  <1>f. TemplateRefreshSecs <= Allowance
    <2>1. missed * Round \in Nat
      OBVIOUS
    <2> QED
      BY <2>1 DEF Allowance
  <1>1. CASE ChainMoves
    BY <1>1, <1>a, <1>b, <1>c, <1>d, <1>e, <1>f DEF ChainMoves, task, history
  <1>2. CASE NodeReplies
    BY <1>2, <1>a, <1>b, <1>c, <1>d, <1>e, <1>f DEF NodeReplies, env, history, Calling, Fetching
  <1>3. CASE TriggerShutdown
    BY <1>3, <1>a, <1>b, <1>c, <1>d, <1>e, <1>f DEF TriggerShutdown, task, history
  <1>4. CASE Tick
    BY <1>4, <1>a, <1>b, <1>c, <1>d, <1>e, <1>f DEF Tick, env, history
  <1>5. CASE AddressPanics
    BY <1>5, <1>a, <1>b, <1>c, <1>d, <1>e, <1>f DEF AddressPanics, End, env, history, Fetching
  <1>6. CASE Connect
    BY <1>6, <1>a, <1>b, <1>c, <1>d, <1>e, <1>f DEF Connect, GoToSleep, env, history, Fetching
  <1>7. CASE GiveUp
    BY <1>7, <1>a, <1>b, <1>c, <1>d, <1>e, <1>f DEF GiveUp, Awake, End, env, history, Fetching
  <1>8. CASE Stop
    BY <1>8, <1>a, <1>b, <1>c, <1>d, <1>e, <1>f DEF Stop, Awake, End, env, history, Fetching
  <1>9. CASE PollHeight
    BY <1>9, <1>a, <1>b, <1>c, <1>d, <1>e, <1>f DEF PollHeight, Awake, Call, env, history, Fetching
  <1>10. CASE HeightFails
    BY <1>10, <1>a, <1>b, <1>c, <1>d, <1>e, <1>f DEF HeightFails, GoToSleep, env, Fetching
  <1>11. CASE HeightUnchanged
    BY <1>11, <1>a, <1>b, <1>c, <1>d, <1>e, <1>f DEF HeightUnchanged, HeightArrives, MustRefresh, GoToSleep, env, Fetching
  <1>12. CASE HeightRefresh
    BY <1>12, <1>a, <1>b, <1>c, <1>d, <1>e, <1>f DEF HeightRefresh, HeightArrives, Call, MustRefresh, env, Fetching
  <1>13. CASE HeightRefreshBadAddress
    BY <1>13, <1>a, <1>b, <1>c, <1>d, <1>e, <1>f DEF HeightRefreshBadAddress, HeightArrives, GoToSleep, OneMoreTemplateFails, env, Fetching
  <1>14. CASE TemplateArrives
    BY <1>14, <1>a, <1>b, <1>c, <1>d, <1>e, <1>f DEF TemplateArrives, env, history, Fetching
  <1>15. CASE NewBlockArrives
    BY <1>15, <1>a, <1>b, <1>c, <1>d, <1>e, <1>f DEF NewBlockArrives, GoToSleep, env, Fetching
  <1>16. CASE FetchFails
    BY <1>16, <1>a, <1>b, <1>c, <1>d, <1>e, <1>f DEF FetchFails, GoToSleep, OneMoreTemplateFails, env, Fetching
  <1>17. CASE FetchPanics
    BY <1>17, <1>a, <1>b, <1>c, <1>d, <1>e, <1>f DEF FetchPanics, End, env, Fetching
  <1>18. CASE UNCHANGED vars
    BY <1>18, <1>a, <1>b, <1>c, <1>d, <1>e, <1>f DEF vars, env, task, history
  <1> QED
    BY <1>1, <1>2, <1>3, <1>4, <1>5, <1>6, <1>7, <1>8, <1>9,
       <1>10, <1>11, <1>12, <1>13, <1>14, <1>15, <1>16, <1>17, <1>18
    DEF Next, Watcher, Terminated

\* A shutdown waits for the rest of its round and no longer.
LEMMA WaitsStep == TypeOK /\ Waits /\ [Next]_vars => Waits'
  <1> SUFFICES ASSUME TypeOK, Waits, [Next]_vars PROVE Waits'
    OBVIOUS
  <1> USE ConfigAssumption, NoneAssumption, BoundsAreNat DEF TypeOK, Waits, Round, Calling, Fetching, Ended
  <1>1. CASE ChainMoves
    BY <1>1 DEF ChainMoves, task, history
  <1>2. CASE NodeReplies
    BY <1>2 DEF NodeReplies, env, history, Calling, Fetching
  <1>3. CASE TriggerShutdown
    BY <1>3 DEF TriggerShutdown, task, history
  <1>4. CASE Tick
    BY <1>4 DEF Tick, env, history
  <1>5. CASE AddressPanics
    BY <1>5 DEF AddressPanics, End, env, history, Fetching
  <1>6. CASE Connect
    BY <1>6 DEF Connect, GoToSleep, env, history, Fetching
  <1>7. CASE GiveUp
    BY <1>7 DEF GiveUp, Awake, End, env, history, Fetching
  <1>8. CASE Stop
    BY <1>8 DEF Stop, Awake, End, env, history, Fetching
  <1>9. CASE PollHeight
    BY <1>9 DEF PollHeight, Awake, Call, env, history, Fetching
  <1>10. CASE HeightFails
    BY <1>10 DEF HeightFails, GoToSleep, env, Fetching
  <1>11. CASE HeightUnchanged
    BY <1>11 DEF HeightUnchanged, HeightArrives, GoToSleep, env, Fetching
  <1>12. CASE HeightRefresh
    BY <1>12 DEF HeightRefresh, HeightArrives, Call, env, Fetching
  <1>13. CASE HeightRefreshBadAddress
    BY <1>13 DEF HeightRefreshBadAddress, HeightArrives, GoToSleep, OneMoreTemplateFails, env, Fetching
  <1>14. CASE TemplateArrives
    BY <1>14 DEF TemplateArrives, env, history, Fetching
  <1>15. CASE NewBlockArrives
    BY <1>15 DEF NewBlockArrives, GoToSleep, env, Fetching
  <1>16. CASE FetchFails
    BY <1>16 DEF FetchFails, GoToSleep, OneMoreTemplateFails, env, Fetching
  <1>17. CASE FetchPanics
    BY <1>17 DEF FetchPanics, End, env, Fetching
  <1>18. CASE UNCHANGED vars
    BY <1>18 DEF vars, env, task, history
  <1> QED
    BY <1>1, <1>2, <1>3, <1>4, <1>5, <1>6, <1>7, <1>8, <1>9,
       <1>10, <1>11, <1>12, <1>13, <1>14, <1>15, <1>16, <1>17, <1>18
    DEF Next, Watcher, Terminated

\* The template keeps covering the tip last reported.
LEMMA CoverStep == TypeOK /\ Versions /\ TemplateCoversTip /\ [Next]_vars => TemplateCoversTip'
  <1> SUFFICES ASSUME TypeOK, Versions, TemplateCoversTip, [Next]_vars PROVE TemplateCoversTip'
    OBVIOUS
  <1> USE ConfigAssumption, NoneAssumption, BoundsAreNat DEF TypeOK, Versions, TemplateCoversTip, Template
  <1>1. CASE ChainMoves
    BY <1>1 DEF ChainMoves, task, history
  <1>2. CASE NodeReplies
    BY <1>2 DEF NodeReplies, env, history, Calling, Fetching
  <1>3. CASE TriggerShutdown
    BY <1>3 DEF TriggerShutdown, task, history
  <1>4. CASE Tick
    BY <1>4 DEF Tick, env, history
  <1>5. CASE AddressPanics
    BY <1>5 DEF AddressPanics, End, env, history, Fetching
  <1>6. CASE Connect
    BY <1>6 DEF Connect, GoToSleep, env, history, Fetching
  <1>7. CASE GiveUp
    BY <1>7 DEF GiveUp, Awake, End, env, history, Fetching
  <1>8. CASE Stop
    BY <1>8 DEF Stop, Awake, End, env, history, Fetching
  <1>9. CASE PollHeight
    BY <1>9 DEF PollHeight, Awake, Call, env, history, Fetching
  <1>10. CASE HeightFails
    BY <1>10 DEF HeightFails, GoToSleep, env, Fetching
  <1>11. CASE HeightUnchanged
    <2>1. reply.tip = curr
      BY <1>11 DEF HeightUnchanged, HeightArrives, MustRefresh, ChainChanged, Tips
    <2> QED
      BY <1>11, <2>1 DEF HeightUnchanged, HeightArrives, GoToSleep, env, Fetching
  <1>12. CASE HeightRefresh
    BY <1>12 DEF HeightRefresh, HeightArrives, Call, env, Fetching
  <1>13. CASE HeightRefreshBadAddress
    BY <1>13 DEF HeightRefreshBadAddress, HeightArrives, GoToSleep, OneMoreTemplateFails, env, Fetching
  <1>14. CASE TemplateArrives
    BY <1>14 DEF TemplateArrives, env, history, Fetching
  <1>15. CASE NewBlockArrives
    BY <1>15 DEF NewBlockArrives, GoToSleep, env, Fetching
  <1>16. CASE FetchFails
    BY <1>16 DEF FetchFails, GoToSleep, OneMoreTemplateFails, env, Fetching
  <1>17. CASE FetchPanics
    BY <1>17 DEF FetchPanics, End, env, Fetching
  <1>18. CASE UNCHANGED vars
    BY <1>18 DEF vars, env, task, history
  <1> QED
    BY <1>1, <1>2, <1>3, <1>4, <1>5, <1>6, <1>7, <1>8, <1>9,
       <1>10, <1>11, <1>12, <1>13, <1>14, <1>15, <1>16, <1>17, <1>18
    DEF Next, Watcher, Terminated

-----------------------------------------------------------------------------
\* Inv is inductive.
LEMMA InvStep == Inv /\ [Next]_vars => Inv'
  <1> SUFFICES ASSUME Inv, [Next]_vars PROVE Inv'
    OBVIOUS
  <1>1. config' = config
    BY DEF Next, Watcher, Terminated, vars, env, ChainMoves, NodeReplies,
       TriggerShutdown, Tick, AddressPanics, Connect, GiveUp, Stop, PollHeight,
       HeightFails, HeightUnchanged, HeightRefresh, HeightRefreshBadAddress,
       HeightArrives, TemplateArrives, NewBlockArrives, FetchFails, FetchPanics
  <1>2. TypeOK' /\ Versions' /\ TemplateCoversTip' /\ Counts' /\ Waits'
    BY TypeStep, VersionsStep, CoverStep, CountsStep, WaitsStep DEF Inv
  <1>3. config'.address_valid => Ages'
    BY <1>1, AgesStep DEF Inv
  <1> QED
    BY <1>2, <1>3 DEF Inv

THEOREM Invariance == Spec => []Inv
  BY InitInv, InvStep, PTL DEF Spec

\* The template in the cache covers the last tip change a poll reported, unless
\* the fetch for it failed (run_template_height_watcher, main.rs 652-704).
THEOREM TipCovered == Spec => []TemplateCoversTip
  <1>1. Inv => TemplateCoversTip
    BY DEF Inv
  <1> QED
    BY <1>1, Invariance, PTL

\* The template's age stays within the refresh time and one round per failed
\* call, for every setting of the intervals (main.rs 617-704).
THEOREM AgeBounded == Spec => []TemplateAgeBounded
  <1>1. Inv => TemplateAgeBounded
    <2> SUFFICES ASSUME Inv, config.address_valid
                 PROVE  age <= TemplateRefreshSecs + (missed + 1) * Round
      BY DEF TemplateAgeBounded
    <2> USE ConfigAssumption, BoundsAreNat DEF Inv, TypeOK
    <2>1. missed \in Nat /\ age \in Nat /\ timer \in Nat
      OBVIOUS
    <2>2. \A m, n \in Nat : m * n \in Nat /\ (m + 1) * n = m * n + n
      OBVIOUS
    <2>3. missed * Round \in Nat /\ (missed + 1) * Round = missed * Round + Round
      BY <2>1, <2>2
    <2>4. HeightCheckSecs + TemplateTimeoutSecs <= Round
      BY DEF Round
    <2>5. age <= Allowance + Round
      BY <2>1, <2>3, <2>4 DEF Ages, Allowance, Calling, Fetching, Ended
    <2> QED
      BY <2>1, <2>3, <2>5 DEF Allowance
  <1> QED
    BY <1>1, Invariance, PTL

\* The task gives up exactly for polls failing in a row (main.rs 623-651).
THEOREM GivesUpInTime == Spec => []GiveUpBounds
  <1>1. Inv => GiveUpBounds
    BY ConfigAssumption DEF Inv, TypeOK, Counts, GiveUpBounds
  <1> QED
    BY <1>1, Invariance, PTL

\* A shutdown is obeyed within one round of sleep, poll and fetch, whatever fails
\* or answers late, for every setting of the intervals (main.rs 620-682).
THEOREM ObeysInTime == Spec => []StopsInTime
  <1>1. Inv => StopsInTime
    BY ConfigAssumption
    DEF Inv, TypeOK, Waits, StopsInTime, Round, Calling, Fetching, Ended
  <1> QED
    BY <1>1, Invariance, PTL

-----------------------------------------------------------------------------
\* Every step of the watcher is a step of the abstract source or a stutter.
LEMMA SourceStep == Inv /\ [Next]_vars => [Source!Next]_(Source!vars)
  <1> SUFFICES ASSUME Inv, [Next]_vars PROVE [Source!Next]_(Source!vars)
    OBVIOUS
  <1> DEFINE published == IF cache = NoTemplate THEN 0 ELSE cache.version
             status == IF pc \in Ended THEN pc ELSE "running"
             Same == published' = published /\ version' = version /\ status' = status
  <1> USE NoneAssumption DEF Inv, TypeOK, Ended, Calling, Fetching
  <1>1. Same => UNCHANGED Source!vars
    BY DEF Source!vars
  <1>2. CASE ChainMoves
    <2>1. Source!TipMoves
      BY <1>2 DEF ChainMoves, task, Source!TipMoves
    <2> QED
      BY <2>1 DEF Source!Next
  <1>3. CASE NewBlockArrives
    <2>1. reply \in Template /\ published' = reply.version /\ version' = version
      BY <1>3 DEF NewBlockArrives, env
    <2>2. reply.version \in 1 .. version /\ published <= reply.version
      BY <1>3, <2>1, ConfigAssumption DEF NewBlockArrives, Versions, Template
    <2>3. status = "running" /\ status' = "running"
      BY <1>3 DEF NewBlockArrives, GoToSleep
    <2>4. Source!Publish
      BY <2>1, <2>2, <2>3 DEF Source!Publish
    <2> QED
      BY <2>4 DEF Source!Next
  <1>4. CASE AddressPanics \/ GiveUp \/ Stop \/ FetchPanics
    <2>1. status = "running" /\ status' \in Ended
          /\ published' = published /\ version' = version
      BY <1>4 DEF AddressPanics, GiveUp, Stop, FetchPanics, Awake, End, env
    <2>2. Source!End
      BY <2>1 DEF Source!End, Source!Ended
    <2> QED
      BY <2>2 DEF Source!Next
  <1>5. CASE NodeReplies \/ TriggerShutdown \/ Tick
    <2>1. Same
      BY <1>5 DEF NodeReplies, TriggerShutdown, Tick, env, task
    <2> QED
      BY <1>1, <2>1
  <1>6. CASE Connect \/ PollHeight \/ HeightFails \/ TemplateArrives \/ FetchFails
    <2>1. Same
      BY <1>6 DEF Connect, PollHeight, HeightFails, TemplateArrives, FetchFails,
         Awake, GoToSleep, Call, env
    <2> QED
      BY <1>1, <2>1
  <1>7. CASE HeightUnchanged \/ HeightRefresh \/ HeightRefreshBadAddress
    <2>1. Same
      BY <1>7 DEF HeightUnchanged, HeightRefresh, HeightRefreshBadAddress,
         HeightArrives, GoToSleep, Call, env
    <2> QED
      BY <1>1, <2>1
  <1>8. CASE UNCHANGED vars
    <2>1. Same
      BY <1>8 DEF vars, env, task
    <2> QED
      BY <1>1, <2>1
  <1> QED
    BY <1>2, <1>3, <1>4, <1>5, <1>6, <1>7, <1>8 DEF Next, Watcher, Terminated

\* The watcher implements the template source the mining threads rely on: once
\* there is a template there always is, built on a tip no older than before, and
\* nothing is published after the task has ended (main.rs 98-101, 601-717).
THEOREM ImplementsSource == Spec => SourceSpec
  <1>1. Init => Source!Init
    BY DEF Init, Source!Init, Ended
  <1> QED
    BY <1>1, Invariance, SourceStep, PTL DEF Spec, SourceSpec, Source!Spec
=============================================================================
