--------------------------- MODULE DaliChannelProofs ---------------------------
(***************************************************************************)
(* Proofs about DaliChannel, for any number of fades, automations and      *)
(* restore threads, any percentages and durations, any number of commands  *)
(* and failures.                                                           *)
(***************************************************************************)
EXTENDS DaliChannel, TLAPS

\* Nobody but t is inside set_brightness().
Alone(t) == \A u \in Threads : Pulsing(u) => u = t

\* The controller is at p, or t's pulse is bringing it there.
Commits(t, p) ==
  /\ pct[t] = p /\ Alone(t)
  /\ at[t] = "level" => ~flag
  /\ at[t] = "set" => ~flag /\ level = pct_to_byte(p)
  /\ at[t] = "hold" => flag /\ level = pct_to_byte(p) /\ (seen => actual = pct_to_byte(p))

\* Nothing is on its way and the channel is at the level asked for.
Arrived ==
  /\ \A u \in Threads : ~Pulsing(u)
  /\ flag => seen
  /\ byte_to_pct(actual) = last

\* A superseded fade is inside set_brightness() only while the newest is at its
\* first step, and it leaves before the newest does.
TokenInv ==
  \A g \in Fades :
    newest # None /\ g # newest /\ Pulsing(g)
      => fade[newest].i = 1 /\ (Pulsing(newest) => g \in ahead[newest])

NoLive == \A f \in Fades : ~Live(f)

\* A one-pulse command that owns the outcome.
DirectOwner ==
  owner # None /\ owner \notin Fades /\ ~(owner \in Restorers /\ Waiting(owner)) =>
    /\ NoLive /\ \A r \in Restorers : ~Waiting(r)
    /\ at[owner] = "idle" => Arrived
    /\ Pulsing(owner) => Commits(owner, last)

\* A flash that owns the outcome, before its restore.
FlashOwner ==
  owner \in Restorers /\ Waiting(owner) =>
    /\ NoLive /\ pct[owner] = last
    /\ \A r \in Restorers : Waiting(r) => r = owner
    /\ Alone(Web)
    /\ at[Web] \in {"idle", "level", "set"} => ~flag
    /\ at[owner] = "sleep" => ~Pulsing(Web)

\* A fade that owns the outcome: it holds the token, everyone ahead of it is
\* gone by its second step, and its last step commits the target.
FadeOwner ==
  owner \in Fades =>
    /\ newest = owner /\ fade[owner].target = last
    /\ \A r \in Restorers : ~Waiting(r)
    /\ at[owner] = "idle" => Arrived
    /\ at[owner] = "read" => fade[owner].i = 1
    /\ Pulsing(owner) => \A u \in Threads : Pulsing(u) => u = owner \/ u \in ahead[owner]
    /\ fade[owner].i > 1 /\ at[owner] = "step" => ~flag /\ \A u \in Threads : ~Pulsing(u)
    /\ fade[owner].i > 1 /\ Pulsing(owner) => Commits(owner, pct[owner])
    /\ fade[owner].i = fade[owner].n /\ Pulsing(owner) => pct[owner] = last

\* What is known of the thread that decides the outcome.
OwnerInv == DirectOwner /\ FlashOwner /\ FadeOwner

\* The inductive invariant.
IInv == TypeOK /\ TokenInv /\ FadesNeverFight /\ OwnerInv

--------------------------------------------------------------------------------
(* Percentages, bytes and steps. *)

\* A percentage survives the way to the controller and back.
LEMMA RoundTrip ==
  ASSUME NEW p \in 0..100
  PROVE  pct_to_byte(p) \in 0..254 /\ byte_to_pct(pct_to_byte(p)) = p
  BY DEF pct_to_byte, byte_to_pct, Clamp

\* Whatever the controller reads is a percentage.
LEMMA ByteRange ==
  ASSUME NEW b \in 0..254
  PROVE  byte_to_pct(b) \in 0..100
  BY DEF byte_to_pct, Clamp

\* A fade makes 2 to 16 steps.
LEMMA StepCountRange ==
  ASSUME NEW ms \in Durations
  PROVE  StepCount(ms) \in 2..16
  BY DataAssumption DEF StepCount

\* The locals a fade starts with.
LEMMA FreshFade ==
  ASSUME NEW p \in Pct, NEW n \in 2..16
  PROVE  /\ NewFade(p, n) \in FadeLocals
         /\ NewFade(p, n).target = p /\ NewFade(p, n).i = 1 /\ NewFade(p, n).n = n
  BY DEF FadeLocals, NewFade, Pct

\* The last step of a fade is its target.
LEMMA LastStep ==
  ASSUME NEW f \in FadeLocals,
         f.i = f.n, NEW p \in StepLevels(f)
  PROVE  p = f.target
<1> DEFINE s == f.start
           t == f.target
           n == f.n
<1>1. s \in 0..100 /\ t \in 0..100 /\ n \in 2..16 /\ p \in 0..100
  BY DEF StepLevels, FadeLocals, Pct
<1>2. /\ 2 * (p * n - s * n - (t - s) * n) <= n
      /\ -(2 * (p * n - s * n - (t - s) * n)) <= n
  BY DEF StepLevels, FadeLocals
<1> HIDE DEF s, t, n
<1>3. p * n - s * n - (t - s) * n = (p - t) * n
  BY <1>1
<1>4. (p - t) * n \in Int /\ 2 * ((p - t) * n) <= n /\ -(2 * ((p - t) * n)) <= n
  BY <1>1, <1>2, <1>3
<1>5. ~(p - t >= 1)
  <2>1. SUFFICES ASSUME p - t >= 1 PROVE FALSE
    OBVIOUS
  <2>2. (p - t) * n >= n
    BY <1>1, <2>1
  <2> QED BY <1>1, <1>4, <2>2
<1>6. ~(p - t <= -1)
  <2>1. SUFFICES ASSUME p - t <= -1 PROVE FALSE
    OBVIOUS
  <2>2. (p - t) * n <= -n
    BY <1>1, <2>1
  <2> QED BY <1>1, <1>4, <2>2
<1>7. p = t
  BY <1>1, <1>5, <1>6
<1> QED BY <1>7 DEF t

--------------------------------------------------------------------------------
(* Types *)

\* The channel starts well typed.
LEMMA InitType ==
  Init => TypeOK
<1> SUFFICES ASSUME Init PROVE TypeOK
  OBVIOUS
<1>1. actual \in 0..254 /\ byte_to_pct(actual) \in 0..100
  <2>1. actual \in 0..254
    BY DataAssumption DEF Init
  <2> QED BY <2>1, ByteRange
<1>2. NewFade(0, 2) \in FadeLocals /\ NewFade(0, 2).i <= NewFade(0, 2).n
  <2>1. 0 \in Pct /\ 2 \in 2..16
    BY DEF Pct
  <2> QED BY <2>1, FreshFade
<1>3. /\ at \in [Threads -> Places] /\ pct \in [Threads -> Pct]
      /\ ahead \in [Threads -> SUBSET Threads]
      /\ \A t \in Threads : at[t] = "idle"
  BY DEF Init, Places, Pct
<1>4. fade \in [Fades -> FadeLocals] /\ \A f \in Fades : fade[f].i <= fade[f].n
  BY <1>2 DEF Init
<1>5. /\ \A t \in {Web} \cup Rules : at[t] \notin {"armed", "sleep", "read", "step"}
      /\ \A f \in Fades : at[f] \notin {"armed", "sleep"}
      /\ \A r \in Restorers : at[r] \notin {"read", "step"}
  BY <1>3 DEF Threads
<1>6. flag \in BOOLEAN /\ seen \in BOOLEAN
  BY DEF Init
<1>7. newest \in Fades \cup {None} /\ owner \in Threads \cup {None}
  BY DEF Init
<1>8. /\ level \in 0..254 /\ commands \in 0..MaxCommands
      /\ events \in 0..MaxEvents /\ last \in Pct
  BY <1>1, DataAssumption DEF Init, Pct
<1> QED BY <1>1, <1>3, <1>4, <1>5, <1>6, <1>7, <1>8 DEF TypeOK

\* A failed ADS call, with or without the Modbus write after it, keeps the types.
LEMMA AbandonType ==
  ASSUME TypeOK, NEW t \in Threads, Abandon(t), actual' \in 0..254
  PROVE  TypeOK'
<1>1. /\ at' \in [Threads -> Places]
      /\ \A u \in {Web} \cup Rules : at'[u] \notin {"armed", "sleep", "read", "step"}
      /\ \A f \in Fades : at'[f] \notin {"armed", "sleep"}
      /\ \A r \in Restorers : at'[r] \notin {"read", "step"}
  BY DEF Abandon, TypeOK, Threads, Places
<1>2. ahead' \in [Threads -> SUBSET Threads]
  BY DEF Abandon, Without, TypeOK
<1>3. events' \in 0..MaxEvents /\ owner' \in Threads \cup {None}
  BY DataAssumption DEF Abandon, TypeOK
<1> QED BY <1>1, <1>2, <1>3 DEF Abandon, TypeOK

\* Every step keeps the types.
LEMMA NextType ==
  TypeOK /\ [Next]_vars => TypeOK'
<1> SUFFICES ASSUME TypeOK, [Next]_vars PROVE TypeOK'
  OBVIOUS
<1>1. ASSUME NEW t \in Threads, WriteLevel(t) PROVE TypeOK'
  <2>1. pct_to_byte(pct[t]) \in 0..254
    <3>1. pct[t] \in 0..100
      BY DEF TypeOK, Pct
    <3> QED BY <3>1, RoundTrip
  <2> QED BY <1>1, <2>1 DEF WriteLevel, TypeOK, Places
<1>2. ASSUME NEW t \in Threads, WriteSet(t) PROVE TypeOK'
  BY <1>2 DEF WriteSet, TypeOK, Places
<1>3. ASSUME NEW t \in Threads, WriteReset(t) PROVE TypeOK'
  <2>1. /\ at' \in [Threads -> Places]
        /\ \A u \in {Web} \cup Rules : at'[u] \notin {"armed", "sleep", "read", "step"}
        /\ \A f \in Fades : at'[f] \notin {"armed", "sleep"}
        /\ \A r \in Restorers : at'[r] \notin {"read", "step"}
    BY <1>3, ThreadAssumption DEF WriteReset, AfterPulse, TypeOK, Places, Threads
  <2>2. /\ fade' \in [Fades -> FadeLocals]
        /\ \A f \in Fades : fade'[f].i <= fade'[f].n
    <3>1. ASSUME NEW f \in Fades
          PROVE  /\ fade'[f] \in FadeLocals
                 /\ fade'[f].i <= fade'[f].n
      BY <1>3 DEF WriteReset, TypeOK, FadeLocals
    <3> QED BY <1>3, <3>1 DEF WriteReset
  <2>3. ahead' \in [Threads -> SUBSET Threads]
    BY <1>3 DEF WriteReset, Without, TypeOK
  <2> QED BY <1>3, <2>1, <2>2, <2>3 DEF WriteReset, TypeOK
<1>4. ASSUME NEW f \in Fades, FadeRead(f) PROVE TypeOK'
  <2>1. byte_to_pct(actual) \in 0..100
    <3>1. actual \in 0..254
      BY DEF TypeOK
    <3> QED BY <3>1, ByteRange
  <2>2. [fade[f] EXCEPT !.start = byte_to_pct(actual)] \in FadeLocals
    BY <2>1 DEF TypeOK, FadeLocals, Pct
  <2> QED BY <1>4, <2>2, ThreadAssumption DEF FadeRead, plcVars, TypeOK, Places, Threads
<1>5. ASSUME NEW f \in Fades, FadeStep(f) PROVE TypeOK'
  <2>1. StepLevels(fade[f]) \subseteq 0..100
    BY DEF StepLevels
  <2> QED BY <1>5, <2>1, ThreadAssumption
      DEF Places, Threads, Pct, FadeStep, BeginPulse, plcVars, TypeOK
<1>6. ASSUME NEW r \in Restorers, Restore(r) PROVE TypeOK'
  BY <1>6, ThreadAssumption DEF Places, Threads, Restore, BeginPulse, plcVars, TypeOK
<1>7. CASE Scan
  BY <1>7 DEF Scan, TypeOK
<1>8. ASSUME NEW t \in Threads, AdsFails(t) PROVE TypeOK'
  BY <1>8, AbandonType DEF AdsFails, TypeOK
<1>9. CASE ModbusFallback
  <2>1. pct_to_byte(pct[Web]) \in 0..254
    <3>1. pct[Web] \in 0..100
      BY DEF TypeOK, Pct, Threads
    <3> QED BY <3>1, RoundTrip
  <2> QED BY <1>9, <2>1, AbandonType DEF ModbusFallback, Threads
<1>10. ASSUME NEW b \in StartBytes, WallSwitch(b) PROVE TypeOK'
  BY <1>10, DataAssumption DEF WallSwitch, TypeOK
<1>11. ASSUME NEW t \in {Web} \cup Rules, NEW p \in Pcts, Direct(t, p) PROVE TypeOK'
  BY <1>11, ThreadAssumption, DataAssumption
  DEF Places, Threads, Pct, Direct, BeginPulse, Issue, SoleOwner, plcVars, TypeOK
<1>12. ASSUME NEW f \in Fades, NEW p \in Pcts, NEW ms \in Durations, fade_dali(f, p, ms)
       PROVE  TypeOK'
  <2>1. StepCount(ms) \in 2..16
    BY StepCountRange
  <2>2. /\ NewFade(p, StepCount(ms)) \in FadeLocals
        /\ NewFade(p, StepCount(ms)).i <= NewFade(p, StepCount(ms)).n
    <3>1. p \in Pct
      BY DataAssumption DEF Pct
    <3> QED BY <2>1, <3>1, FreshFade
  <2> QED BY <1>12, <2>2, ThreadAssumption, DataAssumption
      DEF Places, Threads, Pct, fade_dali, Issue, plcVars, TypeOK
<1>13. ASSUME NEW r \in Restorers, flash_raw_dali(r) PROVE TypeOK'
  <2>1. byte_to_pct(actual) \in 0..100
    <3>1. actual \in 0..254
      BY DEF TypeOK
    <3> QED BY <3>1, ByteRange
  <2> QED BY <1>13, <2>1, ThreadAssumption, DataAssumption
      DEF Places, Threads, Pct, flash_raw_dali, Issue, SoleOwner, plcVars, TypeOK
<1>14. CASE UNCHANGED vars
  BY <1>14 DEF vars, plcVars, TypeOK
<1> QED
  BY <1>1, <1>2, <1>3, <1>4, <1>5, <1>6, <1>7, <1>8, <1>9, <1>10, <1>11, <1>12, <1>13, <1>14
  DEF Next, Command, Run, Write, Outside

\* The state keeps its types, and each kind of thread its places, for any number
\* of threads, commands and failures.
THEOREM TypeCorrect == Spec => []TypeOK
<1>1. QED BY InitType, NextType, PTL DEF Spec

--------------------------------------------------------------------------------
(* The generation token *)

\* A step that starts no pulse, leaves the token and the places ahead of the
\* newest fade alone and counts no step keeps the discipline of the token.
LEMMA TokenFrame ==
  ASSUME newest \in Fades \cup {None}, TokenInv, FadesNeverFight, newest' = newest,
         \A f \in Fades : /\ fade'[f].i = fade[f].i
                          /\ Pulsing(f)' => Pulsing(f),
         \A f, g \in Fades : Pulsing(f)' /\ Pulsing(g)' /\ g \in ahead[f] => g \in ahead'[f]
  PROVE  TokenInv' /\ FadesNeverFight'
  BY DEF TokenInv, FadesNeverFight

\* Every step keeps the discipline of the generation token.
LEMMA NextToken ==
  ASSUME TypeOK, TokenInv, FadesNeverFight, [Next]_vars
  PROVE  TokenInv' /\ FadesNeverFight'
<1> DEFINE Goal == TokenInv' /\ FadesNeverFight'
<1>0. /\ Fades \subseteq Threads /\ Web \notin Fades
      /\ Fades \cap Rules = {} /\ Fades \cap Restorers = {}
  BY ThreadAssumption DEF Threads
<1>1. ASSUME NEW t \in Threads, WriteLevel(t) PROVE Goal
  BY <1>0, <1>1, TokenFrame DEF WriteLevel, Pulsing, TypeOK
<1>2. ASSUME NEW t \in Threads, WriteSet(t) PROVE Goal
  BY <1>0, <1>2, TokenFrame DEF WriteSet, Pulsing, TypeOK
<1>3. ASSUME NEW t \in Threads, WriteReset(t) PROVE Goal
  <2>1. /\ newest' = newest /\ ~Pulsing(t)'
        /\ \A g \in Fades : (Pulsing(g)' => Pulsing(g)) /\ (g # t => fade'[g] = fade[g])
        /\ \A f, g \in Fades : Pulsing(g)' /\ g # t /\ f # t /\ g \in ahead[f]
                                => g \in ahead'[f]
    BY <1>0, <1>3 DEF WriteReset, AfterPulse, Without, Pulsing, TypeOK
  <2>2. ASSUME t = newest, NEW g \in Fades, g # t, Pulsing(g) PROVE FALSE
    BY <1>0, <1>3, <2>2, ThreadAssumption DEF TokenInv, WriteReset, Pulsing, TypeOK
  <2>3. newest \in Fades \cup {None}
    BY DEF TypeOK
  <2>4. TokenInv'
    BY <2>1, <2>2, <2>3 DEF TokenInv
  <2>5. FadesNeverFight'
    BY <2>1 DEF FadesNeverFight
  <2> QED BY <2>4, <2>5
<1>4. ASSUME NEW f \in Fades, FadeRead(f) PROVE Goal
  <2>1. \A g \in Fades : fade'[g].i = fade[g].i
    <3>1. fade[f] \in FadeLocals
      BY DEF TypeOK
    <3>2. [fade[f] EXCEPT !.start = byte_to_pct(actual)].i = fade[f].i
      BY <3>1 DEF FadeLocals
    <3> QED BY <1>4, <3>2 DEF FadeRead, TypeOK
  <2> QED BY <1>0, <1>4, <2>1, TokenFrame DEF FadeRead, Pulsing, TypeOK
<1>5. ASSUME NEW f \in Fades, FadeStep(f) PROVE Goal
  <2>1. CASE newest = f
    <3>1. /\ newest' = newest /\ fade' = fade
          /\ \A g \in Fades : g # f => (Pulsing(g)' <=> Pulsing(g))
          /\ \A g \in Fades : Pulsing(g) => g \in ahead'[f]
      BY <1>0, <1>5, <2>1 DEF FadeStep, BeginPulse, Pulsing, TypeOK
    <3>2. \A g \in Fades : g # f /\ Pulsing(g) => fade[f].i = 1
      BY <2>1, <1>0, ThreadAssumption DEF TokenInv
    <3> QED BY <2>1, <3>1, <3>2 DEF TokenInv, FadesNeverFight
  <2>2. CASE newest # f
    BY <1>0, <1>5, <2>2, TokenFrame DEF FadeStep, BeginPulse, Pulsing, TypeOK
  <2> QED BY <2>1, <2>2
<1>6. ASSUME NEW r \in Restorers, Restore(r) PROVE Goal
  BY <1>0, <1>6, TokenFrame DEF Restore, BeginPulse, Pulsing, TypeOK
<1>7. CASE Scan
  BY <1>0, <1>7, TokenFrame DEF Scan, Pulsing, TypeOK
<1>8. ASSUME NEW t \in Threads, Abandon(t) PROVE Goal
  BY <1>0, <1>8, TokenFrame DEF Abandon, Without, Pulsing, TypeOK
<1>10. ASSUME NEW b \in StartBytes, WallSwitch(b) PROVE Goal
  BY <1>0, <1>10, TokenFrame DEF WallSwitch, Pulsing, TypeOK
<1>11. ASSUME NEW t \in {Web} \cup Rules, NEW p \in Pcts, Direct(t, p) PROVE Goal
  BY <1>0, <1>11, TokenFrame DEF Direct, BeginPulse, Pulsing, TypeOK
<1>12. ASSUME NEW f \in Fades, NEW p \in Pcts, NEW ms \in Durations, fade_dali(f, p, ms)
       PROVE  Goal
  <2>1. p \in Pct /\ StepCount(ms) \in 2..16
    BY DataAssumption, StepCountRange DEF Pct
  <2>2. NewFade(p, StepCount(ms)).i = 1
    BY <2>1, FreshFade
  <2>3. /\ newest' = f /\ ~Pulsing(f)' /\ fade'[f].i = 1
        /\ \A g \in Fades : g # f => (Pulsing(g)' <=> Pulsing(g)) /\ fade'[g] = fade[g]
    BY <1>0, <1>12, <2>2 DEF fade_dali, Pulsing, TypeOK
  <2> QED BY <2>3 DEF TokenInv, FadesNeverFight
<1>13. ASSUME NEW r \in Restorers, flash_raw_dali(r) PROVE Goal
  BY <1>0, <1>13, TokenFrame DEF flash_raw_dali, Pulsing, TypeOK
<1>14. CASE UNCHANGED vars
  BY <1>0, <1>14, TokenFrame DEF vars, Pulsing, TypeOK
<1> QED
  BY <1>1, <1>2, <1>3, <1>4, <1>5, <1>6, <1>7, <1>8, <1>10, <1>11, <1>12, <1>13, <1>14
  DEF Next, Command, Run, Write, Outside, AdsFails, ModbusFallback, Threads

--------------------------------------------------------------------------------
(* The thread that decides the outcome *)

\* Every step keeps what is known of the thread that decides the outcome.
LEMMA NextOwner ==
  ASSUME TypeOK, OwnerInv, [Next]_vars
  PROVE  OwnerInv'
<1>back. byte_to_pct(pct_to_byte(last)) = last
  <2>1. last \in 0..100
    BY DEF TypeOK, Pct
  <2> QED BY <2>1, RoundTrip
<1>1. ASSUME NEW t \in Threads, WriteLevel(t) PROVE OwnerInv'
  <2>1. DirectOwner'
    BY <1>1
    DEF WriteLevel, DirectOwner, NoLive, Live, Waiting, Pulsing, Arrived, Commits, Alone,
        OwnerInv
  <2>2. FlashOwner'
    BY <1>1 DEF WriteLevel, FlashOwner, NoLive, Live, Waiting, Pulsing, Alone, OwnerInv
  <2>3. FadeOwner'
    BY <1>1 DEF WriteLevel, FadeOwner, Waiting, Pulsing, Arrived, Commits, Alone, OwnerInv
  <2> QED BY <2>1, <2>2, <2>3 DEF OwnerInv
<1>2. ASSUME NEW t \in Threads, WriteSet(t) PROVE OwnerInv'
  <2>1. DirectOwner'
    BY <1>2
    DEF WriteSet, DirectOwner, NoLive, Live, Waiting, Pulsing, Arrived, Commits, Alone,
        OwnerInv, TypeOK
  <2>2. FlashOwner'
    BY <1>2 DEF WriteSet, FlashOwner, NoLive, Live, Waiting, Pulsing, Alone, OwnerInv, TypeOK
  <2>3. FadeOwner'
    BY <1>2 DEF WriteSet, FadeOwner, Waiting, Pulsing, Arrived, Commits, Alone, OwnerInv, TypeOK
  <2> QED BY <2>1, <2>2, <2>3 DEF OwnerInv
<1>3. ASSUME NEW t \in Threads, WriteReset(t) PROVE OwnerInv'
  <2>1. DirectOwner'
    BY <1>3, <1>back
    DEF WriteReset, AfterPulse, DirectOwner, NoLive, Live, Waiting, Pulsing, Arrived,
        Commits, Alone, OwnerInv, TypeOK, Threads, Places
  <2>2. FlashOwner'
    BY ThreadAssumption, <1>3
    DEF WriteReset, AfterPulse, FlashOwner, NoLive, Live, Waiting, Pulsing, Alone,
        OwnerInv, Threads
  <2>3. FadeOwner'
    <3> SUFFICES ASSUME owner \in Fades PROVE FadeOwner'
      BY <1>3 DEF WriteReset, FadeOwner
    <3>1. /\ newest' = newest /\ last' = last /\ owner' = owner /\ actual' = actual /\ ~flag'
          /\ \A u \in Threads : Pulsing(u)' => Pulsing(u) /\ u # t
          /\ \A r \in Restorers : ~Waiting(r)'
      BY <1>3 DEF WriteReset, AfterPulse, FadeOwner, Waiting, Pulsing, OwnerInv, Threads
    <3>2. fade[owner] \in FadeLocals /\ fade[owner].i <= fade[owner].n
      BY DEF TypeOK
    <3>3. CASE t = owner
      <4>1. \A u \in Threads : ~Pulsing(u)'
        BY <1>3, <3>1, <3>3 DEF WriteReset, FadeOwner, Pulsing, OwnerInv
      <4>2. CASE fade[owner].i < fade[owner].n
        <5>1. at'[owner] = "step" /\ fade'[owner].target = fade[owner].target
          BY <1>3, <3>3, <4>2 DEF WriteReset, AfterPulse
        <5> QED BY <3>1, <4>1, <5>1 DEF FadeOwner, OwnerInv, Threads
      <4>3. CASE fade[owner].i = fade[owner].n
        <5>1. at'[owner] = "idle" /\ fade'[owner] = fade[owner]
          BY <1>3, <3>2, <3>3, <4>3 DEF WriteReset, AfterPulse, FadeLocals
        <5>2. byte_to_pct(actual) = last
          <6>1. fade[owner].i > 1
            BY <3>2, <4>3 DEF FadeLocals
          <6> QED BY <1>3, <1>back, <3>3, <4>3, <6>1
              DEF WriteReset, FadeOwner, Commits, Pulsing, OwnerInv
        <5> QED BY <3>1, <4>1, <5>1, <5>2 DEF FadeOwner, Arrived, OwnerInv, Threads
      <4> QED BY <3>2, <4>2, <4>3 DEF FadeLocals
    <3>4. CASE t # owner
      <4>1. /\ at'[owner] = at[owner] /\ fade'[owner] = fade[owner] /\ pct' = pct
            /\ ahead'[owner] = ahead[owner] \ {t}
        BY <1>3, <3>4 DEF WriteReset, AfterPulse, Without, TypeOK, Threads
      <4>2. Pulsing(t)
        BY <1>3 DEF WriteReset, Pulsing
      <4> QED BY <3>1, <4>1, <4>2 DEF FadeOwner, Arrived, Commits, Alone, OwnerInv, Threads
    <3> QED BY <3>3, <3>4
  <2> QED BY <2>1, <2>2, <2>3 DEF OwnerInv
<1>4. ASSUME NEW f \in Fades, FadeRead(f) PROVE OwnerInv'
  <2>1. DirectOwner'
    BY <1>4
    DEF FadeRead, plcVars, DirectOwner, NoLive, Live, Waiting, Pulsing, Arrived, Commits,
        Alone, OwnerInv
  <2>2. FlashOwner'
    BY ThreadAssumption, <1>4
    DEF FadeRead, plcVars, FlashOwner, NoLive, Live, Waiting, Pulsing, Alone, OwnerInv,
        Threads
  <2>3. FadeOwner'
    BY ThreadAssumption, <1>4
    DEF FadeRead, plcVars, Calm, FadeOwner, Waiting, Pulsing, Arrived, Commits, Alone,
        OwnerInv, Threads
  <2> QED BY <2>1, <2>2, <2>3 DEF OwnerInv
<1>5. ASSUME NEW f \in Fades, FadeStep(f) PROVE OwnerInv'
  <2>1. DirectOwner'
    BY <1>5
    DEF FadeStep, plcVars, DirectOwner, FlashOwner, NoLive, Live, Waiting, Pulsing,
        Arrived, Commits, Alone, OwnerInv, TypeOK, Threads
  <2>2. FlashOwner'
    BY <1>5
    DEF FadeStep, BeginPulse, plcVars, FlashOwner, NoLive, Live, Waiting, Pulsing, Alone,
        OwnerInv, TypeOK, Threads
  <2>3. FadeOwner'
    <3> SUFFICES ASSUME owner \in Fades PROVE FadeOwner'
      BY <1>5 DEF FadeStep, FadeOwner
    <3>1. CASE f = owner
      <4>1. newest = f
        BY <3>1 DEF FadeOwner, OwnerInv
      <4>2. PICK p \in StepLevels(fade[f]) : BeginPulse(f, p)
        BY <1>5, <4>1 DEF FadeStep
      <4>3. fade[f].i = fade[f].n => p = fade[f].target
        <5>1. fade[f] \in FadeLocals
          BY DEF TypeOK
        <5> QED BY <5>1, LastStep
      <4> QED BY <1>5, <3>1, <4>2, <4>3
          DEF FadeStep, BeginPulse, plcVars, FadeOwner, Waiting, Pulsing, Commits, Alone,
              OwnerInv, TypeOK
    <3>2. CASE f # owner
      BY <1>5, <3>2
      DEF FadeStep, plcVars, FadeOwner, Waiting, Pulsing, Arrived, Commits, Alone,
          OwnerInv, TypeOK, Threads
    <3> QED BY <3>1, <3>2
  <2> QED BY <2>1, <2>2, <2>3 DEF OwnerInv
<1>6. ASSUME NEW r \in Restorers, Restore(r) PROVE OwnerInv'
  <2>1. DirectOwner'
    BY <1>6
    DEF Restore, BeginPulse, plcVars, DirectOwner, FlashOwner, NoLive, Live, Waiting,
        Pulsing, Commits, Alone, OwnerInv, TypeOK, Threads, Places
  <2>2. FlashOwner'
    BY <1>6 DEF Restore, BeginPulse, FlashOwner, Waiting, OwnerInv, TypeOK, Threads
  <2>3. FadeOwner'
    BY <1>6 DEF Restore, FadeOwner, Waiting, OwnerInv
  <2> QED BY <2>1, <2>2, <2>3 DEF OwnerInv
<1>7. CASE Scan
  <2>1. DirectOwner'
    BY <1>7
    DEF Scan, DirectOwner, NoLive, Live, Waiting, Pulsing, Arrived, Commits, Alone,
        OwnerInv, TypeOK
  <2>2. FlashOwner'
    BY <1>7 DEF Scan, FlashOwner, NoLive, Live, Waiting, Pulsing, Alone, OwnerInv
  <2>3. FadeOwner'
    BY <1>7 DEF Scan, FadeOwner, Waiting, Pulsing, Arrived, Commits, Alone, OwnerInv, TypeOK
  <2> QED BY <2>1, <2>2, <2>3 DEF OwnerInv
<1>8. ASSUME NEW t \in Threads, AdsFails(t) PROVE OwnerInv'
  <2>1. DirectOwner'
    BY <1>8
    DEF AdsFails, Abandon, DirectOwner, NoLive, Live, Waiting, Pulsing, Arrived, Commits,
        Alone, OwnerInv, TypeOK, Threads
  <2>2. FlashOwner'
    BY ThreadAssumption, <1>8
    DEF AdsFails, Abandon, FlashOwner, NoLive, Live, Waiting, Pulsing, Alone, OwnerInv,
        Threads
  <2>3. FadeOwner'
    BY ThreadAssumption, <1>8
    DEF AdsFails, Abandon, Without, FadeOwner, Waiting, Pulsing, Arrived, Commits, Alone,
        OwnerInv, Threads
  <2> QED BY <2>1, <2>2, <2>3 DEF OwnerInv
<1>9. CASE ModbusFallback
  <2>1. DirectOwner'
    BY <1>9 DEF ModbusFallback, Abandon, DirectOwner
  <2>2. FlashOwner'
    BY ThreadAssumption, <1>9 DEF ModbusFallback, Abandon, FlashOwner, Threads
  <2>3. FadeOwner'
    BY ThreadAssumption, <1>9 DEF ModbusFallback, Abandon, FadeOwner, Threads
  <2> QED BY <2>1, <2>2, <2>3 DEF OwnerInv
<1>10. ASSUME NEW b \in StartBytes, WallSwitch(b) PROVE OwnerInv'
  <2>1. DirectOwner'
    BY <1>10 DEF WallSwitch, DirectOwner
  <2>2. FlashOwner'
    BY ThreadAssumption, <1>10 DEF WallSwitch, FlashOwner, Threads
  <2>3. FadeOwner'
    BY ThreadAssumption, <1>10 DEF WallSwitch, FadeOwner, Waiting, Pulsing, OwnerInv, Threads
  <2> QED BY <2>1, <2>2, <2>3 DEF OwnerInv
<1>11. ASSUME NEW t \in {Web} \cup Rules, NEW p \in Pcts, Direct(t, p) PROVE OwnerInv'
  <2>1. DirectOwner'
    BY <1>11
    DEF Direct, BeginPulse, Issue, SoleOwner, Quiet, Calm, plcVars, DirectOwner, NoLive,
        Live, Waiting, Pulsing, Commits, Alone, TypeOK, Threads
  <2>2. FlashOwner'
    BY ThreadAssumption, <1>11 DEF Direct, Issue, SoleOwner, FlashOwner, Threads
  <2>3. FadeOwner'
    BY ThreadAssumption, <1>11 DEF Direct, Issue, SoleOwner, FadeOwner, Threads
  <2> QED BY <2>1, <2>2, <2>3 DEF OwnerInv
<1>12. ASSUME NEW f \in Fades, NEW p \in Pcts, NEW ms \in Durations, fade_dali(f, p, ms)
       PROVE  OwnerInv'
  <2>1. DirectOwner'
    BY <1>12 DEF fade_dali, Issue, DirectOwner
  <2>2. FlashOwner'
    BY ThreadAssumption, <1>12 DEF fade_dali, Issue, FlashOwner, Threads
  <2>3. FadeOwner'
    <3>1. NewFade(p, StepCount(ms)).i = 1 /\ NewFade(p, StepCount(ms)).target = p
      <4>1. p \in Pct /\ StepCount(ms) \in 2..16
        BY DataAssumption, StepCountRange DEF Pct
      <4> QED BY <4>1, FreshFade
    <3> QED BY ThreadAssumption, <1>12, <3>1
        DEF fade_dali, Issue, FadeOwner, Waiting, Pulsing, TypeOK, Threads
  <2> QED BY <2>1, <2>2, <2>3 DEF OwnerInv
<1>13. ASSUME NEW r \in Restorers, flash_raw_dali(r) PROVE OwnerInv'
  <2>1. DirectOwner'
    BY <1>13 DEF flash_raw_dali, Issue, SoleOwner, DirectOwner, Waiting, TypeOK, Threads
  <2>2. FlashOwner'
    BY ThreadAssumption, <1>13
    DEF flash_raw_dali, Issue, SoleOwner, Quiet, Calm, plcVars, FlashOwner, NoLive, Live,
        Waiting, Pulsing, Alone, TypeOK, Threads
  <2>3. FadeOwner'
    BY ThreadAssumption, <1>13 DEF flash_raw_dali, Issue, SoleOwner, FadeOwner, Threads
  <2> QED BY <2>1, <2>2, <2>3 DEF OwnerInv
<1>14. CASE UNCHANGED vars
  <2>1. DirectOwner'
    BY <1>14
    DEF vars, plcVars, DirectOwner, NoLive, Live, Waiting, Pulsing, Arrived, Commits,
        Alone, OwnerInv
  <2>2. FlashOwner'
    BY <1>14 DEF vars, plcVars, FlashOwner, NoLive, Live, Waiting, Pulsing, Alone, OwnerInv
  <2>3. FadeOwner'
    BY <1>14 DEF vars, plcVars, FadeOwner, Waiting, Pulsing, Arrived, Commits, Alone, OwnerInv
  <2> QED BY <2>1, <2>2, <2>3 DEF OwnerInv
<1> QED
  BY <1>1, <1>2, <1>3, <1>4, <1>5, <1>6, <1>7, <1>8, <1>9, <1>10, <1>11, <1>12, <1>13, <1>14
  DEF Next, Command, Run, Write, Outside

--------------------------------------------------------------------------------
(* Theorems *)

\* The inductive invariant holds at the start.
LEMMA InitIInv ==
  Init => IInv
<1> SUFFICES ASSUME Init PROVE IInv
  OBVIOUS
<1>1. \A t \in Threads : at[t] = "idle"
  BY DEF Init
<1>2. TokenInv /\ FadesNeverFight
  BY <1>1 DEF TokenInv, FadesNeverFight, Pulsing, Threads
<1>3. OwnerInv
  BY ThreadAssumption DEF Init, OwnerInv, DirectOwner, FlashOwner, FadeOwner, Threads
<1> QED BY <1>2, <1>3, InitType DEF IInv

\* The inductive invariant is preserved by every step.
LEMMA NextIInv ==
  IInv /\ [Next]_vars => IInv'
  BY NextType, NextToken, NextOwner DEF IInv

\* On a quiet channel the deciding thread is done, so its level has arrived.
LEMMA IInvSettles ==
  IInv => Settles
<1> SUFFICES ASSUME IInv, Quiet, owner # None PROVE byte_to_pct(actual) = last
  BY DEF Settles
<1>1. owner \in Threads /\ ~Pulsing(owner) /\ ~(owner \in Fades /\ Live(owner))
      /\ ~(owner \in Restorers /\ Waiting(owner))
  BY DEF IInv, TypeOK, Quiet, Calm
<1>2. CASE owner \in Fades
  BY <1>1, <1>2 DEF IInv, TypeOK, OwnerInv, FadeOwner, Arrived, Live, Pulsing, Places
<1>3. CASE owner \notin Fades
  BY <1>1, <1>3
  DEF IInv, TypeOK, OwnerInv, DirectOwner, Arrived, Waiting, Pulsing, Places, Threads
<1> QED BY <1>2, <1>3

\* The inductive invariant holds in every reachable state.
THEOREM Invariant == Spec => []IInv
<1>1. QED BY InitIInv, NextIInv, PTL DEF Spec

\* The last set_brightness() of a superseded fade never meets a later step of its
\* successor, however many fades replace each other (registry.py, fade_dali).
THEOREM NoFight == Spec => []FadesNeverFight
<1>1. IInv => FadesNeverFight
  BY DEF IInv
<1>2. QED BY <1>1, Invariant, PTL

\* A command that nothing later or pending overrides is what the channel ends
\* at, for any number of threads, levels, durations and failed writes.
THEOREM CommandSettles == Spec => []Settles
<1>1. QED BY IInvSettles, Invariant, PTL

--------------------------------------------------------------------------------
(* The course of a fade *)

\* The last level fade f went to, or the one it read at its start.
Reached(f) == IF fade[f].i = 1 THEN fade[f].start ELSE pct[f]

\* Each step of a fade moves from the level of the step before towards the
\* target: it never turns back and never passes the target, whatever else is
\* written to the channel meanwhile (devices.py, fade_to).
FadeGoesOneWay ==
  [][\A f \in Fades : at[f] = "step" /\ at'[f] = "level" =>
       \/ pct'[f] \in Reached(f)..fade[f].target
       \/ pct'[f] \in fade[f].target..Reached(f)]_vars

\* The locals of a fade at the step before.
Before(l) == [l EXCEPT !.i = l.i - 1]

\* What makes it inductive: a fade that steps has somewhere to go, and the level
\* it last sent is one that the count of its steps gives.
CourseOf(f) ==
  /\ at[f] = "read" => fade[f].i = 1
  /\ at[f] = "step" \/ Pulsing(f) => fade[f].start # fade[f].target
  /\ Pulsing(f) => pct[f] \in StepLevels(fade[f])
  /\ at[f] = "step" /\ fade[f].i > 1
       => pct[f] \in StepLevels(Before(fade[f]))

CourseInv == \A f \in Fades : CourseOf(f)

\* Every step of a fade is between its start and its target.
LEMMA StepBetween ==
  ASSUME NEW f \in FadeLocals, f.i <= f.n, NEW p \in StepLevels(f)
  PROVE  /\ f.start <= f.target => f.start <= p /\ p <= f.target
         /\ f.target <= f.start => f.target <= p /\ p <= f.start
<1> DEFINE s == f.start
           t == f.target
           n == f.n
           i == f.i
           D == t - s
<1>1. s \in 0..100 /\ t \in 0..100 /\ n \in 2..16 /\ i \in 1..16 /\ i <= n /\ p \in 0..100
  BY DEF StepLevels, FadeLocals, Pct
<1>2. 2 * (p * n - s * n - D * i) <= n /\ -(2 * (p * n - s * n - D * i)) <= n
  BY DEF StepLevels, FadeLocals
<1> HIDE DEF s, t, n, i
<1>3. D \in -100..100 /\ t = s + D
  BY <1>1
<1> HIDE DEF D
<1>4. p * n - s * n = (p - s) * n
  BY <1>1
<1>5. /\ (p - s) * n \in Int /\ D * i \in Int /\ D * n \in Int
      /\ 2 * ((p - s) * n) - 2 * (D * i) <= n /\ 2 * (D * i) - 2 * ((p - s) * n) <= n
  BY <1>1, <1>2, <1>3, <1>4
<1>6. D >= 0 => 0 <= D * i /\ D * i <= D * n
  BY <1>1, <1>3
<1>7. D <= 0 => D * i <= 0 /\ D * n <= D * i
  BY <1>1, <1>3
<1>8. p - s <= -1 => (p - s) * n <= -n
  BY <1>1
<1>9. p - s >= 1 => (p - s) * n >= n
  BY <1>1
<1>10. p - s - D >= 1 => (p - s) * n >= D * n + n
  <2>1. (p - s) * n = (p - s - D) * n + D * n
    BY <1>1, <1>3
  <2>2. p - s - D >= 1 => (p - s - D) * n >= n
    BY <1>1, <1>3
  <2>3. (p - s - D) * n \in Int
    BY <1>1, <1>3
  <2> QED BY <1>1, <1>5, <2>1, <2>2, <2>3
<1>11. p - s - D <= -1 => (p - s) * n <= D * n - n
  <2>1. (p - s) * n = (p - s - D) * n + D * n
    BY <1>1, <1>3
  <2>2. p - s - D <= -1 => (p - s - D) * n <= -n
    BY <1>1, <1>3
  <2>3. (p - s - D) * n \in Int
    BY <1>1, <1>3
  <2> QED BY <1>1, <1>5, <2>1, <2>2, <2>3
<1>12. D >= 0 => s <= p /\ p <= t
  BY <1>1, <1>3, <1>5, <1>6, <1>8, <1>10
<1>13. D <= 0 => t <= p /\ p <= s
  BY <1>1, <1>3, <1>5, <1>7, <1>9, <1>11
<1>14. /\ s <= t => s <= p /\ p <= t
       /\ t <= s => t <= p /\ p <= s
  BY <1>1, <1>3, <1>12, <1>13
<1> QED BY <1>14 DEF s, t

\* Consecutive steps of a fade that has somewhere to go do not turn back: two
\* roundings differ by less than a whole percent from the distance of a step.
LEMMA StepMonotone ==
  ASSUME NEW f \in FadeLocals, NEW e \in FadeLocals,
         e.start = f.start, e.target = f.target, e.n = f.n, e.i = f.i - 1,
         NEW p \in StepLevels(e), NEW q \in StepLevels(f)
  PROVE  /\ f.start < f.target => p <= q
         /\ f.target < f.start => q <= p
<1> DEFINE s == f.start
           t == f.target
           n == f.n
           i == f.i
           D == t - s
<1>1. /\ s \in 0..100 /\ t \in 0..100 /\ n \in 2..16 /\ i \in 2..16
      /\ p \in 0..100 /\ q \in 0..100
  BY DEF StepLevels, FadeLocals, Pct
<1>2. 2 * (q * n - s * n - D * i) <= n /\ -(2 * (q * n - s * n - D * i)) <= n
  BY DEF StepLevels, FadeLocals
<1>3. 2 * (p * n - s * n - D * (i - 1)) <= n /\ -(2 * (p * n - s * n - D * (i - 1))) <= n
  BY DEF StepLevels, FadeLocals
<1> HIDE DEF s, t, n, i
<1>4. D \in -100..100 /\ t = s + D
  BY <1>1
<1> HIDE DEF D
<1>5. D * (i - 1) = D * i - D
  BY <1>1, <1>4
<1>6. q * n - p * n = (q - p) * n
  BY <1>1
<1>7. /\ q * n \in Int /\ p * n \in Int /\ s * n \in Int /\ D * i \in Int
      /\ (q - p) * n \in Int
  BY <1>1, <1>4
<1>8. D - n <= (q - p) * n /\ (q - p) * n <= D + n
  BY <1>1, <1>2, <1>3, <1>4, <1>5, <1>6, <1>7
<1>9. q - p <= -1 => (q - p) * n <= -n
  BY <1>1
<1>10. q - p >= 1 => (q - p) * n >= n
  BY <1>1
<1>11. /\ D >= 1 => p <= q
       /\ D <= -1 => q <= p
  BY <1>1, <1>4, <1>7, <1>8, <1>9, <1>10
<1>12. /\ s < t => p <= q
       /\ t < s => q <= p
  BY <1>1, <1>4, <1>11
<1> QED BY <1>12 DEF s, t

\* Only the count tells a fade's locals from those of the step before.
LEMMA BeforeFields ==
  ASSUME NEW l \in FadeLocals
  PROVE  /\ Before(l).start = l.start /\ Before(l).target = l.target
         /\ Before(l).n = l.n /\ Before(l).i = l.i - 1
         /\ l.i > 1 => Before(l) \in FadeLocals
  BY DEF Before, FadeLocals

\* Counting a step leaves the locals of the step before as they were.
LEMMA BeforeNext ==
  ASSUME NEW l \in FadeLocals
  PROVE  Before([l EXCEPT !.i = l.i + 1]) = l
<1> DEFINE m == [l EXCEPT !.i = l.i + 1]
<1>1. /\ m \in [start : Pct, target : Pct, i : Int, n : 2..16] /\ l.i \in 1..16
      /\ m.start = l.start /\ m.target = l.target /\ m.i = l.i + 1 /\ m.n = l.n
  BY DEF FadeLocals
<1> HIDE DEF m
<1>2. m.i - 1 = l.i
  BY <1>1
<1>3. /\ Before(m) \in [start : Pct, target : Pct, i : Int, n : 2..16]
      /\ Before(m).start = m.start /\ Before(m).target = m.target
      /\ Before(m).i = m.i - 1 /\ Before(m).n = m.n
  BY <1>1 DEF Before
<1>4. Before(m) = l
  BY <1>1, <1>2, <1>3 DEF FadeLocals
<1> QED BY <1>4 DEF m

\* A fade that a step leaves where it was, or ends, keeps its course.
LEMMA CourseFrame ==
  ASSUME NEW f \in Fades, CourseOf(f), fade'[f] = fade[f],
         \/ at'[f] = "idle"
         \/ pct'[f] = pct[f] /\ at'[f] = at[f]
         \/ pct'[f] = pct[f] /\ Pulsing(f) /\ at'[f] \in {"level", "set", "hold"}
  PROVE  CourseOf(f)'
  BY DEF CourseOf, Pulsing

\* Every step keeps the fades on their course.
LEMMA NextCourse ==
  ASSUME TypeOK, CourseInv, [Next]_vars
  PROVE  CourseInv'
<1> SUFFICES ASSUME NEW f \in Fades PROVE CourseOf(f)'
  BY DEF CourseInv
<1>0. /\ f \in Threads /\ f # Web /\ f \notin Rules /\ f \notin Restorers
      /\ CourseOf(f) /\ fade[f] \in FadeLocals
  BY ThreadAssumption DEF Threads, CourseInv, TypeOK
<1>1. ASSUME NEW t \in Threads, WriteLevel(t) PROVE CourseOf(f)'
  BY <1>0, <1>1, CourseFrame DEF WriteLevel, Pulsing, TypeOK
<1>2. ASSUME NEW t \in Threads, WriteSet(t) PROVE CourseOf(f)'
  BY <1>0, <1>2, CourseFrame DEF WriteSet, Pulsing, TypeOK
<1>3. ASSUME NEW t \in Threads, WriteReset(t) PROVE CourseOf(f)'
  <2>1. CASE t # f \/ ~(fade[f].i < fade[f].n)
    <3>1. /\ fade'[f] = fade[f] /\ pct' = pct
          /\ at'[f] = "idle" \/ at'[f] = at[f]
      BY <1>0, <1>3, <2>1 DEF WriteReset, AfterPulse, TypeOK
    <3> QED BY <1>0, <3>1, CourseFrame
  <2>2. CASE t = f /\ fade[f].i < fade[f].n
    <3>1. /\ fade'[f] = [fade[f] EXCEPT !.i = fade[f].i + 1]
          /\ at'[f] = "step" /\ pct' = pct /\ Pulsing(f)
      BY <1>0, <1>3, <2>2 DEF WriteReset, AfterPulse, Pulsing, TypeOK
    <3>2. /\ fade'[f].start = fade[f].start /\ fade'[f].target = fade[f].target
      BY <1>0, <3>1 DEF FadeLocals
    <3>3. Before(fade'[f]) = fade[f]
      BY <1>0, <3>1, BeforeNext
    <3> QED BY <1>0, <3>1, <3>2, <3>3 DEF CourseOf, Pulsing
  <2> QED BY <2>1, <2>2
<1>4. ASSUME NEW g \in Fades, FadeRead(g) PROVE CourseOf(f)'
  <2>1. CASE g # f
    BY <1>0, <1>4, <2>1, CourseFrame DEF FadeRead, TypeOK
  <2>2. CASE g = f
    <3>1. fade'[f] = [fade[f] EXCEPT !.start = byte_to_pct(actual)]
      BY <1>0, <1>4, <2>2 DEF FadeRead, TypeOK
    <3>2. /\ fade'[f].start = byte_to_pct(actual) /\ fade'[f].target = fade[f].target
          /\ fade'[f].i = fade[f].i
      BY <1>0, <3>1 DEF FadeLocals
    <3>3. fade[f].i = 1
      BY <1>0, <1>4, <2>2 DEF FadeRead, CourseOf
    <3>4. /\ at'[f] \in {"idle", "step"}
          /\ at'[f] = "step" => byte_to_pct(actual) # fade[f].target
      BY <1>0, <1>4, <2>2 DEF FadeRead, TypeOK
    <3> QED BY <3>2, <3>3, <3>4 DEF CourseOf, Pulsing
  <2> QED BY <2>1, <2>2
<1>5. ASSUME NEW g \in Fades, FadeStep(g) PROVE CourseOf(f)'
  <2>1. CASE g # f \/ newest # g
    <3>1. /\ fade'[f] = fade[f] /\ pct'[f] = pct[f]
          /\ at'[f] = "idle" \/ at'[f] = at[f]
      BY <1>0, <1>5, <2>1 DEF FadeStep, BeginPulse, TypeOK
    <3> QED BY <1>0, <3>1, CourseFrame
  <2>2. CASE g = f /\ newest = g
    <3>1. /\ fade' = fade /\ pct'[f] \in StepLevels(fade[f])
          /\ at[f] = "step" /\ at'[f] = "level"
      BY <1>0, <1>5, <2>2 DEF FadeStep, BeginPulse, TypeOK
    <3> QED BY <1>0, <3>1 DEF CourseOf, Pulsing
  <2> QED BY <2>1, <2>2
<1>6. ASSUME NEW r \in Restorers, Restore(r) PROVE CourseOf(f)'
  BY <1>0, <1>6, CourseFrame DEF Restore, BeginPulse, TypeOK
<1>7. CASE Scan
  BY <1>0, <1>7, CourseFrame DEF Scan
<1>8. ASSUME NEW t \in Threads, Abandon(t) PROVE CourseOf(f)'
  BY <1>0, <1>8, CourseFrame DEF Abandon
<1>9. ASSUME NEW b \in StartBytes, WallSwitch(b) PROVE CourseOf(f)'
  BY <1>0, <1>9, CourseFrame DEF WallSwitch
<1>10. ASSUME NEW t \in {Web} \cup Rules, NEW p \in Pcts, Direct(t, p) PROVE CourseOf(f)'
  BY <1>0, <1>10, CourseFrame DEF Direct, BeginPulse, TypeOK
<1>11. ASSUME NEW g \in Fades, NEW p \in Pcts, NEW ms \in Durations, fade_dali(g, p, ms)
       PROVE  CourseOf(f)'
  <2>1. CASE g # f
    BY <1>0, <1>11, <2>1, CourseFrame DEF fade_dali, TypeOK
  <2>2. CASE g = f
    <3>1. p \in Pct /\ StepCount(ms) \in 2..16
      BY DataAssumption, StepCountRange DEF Pct
    <3>2. NewFade(p, StepCount(ms)).i = 1
      BY <3>1, FreshFade
    <3>3. at'[f] = "read" /\ fade'[f].i = 1
      BY <1>0, <1>11, <2>2, <3>2 DEF fade_dali, TypeOK
    <3> QED BY <3>3 DEF CourseOf, Pulsing
  <2> QED BY <2>1, <2>2
<1>12. ASSUME NEW r \in Restorers, flash_raw_dali(r) PROVE CourseOf(f)'
  BY <1>0, <1>12, CourseFrame DEF flash_raw_dali, TypeOK
<1>13. CASE UNCHANGED vars
  BY <1>0, <1>13, CourseFrame DEF vars
<1> QED
  BY <1>1, <1>2, <1>3, <1>4, <1>5, <1>6, <1>7, <1>8, <1>9, <1>10, <1>11, <1>12, <1>13
  DEF Next, Command, Run, Write, Outside, AdsFails, ModbusFallback, Threads

\* A step that begins a fade's pulse sends one of the levels its count gives.
LEMMA OnlyStepsPulse ==
  ASSUME TypeOK, [Next]_vars, NEW f \in Fades, at[f] = "step", at'[f] = "level"
  PROVE  pct'[f] \in StepLevels(fade[f])
<1>0. /\ f \in Threads /\ f # Web /\ f \notin Rules /\ f \notin Restorers
  BY ThreadAssumption DEF Threads
<1>1. ASSUME NEW t \in Threads, Write(t) PROVE FALSE
  BY <1>0, <1>1 DEF Write, WriteLevel, WriteSet, WriteReset, AfterPulse, TypeOK
<1>2. ASSUME NEW g \in Fades, FadeRead(g) PROVE FALSE
  BY <1>0, <1>2 DEF FadeRead, TypeOK
<1>3. ASSUME NEW g \in Fades, FadeStep(g) PROVE pct'[f] \in StepLevels(fade[f])
  BY <1>0, <1>3 DEF FadeStep, BeginPulse, TypeOK
<1>4. ASSUME NEW r \in Restorers, Restore(r) PROVE FALSE
  BY <1>0, <1>4 DEF Restore, BeginPulse, TypeOK
<1>5. CASE Scan
  BY <1>5 DEF Scan
<1>6. ASSUME NEW t \in Threads, Abandon(t) PROVE FALSE
  BY <1>0, <1>6 DEF Abandon
<1>7. ASSUME NEW b \in StartBytes, WallSwitch(b) PROVE FALSE
  BY <1>7 DEF WallSwitch
<1>8. ASSUME NEW t \in {Web} \cup Rules, NEW p \in Pcts, Direct(t, p) PROVE FALSE
  BY <1>0, <1>8 DEF Direct, BeginPulse, TypeOK
<1>9. ASSUME NEW g \in Fades, NEW p \in Pcts, NEW ms \in Durations, fade_dali(g, p, ms)
      PROVE  FALSE
  BY <1>0, <1>9 DEF fade_dali, TypeOK
<1>10. ASSUME NEW r \in Restorers, flash_raw_dali(r) PROVE FALSE
  BY <1>0, <1>10 DEF flash_raw_dali, TypeOK
<1>11. CASE UNCHANGED vars
  BY <1>11 DEF vars
<1> QED
  BY <1>1, <1>2, <1>3, <1>4, <1>5, <1>6, <1>7, <1>8, <1>9, <1>10, <1>11
  DEF Next, Command, Run, Outside, AdsFails, ModbusFallback, Threads

\* A fade's steps go one way and end no further than the target, for any start,
\* target, duration and interference.
THEOREM FadesGoOneWay == Spec => FadeGoesOneWay
<1>1. Init => CourseInv
  BY DEF Init, CourseInv, CourseOf, Pulsing, Threads
<1>2. TypeOK /\ CourseInv /\ [Next]_vars => CourseInv'
  BY NextCourse
<1>3. ASSUME TypeOK, CourseInv, [Next]_vars,
             NEW f \in Fades, at[f] = "step", at'[f] = "level"
      PROVE  \/ pct'[f] \in Reached(f)..fade[f].target
             \/ pct'[f] \in fade[f].target..Reached(f)
  <2>0. \A a, q, t \in 0..100 :
          (a <= q /\ q <= t) \/ (t <= q /\ q <= a) => q \in a..t \/ q \in t..a
    OBVIOUS
  <2>1. /\ fade[f] \in FadeLocals /\ fade[f].i <= fade[f].n /\ CourseOf(f)
        /\ fade[f].start \in 0..100 /\ fade[f].target \in 0..100 /\ fade[f].i \in 1..16
    BY <1>3 DEF TypeOK, CourseInv, FadeLocals, Pct
  <2>2. pct'[f] \in StepLevels(fade[f]) /\ pct'[f] \in 0..100
    BY <1>3, OnlyStepsPulse DEF StepLevels
  <2>3. /\ fade[f].start <= fade[f].target
             => fade[f].start <= pct'[f] /\ pct'[f] <= fade[f].target
        /\ fade[f].target <= fade[f].start
             => fade[f].target <= pct'[f] /\ pct'[f] <= fade[f].start
    BY <2>1, <2>2, StepBetween
  <2>4. CASE fade[f].i = 1
    <3>1. Reached(f) = fade[f].start
      BY <2>4 DEF Reached
    <3>2. fade[f].start <= fade[f].target \/ fade[f].target <= fade[f].start
      <4>1. \A a, t \in 0..100 : a <= t \/ t <= a
        OBVIOUS
      <4>2. fade[f].start \in 0..100 /\ fade[f].target \in 0..100
        BY <2>1
      <4> QED BY <4>1, <4>2, Zenon
    <3>3. \/ Reached(f) <= pct'[f] /\ pct'[f] <= fade[f].target
          \/ fade[f].target <= pct'[f] /\ pct'[f] <= Reached(f)
      BY <2>3, <3>1, <3>2
    <3> QED BY <2>0, <2>1, <2>2, <3>1, <3>3
  <2>5. CASE fade[f].i > 1
    <3>1. /\ pct[f] \in StepLevels(Before(fade[f])) /\ pct[f] \in 0..100
          /\ fade[f].start # fade[f].target
      BY <1>3, <2>1, <2>5 DEF CourseOf, TypeOK, Threads, Pct
    <3>2. /\ fade[f].start < fade[f].target => pct[f] <= pct'[f]
          /\ fade[f].target < fade[f].start => pct'[f] <= pct[f]
      BY <2>1, <2>2, <2>5, <3>1, BeforeFields, StepMonotone
    <3>3. Reached(f) = pct[f]
      BY <2>1, <2>5 DEF Reached
    <3>4. \/ Reached(f) <= pct'[f] /\ pct'[f] <= fade[f].target
          \/ fade[f].target <= pct'[f] /\ pct'[f] <= Reached(f)
      <4>0. /\ fade[f].start \in Int /\ fade[f].target \in Int
            /\ pct[f] \in Int /\ pct'[f] \in Int
        BY <2>1, <2>2, <3>1
      <4>1. CASE fade[f].start < fade[f].target
        BY <2>3, <3>2, <3>3, <4>0, <4>1
      <4>2. CASE fade[f].target < fade[f].start
        BY <2>3, <3>2, <3>3, <4>0, <4>2
      <4> QED BY <3>1, <4>0, <4>1, <4>2
    <3> QED BY <2>0, <2>1, <2>2, <3>1, <3>3, <3>4
  <2> QED BY <2>1, <2>4, <2>5
<1>4. TypeOK /\ CourseInv /\ [Next]_vars =>
        [\A f \in Fades : at[f] = "step" /\ at'[f] = "level" =>
           \/ pct'[f] \in Reached(f)..fade[f].target
           \/ pct'[f] \in fade[f].target..Reached(f)]_vars
  BY <1>3
<1>5. QED
  BY <1>1, <1>2, <1>4, TypeCorrect, PTL DEF Spec, FadeGoesOneWay

================================================================================
