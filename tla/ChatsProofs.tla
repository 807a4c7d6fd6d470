------------------------------ MODULE ChatsProofs ------------------------------
(***************************************************************************)
(* Proofs about the components that MCChats has TLC check side by side:    *)
(* SessionLanes, for every set of processes and turns, every cap and every *)
(* combination of faults the constants allow; Studio, for all sets of      *)
(* agents, workflows, projects, requests and files; Conversations, for all *)
(* chats, messages and earlier rows; and ModelLoops, for all limits and    *)
(* all that earlier turns left.                                            *)
(***************************************************************************)
EXTENDS SessionLanes, Studio, Conversations, ModelLoops, SequenceFacts, FiniteSetTheorems

\* The shape of the state is kept by every handler.
THEOREM LanesTypeCorrect == Spec => []TypeOK
<1>1. Init => TypeOK
  BY LaneAssumption DEF Init, TypeOK, Phases
<1>2. TypeOK /\ [Next]_vars => TypeOK'
  <2> SUFFICES ASSUME TypeOK, [Next]_vars PROVE TypeOK'
    OBVIOUS
  <2> USE LaneAssumption DEF TypeOK, Phases
  <2>1. ASSUME NEW t \in Turns, Acquire(t) PROVE TypeOK'
    BY <2>1 DEF Acquire
  <2>2. ASSUME NEW t \in Turns, GiveUp(t) PROVE TypeOK'
    BY <2>2 DEF GiveUp, Finish
  <2>3. ASSUME NEW t \in Turns, MyGo(t) PROVE TypeOK'
    BY <2>3 DEF MyGo
  <2>4. ASSUME NEW t \in Turns, LockBusy(t) PROVE TypeOK'
    BY <2>4 DEF LockBusy
  <2>5. ASSUME NEW t \in Turns, TakeLock(t) PROVE TypeOK'
    BY <2>5 DEF TakeLock
  <2>6. ASSUME NEW t \in Turns, LockUnavailable(t) PROVE TypeOK'
    BY <2>6 DEF LockUnavailable
  <2>7. ASSUME NEW t \in Turns, Release(t) PROVE TypeOK'
    BY <2>7 DEF Release, Finish
  <2>8. ASSUME NEW t \in Turns, Unlocked(t) PROVE TypeOK'
    BY <2>8 DEF Unlocked
  <2>9. CASE Expire
    BY <2>9 DEF Expire
  <2>10. ASSUME NEW p \in Procs, Crash(p) PROVE TypeOK'
    BY <2>10 DEF Crash
  <2>11. CASE UNCHANGED vars
    BY <2>11 DEF vars
  <2>12. QED
    BY <2>1, <2>2, <2>3, <2>4, <2>5, <2>6, <2>7, <2>8, <2>9, <2>10, <2>11
    DEF Next
<1>3. QED
  BY <1>1, <1>2, PTL DEF Spec

-----------------------------------------------------------------------------
(***************************************************************************)
(* Mutual exclusion across processes.  The Redis lock gives it when Redis  *)
(* answers and renewals are in time: a running turn owns the key and keeps *)
(* it alive, and the release scripts still under way belong to turns that  *)
(* are over, so none of them can delete a running turn's key.              *)
(***************************************************************************)
RedisHolds == UseRedis /\ ~RedisMayFail /\ ~LockMayLapse

LockInv ==
  /\ \A t \in Turns : pc[t] = "running" => lock = t /\ t \in renewing
  /\ \A t \in unlocking : pc[t] \in {"over", "crashed"}

\* Every running turn owns a key that is kept alive.
LEMMA LanesLockInvariant == RedisHolds => (Spec => []LockInv)
<1> SUFFICES ASSUME RedisHolds PROVE Spec => []LockInv
  OBVIOUS
<1>1. Init => LockInv
  BY DEF Init, LockInv
<1>2. TypeOK /\ LockInv /\ [Next]_vars => LockInv'
  <2> SUFFICES ASSUME TypeOK, LockInv, [Next]_vars PROVE LockInv'
    OBVIOUS
  <2> USE LaneAssumption DEF TypeOK, LockInv, RedisHolds
  <2>1. ASSUME NEW t \in Turns, Acquire(t) PROVE LockInv'
    BY <2>1 DEF Acquire
  <2>2. ASSUME NEW t \in Turns, GiveUp(t) PROVE LockInv'
    BY <2>2 DEF GiveUp, Finish
  <2>3. ASSUME NEW t \in Turns, MyGo(t) PROVE LockInv'
    BY <2>3 DEF MyGo
  <2>4. ASSUME NEW t \in Turns, LockBusy(t) PROVE LockInv'
    BY <2>4 DEF LockBusy
  <2>5. ASSUME NEW t \in Turns, TakeLock(t) PROVE LockInv'
    BY <2>5 DEF TakeLock
  <2>6. ASSUME NEW t \in Turns, LockUnavailable(t) PROVE LockInv'
    BY <2>6 DEF LockUnavailable
  <2>7. ASSUME NEW t \in Turns, Release(t) PROVE LockInv'
    BY <2>7 DEF Release, Finish
  <2>8. ASSUME NEW t \in Turns, Unlocked(t) PROVE LockInv'
    BY <2>8 DEF Unlocked
  <2>9. CASE Expire
    BY <2>9 DEF Expire
  <2>10. ASSUME NEW p \in Procs, Crash(p) PROVE LockInv'
    BY <2>10 DEF Crash, Live
  <2>11. CASE UNCHANGED vars
    BY <2>11 DEF vars
  <2>12. QED
    BY <2>1, <2>2, <2>3, <2>4, <2>5, <2>6, <2>7, <2>8, <2>9, <2>10, <2>11
    DEF Next
<1>3. QED
  BY <1>1, <1>2, LanesTypeCorrect, PTL DEF Spec

\* At most one turn of the session runs at any time, on any number of workers
\* and whoever crashes, as long as Redis holds.
THEOREM LanesMutualExclusion == RedisHolds => (Spec => []OneTurnAtATime)
<1>1. LockInv => OneTurnAtATime
  BY DEF LockInv, OneTurnAtATime
<1>2. QED
  BY <1>1, LanesLockInvariant, PTL

-----------------------------------------------------------------------------
(***************************************************************************)
(* The promise chain.  In a process whose lane was not cut the live turns  *)
(* are ordered by `behind`, and the last tail is behind all of them; a     *)
(* turn past the wait has only released turns before it.                   *)
(***************************************************************************)
ChainInv ==
  /\ \A t \in released : ~Live(t) /\ pc[t] # "new"
  /\ \A t \in Turns : PastWait(t) => behind[t] \subseteq released
  /\ \A t \in Turns : \A u \in behind[t] : pc[u] # "new"
  /\ \A p \in Procs : tails[p] # NoTurn => Live(tails[p]) /\ at[tails[p]] = p
  /\ \A t \in Turns :
       Live(t) /\ at[t] \notin cut =>
         /\ tails[at[t]] # NoTurn
         /\ tails[at[t]] # t => t \in behind[tails[at[t]]]
  /\ \A t, u \in Turns :
       Live(t) /\ Live(u) /\ t # u /\ at[t] = at[u] /\ at[t] \notin cut =>
         t \in behind[u] \/ u \in behind[t]

\* finish() of a live turn keeps the chain: the turn leaves it, and when it was
\* the last in line either nobody is left or the lane counts as cut.
LEMMA FinishKeepsChain ==
  ASSUME TypeOK, ChainInv, NEW t \in Turns, Live(t), Finish(t),
         pc' = [pc EXCEPT ![t] = "over"], UNCHANGED <<at, behind>>
  PROVE  ChainInv'
<1> USE LaneAssumption DEF TypeOK, Live, PastWait
<1>1. \A u \in Turns : (Live(u)' <=> Live(u) /\ u # t) /\ (pc'[u] = "new" <=> pc[u] = "new")
  OBVIOUS
<1>2. \A u \in Turns : PastWait(u)' => PastWait(u)
  OBVIOUS
<1>3. released' = released \union {t} /\ released \subseteq released'
  BY DEF Finish
<1>4. (\A u \in released : ~Live(u) /\ pc[u] # "new")'
  BY <1>1, <1>3 DEF ChainInv
<1>5. (\A v \in Turns : PastWait(v) => behind[v] \subseteq released)'
  BY <1>2, <1>3 DEF ChainInv
<1>6. (\A v \in Turns : \A u \in behind[v] : pc[u] # "new")'
  BY <1>1 DEF ChainInv
<1>7. (\A p \in Procs : tails[p] # NoTurn => Live(tails[p]) /\ at[tails[p]] = p)'
  <2> SUFFICES ASSUME NEW p \in Procs, tails'[p] # NoTurn
               PROVE  Live(tails[p])' /\ at'[tails'[p]] = p
    OBVIOUS
  <2>1. tails'[p] = tails[p] /\ tails[p] # t
    BY DEF Finish, ChainInv
  <2>2. QED
    BY <2>1, <1>1 DEF ChainInv
<1>8. \A u \in Turns : Live(u)' /\ at[u] \notin cut' =>
        /\ at[u] \notin cut
        /\ tails'[at[u]] = tails[at[u]]
  BY <1>1 DEF Finish
<1>9. QED
  BY <1>1, <1>4, <1>5, <1>6, <1>7, <1>8 DEF ChainInv

\* A turn that arrives is chained after everyone in the lane.
LEMMA AcquireKeepsChain ==
  ASSUME TypeOK, ChainInv, NEW t \in Turns, Acquire(t)
  PROVE  ChainInv'
<1> USE LaneAssumption DEF TypeOK, Live, PastWait
<1>1. CASE pc' = [pc EXCEPT ![t] = "full"] /\ UNCHANGED <<behind, tails, depth>>
  BY <1>1 DEF Acquire, ChainInv
<1>2. CASE /\ pc' = [pc EXCEPT ![t] = "waiting"]
           /\ behind' = [behind EXCEPT ![t] =
                IF tails[at[t]] = NoTurn THEN {}
                ELSE behind[tails[at[t]]] \union {tails[at[t]]}]
           /\ tails' = [tails EXCEPT ![at[t]] = t]
  <2>1. pc[t] = "new" /\ UNCHANGED <<at, released, cut>>
    BY DEF Acquire
  <2>2. \A u \in Turns : u # t => pc'[u] = pc[u] /\ behind'[u] = behind[u]
    BY <1>2
  <2>3. \A u \in Turns : t \notin behind[u]
    BY <2>1 DEF ChainInv
  <2>4. \A u \in Turns : Live(u) /\ at[u] = at[t] /\ at[t] \notin cut => u \in behind'[t]
    BY <1>2 DEF ChainInv
  <2>5. (\A u \in released : ~Live(u) /\ pc[u] # "new")'
    BY <2>1, <2>2 DEF ChainInv
  <2>6. (\A v \in Turns : PastWait(v) => behind[v] \subseteq released)'
    BY <1>2, <2>1, <2>2 DEF ChainInv
  <2>7. (\A v \in Turns : \A u \in behind[v] : pc[u] # "new")'
    <3>1. \A u \in behind'[t] : pc[u] # "new"
      BY <1>2 DEF ChainInv
    <3>2. \A u \in Turns : pc'[u] = "new" => pc[u] = "new"
      BY <1>2
    <3>3. QED
      BY <1>2, <2>2, <3>1, <3>2 DEF ChainInv
  <2>8. (\A p \in Procs : tails[p] # NoTurn => Live(tails[p]) /\ at[tails[p]] = p)'
    BY <1>2, <2>1, <2>2 DEF ChainInv
  <2>9. (\A u \in Turns : Live(u) /\ at[u] \notin cut =>
           /\ tails[at[u]] # NoTurn
           /\ tails[at[u]] # u => u \in behind[tails[at[u]]])'
    <3> SUFFICES ASSUME NEW u \in Turns, Live(u)', at[u] \notin cut
                 PROVE  /\ tails'[at[u]] # NoTurn
                        /\ tails'[at[u]] # u => u \in behind'[tails'[at[u]]]
      BY <2>1
    <3>1. CASE at[u] = at[t]
      BY <1>2, <2>2, <2>4, <3>1
    <3>2. CASE at[u] # at[t]
      <4>1. tails'[at[u]] = tails[at[u]] /\ u # t
        BY <1>2, <3>2
      <4>2. tails[at[u]] # t
        BY <2>1 DEF ChainInv
      <4>3. QED
        BY <2>2, <4>1, <4>2 DEF ChainInv
    <3>3. QED
      BY <3>1, <3>2
  <2>10. (\A u, v \in Turns :
            Live(u) /\ Live(v) /\ u # v /\ at[u] = at[v] /\ at[u] \notin cut =>
              u \in behind[v] \/ v \in behind[u])'
    BY <2>1, <2>2, <2>4 DEF ChainInv
  <2>11. QED
    BY <2>5, <2>6, <2>7, <2>8, <2>9, <2>10 DEF ChainInv
<1>3. QED
  BY <1>1, <1>2 DEF Acquire

\* In every configuration, with or without Redis and whatever fails: in a lane
\* that was not cut, the turn past the wait arrived before all the others and
\* is alone.
THEOREM LanesFirstComeFirstServed == Spec => []FirstComeFirstServed
<1>1. Init => ChainInv
  BY LaneAssumption DEF Init, ChainInv, Live, PastWait
<1>2. TypeOK /\ ChainInv /\ [Next]_vars => ChainInv'
  <2> SUFFICES ASSUME TypeOK, ChainInv, [Next]_vars PROVE ChainInv'
    OBVIOUS
  <2>1. ASSUME NEW t \in Turns, Acquire(t) PROVE ChainInv'
    BY <2>1, AcquireKeepsChain
  <2>2. ASSUME NEW t \in Turns, GiveUp(t) PROVE ChainInv'
    BY <2>2, FinishKeepsChain DEF GiveUp, Live
  <2>3. ASSUME NEW t \in Turns, MyGo(t) PROVE ChainInv'
    BY <2>3, LaneAssumption DEF MyGo, TypeOK, ChainInv, Live, PastWait
  <2>4. ASSUME NEW t \in Turns,
               LockBusy(t) \/ TakeLock(t) \/ LockUnavailable(t)
        PROVE  ChainInv'
    BY <2>4, LaneAssumption
    DEF LockBusy, TakeLock, LockUnavailable, TypeOK, ChainInv, Live, PastWait
  <2>5. ASSUME NEW t \in Turns, Release(t) PROVE ChainInv'
    BY <2>5, FinishKeepsChain DEF Release, Live
  <2>6. ASSUME NEW t \in Turns, Unlocked(t) PROVE ChainInv'
    BY <2>6 DEF Unlocked, ChainInv, Live, PastWait
  <2>7. CASE Expire
    BY <2>7 DEF Expire, ChainInv, Live, PastWait
  <2>8. ASSUME NEW p \in Procs, Crash(p) PROVE ChainInv'
    BY <2>8, LaneAssumption DEF Crash, TypeOK, ChainInv, Live, PastWait
  <2>9. CASE UNCHANGED vars
    BY <2>9 DEF vars, ChainInv, Live, PastWait
  <2>10. QED
    BY <2>1, <2>2, <2>3, <2>4, <2>5, <2>6, <2>7, <2>8, <2>9 DEF Next
<1>3. TypeOK /\ ChainInv => FirstComeFirstServed
  <2> SUFFICES ASSUME TypeOK, ChainInv, NEW t \in Turns, NEW u \in Turns,
                      t # u, at[t] = at[u], at[t] \notin cut,
                      PastWait(t), Live(u)
               PROVE  t \in behind[u] /\ pc[u] = "waiting"
    BY DEF FirstComeFirstServed
  <2>1. Live(t)
    BY DEF Live, PastWait
  <2>2. u \notin behind[t]
    BY DEF ChainInv
  <2>3. t \in behind[u]
    BY <2>1, <2>2 DEF ChainInv
  <2>4. ~PastWait(u)
    BY <2>1, <2>3 DEF ChainInv
  <2>5. QED
    BY <2>3, <2>4 DEF Live, PastWait
<1>4. QED
  BY <1>1, <1>2, <1>3, LanesTypeCorrect, PTL DEF Spec

-----------------------------------------------------------------------------
(***************************************************************************)
(* The counts.  LaneAccounting is inductive as it stands: a turn that      *)
(* comes in adds one to the live turns of its process and to no other, one *)
(* that leaves takes one away, and the tail is a live turn or none.        *)
(***************************************************************************)
LiveAt(p) == {t \in Turns : at[t] = p /\ Live(t)}

\* The live turns of a process are finitely many.
LEMMA LiveIsFinite ==
  ASSUME NEW p
  PROVE  IsFiniteSet(LiveAt(p)) /\ Cardinality(LiveAt(p)) \in Nat
BY LaneAssumption, FS_Subset, FS_CardinalityType DEF LiveAt

\* A step that changes nobody's place in the lane changes no count.
LEMMA SamePlacesSameCounts ==
  ASSUME LaneAccounting, \A t \in Turns : Live(t)' <=> Live(t),
         UNCHANGED <<at, tails, depth>>
  PROVE  LaneAccounting'
<1>1. \A p : LiveAt(p)' = LiveAt(p)
  BY DEF LiveAt
<1>2. QED
  BY <1>1 DEF LaneAccounting, LiveAt

\* finish() of a live turn counts it out once and forgets no one else's tail.
LEMMA FinishKeepsCounts ==
  ASSUME TypeOK, LaneAccounting, NEW t \in Turns, Live(t), Finish(t),
         pc' = [pc EXCEPT ![t] = "over"], UNCHANGED at
  PROVE  LaneAccounting'
<1>1. \A u \in Turns : Live(u)' <=> Live(u) /\ u # t
  BY DEF TypeOK, Live
<1>2. \A p : p = at[t] => LiveAt(p)' = LiveAt(p) \ {t} /\ t \in LiveAt(p)
  BY <1>1 DEF LiveAt
<1>3. \A p : p # at[t] => LiveAt(p)' = LiveAt(p)
  BY <1>1 DEF LiveAt
<1>4. SUFFICES ASSUME NEW p \in Procs
               PROVE  /\ depth'[p] = Cardinality(LiveAt(p)')
                      /\ tails'[p] # NoTurn => tails'[p] \in LiveAt(p)'
                      /\ depth'[p] <= Cap + 1
  BY DEF LaneAccounting, LiveAt
<1>5. /\ depth[p] = Cardinality(LiveAt(p))
      /\ tails[p] # NoTurn => tails[p] \in LiveAt(p)
      /\ depth[p] <= Cap + 1
  BY DEF LaneAccounting, LiveAt
<1>6. CASE p = at[t]
  <2>1. Cardinality(LiveAt(p)') = Cardinality(LiveAt(p)) - 1
    BY <1>2, <1>6, LiveIsFinite, FS_RemoveElement
  <2>2. Cardinality(LiveAt(p)') \in Nat
    <3>1. IsFiniteSet(LiveAt(p) \ {t})
      BY LiveIsFinite, FS_RemoveElement
    <3>2. QED
      BY <1>2, <1>6, <3>1, FS_CardinalityType
  <2>3. depth'[p] = IF depth[p] <= 1 THEN 0 ELSE depth[p] - 1
    BY <1>6 DEF Finish, TypeOK
  <2>4. tails'[p] = IF tails[p] = t THEN NoTurn ELSE tails[p]
    BY <1>6 DEF Finish, TypeOK
  <2>5. depth'[p] = Cardinality(LiveAt(p)') /\ depth'[p] <= Cap + 1
    BY <1>5, <2>1, <2>2, <2>3, LiveIsFinite, LaneAssumption
  <2>6. QED
    BY <1>2, <1>5, <1>6, <2>4, <2>5
<1>7. CASE p # at[t]
  <2>1. depth'[p] = depth[p] /\ tails'[p] = tails[p]
    BY <1>7 DEF Finish, TypeOK
  <2>2. QED
    BY <1>3, <1>5, <1>7, <2>1
<1>8. QED
  BY <1>6, <1>7

\* acquire() counts in the turn it lets in, and lets in one more than may wait
\* at most.
LEMMA AcquireKeepsCounts ==
  ASSUME TypeOK, LaneAccounting, NEW t \in Turns, Acquire(t)
  PROVE  LaneAccounting'
<1>1. CASE pc' = [pc EXCEPT ![t] = "full"] /\ UNCHANGED <<behind, tails, depth>>
  <2>1. \A u \in Turns : Live(u)' <=> Live(u)
    BY <1>1 DEF Acquire, TypeOK, Live
  <2>2. QED
    BY <1>1, <2>1, SamePlacesSameCounts DEF Acquire
<1>2. CASE /\ depth[at[t]] <= Cap
           /\ pc' = [pc EXCEPT ![t] = "waiting"]
           /\ tails' = [tails EXCEPT ![at[t]] = t]
           /\ depth' = [depth EXCEPT ![at[t]] = @ + 1]
  <2>1. \A u \in Turns : Live(u)' <=> Live(u) \/ u = t
    BY <1>2 DEF TypeOK, Live
  <2>2. \A p : p = at[t] => LiveAt(p)' = LiveAt(p) \cup {t} /\ t \notin LiveAt(p)
    BY <2>1 DEF LiveAt, Acquire, Live
  <2>3. \A p : p # at[t] => LiveAt(p)' = LiveAt(p)
    BY <2>1 DEF LiveAt, Acquire
  <2>4. SUFFICES ASSUME NEW p \in Procs
                 PROVE  /\ depth'[p] = Cardinality(LiveAt(p)')
                        /\ tails'[p] # NoTurn => tails'[p] \in LiveAt(p)'
                        /\ depth'[p] <= Cap + 1
    BY DEF LaneAccounting, LiveAt
  <2>5. /\ depth[p] = Cardinality(LiveAt(p))
        /\ tails[p] # NoTurn => tails[p] \in LiveAt(p)
        /\ depth[p] <= Cap + 1
    BY DEF LaneAccounting, LiveAt
  <2>6. CASE p = at[t]
    <3>1. Cardinality(LiveAt(p)') = Cardinality(LiveAt(p)) + 1
      BY <2>2, <2>6, LiveIsFinite, FS_AddElement
    <3>2. depth'[p] = depth[p] + 1 /\ tails'[p] = t
      BY <1>2, <2>6 DEF TypeOK
    <3>3. depth'[p] <= Cap + 1
      BY <1>2, <2>6, <3>2, LaneAssumption DEF TypeOK
    <3>4. QED
      BY <2>2, <2>5, <2>6, <3>1, <3>2, <3>3
  <2>7. CASE p # at[t]
    <3>1. depth'[p] = depth[p] /\ tails'[p] = tails[p]
      BY <1>2, <2>7 DEF TypeOK
    <3>2. QED
      BY <2>3, <2>5, <2>7, <3>1
  <2>8. QED
    BY <2>6, <2>7
<1>3. QED
  BY <1>1, <1>2 DEF Acquire

\* A process that dies takes its whole lane with it, and nobody else's.
LEMMA CrashKeepsCounts ==
  ASSUME TypeOK, LaneAccounting, NEW q \in Procs, Crash(q)
  PROVE  LaneAccounting'
<1>1. \A u \in Turns : Live(u)' <=> Live(u) /\ at[u] # q
  BY DEF Crash, TypeOK, Live
<1>2. LiveAt(q)' = {} /\ \A p : p # q => LiveAt(p)' = LiveAt(p)
  BY <1>1 DEF Crash, LiveAt
<1>3. /\ depth'[q] = 0 /\ tails'[q] = NoTurn
      /\ \A p \in Procs : p # q => depth'[p] = depth[p] /\ tails'[p] = tails[p]
  BY DEF Crash, TypeOK
<1>4. SUFFICES ASSUME NEW p \in Procs
               PROVE  /\ depth'[p] = Cardinality(LiveAt(p)')
                      /\ tails'[p] # NoTurn => tails'[p] \in LiveAt(p)'
                      /\ depth'[p] <= Cap + 1
  BY DEF LaneAccounting, LiveAt
<1>5. CASE p = q
  BY <1>2, <1>3, <1>5, FS_EmptySet, LaneAssumption
<1>6. CASE p # q
  BY <1>2, <1>3, <1>6 DEF LaneAccounting, LiveAt
<1>7. QED
  BY <1>5, <1>6

\* In every configuration: the count of a process is that of its live turns,
\* at most one more than may wait, and an idle lane has no tail.
THEOREM LanesCountExactly == Spec => []LaneAccounting
<1>1. Init => LaneAccounting
  <2> SUFFICES ASSUME Init PROVE LaneAccounting
    OBVIOUS
  <2>1. \A p : LiveAt(p) = {}
    BY DEF Init, LiveAt, Live
  <2>2. QED
    BY <2>1, FS_EmptySet, LaneAssumption DEF Init, LaneAccounting, LiveAt
<1>2. TypeOK /\ LaneAccounting /\ [Next]_vars => LaneAccounting'
  <2> SUFFICES ASSUME TypeOK, LaneAccounting, [Next]_vars PROVE LaneAccounting'
    OBVIOUS
  <2>1. ASSUME NEW t \in Turns, Acquire(t) PROVE LaneAccounting'
    BY <2>1, AcquireKeepsCounts
  <2>2. ASSUME NEW t \in Turns, GiveUp(t) PROVE LaneAccounting'
    BY <2>2, FinishKeepsCounts DEF GiveUp, Live
  <2>3. ASSUME NEW t \in Turns,
               MyGo(t) \/ LockBusy(t) \/ TakeLock(t) \/ LockUnavailable(t)
        PROVE  LaneAccounting'
    <3>1. \A u \in Turns : Live(u)' <=> Live(u)
      BY <2>3 DEF MyGo, LockBusy, TakeLock, LockUnavailable, TypeOK, Live
    <3>2. UNCHANGED <<at, tails, depth>>
      BY <2>3 DEF MyGo, LockBusy, TakeLock, LockUnavailable
    <3>3. QED
      BY <3>1, <3>2, SamePlacesSameCounts
  <2>4. ASSUME NEW t \in Turns, Release(t) PROVE LaneAccounting'
    BY <2>4, FinishKeepsCounts DEF Release, Live
  <2>5. ASSUME NEW p \in Procs, Crash(p) PROVE LaneAccounting'
    BY <2>5, CrashKeepsCounts
  <2>6. CASE (\E t \in Turns : Unlocked(t)) \/ Expire \/ UNCHANGED vars
    <3>1. UNCHANGED <<pc, at, tails, depth>>
      BY <2>6 DEF Unlocked, Expire, vars
    <3>2. QED
      BY <3>1, SamePlacesSameCounts DEF Live
  <2>7. QED
    BY <2>1, <2>2, <2>3, <2>4, <2>5, <2>6 DEF Next
<1>3. QED
  BY <1>1, <1>2, LanesTypeCorrect, PTL DEF Spec

\* What the lane keeps to even when Redis does not: its order and its counts,
\* for any number of workers and turns, any cap and any fault.
THEOREM LanesAreSafe == Spec => []LaneSafety
<1>1. FirstComeFirstServed /\ LaneAccounting => LaneSafety
  BY DEF LaneSafety
<1>2. QED
  BY <1>1, LanesFirstComeFirstServed, LanesCountExactly, PTL

-----------------------------------------------------------------------------
(***************************************************************************)
(* Refinement: what the callers see is the abstract mutual exclusion of    *)
(* SessionTurns.                                                           *)
(***************************************************************************)

\* With Redis holding, every step of the lane is a step of the promise or
\* changes nothing a caller can see.
THEOREM LanesImplementPromise == RedisHolds => (Spec => ImplementsPromise)
<1> SUFFICES ASSUME RedisHolds PROVE Spec => ImplementsPromise
  OBVIOUS
<1> DEFINE ph == [t \in Turns |-> PhaseOf(t)]
<1>1. Init => Promise!Init
  BY DEF Init, Promise!Init, PhaseOf
<1>2. TypeOK /\ LockInv /\ [Next]_vars => [Promise!Next]_ph
  <2> SUFFICES ASSUME TypeOK, LockInv, [Next]_vars PROVE [Promise!Next]_ph
    OBVIOUS
  <2> USE LaneAssumption DEF TypeOK, RedisHolds
  <2>1. ASSUME NEW t \in Turns, Acquire(t) PROVE Promise!Next
    <3>1. CASE pc' = [pc EXCEPT ![t] = "full"]
      <4>1. Promise!Refuse(t)
        BY <2>1, <3>1 DEF Acquire, Promise!Refuse, Promise!Move, PhaseOf
      <4>2. QED
        BY <4>1 DEF Promise!Next
    <3>2. CASE pc' = [pc EXCEPT ![t] = "waiting"]
      <4>1. Promise!Ask(t)
        BY <2>1, <3>2 DEF Acquire, Promise!Ask, Promise!Move, PhaseOf
      <4>2. QED
        BY <4>1 DEF Promise!Next
    <3>3. QED
      BY <2>1, <3>1, <3>2 DEF Acquire
  <2>2. ASSUME NEW t \in Turns, GiveUp(t) PROVE Promise!Next
    <3>1. Promise!Leave(t)
      BY <2>2 DEF GiveUp, Promise!Leave, Promise!Move, PhaseOf
    <3>2. QED
      BY <3>1 DEF Promise!Next
  <2>3. ASSUME NEW t \in Turns, MyGo(t) \/ LockBusy(t) PROVE ph' = ph
    BY <2>3 DEF MyGo, LockBusy, PhaseOf
  <2>4. ASSUME NEW t \in Turns, TakeLock(t) PROVE Promise!Next
    <3>1. \A u \in Turns : pc[u] # "running"
      BY <2>4 DEF TakeLock, LockInv
    <3>2. Promise!Start(t)
      BY <2>4, <3>1
      DEF TakeLock, Promise!Start, Promise!NobodyRuns, Promise!Move, PhaseOf
    <3>3. QED
      BY <3>2 DEF Promise!Next
  <2>5. ASSUME NEW t \in Turns, LockUnavailable(t) PROVE FALSE
    BY <2>5 DEF LockUnavailable
  <2>6. ASSUME NEW t \in Turns, Release(t) PROVE Promise!Next
    <3>1. Promise!End(t)
      BY <2>6 DEF Release, Promise!End, Promise!Move, PhaseOf
    <3>2. QED
      BY <3>1 DEF Promise!Next
  <2>7. ASSUME NEW t \in Turns, Unlocked(t) PROVE ph' = ph
    BY <2>7 DEF Unlocked, PhaseOf
  <2>8. CASE Expire
    BY <2>8 DEF Expire, PhaseOf
  <2>9. ASSUME NEW p \in Procs, Crash(p) PROVE Promise!Next
    <3> DEFINE S == {t \in Turns : at[t] = p /\ Live(t)}
    <3>1. Promise!Lose(S)
      BY <2>9 DEF Crash, Live, Promise!Lose, PhaseOf
    <3>2. QED
      BY <3>1 DEF Promise!Next
  <2>10. CASE UNCHANGED vars
    BY <2>10 DEF vars, PhaseOf
  <2>11. QED
    BY <2>1, <2>2, <2>3, <2>4, <2>5, <2>6, <2>7, <2>8, <2>9, <2>10 DEF Next
<1>3. QED
  BY <1>1, <1>2, LanesLockInvariant, LanesTypeCorrect, PTL
  DEF Spec, ImplementsPromise, Promise!Spec

-----------------------------------------------------------------------------

-----------------------------------------------------------------------------
(***************************************************************************)
(* Studio, for any number of projects, agents, workflows, requests,        *)
(* schedulers and failures.                                                *)
(***************************************************************************)
(***************************************************************************)
(* Studio: the invariant.  A workflow that a project or a save names was   *)
(* made once, and is that project's alone; what a scheduler has claimed is *)
(* behind what the project's row has next; and, as long as requests have   *)
(* not overlapped, the one under way finds what it read.                   *)
(***************************************************************************)
Drawing(j) == job[j].at \in {"agents", "project"}

FlowsAreOwned ==
  /\ \A p \in Projects : project[p].flow # "none" =>
       project[p].flow \in issued /\ flowOf[project[p].flow] # NoStudioFlow
  /\ \A p, q \in Projects : project[p].flow # "none" /\ project[p].flow = project[q].flow => p = q
  /\ \A f \in StudioFlows : flowOf[f] # NoStudioFlow => f \in issued
  /\ \A j \in Jobs : Drawing(j) /\ job[j].flow # "none" =>
       /\ job[j].flow \in issued
       /\ \A q \in Projects : project[q].flow = job[j].flow => q = job[j].p
       /\ \A k \in Jobs : Drawing(k) /\ job[k].flow = job[j].flow => job[k].p = job[j].p

OneCommand == \A p, q \in Projects : project[p].trigger = "chat" /\ project[q].trigger = "chat" => p = q

SlotsAreSpent ==
  /\ \A s \in Tickers : tick[s] # NoDue => tick[s].project \in Projects /\ tick[s].due \in 1..clock
  /\ \A p \in Projects, n \in 1..MaxSlots + 1 :
       /\ claims[p][n] <= 1
       /\ claims[p][n] = 1 => n <= clock /\ (project[p].due = 0 \/ project[p].due > n)
  /\ \A p \in Projects : project[p].due <= clock + 1

RequestFits(j) ==
  /\ job[j].at = "done" => job[j] = NoJob
  /\ job[j].at \in {"agents", "project", "hook"} => job[j].op \in {"save", "import"} /\ job[j].p \in Projects /\ job[j].rev > 0
  /\ job[j].at \in {"skill", "agent", "functions", "next", "undo"} => job[j].op = "import"
  /\ job[j].at = "flow" => job[j].flow # "none"
  /\ job[j].at = "agents" /\ job[j].todo # {} => job[j].made = {}
RequestsFit ==
  /\ \A p \in Projects : Saved(p) => project[p].rev > 0
  /\ \A j \in Jobs : RequestFits(j) /\ (job[j].op # "none" => began > 0)

\* What the one request under way has read is still so.
Undisturbed(j) ==
  /\ Drawing(j) =>
       /\ job[j].old = Saved(job[j].p)
       /\ job[j].trigger = "chat" => ~Taken(job[j].p)
       /\ job[j].agents \subseteq agentRows /\ job[j].todo \subseteq job[j].agents
  /\ job[j].at = "agents" => job[j].flow = project[job[j].p].flow
  /\ job[j].at = "project" /\ job[j].flow # "none" => flowOf[job[j].flow] # NoStudioFlow
  /\ job[j].at = "hook" => Saved(job[j].p)
  /\ job[j].at = "flow" => \A q \in Projects : project[q].flow # job[j].flow

OneByOne ==
  ~overlapped =>
    /\ \A j, k \in Jobs : job[j].at # "done" /\ job[k].at # "done" => j = k
    /\ \A j \in Jobs : Undisturbed(j)
    /\ faulted \intersect {"agent", "project"} = {} => strays = {}

Runs(p) ==
  /\ project[p].flow # "none" /\ flowOf[project[p].flow].rev = project[p].rev
  /\ flowOf[project[p].flow].agents = project[p].agents
Hooked(p) == project[p].trigger = "webhook" => project[p].hook

\* What is written of a project is whole but for what its save has yet to write.
WholeSoFar ==
  ~overlapped /\ faulted = {} =>
    /\ \A p \in Projects : Saved(p) =>
         /\ Runs(p) \/ \E j \in Jobs : job[j].at = "project" /\ job[j].p = p
         /\ Hooked(p) \/ \E j \in Jobs : job[j].at = "hook" /\ job[j].p = p
    /\ \A f \in StudioFlows : flowOf[f] # NoStudioFlow =>
         \/ \E p \in Projects : project[p].flow = f
         \/ \E j \in Jobs : job[j].at \in {"project", "flow"} /\ job[j].flow = f
    /\ \A j \in Jobs :
         /\ job[j].at \in {"agents", "project", "hook"} => ~job[j].failed
         /\ job[j].at = "project" =>
              /\ job[j].flow # "none" /\ flowOf[job[j].flow].agents = job[j].agents /\ flowOf[job[j].flow].rev = job[j].rev
              /\ Saved(job[j].p) => project[job[j].p].flow = job[j].flow

StudioInv == FlowsAreOwned /\ OneCommand /\ SlotsAreSpent /\ RequestsFit /\ OneByOne /\ WholeSoFar

LEMMA FlowDrawn ==
  ASSUME NEW r \in Requests, NEW f \in StudioFlows
  PROVE  LET q == [r EXCEPT !.at = "project", !.flow = f] IN
         /\ q \in Requests /\ q.at = "project" /\ q.op = r.op /\ q.p = r.p /\ q.agents = r.agents /\ q.todo = r.todo
         /\ q.new = r.new /\ q.made = r.made /\ q.old = r.old /\ q.flow = f /\ q.rev = r.rev
         /\ q.trigger = r.trigger /\ q.failed = r.failed
BY DEF Requests

LEMMA StudioLimits == MaxSaves \in Nat /\ MaxSlots \in Nat /\ MaxStudioFaults \in Nat /\ "none" \notin Projects /\ "none" \notin StudioFlows
BY StudioAssumption

\* What a request turns into is its own; the others' stay.
LEMMA OnlyTheRequest ==
  ASSUME StudioTypeOK, NEW j \in Jobs, NEW q \in Requests, Becomes(j, q)
  PROVE  job' \in [Jobs -> Requests] /\ job'[j] = q /\ \A k \in Jobs : k # j => job'[k] = job[k]
BY DEF StudioTypeOK, Becomes

\* A request that leaves its project, or has none.
LEMMA LeavingKeeps ==
  ASSUME StudioTypeOK, StudioInv, StudioTypeOK', NEW j \in Jobs, NEW q \in Requests, Becomes(j, q),
         UNCHANGED <<flowOf, project, tick, clock, claims>>, began' >= began,
         agentRows \subseteq agentRows', issued \subseteq issued', faulted \subseteq faulted', overlapped => overlapped',
         q.at \in {"done", "skill", "agent", "functions", "next", "undo"},
         q.at = "done" => q = NoJob,
         q.at # "done" => q.op = "import" /\ began' > 0,
         ~overlapped' => \A k \in Jobs : k # j => job[k].at = "done",
         ~overlapped' /\ faulted' \intersect {"agent", "project"} = {} => strays' = {},
         ~overlapped' /\ faulted' = {} => job[j].at \notin {"project", "hook", "flow"}
  PROVE  StudioInv'
<1>1. job'[j] = q /\ \A k \in Jobs : k # j => job'[k] = job[k]
  BY OnlyTheRequest
<1>2. NoJob.at = "done" /\ NoJob.op = "none"
  BY DEF NoJob
<1>3. \A k \in Jobs : job'[k].at \in {"agents", "project", "hook", "flow"} => k # j /\ job'[k] = job[k] /\ overlapped'
  BY <1>1 DEF StudioTypeOK, Requests
<1>4. FlowsAreOwned'
  BY <1>1, <1>3 DEF StudioInv, FlowsAreOwned, Drawing
<1>5. OneCommand' /\ SlotsAreSpent'
  BY DEF StudioInv, OneCommand, SlotsAreSpent
<1>6. RequestsFit'
  <2>1. \A k \in Jobs : k # j /\ job'[k].op # "none" => began' > 0
    BY <1>1 DEF StudioInv, RequestsFit, StudioTypeOK
  <2>2. q.op # "none" => began' > 0
    BY <1>2
  <2>3. \A p \in Projects : Saved(p)' => project'[p].rev > 0
    BY DEF StudioInv, RequestsFit, Saved
  <2>4. \A k \in Jobs : k # j => (RequestFits(k)' <=> RequestFits(k))
    BY <1>1 DEF RequestFits
  <2>5. RequestFits(j)'
    BY <1>1 DEF RequestFits
  <2>6. QED
    BY <2>1, <2>2, <2>3, <2>4, <2>5, <1>1 DEF StudioInv, RequestsFit
<1>7. OneByOne'
  BY <1>1, <1>3 DEF StudioInv, OneByOne, Undisturbed, Drawing, Saved, Taken, StudioTypeOK
<1>8. WholeSoFar'
  <2> SUFFICES ASSUME ~overlapped', faulted' = {} PROVE WholeSoFar'
    BY DEF WholeSoFar
  <2>1. ~overlapped /\ faulted = {} /\ \A k \in Jobs : job[k].at \notin {"project", "hook", "flow"}
    OBVIOUS
  <2>2. \A p \in Projects : Saved(p) => Runs(p) /\ Hooked(p)
    BY <2>1 DEF StudioInv, WholeSoFar
  <2>3. \A f \in StudioFlows : flowOf[f] # NoStudioFlow => \E p \in Projects : project[p].flow = f
    BY <2>1 DEF StudioInv, WholeSoFar
  <2>4. \A p \in Projects : Saved(p)' => Runs(p)' /\ Hooked(p)'
    BY <2>2 DEF Saved, Runs, Hooked
  <2>5. \A k \in Jobs : job'[k].at \notin {"agents", "project", "hook", "flow"}
    BY <1>3
  <2>6. QED
    BY <2>3, <2>4, <2>5 DEF WholeSoFar
<1>9. QED
  BY <1>4, <1>5, <1>6, <1>7, <1>8 DEF StudioInv

\* A request that begins to write a project's canvas.
LEMMA CanvasKeeps ==
  ASSUME StudioTypeOK, StudioInv, StudioTypeOK', NEW j \in Jobs, NEW q \in Requests, Becomes(j, q),
         UNCHANGED <<agentRows, flowOf, project, tick, clock, claims, faulted, strays>>, began' >= began, began' > 0,
         issued \subseteq issued', overlapped => overlapped',
         job[j].at \in {"done", "next"},
         q.at = "agents", q.op \in {"save", "import"}, q.p \in Projects, q.rev > 0, q.made = {}, ~q.failed,
         q.agents \subseteq agentRows, q.todo \subseteq q.agents, q.old = Saved(q.p), q.flow = project[q.p].flow,
         q.trigger = "chat" => ~Taken(q.p),
         ~overlapped' => \A k \in Jobs : k # j => job[k].at = "done"
  PROVE  StudioInv'
<1>1. job'[j] = q /\ \A k \in Jobs : k # j => job'[k] = job[k]
  BY OnlyTheRequest
<1>2. FlowsAreOwned'
  <2>1. \A k \in Jobs : k # j => (Drawing(k)' <=> Drawing(k)) /\ job'[k] = job[k]
    BY <1>1 DEF Drawing
  <2>2. Drawing(j)' /\ job'[j] = q
    BY <1>1 DEF Drawing
  <2>3. \A p, r \in Projects : project[p].flow # "none" /\ project[p].flow = project[r].flow => p = r
    BY DEF StudioInv, FlowsAreOwned
  <2>4. ASSUME NEW k \in Jobs, Drawing(k)', job'[k].flow # "none"
        PROVE  /\ job'[k].flow \in issued'
               /\ \A p \in Projects : project'[p].flow = job'[k].flow => p = job'[k].p
    BY <2>1, <2>2, <2>3, <2>4 DEF StudioInv, FlowsAreOwned
  <2>5. ASSUME NEW k \in Jobs, Drawing(k)', job'[k].flow # "none", NEW m \in Jobs, Drawing(m)', job'[m].flow = job'[k].flow
        PROVE  job'[m].p = job'[k].p
    <3>1. CASE k # j /\ m # j
      BY <2>1, <2>5, <3>1 DEF StudioInv, FlowsAreOwned
    <3>2. CASE k = j
      BY <2>1, <2>2, <2>3, <2>4, <2>5, <3>2
    <3>3. CASE m = j
      BY <2>1, <2>2, <2>3, <2>4, <2>5, <3>3
    <3>4. QED
      BY <3>1, <3>2, <3>3
  <2>6. QED
    BY <2>4, <2>5 DEF StudioInv, FlowsAreOwned
<1>3. OneCommand' /\ SlotsAreSpent'
  BY DEF StudioInv, OneCommand, SlotsAreSpent
<1>4. RequestsFit'
  <2>1. \A k \in Jobs : k # j => (RequestFits(k)' <=> RequestFits(k))
    BY <1>1 DEF RequestFits
  <2>2. RequestFits(j)'
    BY <1>1 DEF RequestFits
  <2>3. \A p \in Projects : Saved(p)' => project'[p].rev > 0
    BY DEF StudioInv, RequestsFit, Saved
  <2>4. QED
    BY <2>1, <2>2, <2>3, <1>1 DEF StudioInv, RequestsFit
<1>5. OneByOne'
  <2> SUFFICES ASSUME ~overlapped' PROVE OneByOne'
    BY DEF OneByOne
  <2>1. \A k \in Jobs : k # j => job'[k].at = "done"
    BY <1>1
  <2>2. \A k \in Jobs : k # j => Undisturbed(k)'
    BY <2>1 DEF Undisturbed, Drawing
  <2>3. Undisturbed(j)'
    BY <1>1 DEF Undisturbed, Drawing, Saved, Taken
  <2>4. QED
    BY <2>1, <2>2, <2>3 DEF StudioInv, OneByOne
<1>6. WholeSoFar'
  <2> SUFFICES ASSUME ~overlapped', faulted' = {} PROVE WholeSoFar'
    BY DEF WholeSoFar
  <2>1. ~overlapped /\ faulted = {} /\ \A k \in Jobs : job[k].at \notin {"project", "hook", "flow"}
    OBVIOUS
  <2>2. \A p \in Projects : Saved(p)' => Runs(p)' /\ Hooked(p)'
    BY <2>1 DEF StudioInv, WholeSoFar, Saved, Runs, Hooked
  <2>3. \A f \in StudioFlows : flowOf'[f] # NoStudioFlow => \E p \in Projects : project'[p].flow = f
    BY <2>1 DEF StudioInv, WholeSoFar
  <2>4. \A k \in Jobs : (job'[k].at = "agents" /\ ~job'[k].failed) \/ job'[k].at = "done"
    BY <1>1
  <2>5. QED
    BY <2>2, <2>3, <2>4 DEF WholeSoFar
<1>7. QED
  BY <1>2, <1>3, <1>4, <1>5, <1>6 DEF StudioInv

\* A request that goes on writing agents, or could not write the workflow.
LEMMA DrawingKeeps ==
  ASSUME StudioTypeOK, StudioInv, StudioTypeOK', NEW j \in Jobs, NEW q \in Requests, Becomes(j, q),
         UNCHANGED <<flowOf, project, tick, clock, claims, strays, began, overlapped>>,
         agentRows \subseteq agentRows', issued \subseteq issued', faulted \subseteq faulted',
         job[j].at = "agents", q.at \in {"agents", "project"},
         q.op = job[j].op, q.p = job[j].p, q.old = job[j].old, q.flow = job[j].flow, q.rev = job[j].rev,
         q.trigger = job[j].trigger,
         q.todo \subseteq q.agents \/ overlapped, q.agents \subseteq agentRows' \/ overlapped,
         q.at = "agents" /\ q.todo # {} => q.made = {},
         q.at = "agents" => q.failed = job[j].failed,
         q.at = "project" => overlapped \/ faulted' # {}
  PROVE  StudioInv'
<1>1. job'[j] = q /\ \A k \in Jobs : k # j => job'[k] = job[k]
  BY OnlyTheRequest
<1>2. FlowsAreOwned'
  <2>1. \A k \in Jobs : Drawing(k)' => Drawing(k) /\ job'[k].flow = job[k].flow /\ job'[k].p = job[k].p
    BY <1>1 DEF Drawing
  <2>2. QED
    BY <2>1 DEF StudioInv, FlowsAreOwned
<1>3. OneCommand' /\ SlotsAreSpent'
  BY DEF StudioInv, OneCommand, SlotsAreSpent
<1>4. RequestsFit'
  <2>1. \A k \in Jobs : k # j => (RequestFits(k)' <=> RequestFits(k))
    BY <1>1 DEF RequestFits
  <2>2. RequestFits(j)'
    BY <1>1 DEF RequestFits, StudioInv, RequestsFit
  <2>3. \A p \in Projects : Saved(p)' => project'[p].rev > 0
    BY DEF StudioInv, RequestsFit, Saved
  <2>4. QED
    BY <2>1, <2>2, <2>3, <1>1 DEF StudioInv, RequestsFit
<1>5. OneByOne'
  <2> SUFFICES ASSUME ~overlapped' PROVE OneByOne'
    BY DEF OneByOne
  <2>1. \A k \in Jobs : k # j => job'[k].at = "done" /\ job[k].at = "done"
    BY <1>1 DEF StudioInv, OneByOne
  <2>2. \A k \in Jobs : k # j => Undisturbed(k)'
    BY <2>1 DEF Undisturbed, Drawing
  <2>3. job[j].p \in Projects /\ Undisturbed(j)
    BY DEF StudioInv, RequestsFit, RequestFits, OneByOne
  <2>4. Undisturbed(j)'
    BY <1>1, <2>3 DEF Undisturbed, Drawing, Saved, Taken, StudioInv, FlowsAreOwned
  <2>5. faulted' \intersect {"agent", "project"} = {} => strays' = {}
    BY DEF StudioInv, OneByOne
  <2>6. QED
    BY <2>1, <2>2, <2>4, <2>5 DEF OneByOne
<1>6. WholeSoFar'
  <2> SUFFICES ASSUME ~overlapped', faulted' = {} PROVE WholeSoFar'
    BY DEF WholeSoFar
  <2>1. ~overlapped /\ faulted = {} /\ \A k \in Jobs : k # j => job[k].at = "done"
    BY DEF StudioInv, OneByOne
  <2>2. \A p \in Projects : Saved(p)' => Runs(p)' /\ Hooked(p)'
    BY <2>1 DEF StudioInv, WholeSoFar, Saved, Runs, Hooked
  <2>3. \A f \in StudioFlows : flowOf'[f] # NoStudioFlow => \E p \in Projects : project'[p].flow = f
    BY <2>1 DEF StudioInv, WholeSoFar
  <2>4. \A k \in Jobs : (job'[k].at = "agents" /\ ~job'[k].failed) \/ job'[k].at = "done"
    BY <1>1, <2>1 DEF StudioInv, WholeSoFar
  <2>5. QED
    BY <2>2, <2>3, <2>4 DEF WholeSoFar
<1>7. QED
  BY <1>2, <1>3, <1>4, <1>5, <1>6 DEF StudioInv

-----------------------------------------------------------------------------
\* The fields of what a request turns into.
LEMMA Ended ==
  ASSUME NEW r \in Requests, NEW projects \in SUBSET Projects
  PROVE  LET q == [r EXCEPT !.at = "next", !.projects = projects] IN q \in Requests /\ q.at = "next" /\ q.op = r.op
BY DEF Requests
LEMMA Undone ==
  ASSUME NEW r \in Requests, NEW own \in SUBSET AgentRows
  PROVE  LET q == [r EXCEPT !.at = "undo", !.own = own] IN q \in Requests /\ q.at = "undo" /\ q.op = r.op
BY DEF Requests
LEMMA NotValid ==
  ASSUME NEW r \in Requests
  PROVE  LET q == [r EXCEPT !.at = "undo", !.left = <<>>] IN q \in Requests /\ q.at = "undo" /\ q.op = r.op
<1>1. \A left \in Seq([valid : BOOLEAN, new : 0..1, trigger : StudioTriggers]) :
        LET q == [r EXCEPT !.at = "undo", !.left = left] IN q \in Requests /\ q.at = "undo" /\ q.op = r.op
  BY DEF Requests
<1>2. <<>> \in Seq([valid : BOOLEAN, new : 0..1, trigger : StudioTriggers])
  OBVIOUS
<1>3. QED
  BY <1>1, <1>2
LEMMA AgentAdded ==
  ASSUME NEW r \in Requests, NEW agents \in SUBSET AgentRows, NEW made \in SUBSET AgentRows
  PROVE  LET q == [r EXCEPT !.new = 0, !.agents = agents, !.made = made] IN
         /\ q \in Requests /\ q.at = r.at /\ q.op = r.op /\ q.p = r.p /\ q.agents = agents /\ q.todo = r.todo
         /\ q.made = made /\ q.old = r.old /\ q.flow = r.flow /\ q.rev = r.rev
         /\ q.trigger = r.trigger /\ q.failed = r.failed
<1>1. 0 \in 0..1
  OBVIOUS
<1>2. [r EXCEPT !.new = 0, !.agents = agents, !.made = made] \in Requests
  BY <1>1 DEF Requests
<1>3. QED
  BY <1>2 DEF Requests
LEMMA FlowMissed ==
  ASSUME NEW r \in Requests
  PROVE  LET q == [r EXCEPT !.at = "project", !.failed = TRUE] IN
         /\ q \in Requests /\ q.at = "project" /\ q.op = r.op /\ q.p = r.p /\ q.agents = r.agents /\ q.todo = r.todo
         /\ q.made = r.made /\ q.old = r.old /\ q.flow = r.flow /\ q.rev = r.rev
         /\ q.trigger = r.trigger
BY DEF Requests
LEMMA NoRequest == NoJob \in Requests /\ NoJob.at = "done" /\ NoJob.op = "none"
BY DEF Requests, NoJob, NoFile, FileTypes
LEMMA Removing ==
  ASSUME NEW f \in StudioFlows
  PROVE  LET q == [NoJob EXCEPT !.op = "remove", !.at = "flow", !.flow = f] IN
         q \in Requests /\ q.at = "flow" /\ q.op = "remove" /\ q.flow = f
BY NoRequest DEF Requests
LEMMA Importing ==
  ASSUME NEW file \in FileTypes
  PROVE  LET q == [NoJob EXCEPT !.op = "import", !.at = "skill", !.file = file, !.left = file.projects] IN
         q \in Requests /\ q.at = "skill" /\ q.op = "import"
<1>1. file.projects \in Seq([valid : BOOLEAN, new : 0..1, trigger : StudioTriggers])
  BY DEF FileTypes
<1>2. QED
  BY <1>1, NoRequest DEF Requests
\* save() and projectCanvas(): the canvas as it will be written.
Draws(q, j, p, trigger) ==
  /\ q.at = "agents" /\ q.op = job[j].op /\ q.p = p /\ q.agents \subseteq agentRows /\ q.todo = q.agents
  /\ q.made = {} /\ q.old = Saved(p) /\ q.flow = project[p].flow /\ q.rev = began
  /\ q.trigger = trigger /\ ~q.failed
LEMMA CanvasOf ==
  ASSUME StudioTypeOK, NEW j \in Jobs, NEW p \in Projects, NEW keep \in SUBSET AgentRows, NEW new \in 0..1, NEW trigger \in StudioTriggers
  PROVE  Canvas(j, p, keep, new, trigger) \in Requests /\ Draws(Canvas(j, p, keep, new, trigger), j, p, trigger)
<1>1. /\ job[j] \in Requests /\ keep \intersect agentRows \in SUBSET AgentRows /\ (IF keep \subseteq agentRows THEN new ELSE 1) \in 0..1
      /\ Saved(p) \in BOOLEAN /\ project[p].flow \in StudioFlows \union {"none"} /\ began \in Nat
  BY DEF StudioTypeOK, Saved
<1> DEFINE drawn == keep \intersect agentRows
           more == IF keep \subseteq agentRows THEN new ELSE 1
           before == Saved(p)
           flow == project[p].flow
           r == job[j]
<1>2. LET q == [r EXCEPT !.at = "agents", !.p = p, !.agents = drawn, !.todo = drawn, !.new = more, !.made = {}, !.old = before,
                         !.flow = flow, !.rev = began, !.trigger = trigger, !.failed = FALSE] IN
         /\ q \in Requests /\ q.at = "agents" /\ q.op = r.op /\ q.p = p /\ q.agents = drawn /\ q.todo = drawn
         /\ q.made = {} /\ q.old = before /\ q.flow = flow /\ q.rev = began
         /\ q.trigger = trigger /\ q.failed = FALSE
  <2> HIDE DEF drawn, more, before, flow, r
  <2>1. r \in Requests /\ drawn \in SUBSET AgentRows /\ more \in 0..1 /\ before \in BOOLEAN /\ flow \in StudioFlows \union {"none"} /\ began \in Nat
    BY <1>1 DEF drawn, more, before, flow, r
  <2>2. QED
    BY <2>1 DEF Requests
<1>3. QED
  BY <1>2 DEF Canvas, Draws

-----------------------------------------------------------------------------
\* Each step keeps the types and the invariant.  First the steps that touch no
\* project and no workflow.
LEMMA BeginsAlone ==
  ASSUME StudioTypeOK, NEW j \in Jobs, Begun(j)
  PROVE  /\ job[j].at = "done" /\ began' = began + 1 /\ began' \in Nat /\ overlapped' \in BOOLEAN /\ (overlapped => overlapped')
         /\ ~overlapped' => \A k \in Jobs : job[k].at = "done"
<1>1. job[j].at = "done" /\ began' = began + 1 /\ began' \in Nat
  BY NoRequest DEF Begun, StudioTypeOK
<1>2. overlapped' = (overlapped \/ \E k \in Jobs : job[k] # NoJob)
  BY DEF Begun
<1>3. overlapped' \in BOOLEAN /\ (overlapped => overlapped')
  BY <1>2 DEF StudioTypeOK
<1>4. ~overlapped' => \A k \in Jobs : job[k].at = "done"
  BY <1>2, NoRequest
<1>5. QED
  BY <1>1, <1>3, <1>4

LEMMA BeginSaveKeeps ==
  ASSUME StudioTypeOK, StudioInv, NEW j \in Jobs, BeginSave(j)
  PROVE  StudioTypeOK' /\ StudioInv'
<1>1. PICK p \in Projects, keep \in SUBSET AgentRows, new \in 0..1, trigger \in StudioTriggers :
        /\ ~(trigger = "chat" /\ Taken(p))
        /\ Becomes(j, [Canvas(j, p, keep, new, trigger) EXCEPT !.op = "save", !.rev = began + 1])
        /\ issued' = issued \union {p}
  BY DEF BeginSave
<1>2. PICK r \in Requests : r = Canvas(j, p, keep, new, trigger) /\ Draws(r, j, p, trigger)
  BY CanvasOf
<1>22. [r EXCEPT !.op = "save", !.rev = began + 1] \in Requests
  <2>1. began + 1 \in Nat
    BY DEF StudioTypeOK
  <2>2. QED
    BY <2>1 DEF Requests
<1>23. PICK q \in Requests : q = [r EXCEPT !.op = "save", !.rev = began + 1]
  BY <1>22
<1>3. /\ q.at = "agents" /\ q.op = "save" /\ q.p = p /\ q.agents \subseteq agentRows /\ q.todo = q.agents
        /\ q.made = {} /\ q.old = Saved(p) /\ q.flow = project[p].flow /\ q.rev = began + 1 /\ q.trigger = trigger /\ ~q.failed
  BY <1>2, <1>23 DEF Draws, Requests
<1>4. Becomes(j, q)
  BY <1>1, <1>2, <1>23
<1>5. UNCHANGED <<agentRows, flowOf, project, skills, tick, clock, past, faulted>>
  BY DEF BeginSave
<1>6. /\ job[j].at = "done" /\ began' = began + 1 /\ began' \in Nat /\ overlapped' \in BOOLEAN /\ (overlapped => overlapped')
      /\ ~overlapped' => \A k \in Jobs : job[k].at = "done"
  BY BeginsAlone DEF BeginSave
<1>7. StudioTypeOK'
  BY <1>1, <1>4, <1>5, <1>6, OnlyTheRequest DEF StudioTypeOK, past
<1>8. StudioInv'
  <2>1. UNCHANGED <<agentRows, flowOf, project, tick, clock, claims, faulted, strays>>
    BY <1>5 DEF past
  <2>2. began' >= began /\ began' > 0 /\ q.rev > 0
    BY <1>3, <1>6 DEF StudioTypeOK
  <2>3. issued \subseteq issued'
    BY <1>1
  <2>4. q.trigger = "chat" => ~Taken(q.p)
    BY <1>1, <1>3
  <2>5. \A k \in Jobs : ~overlapped' => job[k].at = "done"
    BY <1>6
  <2>6. QED
    BY <1>3, <1>4, <1>6, <1>7, <2>1, <2>2, <2>3, <2>4, <2>5, CanvasKeeps
<1>9. QED
  BY <1>7, <1>8

\* While nothing overlaps, a request under way is the only one.
LEMMA TheOnlyOne ==
  ASSUME StudioInv, NEW j \in Jobs, job[j].at # "done", ~overlapped
  PROVE  \A k \in Jobs : k # j => job[k].at = "done"
BY DEF StudioInv, OneByOne

LEMMA SaveStopsKeeps ==
  ASSUME StudioTypeOK, StudioInv, NEW j \in Jobs, NEW kind \in {"none", "agent", "project"}, SaveStops(j, kind),
         job[j].at \in {"agents", "project"},
         kind = "none" => job[j].made = {} \/ overlapped,
         kind = "none" => job[j].at = "agents" \/ overlapped
  PROVE  StudioTypeOK' /\ StudioInv'
<1>1. job[j].op \in {"save", "import"} /\ (job[j].op # "none" => began > 0) /\ began \in Nat
  BY DEF StudioInv, RequestsFit, RequestFits, StudioTypeOK
<1>2. PICK q \in Requests : Becomes(j, q) /\ q.at \in {"done", "undo"} /\ (q.at = "done" => q = NoJob) /\ (q.at = "undo" => q.op = "import")
  <2>1. CASE job[j].op = "save"
    BY <2>1, NoRequest DEF SaveStops, Ends
  <2>2. CASE job[j].op = "import"
    <3>1. job[j] \in Requests /\ job[j].own \union job[j].made \in SUBSET AgentRows
      BY DEF StudioTypeOK, Requests
    <3>2. Becomes(j, [job[j] EXCEPT !.at = "undo", !.own = job[j].own \union job[j].made])
      BY <2>2 DEF SaveStops, Ends
    <3>3. [job[j] EXCEPT !.at = "undo", !.own = job[j].own \union job[j].made] \in Requests
      BY <3>1 DEF Requests
    <3>4. PICK q \in Requests : q = [job[j] EXCEPT !.at = "undo", !.own = job[j].own \union job[j].made]
      BY <3>3
    <3>5. q.at = "undo" /\ q.op = "import"
      BY <2>2, <3>1, <3>4 DEF Requests
    <3>6. QED
      BY <3>2, <3>4, <3>5
  <2>3. QED
    BY <1>1, <2>1, <2>2
<1>3. faulted \subseteq faulted' /\ faulted' \subseteq faulted \union {kind} /\ (kind # "none" => kind \in faulted')
  BY DEF SaveStops, Fault, Fine
<1>4. UNCHANGED <<agentRows, flowOf, project, skills, issued, claims, leftovers, tick, clock, began, overlapped>>
  BY DEF SaveStops, Quiet, rows
<1>5. /\ strays \subseteq strays' /\ strays' \subseteq strays \union job[j].made /\ job[j].made \subseteq AgentRows
  BY DEF SaveStops, StudioTypeOK, Requests
<1>6. kind = "none" => faulted' = faulted
  BY DEF SaveStops, Fine
<1>7. StudioTypeOK'
  <2>1. faulted' \subseteq {"agent", "flow", "project", "remove", "import"}
    BY <1>3, <1>6 DEF StudioTypeOK
  <2>2. QED
    BY <1>2, <1>4, <1>5, <2>1, OnlyTheRequest DEF StudioTypeOK
<1>8. \A k \in Jobs : k # j /\ ~overlapped => job[k].at = "done"
  BY TheOnlyOne
<1>9. ~overlapped' /\ faulted' \intersect {"agent", "project"} = {} => strays' = {}
  <2> SUFFICES ASSUME ~overlapped', faulted' \intersect {"agent", "project"} = {} PROVE strays' = {}
    OBVIOUS
  <2>1. kind = "none" /\ job[j].made = {}
    BY <1>3, <1>4
  <2>2. strays = {}
    BY <1>3, <1>4 DEF StudioInv, OneByOne
  <2>3. QED
    BY <1>5, <2>1, <2>2
<1>10. ~overlapped' /\ faulted' = {} => job[j].at \notin {"project", "hook", "flow"}
  BY <1>3, <1>4
<1>11. StudioInv'
  <2>1. UNCHANGED <<flowOf, project, tick, clock, claims>> /\ began' >= began /\ began' > 0
    BY <1>1, <1>4
  <2>2. agentRows \subseteq agentRows' /\ issued \subseteq issued' /\ (overlapped => overlapped') /\ overlapped' = overlapped
    BY <1>4
  <2>3. ~overlapped' => \A k \in Jobs : k # j => job[k].at = "done"
    BY <1>8, <2>2
  <2>4. q.at \in {"done", "skill", "agent", "functions", "next", "undo"} /\ (q.at # "done" => q.op = "import" /\ began' > 0)
    BY <1>2, <2>1
  <2>5. QED
    BY <1>2, <1>3, <1>7, <1>9, <1>10, <2>1, <2>2, <2>3, <2>4, LeavingKeeps
<1>12. QED
  BY <1>7, <1>11

\* A request of an import that goes on, or ends.
LEMMA ImportsOn ==
  ASSUME StudioTypeOK, StudioInv, StudioTypeOK', NEW j \in Jobs, NEW q \in Requests, Becomes(j, q), Quiet,
         UNCHANGED <<flowOf, project, past>>, agentRows \subseteq agentRows', issued \subseteq issued', faulted \subseteq faulted',
         job[j].at \in {"skill", "agent", "functions", "next"},
         q.at \in {"done", "agent", "functions", "next", "undo"}, q.at = "done" => q = NoJob, q.at # "done" => q.op = "import"
  PROVE  StudioInv'
<1>1. UNCHANGED <<flowOf, project, tick, clock, claims, began, overlapped, strays>>
  BY DEF Quiet, past
<1>2. job[j].op = "import" /\ began > 0 /\ began \in Nat
  BY DEF StudioInv, RequestsFit, RequestFits, StudioTypeOK
<1>3. ~overlapped' => \A k \in Jobs : k # j => job[k].at = "done"
  BY <1>1, TheOnlyOne
<1>4. faulted' \intersect {"agent", "project"} = {} /\ ~overlapped' => strays' = {}
  BY <1>1 DEF StudioInv, OneByOne
<1>5. UNCHANGED <<flowOf, project, tick, clock, claims>> /\ began' >= began /\ began' > 0 /\ (overlapped => overlapped')
  BY <1>1, <1>2
<1>6. q.at \in {"done", "skill", "agent", "functions", "next", "undo"}
  OBVIOUS
<1>7. job[j].at \notin {"project", "hook", "flow"}
  OBVIOUS
<1>8. QED
  BY <1>3, <1>4, <1>5, <1>6, <1>7, LeavingKeeps

\* The same, with its types.
LEMMA ImportSteps ==
  ASSUME StudioTypeOK, StudioInv, NEW j \in Jobs, NEW q \in Requests, Becomes(j, q), Quiet,
         UNCHANGED <<flowOf, project, past>>, agentRows \subseteq agentRows', issued \subseteq issued', faulted \subseteq faulted',
         agentRows' \subseteq AgentRows, issued' \subseteq issued \union AgentRows, skills' \subseteq skills \union {j},
         faulted' \subseteq faulted \union {"import"},
         job[j].at \in {"skill", "agent", "functions", "next"},
         q.at \in {"done", "agent", "functions", "next", "undo"}, q.at = "done" => q = NoJob, q.at # "done" => q.op = "import"
  PROVE  StudioTypeOK' /\ StudioInv'
<1>1. StudioTypeOK'
  BY OnlyTheRequest DEF StudioTypeOK, Quiet, past
<1>2. QED
  BY <1>1, ImportsOn

LEMMA MovesOn ==
  ASSUME NEW j \in Jobs, NEW x \in {"agent", "next", "undo"}, job[j] \in Requests, job[j].op = "import",
         Becomes(j, [job[j] EXCEPT !.at = x])
  PROVE  \E q \in Requests : Becomes(j, q) /\ q.at = x /\ q.op = "import"
<1>1. [job[j] EXCEPT !.at = x] \in Requests
  BY DEF Requests
<1>2. PICK q \in Requests : q = [job[j] EXCEPT !.at = x]
  BY <1>1
<1>3. q.at = x /\ q.op = "import"
  BY <1>2 DEF Requests
<1>4. QED
  BY <1>2, <1>3

LEMMA ImportOf ==
  ASSUME StudioTypeOK, StudioInv, NEW j \in Jobs, job[j].at \in {"skill", "agent", "functions", "next", "undo"}
  PROVE  job[j] \in Requests /\ job[j].op = "import"
BY DEF StudioTypeOK, StudioInv, RequestsFit, RequestFits

LEMMA ImportSkillKeeps ==
  ASSUME StudioTypeOK, StudioInv, NEW j \in Jobs, ImportSkill(j)
  PROVE  StudioTypeOK' /\ StudioInv'
<1>1. job[j].at = "skill" /\ job[j] \in Requests /\ job[j].op = "import"
  BY ImportOf DEF ImportSkill, At
<1>2. UNCHANGED <<agentRows, flowOf, project, issued, past>> /\ Quiet
  BY DEF ImportSkill
<1>3. faulted \subseteq faulted' /\ faulted' \subseteq faulted \union {"import"} /\ skills' \subseteq skills \union {j}
  BY DEF ImportSkill, Fine, Fault
<1>4. PICK q \in Requests : Becomes(j, q) /\ q.at \in {"agent", "undo"} /\ q.op = "import"
  <2>1. CASE Becomes(j, [job[j] EXCEPT !.at = "agent"])
    <3>1. "agent" \in {"agent", "next", "undo"}
      OBVIOUS
    <3>2. PICK q \in Requests : Becomes(j, q) /\ q.at = "agent" /\ q.op = "import"
      BY ONLY <1>1, <2>1, <3>1, MovesOn, j \in Jobs
    <3>3. QED
      BY <3>2
  <2>2. CASE Becomes(j, [job[j] EXCEPT !.at = "undo"])
    <3>1. "undo" \in {"agent", "next", "undo"}
      OBVIOUS
    <3>2. PICK q \in Requests : Becomes(j, q) /\ q.at = "undo" /\ q.op = "import"
      BY ONLY <1>1, <2>2, <3>1, MovesOn, j \in Jobs
    <3>3. QED
      BY <3>2
  <2>3. CASE Becomes(j, [job[j] EXCEPT !.at = "agent", !.skill = {j}])
    <3>1. [job[j] EXCEPT !.at = "agent", !.skill = {j}] \in Requests
      BY <1>1 DEF Requests
    <3>2. PICK q \in Requests : q = [job[j] EXCEPT !.at = "agent", !.skill = {j}]
      BY <3>1
    <3>3. q.at = "agent" /\ q.op = "import"
      BY <1>1, <3>2 DEF Requests
    <3>4. QED
      BY <2>3, <3>2, <3>3
  <2>4. QED
    BY <2>1, <2>2, <2>3 DEF ImportSkill
<1>5. agentRows \subseteq agentRows' /\ issued \subseteq issued' /\ agentRows' \subseteq AgentRows /\ issued' \subseteq issued \union AgentRows
  BY <1>2 DEF StudioTypeOK
<1>6. QED
  BY <1>1, <1>2, <1>3, <1>4, <1>5, ImportSteps

LEMMA ImportAgentKeeps ==
  ASSUME StudioTypeOK, StudioInv, NEW j \in Jobs, ImportAgent(j)
  PROVE  StudioTypeOK' /\ StudioInv'
<1>1. job[j].at = "agent" /\ job[j] \in Requests /\ job[j].op = "import"
  BY ImportOf DEF ImportAgent, At
<1>2. UNCHANGED <<flowOf, project, skills, past>> /\ Quiet
  BY DEF ImportAgent
<1>3. faulted \subseteq faulted' /\ faulted' \subseteq faulted \union {"import"}
  BY DEF ImportAgent, Fine, Fault
<1>4. PICK q \in Requests : Becomes(j, q) /\ q.at \in {"next", "functions", "undo"} /\ q.op = "import"
  <2>1. CASE Becomes(j, [job[j] EXCEPT !.at = "next"])
    <3>1. "next" \in {"agent", "next", "undo"}
      OBVIOUS
    <3>2. PICK q \in Requests : Becomes(j, q) /\ q.at = "next" /\ q.op = "import"
      BY ONLY <1>1, <2>1, <3>1, MovesOn, j \in Jobs
    <3>3. QED
      BY <3>2
  <2>2. CASE Becomes(j, [job[j] EXCEPT !.at = "undo"])
    <3>1. "undo" \in {"agent", "next", "undo"}
      OBVIOUS
    <3>2. PICK q \in Requests : Becomes(j, q) /\ q.at = "undo" /\ q.op = "import"
      BY ONLY <1>1, <2>2, <3>1, MovesOn, j \in Jobs
    <3>3. QED
      BY <3>2
  <2>3. ASSUME NEW a \in AgentRows, Becomes(j, [job[j] EXCEPT !.at = "functions", !.agent = {a}])
        PROVE  \E q \in Requests : Becomes(j, q) /\ q.at = "functions" /\ q.op = "import"
    <3>1. [job[j] EXCEPT !.at = "functions", !.agent = {a}] \in Requests
      BY <1>1 DEF Requests
    <3>2. PICK q \in Requests : q = [job[j] EXCEPT !.at = "functions", !.agent = {a}]
      BY <3>1
    <3>3. q.at = "functions" /\ q.op = "import"
      BY <1>1, <3>2 DEF Requests
    <3>4. QED
      BY <2>3, <3>2, <3>3
  <2>4. QED
    BY <2>1, <2>2, <2>3 DEF ImportAgent
<1>5. agentRows \subseteq agentRows' /\ issued \subseteq issued' /\ agentRows' \subseteq AgentRows /\ issued' \subseteq issued \union AgentRows
  BY DEF StudioTypeOK, ImportAgent
<1>6. QED
  BY <1>1, <1>2, <1>3, <1>4, <1>5, ImportSteps

LEMMA ImportFunctionsKeeps ==
  ASSUME StudioTypeOK, StudioInv, NEW j \in Jobs, ImportFunctions(j)
  PROVE  StudioTypeOK' /\ StudioInv'
<1>1. job[j].at = "functions" /\ job[j] \in Requests /\ job[j].op = "import"
  BY ImportOf DEF ImportFunctions, At
<1>2. UNCHANGED <<rows, past>> /\ Quiet
  BY DEF ImportFunctions
<1>3. faulted \subseteq faulted' /\ faulted' \subseteq faulted \union {"import"}
  BY DEF ImportFunctions, Fine, Fault
<1>4. PICK q \in Requests : Becomes(j, q) /\ q.at \in {"next", "undo"} /\ q.op = "import"
  <2>1. CASE Becomes(j, [job[j] EXCEPT !.at = "next"])
    <3>1. "next" \in {"agent", "next", "undo"}
      OBVIOUS
    <3>2. PICK q \in Requests : Becomes(j, q) /\ q.at = "next" /\ q.op = "import"
      BY ONLY <1>1, <2>1, <3>1, MovesOn, j \in Jobs
    <3>3. QED
      BY <3>2
  <2>2. CASE Becomes(j, [job[j] EXCEPT !.at = "undo"])
    <3>1. "undo" \in {"agent", "next", "undo"}
      OBVIOUS
    <3>2. PICK q \in Requests : Becomes(j, q) /\ q.at = "undo" /\ q.op = "import"
      BY ONLY <1>1, <2>2, <3>1, MovesOn, j \in Jobs
    <3>3. QED
      BY <3>2
  <2>3. QED
    BY <2>1, <2>2 DEF ImportFunctions
<1>5. /\ agentRows \subseteq agentRows' /\ issued \subseteq issued' /\ agentRows' \subseteq AgentRows /\ issued' \subseteq issued \union AgentRows
      /\ skills' \subseteq skills \union {j} /\ UNCHANGED <<flowOf, project, past>>
  BY <1>2 DEF StudioTypeOK, rows
<1>6. QED
  BY <1>1, <1>2, <1>3, <1>4, <1>5, ImportSteps

LEMMA ImportedKeeps ==
  ASSUME StudioTypeOK, StudioInv, NEW j \in Jobs, Imported(j)
  PROVE  StudioTypeOK' /\ StudioInv'
<1>1. job[j].at = "next" /\ job[j] \in Requests /\ job[j].op = "import"
  BY ImportOf DEF Imported, At
<1>2. UNCHANGED <<rows, past, faulted>> /\ Quiet
  BY DEF Imported
<1>3. PICK q \in Requests : Becomes(j, q) /\ q = NoJob /\ q.at = "done"
  BY NoRequest DEF Imported
<1>4. /\ agentRows \subseteq agentRows' /\ issued \subseteq issued' /\ agentRows' \subseteq AgentRows /\ issued' \subseteq issued \union AgentRows
      /\ skills' \subseteq skills \union {j} /\ UNCHANGED <<flowOf, project, past>>
      /\ faulted \subseteq faulted' /\ faulted' \subseteq faulted \union {"import"}
  BY <1>2 DEF StudioTypeOK, rows
<1>5. QED
  BY <1>1, <1>2, <1>3, <1>4, ImportSteps

LEMMA BeginImportKeeps ==
  ASSUME StudioTypeOK, StudioInv, NEW j \in Jobs, BeginImport(j)
  PROVE  StudioTypeOK' /\ StudioInv'
<1>1. PICK file \in Files : Becomes(j, [NoJob EXCEPT !.op = "import", !.at = "skill", !.file = file, !.left = file.projects])
  BY DEF BeginImport
<1>2. file \in FileTypes
  BY StudioAssumption
<1>3. PICK q \in Requests : Becomes(j, q) /\ q.at = "skill" /\ q.op = "import"
  <2>1. [NoJob EXCEPT !.op = "import", !.at = "skill", !.file = file, !.left = file.projects] \in Requests
    BY <1>2, Importing
  <2>2. PICK q \in Requests : q = [NoJob EXCEPT !.op = "import", !.at = "skill", !.file = file, !.left = file.projects]
    BY <2>1
  <2>3. q.at = "skill" /\ q.op = "import"
    BY <1>2, <2>2, Importing
  <2>4. QED
    BY <1>1, <2>2, <2>3
<1>4. UNCHANGED <<rows, tick, clock, past, faulted>>
  BY DEF BeginImport
<1>5. /\ job[j].at = "done" /\ began' = began + 1 /\ began' \in Nat /\ overlapped' \in BOOLEAN /\ (overlapped => overlapped')
      /\ ~overlapped' => \A k \in Jobs : job[k].at = "done"
  BY BeginsAlone DEF BeginImport
<1>6. StudioTypeOK'
  BY <1>3, <1>4, <1>5, OnlyTheRequest DEF StudioTypeOK, past, rows
<1>7. StudioInv'
  <2>1. UNCHANGED <<flowOf, project, tick, clock, claims, strays, agentRows, issued, faulted>>
    BY <1>4 DEF past, rows
  <2>2. began' >= began /\ began' > 0
    BY <1>5 DEF StudioTypeOK
  <2>3. ~overlapped' => \A k \in Jobs : k # j => job[k].at = "done"
    BY <1>5
  <2>4. faulted' \intersect {"agent", "project"} = {} /\ ~overlapped' => strays' = {}
    BY <1>5, <2>1 DEF StudioInv, OneByOne
  <2>5. agentRows \subseteq agentRows' /\ issued \subseteq issued' /\ faulted \subseteq faulted'
    BY <2>1
  <2>6. job[j].at \notin {"project", "hook", "flow"}
    BY <1>5
  <2>7. QED
    BY <1>3, <1>5, <1>6, <2>1, <2>2, <2>3, <2>4, <2>5, <2>6, LeavingKeeps
<1>8. QED
  BY <1>6, <1>7

LEMMA FirstAndRest == ASSUME NEW T, NEW s \in Seq(T), s # <<>> PROVE Head(s) \in T /\ Tail(s) \in Seq(T)
OBVIOUS

LEMMA ImportProjectKeeps ==
  ASSUME StudioTypeOK, StudioInv, NEW j \in Jobs, ImportProject(j)
  PROVE  StudioTypeOK' /\ StudioInv'
<1>1. job[j].at = "next" /\ job[j] \in Requests /\ job[j].op = "import" /\ job[j].left # <<>>
  BY ImportOf DEF ImportProject, At
<1>2. UNCHANGED <<agentRows, flowOf, project, skills, past, faulted>> /\ Quiet
  BY DEF ImportProject
<1>3. CASE Becomes(j, [job[j] EXCEPT !.at = "undo", !.left = <<>>]) /\ UNCHANGED issued
  <2>1. [job[j] EXCEPT !.at = "undo", !.left = <<>>] \in Requests
    BY <1>1, NotValid
  <2>2. PICK q \in Requests : q = [job[j] EXCEPT !.at = "undo", !.left = <<>>]
    BY <2>1
  <2>3. q.at = "undo" /\ q.op = "import" /\ Becomes(j, q)
    BY <1>1, <1>3, <2>2 DEF Requests
  <2>4. /\ agentRows \subseteq agentRows' /\ issued \subseteq issued' /\ agentRows' \subseteq AgentRows /\ issued' \subseteq issued \union AgentRows
        /\ skills' \subseteq skills \union {j} /\ UNCHANGED <<flowOf, project, past>>
        /\ faulted \subseteq faulted' /\ faulted' \subseteq faulted \union {"import"}
    BY <1>2, <1>3 DEF StudioTypeOK
  <2>5. QED
    BY <1>1, <1>2, <2>3, <2>4, ImportSteps
<1>4. ASSUME NEW p \in Projects, NEW keep \in SUBSET AgentRows, NEW new \in 0..1, NEW trigger \in StudioTriggers, NEW left \in Seq([valid : BOOLEAN, new : 0..1, trigger : StudioTriggers]),
             Becomes(j, [Canvas(j, p, keep, new, trigger) EXCEPT !.left = left]),
             issued' = issued \union {p}, trigger = "chat" => \A r \in Projects : project[r].trigger # "chat"
      PROVE  StudioTypeOK' /\ StudioInv'
  <2>1. PICK r \in Requests : r = Canvas(j, p, keep, new, trigger) /\ Draws(r, j, p, trigger)
    BY CanvasOf
  <2>2. [r EXCEPT !.left = left] \in Requests
    BY <1>4 DEF Requests
  <2>3. PICK q \in Requests : q = [r EXCEPT !.left = left]
    BY <2>2
  <2>4. /\ q.at = "agents" /\ q.op = "import" /\ q.p = p /\ q.agents \subseteq agentRows /\ q.todo = q.agents
        /\ q.made = {} /\ q.old = Saved(p) /\ q.flow = project[p].flow /\ q.rev = began
        /\ q.trigger = trigger /\ ~q.failed
    BY <1>1, <2>1, <2>3 DEF Draws, Requests
  <2>5. Becomes(j, q)
    BY <1>4, <2>1, <2>3
  <2>6. began > 0 /\ began \in Nat
    BY <1>1 DEF StudioInv, RequestsFit, StudioTypeOK
  <2>7. UNCHANGED <<agentRows, flowOf, project, tick, clock, claims, faulted, strays, began, overlapped, skills, leftovers>>
    BY <1>2 DEF Quiet, past
  <2>8. StudioTypeOK'
    BY <1>4, <2>5, <2>7, OnlyTheRequest DEF StudioTypeOK
  <2>9. q.trigger = "chat" => ~Taken(q.p)
    BY <1>4, <2>4 DEF Taken
  <2>10. ~overlapped' => \A k \in Jobs : k # j => job[k].at = "done"
    BY <1>1, <2>7, TheOnlyOne
  <2>11. began' >= began /\ began' > 0 /\ q.rev > 0 /\ issued \subseteq issued' /\ (overlapped => overlapped')
    BY <1>4, <2>4, <2>6, <2>7
  <2>12. UNCHANGED <<agentRows, flowOf, project, tick, clock, claims, faulted, strays>>
    BY <2>7
  <2>13. StudioInv'
    BY <1>1, <2>4, <2>5, <2>8, <2>9, <2>10, <2>11, <2>12, CanvasKeeps
  <2>14. QED
    BY <2>8, <2>13
<1>5. CASE ~(Becomes(j, [job[j] EXCEPT !.at = "undo", !.left = <<>>]) /\ UNCHANGED issued)
  <2> DEFINE proj == Head(job[j].left)
             inUse == \E q \in Projects : project[q].trigger = "chat"
             trigger == IF proj.trigger = "schedule" \/ (proj.trigger = "chat" /\ inUse) THEN "manual" ELSE proj.trigger
             new == IF job[j].agent = {} THEN 1 ELSE proj.new
  <2>1. PICK p \in Projects : Becomes(j, [Canvas(j, p, job[j].agent, new, trigger) EXCEPT !.left = Tail(job[j].left)]) /\ issued' = issued \union {p}
    BY <1>5 DEF ImportProject
  <2>2. job[j].left \in Seq([valid : BOOLEAN, new : 0..1, trigger : StudioTriggers]) /\ job[j].agent \in SUBSET AgentRows
    BY <1>1 DEF Requests
  <2>3. proj \in [valid : BOOLEAN, new : 0..1, trigger : StudioTriggers] /\ Tail(job[j].left) \in Seq([valid : BOOLEAN, new : 0..1, trigger : StudioTriggers])
    BY <1>1, <2>2, FirstAndRest
  <2>4. "manual" \in StudioTriggers /\ 1 \in 0..1
    BY DEF StudioTriggers
  <2>5. trigger \in StudioTriggers /\ new \in 0..1
    BY <2>3, <2>4
  <2>6. trigger = "chat" => \A r \in Projects : project[r].trigger # "chat"
    OBVIOUS
  <2>7. PICK keep \in SUBSET AgentRows, anew \in 0..1, atrigger \in StudioTriggers, left \in Seq([valid : BOOLEAN, new : 0..1, trigger : StudioTriggers]) :
          keep = job[j].agent /\ anew = new /\ atrigger = trigger /\ left = Tail(job[j].left)
    BY <2>2, <2>3, <2>5
  <2> HIDE DEF new, trigger
  <2>8. Becomes(j, [Canvas(j, p, keep, anew, atrigger) EXCEPT !.left = left]) /\ (atrigger = "chat" => \A r \in Projects : project[r].trigger # "chat")
    BY <2>1, <2>6, <2>7
  <2>9. QED
    BY <1>4, <2>1, <2>8
<1>6. QED
  BY <1>3, <1>5

-----------------------------------------------------------------------------
\* A request that writes agents.
LEMMA DrawingOf ==
  ASSUME StudioTypeOK, StudioInv, NEW j \in Jobs, job[j].at \in {"agents", "project", "hook"}
  PROVE  /\ job[j] \in Requests /\ job[j].p \in Projects /\ job[j].op \in {"save", "import"} /\ job[j].rev \in Nat /\ job[j].rev > 0
         /\ job[j].agents \subseteq AgentRows /\ job[j].todo \subseteq AgentRows /\ job[j].made \subseteq AgentRows
         /\ job[j].at = "agents" /\ job[j].todo # {} => job[j].made = {}
         /\ ~overlapped => Undisturbed(j)
<1>1. job[j] \in Requests
  BY DEF StudioTypeOK
<1>2. /\ job[j].rev \in Nat
      /\ job[j].agents \subseteq AgentRows /\ job[j].todo \subseteq AgentRows /\ job[j].made \subseteq AgentRows
  BY <1>1 DEF Requests
<1>3. RequestFits(j)
  BY DEF StudioInv, RequestsFit
<1>4. ~overlapped => Undisturbed(j)
  BY DEF StudioInv, OneByOne
<1>5. QED
  BY <1>1, <1>2, <1>3, <1>4 DEF RequestFits

LEMMA UpdateAgentKeeps ==
  ASSUME StudioTypeOK, StudioInv, NEW j \in Jobs, UpdateAgent(j)
  PROVE  StudioTypeOK' /\ StudioInv'
<1>1. job[j].at = "agents" /\ job[j].todo # {}
  BY DEF UpdateAgent, At
<1>2. /\ job[j] \in Requests /\ job[j].todo \subseteq AgentRows /\ job[j].made = {}
      /\ ~overlapped => Undisturbed(j)
  BY <1>1, DrawingOf
<1>3. PICK a \in job[j].todo :
        IF a \in agentRows THEN Becomes(j, [job[j] EXCEPT !.todo = job[j].todo \ {a}]) /\ Fine /\ UNCHANGED <<rows, past>> /\ Quiet
        ELSE SaveStops(j, "none")
  BY DEF UpdateAgent
<1>4. CASE SaveStops(j, "none")
  BY <1>1, <1>2, <1>4, SaveStopsKeeps
<1>5. CASE Becomes(j, [job[j] EXCEPT !.todo = job[j].todo \ {a}]) /\ Fine /\ UNCHANGED <<rows, past>> /\ Quiet
  <2>1. [job[j] EXCEPT !.todo = job[j].todo \ {a}] \in Requests
    BY <1>2 DEF Requests
  <2>2. PICK q \in Requests : q = [job[j] EXCEPT !.todo = job[j].todo \ {a}]
    BY <2>1
  <2>3. /\ q.at = "agents" /\ q.op = job[j].op /\ q.p = job[j].p /\ q.agents = job[j].agents /\ q.todo = job[j].todo \ {a}
        /\ q.made = job[j].made /\ q.old = job[j].old /\ q.flow = job[j].flow /\ q.rev = job[j].rev
        /\ q.trigger = job[j].trigger /\ q.failed = job[j].failed
    BY <1>1, <1>2, <2>2 DEF Requests
  <2>4. Becomes(j, q)
    BY <1>5, <2>2
  <2>5. UNCHANGED <<agentRows, flowOf, project, skills, issued, tick, clock, claims, faulted, strays, began, overlapped, leftovers>>
    BY <1>5 DEF Quiet, past, rows, Fine
  <2>6. StudioTypeOK'
    BY <2>4, <2>5, OnlyTheRequest DEF StudioTypeOK
  <2>7. q.todo \subseteq q.agents \/ overlapped
    BY <1>2, <2>3, <1>1 DEF Undisturbed, Drawing
  <2>8. q.agents \subseteq agentRows' \/ overlapped
    BY <1>2, <2>3, <2>5, <1>1 DEF Undisturbed, Drawing
  <2>9. UNCHANGED <<flowOf, project, tick, clock, claims, strays, began, overlapped>>
    BY <2>5
  <2>10. agentRows \subseteq agentRows' /\ issued \subseteq issued' /\ faulted \subseteq faulted'
    BY <2>5
  <2>11. StudioInv'
    BY <1>1, <1>2, <2>3, <2>4, <2>6, <2>7, <2>8, <2>9, <2>10, DrawingKeeps
  <2>12. QED
    BY <2>6, <2>11
<1>6. QED
  BY <1>3, <1>4, <1>5

LEMMA CreateAgentKeeps ==
  ASSUME StudioTypeOK, StudioInv, NEW j \in Jobs, CreateAgent(j)
  PROVE  StudioTypeOK' /\ StudioInv'
<1>1. job[j].at = "agents" /\ job[j].todo = {}
  BY DEF CreateAgent, At
<1>2. /\ job[j] \in Requests /\ job[j].agents \subseteq AgentRows /\ job[j].made \subseteq AgentRows
      /\ ~overlapped => Undisturbed(j)
  BY <1>1, DrawingOf
<1>3. PICK a \in AgentRows :
        /\ agentRows' = agentRows \union {a} /\ issued' = issued \union {a}
        /\ Becomes(j, [job[j] EXCEPT !.new = 0, !.agents = job[j].agents \union {a}, !.made = job[j].made \union {a}])
  BY DEF CreateAgent
<1>4. PICK agents \in SUBSET AgentRows, made \in SUBSET AgentRows : agents = job[j].agents \union {a} /\ made = job[j].made \union {a}
  BY <1>2
<1>5. [job[j] EXCEPT !.new = 0, !.agents = agents, !.made = made] \in Requests
  BY <1>2, AgentAdded
<1>6. PICK q \in Requests : q = [job[j] EXCEPT !.new = 0, !.agents = agents, !.made = made]
  BY <1>5
<1>7. /\ q.at = "agents" /\ q.op = job[j].op /\ q.p = job[j].p /\ q.agents = job[j].agents \union {a} /\ q.todo = {}
      /\ q.old = job[j].old /\ q.flow = job[j].flow /\ q.rev = job[j].rev
      /\ q.trigger = job[j].trigger /\ q.failed = job[j].failed
  BY <1>1, <1>2, <1>4, <1>6 DEF Requests
<1>8. Becomes(j, q)
  BY <1>3, <1>4, <1>6
<1>9. UNCHANGED <<flowOf, project, skills, tick, clock, claims, faulted, strays, began, overlapped, leftovers>>
  BY DEF CreateAgent, Quiet, past
<1>10. StudioTypeOK'
  BY <1>3, <1>8, <1>9, OnlyTheRequest DEF StudioTypeOK
<1>11. q.agents \subseteq agentRows' \/ overlapped
  BY <1>1, <1>2, <1>3, <1>7 DEF Undisturbed, Drawing
<1>12. UNCHANGED <<flowOf, project, tick, clock, claims, strays, began, overlapped>>
  BY <1>9
<1>13. agentRows \subseteq agentRows' /\ issued \subseteq issued' /\ faulted \subseteq faulted'
  BY <1>3, <1>9
<1>14. StudioInv'
  BY <1>1, <1>7, <1>8, <1>10, <1>11, <1>12, <1>13, DrawingKeeps
<1>15. QED
  BY <1>10, <1>14

LEMMA AgentsFailKeeps ==
  ASSUME StudioTypeOK, StudioInv, NEW j \in Jobs, AgentsFail(j)
  PROVE  StudioTypeOK' /\ StudioInv'
BY SaveStopsKeeps DEF AgentsFail, At

LEMMA WritableAlone ==
  ASSUME StudioTypeOK, StudioInv, NEW j \in Jobs, job[j].at = "project", ~overlapped
  PROVE  Writable(j)
BY DrawingOf DEF Undisturbed, Drawing, Writable

LEMMA ProjectFailsKeeps ==
  ASSUME StudioTypeOK, StudioInv, NEW j \in Jobs, ProjectFails(j)
  PROVE  StudioTypeOK' /\ StudioInv'
<1>1. job[j].at = "project" /\ IF Writable(j) THEN SaveStops(j, "project") ELSE SaveStops(j, "none")
  BY DEF ProjectFails, At
<1>2. CASE Writable(j)
  BY <1>1, <1>2, SaveStopsKeeps
<1>3. CASE ~Writable(j)
  <2>1. overlapped
    BY <1>1, <1>3, WritableAlone DEF StudioTypeOK
  <2>2. QED
    BY <1>1, <1>3, <2>1, SaveStopsKeeps
<1>4. QED
  BY <1>2, <1>3

\* The workflow can't be written.
LEMMA NoFlowKeeps ==
  ASSUME StudioTypeOK, StudioInv, NEW j \in Jobs, job[j].at = "agents", job[j].todo = {},
         Becomes(j, [job[j] EXCEPT !.at = "project", !.failed = TRUE]),
         UNCHANGED <<flowOf, issued>>, IF job[j].agents \subseteq agentRows THEN Fault("flow") ELSE Fine,
         UNCHANGED <<agentRows, project, skills, past>>, Quiet
  PROVE  StudioTypeOK' /\ StudioInv'
<1>1. /\ job[j] \in Requests /\ job[j].agents \subseteq AgentRows
      /\ ~overlapped => Undisturbed(j)
  BY DrawingOf
<1>2. [job[j] EXCEPT !.at = "project", !.failed = TRUE] \in Requests
  BY <1>1, FlowMissed
<1>3. PICK q \in Requests : q = [job[j] EXCEPT !.at = "project", !.failed = TRUE]
  BY <1>2
<1>4. /\ q.at = "project" /\ q.op = job[j].op /\ q.p = job[j].p /\ q.agents = job[j].agents /\ q.todo = {}
      /\ q.old = job[j].old /\ q.flow = job[j].flow /\ q.rev = job[j].rev
      /\ q.trigger = job[j].trigger
  BY <1>1, <1>3 DEF Requests
<1>5. Becomes(j, q)
  BY <1>3
<1>6. UNCHANGED <<flowOf, project, skills, issued, tick, clock, claims, strays, began, overlapped, leftovers, agentRows>>
  BY DEF Quiet, past
<1>7. faulted \subseteq faulted' /\ faulted' \subseteq faulted \union {"flow"} /\ (job[j].agents \subseteq agentRows => faulted' # {})
  BY DEF Fault, Fine
<1>8. StudioTypeOK'
  BY <1>5, <1>6, <1>7, OnlyTheRequest DEF StudioTypeOK
<1>9. (q.agents \subseteq agentRows' /\ faulted' # {}) \/ overlapped
  BY <1>1, <1>4, <1>6, <1>7 DEF Undisturbed, Drawing
<1>10. UNCHANGED <<flowOf, project, tick, clock, claims, strays, began, overlapped>>
  BY <1>6
<1>11. agentRows \subseteq agentRows' /\ issued \subseteq issued'
  BY <1>6
<1>12. StudioInv'
  BY <1>4, <1>5, <1>7, <1>8, <1>9, <1>10, <1>11, DrawingKeeps
<1>13. QED
  BY <1>8, <1>12

-----------------------------------------------------------------------------
\* The steps that write workflows and projects.
LEMMA WritesFlow ==
  ASSUME StudioTypeOK, StudioInv, NEW j \in Jobs, NEW f \in StudioFlows, job[j].at = "agents", job[j].todo = {},
         IF job[j].flow # "none" /\ flowOf[job[j].flow] # NoStudioFlow THEN f = job[j].flow ELSE f \notin issued,
         flowOf' = [flowOf EXCEPT ![f] = [agents |-> job[j].agents, rev |-> job[j].rev]],
         issued' = issued \union {f}, Becomes(j, [job[j] EXCEPT !.at = "project", !.flow = f]),
         Fine, UNCHANGED <<agentRows, project, skills, past>>, Quiet
  PROVE  StudioTypeOK' /\ StudioInv'
<1>1. /\ job[j] \in Requests /\ job[j].agents \subseteq AgentRows /\ job[j].rev \in Nat /\ job[j].rev > 0
      /\ job[j].p \in Projects /\ job[j].op \in {"save", "import"}
      /\ ~overlapped => Undisturbed(j)
  BY DrawingOf
<1>2. [job[j] EXCEPT !.at = "project", !.flow = f] \in Requests
  BY <1>1, FlowDrawn
<1>3. PICK q \in Requests : q = [job[j] EXCEPT !.at = "project", !.flow = f]
  BY <1>2
<1>4. /\ q.at = "project" /\ q.op = job[j].op /\ q.p = job[j].p /\ q.agents = job[j].agents /\ q.todo = {}
      /\ q.old = job[j].old /\ q.flow = f /\ q.rev = job[j].rev
      /\ q.trigger = job[j].trigger /\ q.failed = job[j].failed
  BY <1>1, <1>3 DEF Requests
<1>5. Becomes(j, q)
  BY <1>3
<1>6. job'[j] = q /\ (\A k \in Jobs : k # j => job'[k] = job[k]) /\ job' \in [Jobs -> Requests]
  BY <1>5, OnlyTheRequest
<1>7. UNCHANGED <<project, skills, tick, clock, claims, strays, began, overlapped, leftovers, agentRows, faulted>>
  BY DEF Quiet, past, Fine
<1>8. /\ flowOf' \in [StudioFlows -> [agents : SUBSET AgentRows, rev : Nat]]
      /\ flowOf'[f].agents = q.agents /\ flowOf'[f].rev = q.rev /\ flowOf'[f].rev > 0
      /\ \A g \in StudioFlows : g # f => flowOf'[g] = flowOf[g]
  BY <1>1, <1>4 DEF StudioTypeOK
<1>9. flowOf'[f] # NoStudioFlow
  BY <1>8 DEF NoStudioFlow
<1>10. StudioTypeOK'
  BY <1>6, <1>7, <1>8 DEF StudioTypeOK
<1>11. \A k \in Jobs : k # j => (Drawing(k)' <=> Drawing(k)) /\ job'[k] = job[k]
  BY <1>6 DEF Drawing
<1>12. Drawing(j)' /\ Drawing(j) /\ job'[j] = q
  BY <1>4, <1>6 DEF Drawing
<1>13. \A p \in Projects : project[p].flow = f => p = q.p
  BY <1>4, <1>12, StudioLimits DEF StudioInv, FlowsAreOwned
<1>14. \A k \in Jobs : Drawing(k) /\ job[k].flow = f => job[k].p = q.p
  BY <1>4, <1>12, StudioLimits DEF StudioInv, FlowsAreOwned
<1>15. FlowsAreOwned'
  <2>1. ASSUME NEW p \in Projects, project'[p].flow # "none"
        PROVE  project'[p].flow \in issued' /\ flowOf'[project'[p].flow] # NoStudioFlow
    <3>1. project[p].flow \in StudioFlows /\ project[p].flow \in issued /\ flowOf[project[p].flow] # NoStudioFlow
      BY <1>7, <2>1 DEF StudioInv, FlowsAreOwned, StudioTypeOK
    <3>2. QED
      BY <1>7, <1>8, <1>9, <3>1
  <2>2. \A g \in StudioFlows : flowOf'[g] # NoStudioFlow => g \in issued'
    BY <1>8 DEF StudioInv, FlowsAreOwned
  <2>3. ASSUME NEW k \in Jobs, Drawing(k)', job'[k].flow # "none"
        PROVE  /\ job'[k].flow \in issued'
               /\ \A p \in Projects : project'[p].flow = job'[k].flow => p = job'[k].p
    BY <1>4, <1>7, <1>11, <1>12, <1>13, <2>3 DEF StudioInv, FlowsAreOwned
  <2>4. ASSUME NEW k \in Jobs, Drawing(k)', job'[k].flow # "none", NEW m \in Jobs, Drawing(m)', job'[m].flow = job'[k].flow
        PROVE  job'[m].p = job'[k].p
    <3>1. CASE k # j /\ m # j
      BY <1>11, <2>4, <3>1 DEF StudioInv, FlowsAreOwned
    <3>2. CASE k = j /\ m # j
      BY <1>4, <1>11, <1>12, <1>14, <2>4, <3>2
    <3>3. CASE m = j /\ k # j
      BY <1>4, <1>11, <1>12, <1>14, <2>4, <3>3
    <3>4. QED
      BY <3>1, <3>2, <3>3
  <2>5. QED
    BY <1>7, <2>1, <2>2, <2>3, <2>4 DEF StudioInv, FlowsAreOwned
<1>16. OneCommand' /\ SlotsAreSpent'
  BY <1>7 DEF StudioInv, OneCommand, SlotsAreSpent
<1>17. RequestsFit'
  <2>1. \A k \in Jobs : k # j => (RequestFits(k)' <=> RequestFits(k))
    BY <1>6 DEF RequestFits
  <2>2. RequestFits(j)'
    BY <1>1, <1>4, <1>6 DEF RequestFits
  <2>3. \A p \in Projects : Saved(p)' => project'[p].rev > 0
    BY <1>7 DEF StudioInv, RequestsFit, Saved
  <2>4. QED
    BY <1>4, <1>6, <1>7, <2>1, <2>2, <2>3 DEF StudioInv, RequestsFit
<1>18. OneByOne'
  <2> SUFFICES ASSUME ~overlapped' PROVE OneByOne'
    BY DEF OneByOne
  <2>1. \A k \in Jobs : k # j => job'[k].at = "done" /\ job[k].at = "done"
    BY <1>6, <1>7 DEF StudioInv, OneByOne
  <2>2. \A k \in Jobs : k # j => Undisturbed(k)'
    BY <2>1 DEF Undisturbed, Drawing
  <2>3. Undisturbed(j)'
    BY <1>1, <1>4, <1>6, <1>7, <1>9, <1>12 DEF Undisturbed, Drawing, Saved, Taken
  <2>4. faulted' \intersect {"agent", "project"} = {} => strays' = {}
    BY <1>7 DEF StudioInv, OneByOne
  <2>5. QED
    BY <2>1, <2>2, <2>3, <2>4 DEF OneByOne
<1>19. WholeSoFar'
  <2> SUFFICES ASSUME ~overlapped', faulted' = {} PROVE WholeSoFar'
    BY DEF WholeSoFar
  <2>1. ~overlapped /\ faulted = {} /\ \A k \in Jobs : k # j => job[k].at = "done" /\ job'[k].at = "done"
    BY <1>6, <1>7 DEF StudioInv, OneByOne
  <2>2. \A p \in Projects : Saved(p) => Runs(p) /\ Hooked(p)
    BY <2>1 DEF StudioInv, WholeSoFar
  <2>3. ASSUME NEW p \in Projects, Saved(p)', p # q.p PROVE Runs(p)'
    <3>1. Runs(p) /\ project[p].flow \in StudioFlows /\ project[p].flow # f
      BY <1>7, <1>13, <2>2, <2>3 DEF StudioTypeOK, Saved, Runs
    <3>2. QED
      BY <1>7, <1>8, <3>1 DEF Runs
  <2>4. \A p \in Projects : Saved(p)' => Hooked(p)'
    BY <1>7, <2>2 DEF Saved, Hooked
  <2>5. ASSUME NEW g \in StudioFlows, flowOf'[g] # NoStudioFlow, g # f PROVE \E p \in Projects : project'[p].flow = g
    BY <1>7, <1>8, <2>1, <2>5 DEF StudioInv, WholeSoFar
  <2>6. ~q.failed
    BY <1>4, <2>1 DEF StudioInv, WholeSoFar
  <2>7. Saved(q.p)' => project'[q.p].flow = f
    <3>1. Saved(q.p) => project[q.p].flow # "none" /\ project[q.p].flow = job[j].flow /\ flowOf[project[q.p].flow] # NoStudioFlow
      BY <1>1, <1>4, <1>7, <2>2 DEF Runs, Undisturbed, StudioInv, FlowsAreOwned
    <3>2. QED
      BY <1>4, <1>7, <3>1 DEF Saved
  <2>8. \A k \in Jobs :
         /\ job'[k].at \in {"agents", "project", "hook"} => ~job'[k].failed
         /\ job'[k].at = "project" =>
              /\ job'[k].flow # "none" /\ flowOf'[job'[k].flow].agents = job'[k].agents /\ flowOf'[job'[k].flow].rev = job'[k].rev
              /\ project'[job'[k].p] # NoProject => project'[job'[k].p].flow = job'[k].flow
    BY <1>4, <1>6, <1>8, <2>1, <2>6, <2>7, StudioLimits DEF Saved
  <2>9. \A p \in Projects : Saved(p)' =>
         /\ Runs(p)' \/ \E k \in Jobs : job'[k].at = "project" /\ job'[k].p = p
         /\ Hooked(p)' \/ \E k \in Jobs : job'[k].at = "hook" /\ job'[k].p = p
    BY <1>4, <1>6, <2>3, <2>4
  <2>10. \A g \in StudioFlows : flowOf'[g] # NoStudioFlow =>
         \/ \E p \in Projects : project'[p].flow = g
         \/ \E k \in Jobs : job'[k].at \in {"project", "flow"} /\ job'[k].flow = g
    BY <1>4, <1>6, <2>5
  <2>11. QED
    BY <2>8, <2>9, <2>10 DEF WholeSoFar, Saved
<1>20. QED
  BY <1>10, <1>15, <1>16, <1>17, <1>18, <1>19 DEF StudioInv

LEMMA WriteFlowKeeps ==
  ASSUME StudioTypeOK, StudioInv, NEW j \in Jobs, WriteFlow(j)
  PROVE  StudioTypeOK' /\ StudioInv'
<1>1. job[j].at = "agents" /\ job[j].todo = {} /\ UNCHANGED <<agentRows, project, skills, past>> /\ Quiet
  BY DEF WriteFlow, AgentsWritten, At
<1>2. CASE /\ IF job[j].agents \subseteq agentRows THEN Fault("flow") ELSE Fine
           /\ Becomes(j, [job[j] EXCEPT !.at = "project", !.failed = TRUE]) /\ UNCHANGED <<flowOf, issued>>
  BY <1>1, <1>2, NoFlowKeeps
<1>3. ASSUME NEW f \in IF job[j].flow # "none" /\ flowOf[job[j].flow] # NoStudioFlow THEN {job[j].flow} ELSE StudioFlows \ issued,
             flowOf' = [flowOf EXCEPT ![f] = [agents |-> job[j].agents, rev |-> job[j].rev]],
             issued' = issued \union {f}, Becomes(j, [job[j] EXCEPT !.at = "project", !.flow = f]), Fine
      PROVE  StudioTypeOK' /\ StudioInv'
  <2>1. f \in StudioFlows
    BY DEF StudioTypeOK, Requests
  <2>2. IF job[j].flow # "none" /\ flowOf[job[j].flow] # NoStudioFlow THEN f = job[j].flow ELSE f \notin issued
    OBVIOUS
  <2>3. QED
    BY <1>1, <1>3, <2>1, <2>2, WritesFlow
<1>4. QED
  BY <1>2, <1>3 DEF WriteFlow

\* A request ends its part in a project: it is over, or its import goes on.
LEMMA EndsAs ==
  ASSUME StudioTypeOK, StudioInv, NEW j \in Jobs, job[j].at \in {"agents", "project", "hook"}, NEW ok \in BOOLEAN, Ends(j, ok, {})
  PROVE  \E q \in Requests : /\ Becomes(j, q) /\ q.at \in {"done", "next", "undo"} /\ (q.at = "done" => q = NoJob) /\ (q.at # "done" => q.op = "import")
<1>1. job[j].op \in {"save", "import"} /\ job[j] \in Requests /\ job[j].p \in Projects
  BY DrawingOf
<1>2. CASE job[j].op = "save"
  BY <1>2, NoRequest DEF Ends
<1>3. CASE job[j].op = "import" /\ ok
  <2>1. PICK projects \in SUBSET Projects : projects = job[j].projects \union {job[j].p}
    BY <1>1 DEF Requests
  <2>2. Becomes(j, [job[j] EXCEPT !.at = "next", !.projects = projects])
    BY <1>3, <2>1 DEF Ends
  <2>3. [job[j] EXCEPT !.at = "next", !.projects = projects] \in Requests
    BY <1>1, Ended
  <2>4. PICK q \in Requests : q = [job[j] EXCEPT !.at = "next", !.projects = projects]
    BY <2>3
  <2>5. q.at = "next" /\ q.op = "import"
    BY <1>1, <1>3, <2>4 DEF Requests
  <2>6. QED
    BY <2>2, <2>4, <2>5
<1>4. CASE job[j].op = "import" /\ ~ok
  <2>1. PICK own \in SUBSET AgentRows : own = job[j].own \union {}
    BY <1>1 DEF Requests
  <2>2. Becomes(j, [job[j] EXCEPT !.at = "undo", !.own = own])
    BY <1>4, <2>1 DEF Ends
  <2>3. [job[j] EXCEPT !.at = "undo", !.own = own] \in Requests
    BY <1>1, Undone
  <2>4. PICK q \in Requests : q = [job[j] EXCEPT !.at = "undo", !.own = own]
    BY <2>3
  <2>5. q.at = "undo" /\ q.op = "import"
    BY <1>1, <1>4, <2>4 DEF Requests
  <2>6. QED
    BY <2>2, <2>4, <2>5
<1>5. QED
  BY <1>1, <1>2, <1>3, <1>4

ProjectRows == [agents : SUBSET AgentRows, rev : Nat, flow : StudioFlows \union {"none"},
                trigger : StudioTriggers \union {"none"}, hook : BOOLEAN, due : Nat]

\* The row a save writes.
LEMMA RowWritten ==
  ASSUME StudioTypeOK, StudioInv, NEW j \in Jobs, WriteProject(j)
  PROVE  \E row \in ProjectRows :
           /\ project' = [project EXCEPT ![job[j].p] = row]
           /\ row.agents = job[j].agents /\ row.rev = job[j].rev /\ row.flow = job[j].flow /\ row.trigger = job[j].trigger
           /\ row.hook = project[job[j].p].hook /\ (row.due = 0 \/ row.due = clock + 1) /\ row # NoProject
<1>1. job[j].at = "project" /\ job[j] \in Requests /\ job[j].p \in Projects /\ job[j].rev > 0
  BY DrawingOf DEF WriteProject, At
<1>2. clock + 1 \in Nat /\ clock \in Nat
  BY StudioLimits DEF StudioTypeOK
<1> DEFINE row == [agents |-> job[j].agents, rev |-> job[j].rev, flow |-> job[j].flow, trigger |-> job[j].trigger, hook |-> project[job[j].p].hook,
                   due |-> IF job[j].trigger = "schedule" THEN clock + 1 ELSE 0]
<1>3. row \in ProjectRows
  BY <1>1, <1>2 DEF ProjectRows, Requests, StudioTypeOK
<1>4. row # NoProject
  BY <1>1 DEF NoProject
<1>5. project' = [project EXCEPT ![job[j].p] = row]
  BY <1>1 DEF WriteProject, StudioTypeOK
<1>6. QED
  BY <1>3, <1>4, <1>5

LEMMA WriteProjectKeeps ==
  ASSUME StudioTypeOK, StudioInv, NEW j \in Jobs, WriteProject(j)
  PROVE  StudioTypeOK' /\ StudioInv'
<1>1. /\ job[j].at = "project" /\ job[j] \in Requests /\ job[j].p \in Projects /\ job[j].op \in {"save", "import"}
      /\ job[j].rev > 0 /\ job[j].rev \in Nat
      /\ ~overlapped => Undisturbed(j)
  BY DrawingOf DEF WriteProject, At
<1>2. PICK row \in ProjectRows :
        /\ project' = [project EXCEPT ![job[j].p] = row]
        /\ row.agents = job[j].agents /\ row.rev = job[j].rev /\ row.flow = job[j].flow /\ row.trigger = job[j].trigger
        /\ row.hook = project[job[j].p].hook /\ (row.due = 0 \/ row.due = clock + 1) /\ row # NoProject
  BY RowWritten
<1>3. PICK p \in Projects : p = job[j].p
  BY <1>1
<1>4. /\ project'[p] = row /\ (\A r \in Projects : r # p => project'[r] = project[r])
      /\ project' \in [Projects -> ProjectRows]
  BY <1>2, <1>3 DEF StudioTypeOK, ProjectRows
<1>5. UNCHANGED <<flowOf, skills, issued, tick, clock, claims, strays, began, overlapped, leftovers, agentRows, faulted>>
  BY DEF WriteProject, Quiet, past, Fine
<1>6. PICK q \in Requests :
        /\ Becomes(j, q)
        /\ \/ q.at \in {"done", "next", "undo"} /\ (q.at = "done" => q = NoJob) /\ (q.at # "done" => q.op = "import")
           \/ q.at = "hook" /\ q.op = job[j].op /\ q.p = p /\ q.rev = job[j].rev /\ q.failed = job[j].failed
        /\ q.at # "hook" => (row.trigger = "webhook" => row.hook)
  <2>1. CASE job[j].trigger = "webhook" /\ ~project[p].hook
    <3>1. [job[j] EXCEPT !.at = "hook"] \in Requests
      BY <1>1 DEF Requests
    <3>2. PICK q \in Requests : q = [job[j] EXCEPT !.at = "hook"]
      BY <3>1
    <3>3. q.at = "hook" /\ q.op = job[j].op /\ q.p = p /\ q.rev = job[j].rev /\ q.failed = job[j].failed
      BY <1>1, <1>3, <3>2 DEF Requests
    <3>4. Becomes(j, [job[j] EXCEPT !.at = "hook"])
      BY <1>3, <2>1 DEF WriteProject
    <3>5. QED
      BY <3>2, <3>3, <3>4
  <2>2. CASE ~(job[j].trigger = "webhook" /\ ~project[p].hook)
    <3>1. Ends(j, ~job[j].failed, {}) /\ (~job[j].failed) \in BOOLEAN
      BY <1>3, <2>2 DEF WriteProject
    <3>2. PICK ok \in BOOLEAN : Ends(j, ok, {})
      BY <3>1
    <3>3. job[j].at \in {"agents", "project", "hook"}
      BY <1>1
    <3>4. PICK q \in Requests : Becomes(j, q) /\ q.at \in {"done", "next", "undo"} /\ (q.at = "done" => q = NoJob) /\ (q.at # "done" => q.op = "import")
      BY <3>2, <3>3, EndsAs
    <3>5. row.trigger = "webhook" => row.hook
      BY <1>2, <1>3, <2>2
    <3>6. QED
      BY <3>4, <3>5
  <2>3. QED
    BY <2>1, <2>2
<1>7. job'[j] = q /\ (\A k \in Jobs : k # j => job'[k] = job[k]) /\ job' \in [Jobs -> Requests]
  BY <1>6, OnlyTheRequest
<1>8. StudioTypeOK'
  BY <1>4, <1>5, <1>7 DEF StudioTypeOK, ProjectRows
<1>9. Writable(j)
  BY DEF WriteProject
<1>10. \A k \in Jobs : Drawing(k)' => k # j /\ Drawing(k) /\ job'[k] = job[k]
  BY <1>6, <1>7 DEF Drawing
<1>11. Drawing(j)
  BY <1>1 DEF Drawing
<1>12. \A r \in Projects : r # p /\ project'[r].flow # "none" => project'[r].flow # row.flow
  BY <1>2, <1>3, <1>4, <1>11 DEF StudioInv, FlowsAreOwned
<1>13. FlowsAreOwned'
  <2>1. ASSUME NEW r \in Projects, project'[r].flow # "none" PROVE project'[r].flow \in issued' /\ flowOf'[project'[r].flow] # NoStudioFlow
    <3>1. CASE r = p
      BY <1>2, <1>4, <1>5, <1>9, <1>11, <2>1, <3>1 DEF StudioInv, FlowsAreOwned, Writable
    <3>2. CASE r # p
      BY <1>4, <1>5, <2>1, <3>2 DEF StudioInv, FlowsAreOwned
    <3>3. QED
      BY <3>1, <3>2
  <2>2. ASSUME NEW r \in Projects, NEW s \in Projects, project'[r].flow # "none", project'[r].flow = project'[s].flow PROVE r = s
    <3>1. CASE r = p \/ s = p
      BY <1>4, <1>12, <2>2, <3>1
    <3>2. CASE r # p /\ s # p
      BY <1>4, <2>2, <3>2 DEF StudioInv, FlowsAreOwned
    <3>3. QED
      BY <3>1, <3>2
  <2>3. ASSUME NEW k \in Jobs, Drawing(k)', job'[k].flow # "none"
        PROVE  /\ job'[k].flow \in issued'
               /\ \A r \in Projects : project'[r].flow = job'[k].flow => r = job'[k].p
    <3>1. k # j /\ Drawing(k) /\ job'[k] = job[k]
      BY <1>10, <2>3
    <3>2. job[k].flow = job[j].flow => job[k].p = p
      BY <1>3, <1>11, <2>3, <3>1 DEF StudioInv, FlowsAreOwned
    <3>3. \A r \in Projects : r # p /\ project'[r].flow = job[k].flow => r = job[k].p
      BY <1>4, <2>3, <3>1 DEF StudioInv, FlowsAreOwned
    <3>4. QED
      BY <1>2, <1>4, <1>5, <2>3, <3>1, <3>2, <3>3 DEF StudioInv, FlowsAreOwned
  <2>4. ASSUME NEW k \in Jobs, Drawing(k)', job'[k].flow # "none", NEW m \in Jobs, Drawing(m)', job'[m].flow = job'[k].flow
        PROVE  job'[m].p = job'[k].p
    BY <1>10, <2>4 DEF StudioInv, FlowsAreOwned
  <2>5. QED
    BY <1>5, <2>1, <2>2, <2>3, <2>4 DEF StudioInv, FlowsAreOwned
<1>14. OneCommand'
  <2>1. row.trigger = "chat" => \A r \in Projects : r # p => project[r].trigger # "chat"
    BY <1>2, <1>3, <1>9 DEF Writable, Taken
  <2>2. QED
    BY <1>4, <2>1 DEF StudioInv, OneCommand
<1>15. SlotsAreSpent'
  <2>1. clock \in Nat
    BY StudioLimits DEF StudioTypeOK
  <2>2. \A r \in Projects : project'[r].due \in Nat /\ project'[r].due <= clock + 1
    BY <1>2, <1>4, <2>1 DEF StudioInv, SlotsAreSpent, StudioTypeOK
  <2>3. ASSUME NEW r \in Projects, NEW n \in 1..MaxSlots + 1
        PROVE  /\ claims[r][n] <= 1
               /\ claims[r][n] = 1 => n <= clock /\ (project'[r].due = 0 \/ project'[r].due > n)
    <3>1. claims[r][n] <= 1 /\ (claims[r][n] = 1 => n <= clock) /\ n \in Nat
      BY DEF StudioInv, SlotsAreSpent
    <3>2. CASE r = p
      BY <1>2, <1>4, <2>1, <3>1, <3>2
    <3>3. CASE r # p
      BY <1>4, <3>1, <3>3 DEF StudioInv, SlotsAreSpent
    <3>4. QED
      BY <3>2, <3>3
  <2>4. QED
    BY <1>5, <2>2, <2>3 DEF StudioInv, SlotsAreSpent
<1>16. RequestsFit'
  <2>1. \A k \in Jobs : k # j => (RequestFits(k)' <=> RequestFits(k))
    BY <1>7 DEF RequestFits
  <2>2. RequestFits(j)'
    BY <1>1, <1>6, <1>7 DEF RequestFits
  <2>3. \A r \in Projects : Saved(r)' => project'[r].rev > 0
    BY <1>1, <1>2, <1>4 DEF StudioInv, RequestsFit, Saved
  <2>4. began > 0
    BY <1>1 DEF StudioInv, RequestsFit
  <2>5. QED
    BY <1>5, <1>7, <2>1, <2>2, <2>3, <2>4 DEF StudioInv, RequestsFit
<1>17. OneByOne'
  <2> SUFFICES ASSUME ~overlapped' PROVE OneByOne'
    BY DEF OneByOne
  <2>1. \A k \in Jobs : k # j => job'[k].at = "done" /\ job[k].at = "done"
    BY <1>1, <1>5, <1>7 DEF StudioInv, OneByOne
  <2>2. \A k \in Jobs : k # j => Undisturbed(k)'
    BY <2>1 DEF Undisturbed, Drawing
  <2>3. Undisturbed(j)'
    BY <1>2, <1>3, <1>4, <1>6, <1>7 DEF Undisturbed, Drawing, Saved
  <2>4. faulted' \intersect {"agent", "project"} = {} => strays' = {}
    BY <1>5 DEF StudioInv, OneByOne
  <2>5. QED
    BY <2>1, <2>2, <2>3, <2>4 DEF OneByOne
<1>18. WholeSoFar'
  <2> SUFFICES ASSUME ~overlapped', faulted' = {} PROVE WholeSoFar'
    BY DEF WholeSoFar
  <2>1. ~overlapped /\ faulted = {} /\ \A k \in Jobs : k # j => job[k].at = "done" /\ job'[k].at = "done"
    BY <1>1, <1>5, <1>7 DEF StudioInv, OneByOne
  <2>2. \A r \in Projects : r # p /\ Saved(r) => Runs(r) /\ Hooked(r)
    BY <1>1, <1>3, <2>1 DEF StudioInv, WholeSoFar
  <2>3. /\ job[j].flow # "none" /\ flowOf[job[j].flow].agents = job[j].agents /\ flowOf[job[j].flow].rev = job[j].rev
        /\ Saved(p) => project[p].flow = job[j].flow
        /\ ~job[j].failed
    BY <1>1, <1>3, <2>1 DEF StudioInv, WholeSoFar
  <2>4. \A r \in Projects : r # p /\ Saved(r)' => Runs(r)' /\ Hooked(r)'
    BY <1>4, <1>5, <2>2 DEF Saved, Runs, Hooked
  <2>5. Runs(p)' /\ (q.at # "hook" => Hooked(p)')
    BY <1>2, <1>4, <1>5, <1>6, <2>3 DEF Runs, Hooked
  <2>6. \A r \in Projects : Saved(r)' =>
         /\ Runs(r)' \/ \E k \in Jobs : job'[k].at = "project" /\ job'[k].p = r
         /\ Hooked(r)' \/ \E k \in Jobs : job'[k].at = "hook" /\ job'[k].p = r
    BY <1>6, <1>7, <2>4, <2>5
  <2>7. ASSUME NEW g \in StudioFlows, flowOf'[g] # NoStudioFlow PROVE \E r \in Projects : project'[r].flow = g
    <3>1. CASE g = job[j].flow
      BY <1>2, <1>4, <3>1
    <3>2. CASE g # job[j].flow
      <4>1. PICK r \in Projects : project[r].flow = g
        BY <1>5, <2>1, <1>1, <2>7, <3>2 DEF StudioInv, WholeSoFar
      <4>2. Saved(r)
        BY <4>1, StudioLimits DEF Saved, NoProject
      <4>3. r # p
        BY <2>3, <3>2, <4>1, <4>2
      <4>4. QED
        BY <1>4, <4>1, <4>3
    <3>3. QED
      BY <3>1, <3>2
  <2>8. \A k \in Jobs : job'[k].at \notin {"agents", "project"} /\ (job'[k].at = "hook" => ~job'[k].failed)
    BY <1>6, <1>7, <2>1, <2>3
  <2>9. QED
    BY <2>6, <2>7, <2>8 DEF WholeSoFar
<1>19. QED
  BY <1>8, <1>13, <1>14, <1>15, <1>16, <1>17, <1>18 DEF StudioInv

LEMMA IssueWebhookKeeps ==
  ASSUME StudioTypeOK, StudioInv, NEW j \in Jobs, IssueWebhook(j)
  PROVE  StudioTypeOK' /\ StudioInv'
<1>1. /\ job[j].at = "hook" /\ job[j] \in Requests /\ job[j].p \in Projects
      /\ ~overlapped => Undisturbed(j)
  BY DrawingOf DEF IssueWebhook, At
<1>2. PICK p \in Projects : p = job[j].p
  BY <1>1
<1>3. PICK row \in ProjectRows :
        /\ project' = [project EXCEPT ![p] = row]
        /\ row.agents = project[p].agents /\ row.rev = project[p].rev /\ row.flow = project[p].flow /\ row.trigger = project[p].trigger
        /\ row.due = project[p].due /\ (Saved(p) => row.hook) /\ (~Saved(p) => row = NoProject)
  <2>1. project[p] \in ProjectRows
    BY DEF StudioTypeOK, ProjectRows
  <2>2. [project[p] EXCEPT !.hook = TRUE] \in ProjectRows
    BY <2>1 DEF ProjectRows
  <2>3. PICK row \in ProjectRows : row = IF Saved(p) THEN [project[p] EXCEPT !.hook = TRUE] ELSE project[p]
    BY <2>1, <2>2
  <2>4. project' = [project EXCEPT ![p] = row]
    BY <1>2, <2>3 DEF IssueWebhook, StudioTypeOK
  <2>5. /\ row.agents = project[p].agents /\ row.rev = project[p].rev /\ row.flow = project[p].flow /\ row.trigger = project[p].trigger
        /\ row.due = project[p].due /\ (Saved(p) => row.hook)
    BY <2>1, <2>3 DEF ProjectRows
  <2>6. ~Saved(p) => row = NoProject
    BY <2>3 DEF Saved
  <2>7. QED
    BY <2>4, <2>5, <2>6
<1>4. /\ project'[p] = row /\ (\A r \in Projects : r # p => project'[r] = project[r])
      /\ project' \in [Projects -> ProjectRows]
  BY <1>3 DEF StudioTypeOK, ProjectRows
<1>5. UNCHANGED <<flowOf, skills, issued, tick, clock, claims, strays, began, overlapped, leftovers, agentRows, faulted>>
  BY DEF IssueWebhook, Quiet, past
<1>6. PICK q \in Requests : Becomes(j, q) /\ q.at \in {"done", "next", "undo"} /\ (q.at = "done" => q = NoJob) /\ (q.at # "done" => q.op = "import")
  <2>1. Ends(j, ~job[j].failed, {}) /\ (~job[j].failed) \in BOOLEAN
    BY DEF IssueWebhook
  <2>2. PICK ok \in BOOLEAN : Ends(j, ok, {})
    BY <2>1
  <2>3. job[j].at \in {"agents", "project", "hook"}
    BY <1>1
  <2>4. QED
    BY <2>2, <2>3, EndsAs
<1>7. job'[j] = q /\ (\A k \in Jobs : k # j => job'[k] = job[k]) /\ job' \in [Jobs -> Requests]
  BY <1>6, OnlyTheRequest
<1>8. StudioTypeOK'
  BY <1>4, <1>5, <1>7 DEF StudioTypeOK, ProjectRows
<1>9. \A k \in Jobs : job'[k].at \in {"agents", "project", "hook", "flow"} => k # j /\ job'[k] = job[k]
  BY <1>6, <1>7
<1>10. /\ \A r \in Projects : /\ project'[r].agents = project[r].agents /\ project'[r].rev = project[r].rev
                              /\ project'[r].flow = project[r].flow /\ project'[r].trigger = project[r].trigger
                              /\ project'[r].due = project[r].due /\ (project[r].hook => project'[r].hook)
       /\ \A r \in Projects : Saved(r)' => Saved(r)
  <2>1. project[p].hook => row.hook
    BY <1>3 DEF Saved, NoProject
  <2>2. QED
    BY <1>3, <1>4, <2>1 DEF Saved
<1>11. FlowsAreOwned'
  BY <1>5, <1>9, <1>10 DEF StudioInv, FlowsAreOwned, Drawing
<1>12. OneCommand' /\ SlotsAreSpent'
  BY <1>5, <1>10 DEF StudioInv, OneCommand, SlotsAreSpent
<1>13. RequestsFit'
  <2>1. \A k \in Jobs : k # j => (RequestFits(k)' <=> RequestFits(k))
    BY <1>7 DEF RequestFits
  <2>2. RequestFits(j)'
    BY <1>6, <1>7 DEF RequestFits
  <2>3. \A r \in Projects : Saved(r)' => project'[r].rev > 0
    BY <1>10 DEF StudioInv, RequestsFit
  <2>4. began > 0
    BY <1>1, DrawingOf DEF StudioInv, RequestsFit
  <2>5. QED
    BY <1>5, <1>7, <2>1, <2>2, <2>3, <2>4 DEF StudioInv, RequestsFit
<1>14. OneByOne'
  <2> SUFFICES ASSUME ~overlapped' PROVE OneByOne'
    BY DEF OneByOne
  <2>1. \A k \in Jobs : k # j => job'[k].at = "done" /\ job[k].at = "done"
    BY <1>1, <1>5, <1>7 DEF StudioInv, OneByOne
  <2>2. \A k \in Jobs : Undisturbed(k)'
    BY <1>6, <1>7, <2>1 DEF Undisturbed, Drawing
  <2>3. faulted' \intersect {"agent", "project"} = {} => strays' = {}
    BY <1>5 DEF StudioInv, OneByOne
  <2>4. QED
    BY <2>1, <2>2, <2>3 DEF OneByOne
<1>15. WholeSoFar'
  <2> SUFFICES ASSUME ~overlapped', faulted' = {} PROVE WholeSoFar'
    BY DEF WholeSoFar
  <2>1. ~overlapped /\ faulted = {} /\ \A k \in Jobs : k # j => job[k].at = "done" /\ job'[k].at = "done"
    BY <1>1, <1>5, <1>7 DEF StudioInv, OneByOne
  <2>2. \A r \in Projects : Saved(r) => Runs(r) /\ (r # p => Hooked(r))
    BY <1>1, <1>2, <2>1 DEF StudioInv, WholeSoFar
  <2>3. \A r \in Projects : Saved(r)' => Runs(r)'
    BY <1>5, <1>10, <2>2 DEF Runs
  <2>4. \A r \in Projects : Saved(r)' => Hooked(r)'
    BY <1>3, <1>4, <1>10, <2>2 DEF Hooked
  <2>5. \A g \in StudioFlows : flowOf'[g] # NoStudioFlow => \E r \in Projects : project'[r].flow = g
    BY <1>1, <1>5, <1>10, <2>1 DEF StudioInv, WholeSoFar
  <2>6. \A k \in Jobs : job'[k].at \notin {"agents", "project", "hook"}
    BY <1>6, <1>7, <2>1
  <2>7. QED
    BY <2>3, <2>4, <2>5, <2>6 DEF WholeSoFar
<1>16. QED
  BY <1>8, <1>11, <1>12, <1>13, <1>14, <1>15 DEF StudioInv

-----------------------------------------------------------------------------
\* Projects that go.
LEMMA RemoveProjectKeeps ==
  ASSUME StudioTypeOK, StudioInv, NEW j \in Jobs, RemoveProject(j)
  PROVE  StudioTypeOK' /\ StudioInv'
<1>1. PICK p \in Projects :
        /\ Saved(p) /\ project' = [project EXCEPT ![p] = NoProject]
        /\ Becomes(j, IF project[p].flow = "none" THEN NoJob
                      ELSE [NoJob EXCEPT !.op = "remove", !.at = "flow", !.flow = project[p].flow])
  BY DEF RemoveProject
<1>2. PICK q \in Requests : /\ Becomes(j, q) /\ q.at \in {"done", "flow"} /\ (q.at = "done" => q = NoJob /\ project[p].flow = "none")
                            /\ q.at = "flow" => q.flow = project[p].flow /\ q.flow # "none"
  <2>1. CASE project[p].flow = "none"
    BY <1>1, <2>1, NoRequest
  <2>2. CASE project[p].flow # "none"
    <3>1. PICK f \in StudioFlows : f = project[p].flow
      BY <2>2 DEF StudioTypeOK
    <3>2. [NoJob EXCEPT !.op = "remove", !.at = "flow", !.flow = f] \in Requests
      BY Removing
    <3>3. PICK q \in Requests : q = [NoJob EXCEPT !.op = "remove", !.at = "flow", !.flow = f]
      BY <3>2
    <3>4. q.at = "flow" /\ q.flow = f
      BY <3>3, NoRequest DEF Requests
    <3>5. Becomes(j, q)
      BY <1>1, <2>2, <3>1, <3>3
    <3>6. QED
      BY <2>2, <3>1, <3>4, <3>5
  <2>3. QED
    BY <2>1, <2>2
<1>3. /\ job[j].at = "done" /\ began' = began + 1 /\ began' \in Nat /\ overlapped' \in BOOLEAN /\ (overlapped => overlapped')
      /\ ~overlapped' => \A k \in Jobs : job[k].at = "done"
  BY BeginsAlone DEF RemoveProject
<1>4. job'[j] = q /\ (\A k \in Jobs : k # j => job'[k] = job[k]) /\ job' \in [Jobs -> Requests]
  BY <1>2, OnlyTheRequest
<1>5. UNCHANGED <<flowOf, skills, issued, tick, clock, claims, strays, leftovers, agentRows, faulted>>
  BY DEF RemoveProject, past
<1>6. NoProject \in ProjectRows /\ NoProject.flow = "none" /\ NoProject.trigger = "none" /\ NoProject.due = 0
  BY DEF NoProject, ProjectRows
<1>7. /\ project'[p] = NoProject /\ (\A r \in Projects : r # p => project'[r] = project[r])
      /\ project' \in [Projects -> ProjectRows]
  BY <1>1, <1>6 DEF StudioTypeOK, ProjectRows
<1>8. StudioTypeOK'
  BY <1>3, <1>4, <1>5, <1>7 DEF StudioTypeOK, ProjectRows
<1>9. \A k \in Jobs : job'[k].at \in {"agents", "project", "hook"} => k # j /\ job'[k] = job[k]
  BY <1>2, <1>4
<1>10. FlowsAreOwned'
  <2>1. \A r \in Projects : project'[r].flow # "none" => r # p /\ project'[r].flow = project[r].flow
    BY <1>6, <1>7
  <2>2. \A k \in Jobs : Drawing(k)' => Drawing(k) /\ job'[k] = job[k]
    BY <1>9 DEF Drawing
  <2>3. QED
    BY <1>5, <2>1, <2>2 DEF StudioInv, FlowsAreOwned
<1>11. OneCommand'
  BY <1>6, <1>7 DEF StudioInv, OneCommand
<1>12. SlotsAreSpent'
  <2>1. clock \in Nat
    BY StudioLimits DEF StudioTypeOK
  <2>2. QED
    BY <1>5, <1>6, <1>7, <2>1 DEF StudioInv, SlotsAreSpent
<1>13. RequestsFit'
  <2>1. \A k \in Jobs : k # j => (RequestFits(k)' <=> RequestFits(k))
    BY <1>4 DEF RequestFits
  <2>2. RequestFits(j)'
    BY <1>2, <1>4 DEF RequestFits
  <2>3. \A r \in Projects : Saved(r)' => project'[r].rev > 0
    BY <1>7 DEF StudioInv, RequestsFit, Saved
  <2>4. began' > 0
    BY <1>3 DEF StudioTypeOK
  <2>5. QED
    BY <1>4, <2>1, <2>2, <2>3, <2>4 DEF StudioInv, RequestsFit
<1>14. OneByOne'
  <2> SUFFICES ASSUME ~overlapped' PROVE OneByOne'
    BY DEF OneByOne
  <2>1. \A k \in Jobs : k # j => job'[k].at = "done"
    BY <1>3, <1>4
  <2>2. \A k \in Jobs : k # j => Undisturbed(k)'
    BY <2>1 DEF Undisturbed, Drawing
  <2>3. q.at = "flow" => \A r \in Projects : project'[r].flow # q.flow
    BY <1>2, <1>6, <1>7 DEF StudioInv, FlowsAreOwned
  <2>4. Undisturbed(j)'
    BY <1>2, <1>4, <2>3 DEF Undisturbed, Drawing
  <2>5. faulted' \intersect {"agent", "project"} = {} => strays' = {}
    BY <1>3, <1>5 DEF StudioInv, OneByOne
  <2>6. QED
    BY <2>1, <2>2, <2>4, <2>5 DEF OneByOne
<1>15. WholeSoFar'
  <2> SUFFICES ASSUME ~overlapped', faulted' = {} PROVE WholeSoFar'
    BY DEF WholeSoFar
  <2>1. ~overlapped /\ faulted = {} /\ \A k \in Jobs : job[k].at = "done"
    BY <1>3, <1>5
  <2>2. \A r \in Projects : Saved(r) => Runs(r) /\ Hooked(r)
    BY <2>1 DEF StudioInv, WholeSoFar
  <2>3. \A r \in Projects : Saved(r)' => Runs(r)' /\ Hooked(r)'
    BY <1>5, <1>7, <2>2 DEF Saved, Runs, Hooked
  <2>4. ASSUME NEW g \in StudioFlows, flowOf'[g] # NoStudioFlow
        PROVE  \/ \E r \in Projects : project'[r].flow = g
               \/ \E k \in Jobs : job'[k].at \in {"project", "flow"} /\ job'[k].flow = g
    <3>1. PICK r \in Projects : project[r].flow = g
      BY <1>5, <2>1, <2>4 DEF StudioInv, WholeSoFar
    <3>2. CASE r = p
      BY <1>2, <1>4, <3>1, <3>2, StudioLimits
    <3>3. CASE r # p
      BY <1>7, <3>1, <3>3
    <3>4. QED
      BY <3>2, <3>3
  <2>5. \A k \in Jobs : job'[k].at \notin {"agents", "project", "hook"}
    BY <1>2, <1>4, <2>1
  <2>6. QED
    BY <2>3, <2>4, <2>5 DEF WholeSoFar
<1>16. QED
  BY <1>8, <1>10, <1>11, <1>12, <1>13, <1>14, <1>15 DEF StudioInv

\* remove() when the workflow goes.
LEMMA FlowGoesKeeps ==
  ASSUME StudioTypeOK, StudioInv, NEW j \in Jobs, job[j].at = "flow", Becomes(j, NoJob), Fine,
         NEW f \in StudioFlows, job[j].flow = f, DropFlow(f), project' = Unlinked(f, project),
         UNCHANGED <<agentRows, skills, issued, past>>, Quiet
  PROVE  StudioTypeOK' /\ StudioInv'
<1>1. UNCHANGED <<skills, issued, tick, clock, claims, strays, leftovers, agentRows, faulted, began, overlapped>>
  BY DEF Quiet, past, Fine
<1>2. job'[j].at = "done" /\ job'[j] = NoJob /\ (\A k \in Jobs : k # j => job'[k] = job[k]) /\ job' \in [Jobs -> Requests]
  BY NoRequest, OnlyTheRequest
<1>3. /\ project' \in [Projects -> ProjectRows]
      /\ \A r \in Projects : /\ project[r].flow # f => project'[r] = project[r]
                             /\ project[r].flow = f => project'[r].flow = "none"
                             /\ project'[r].rev = project[r].rev /\ project'[r].trigger = project[r].trigger
                             /\ project'[r].due = project[r].due
  <2>1. \A row \in ProjectRows : LET left == [row EXCEPT !.flow = "none"] IN
          left \in ProjectRows /\ left.flow = "none" /\ left.rev = row.rev /\ left.trigger = row.trigger /\ left.due = row.due
    BY DEF ProjectRows
  <2>2. \A r \in Projects : project[r] \in ProjectRows
    BY DEF StudioTypeOK, ProjectRows
  <2>3. project' = [r \in Projects |-> IF project[r].flow = f THEN [project[r] EXCEPT !.flow = "none"] ELSE project[r]]
    BY DEF Unlinked
  <2>4. QED
    BY <2>1, <2>2, <2>3
<1>4. /\ flowOf' \in [StudioFlows -> [agents : SUBSET AgentRows, rev : Nat]]
      /\ \A g \in StudioFlows : g # f => flowOf'[g] = flowOf[g]
      /\ flowOf'[f] = NoStudioFlow
  <2>1. NoStudioFlow \in [agents : SUBSET AgentRows, rev : Nat]
    BY DEF NoStudioFlow
  <2>2. QED
    BY <2>1 DEF StudioTypeOK, DropFlow
<1>5. StudioTypeOK'
  BY <1>1, <1>2, <1>3, <1>4 DEF StudioTypeOK, ProjectRows
<1>6. \A k \in Jobs : job'[k].at # "done" => k # j /\ job'[k] = job[k]
  BY <1>2
<1>7. \A r \in Projects : project'[r].flow # "none" => project'[r].flow = project[r].flow /\ project'[r].flow # f
  BY <1>3
<1>8. FlowsAreOwned'
  <2>1. \A k \in Jobs : Drawing(k)' => Drawing(k) /\ job'[k] = job[k]
    BY <1>6 DEF Drawing
  <2>2. \A r \in Projects : project'[r].flow # "none" => project'[r].flow \in issued' /\ flowOf'[project'[r].flow] # NoStudioFlow
    BY <1>1, <1>3, <1>4, <1>7 DEF StudioInv, FlowsAreOwned, ProjectRows
  <2>3. \A r, s \in Projects : project'[r].flow # "none" /\ project'[r].flow = project'[s].flow => r = s
    BY <1>7 DEF StudioInv, FlowsAreOwned
  <2>4. \A g \in StudioFlows : flowOf'[g] # NoStudioFlow => g \in issued'
    BY <1>1, <1>4 DEF StudioInv, FlowsAreOwned
  <2>5. \A k \in Jobs : Drawing(k)' /\ job'[k].flow # "none" =>
           /\ job'[k].flow \in issued'
           /\ \A r \in Projects : project'[r].flow = job'[k].flow => r = job'[k].p
           /\ \A m \in Jobs : Drawing(m)' /\ job'[m].flow = job'[k].flow => job'[m].p = job'[k].p
    BY <1>1, <1>7, <2>1 DEF StudioInv, FlowsAreOwned
  <2>6. QED
    BY <2>2, <2>3, <2>4, <2>5 DEF FlowsAreOwned
<1>9. OneCommand' /\ SlotsAreSpent'
  BY <1>1, <1>3 DEF StudioInv, OneCommand, SlotsAreSpent
<1>10. \A r \in Projects : Saved(r)' => Saved(r)
  <2>1. NoProject.flow = "none"
    BY DEF NoProject
  <2>2. QED
    BY <1>3, <2>1, StudioLimits DEF Saved
<1>11. RequestsFit'
  <2>1. \A k \in Jobs : k # j => (RequestFits(k)' <=> RequestFits(k))
    BY <1>2 DEF RequestFits
  <2>2. RequestFits(j)'
    BY <1>2 DEF RequestFits
  <2>3. \A r \in Projects : Saved(r)' => project'[r].rev > 0
    BY <1>3, <1>10 DEF StudioInv, RequestsFit
  <2>4. job'[j].op = "none"
    BY <1>2, NoRequest
  <2>5. QED
    BY <1>1, <1>2, <2>1, <2>2, <2>3, <2>4 DEF StudioInv, RequestsFit
<1>12. OneByOne'
  <2> SUFFICES ASSUME ~overlapped' PROVE OneByOne'
    BY DEF OneByOne
  <2>1. \A k \in Jobs : job'[k].at = "done"
    BY <1>1, <1>2 DEF StudioInv, OneByOne
  <2>2. \A k \in Jobs : Undisturbed(k)'
    BY <2>1 DEF Undisturbed, Drawing
  <2>3. faulted' \intersect {"agent", "project"} = {} => strays' = {}
    BY <1>1 DEF StudioInv, OneByOne
  <2>4. QED
    BY <2>1, <2>2, <2>3 DEF OneByOne
<1>13. WholeSoFar'
  <2> SUFFICES ASSUME ~overlapped', faulted' = {} PROVE WholeSoFar'
    BY DEF WholeSoFar
  <2>1. ~overlapped /\ faulted = {} /\ \A k \in Jobs : k # j => job[k].at = "done"
    BY <1>1 DEF StudioInv, OneByOne
  <2>2. \A r \in Projects : project[r].flow # f
    BY <2>1 DEF StudioInv, OneByOne, Undisturbed
  <2>3. \A r \in Projects : project'[r] = project[r]
    BY <1>3, <2>2
  <2>4. \A r \in Projects : Saved(r) => Runs(r) /\ Hooked(r)
    BY <2>1 DEF StudioInv, WholeSoFar
  <2>5. \A r \in Projects : Saved(r)' => Runs(r)' /\ Hooked(r)'
    <3>1. ASSUME NEW r \in Projects, Saved(r)' PROVE Runs(r)' /\ Hooked(r)'
      <4>1. Saved(r) /\ Runs(r) /\ Hooked(r) /\ project'[r] = project[r]
        BY <1>10, <2>3, <2>4, <3>1
      <4>2. project[r].flow \in StudioFlows /\ project[r].flow # f
        BY <2>2, <4>1 DEF Runs, StudioTypeOK
      <4>3. flowOf'[project[r].flow] = flowOf[project[r].flow]
        BY <1>4, <4>2
      <4>4. QED
        BY <4>1, <4>3 DEF Runs, Hooked
    <3>2. QED
      BY <3>1
  <2>6. \A g \in StudioFlows : flowOf'[g] # NoStudioFlow => \E r \in Projects : project'[r].flow = g
    BY <1>4, <2>1, <2>3 DEF StudioInv, WholeSoFar
  <2>7. \A k \in Jobs : job'[k].at \notin {"agents", "project", "hook"}
    BY <1>2, <2>1
  <2>8. QED
    BY <2>5, <2>6, <2>7 DEF WholeSoFar
<1>14. QED
  BY <1>5, <1>8, <1>9, <1>11, <1>12, <1>13 DEF StudioInv

LEMMA RemoveFlowKeeps ==
  ASSUME StudioTypeOK, StudioInv, NEW j \in Jobs, RemoveFlow(j)
  PROVE  StudioTypeOK' /\ StudioInv'
<1>1. job[j].at = "flow" /\ Becomes(j, NoJob) /\ UNCHANGED <<agentRows, skills, issued, past>> /\ Quiet
  BY DEF RemoveFlow, At
<1>2. PICK f \in StudioFlows : job[j].flow = f
  BY <1>1 DEF StudioInv, RequestsFit, RequestFits, StudioTypeOK, Requests
<1>3. CASE DropFlow(job[j].flow) /\ project' = Unlinked(job[j].flow, project) /\ Fine
  <2>1. DropFlow(f) /\ project' = Unlinked(f, project) /\ Fine
    BY <1>2, <1>3
  <2>2. QED
    BY <1>1, <1>2, <2>1, FlowGoesKeeps
<1>4. CASE Fault("remove") /\ UNCHANGED <<flowOf, project>>
  <2>1. UNCHANGED <<flowOf, project, skills, issued, tick, clock, claims, strays, leftovers, agentRows, began, overlapped>>
    BY <1>1, <1>4 DEF Quiet, past
  <2>2. faulted' = faulted \union {"remove"}
    BY <1>4 DEF Fault
  <2>3. StudioTypeOK'
    BY <1>1, <2>1, <2>2, NoRequest, OnlyTheRequest DEF StudioTypeOK
  <2>4. began' >= began
    BY <2>1 DEF StudioTypeOK
  <2>5. ~overlapped' => \A k \in Jobs : k # j => job[k].at = "done"
    BY <1>1, <2>1, TheOnlyOne
  <2>6. ~overlapped' /\ faulted' \intersect {"agent", "project"} = {} => strays' = {}
    BY <2>1, <2>2 DEF StudioInv, OneByOne
  <2>7. faulted \subseteq faulted' /\ faulted' # {} /\ agentRows \subseteq agentRows' /\ issued \subseteq issued' /\ (overlapped => overlapped')
    BY <2>1, <2>2
  <2>8. UNCHANGED <<flowOf, project, tick, clock, claims>>
    BY <2>1
  <2>9. PICK q \in Requests : q = NoJob /\ q.at = "done" /\ Becomes(j, q)
    BY <1>1, NoRequest
  <2>10. StudioInv'
    BY <2>3, <2>4, <2>5, <2>6, <2>7, <2>8, <2>9, LeavingKeeps
  <2>11. QED
    BY <2>3, <2>10
<1>5. QED
  BY <1>3, <1>4 DEF RemoveFlow

\* import() undoes what it created: its projects, with their workflows.
LEMMA UndoKeeps ==
  ASSUME StudioTypeOK, StudioInv, NEW j \in Jobs, Undo(j)
  PROVE  StudioTypeOK' /\ StudioInv'
<1> DEFINE Unmade(p) == p \in job[j].projects
<1>1. job[j].at = "undo" /\ job[j] \in Requests /\ Becomes(j, NoJob)
  BY ImportOf DEF Undo, At
<1>2. UNCHANGED <<issued, tick, clock, claims, strays, faulted, began, overlapped>>
  BY DEF Undo, Quiet
<1>3. job'[j].at = "done" /\ job'[j] = NoJob /\ (\A k \in Jobs : k # j => job'[k] = job[k]) /\ job' \in [Jobs -> Requests]
  BY <1>1, NoRequest, OnlyTheRequest
<1>4. NoProject \in ProjectRows /\ NoProject.flow = "none" /\ NoProject.trigger = "none" /\ NoProject.due = 0
  BY DEF NoProject, ProjectRows
<1>5. /\ project' \in [Projects -> ProjectRows]
      /\ \A r \in Projects : (Unmade(r) => project'[r] = NoProject) /\ (~Unmade(r) => project'[r] = project[r])
  <2>1. project' = [p \in Projects |-> IF p \in job[j].projects THEN NoProject ELSE project[p]]
    BY DEF Undo
  <2>2. \A r \in Projects : project[r] \in ProjectRows
    BY DEF StudioTypeOK, ProjectRows
  <2>3. QED
    BY <1>4, <2>1, <2>2
<1>6. /\ flowOf' \in [StudioFlows -> [agents : SUBSET AgentRows, rev : Nat]]
      /\ \A f \in StudioFlows : /\ (\E p \in Projects : Unmade(p) /\ project[p].flow = f) => flowOf'[f] = NoStudioFlow
                                /\ ~(\E p \in Projects : Unmade(p) /\ project[p].flow = f) => flowOf'[f] = flowOf[f]
  <2>1. flowOf' = [f \in StudioFlows |-> IF \E p \in job[j].projects : project[p].flow = f THEN NoStudioFlow ELSE flowOf[f]]
    BY DEF Undo
  <2>2. job[j].projects \subseteq Projects
    BY <1>1 DEF Requests
  <2>3. \A f \in StudioFlows : (\E p \in job[j].projects : project[p].flow = f) <=> (\E p \in Projects : Unmade(p) /\ project[p].flow = f)
    BY <2>2
  <2>4. NoStudioFlow \in [agents : SUBSET AgentRows, rev : Nat]
    BY DEF NoStudioFlow
  <2>5. \A f \in StudioFlows : flowOf[f] \in [agents : SUBSET AgentRows, rev : Nat]
    BY DEF StudioTypeOK
  <2> HIDE DEF Unmade
  <2>6. QED
    BY <2>1, <2>3, <2>4, <2>5
<1> HIDE DEF Unmade
<1>7. agentRows' \subseteq agentRows /\ skills' \subseteq skills /\ leftovers' \subseteq leftovers \union agentRows
  BY DEF Undo
<1>8. StudioTypeOK'
  BY <1>2, <1>3, <1>5, <1>6, <1>7 DEF StudioTypeOK, ProjectRows
<1>9. \A k \in Jobs : job'[k].at # "done" => k # j /\ job'[k] = job[k]
  BY <1>3
<1>10. \A r \in Projects : project'[r].flow # "none" => ~Unmade(r) /\ project'[r] = project[r]
  BY <1>4, <1>5
<1>11. \A r \in Projects : project'[r].flow # "none" => project'[r].flow \in StudioFlows /\ flowOf'[project'[r].flow] = flowOf[project'[r].flow]
  <2>1. ASSUME NEW r \in Projects, project'[r].flow # "none"
        PROVE  project'[r].flow \in StudioFlows /\ flowOf'[project'[r].flow] = flowOf[project'[r].flow]
    <3>1. ~Unmade(r) /\ project'[r] = project[r] /\ project[r].flow # "none"
      BY <1>10, <2>1
    <3>2. PICK f \in StudioFlows : f = project[r].flow
      BY <3>1 DEF StudioTypeOK
    <3>3. \A p \in Projects : project[p].flow = f => p = r
      BY <3>1, <3>2 DEF StudioInv, FlowsAreOwned
    <3>4. ~(\E p \in Projects : Unmade(p) /\ project[p].flow = f)
      BY <3>1, <3>3
    <3>5. flowOf'[f] = flowOf[f]
      BY <1>6, <3>4
    <3>6. QED
      BY <3>1, <3>2, <3>5
  <2>2. QED
    BY <2>1
<1>12. FlowsAreOwned'
  <2>1. \A k \in Jobs : Drawing(k)' => Drawing(k) /\ job'[k] = job[k]
    BY <1>9 DEF Drawing
  <2>2. \A r \in Projects : project'[r].flow # "none" => project'[r].flow \in issued' /\ flowOf'[project'[r].flow] # NoStudioFlow
    BY <1>2, <1>10, <1>11 DEF StudioInv, FlowsAreOwned
  <2>3. \A r, s \in Projects : project'[r].flow # "none" /\ project'[r].flow = project'[s].flow => r = s
    BY <1>10 DEF StudioInv, FlowsAreOwned
  <2>4. \A g \in StudioFlows : flowOf'[g] # NoStudioFlow => g \in issued'
    BY <1>2, <1>6 DEF StudioInv, FlowsAreOwned
  <2>5. \A k \in Jobs : Drawing(k)' /\ job'[k].flow # "none" =>
           /\ job'[k].flow \in issued'
           /\ \A r \in Projects : project'[r].flow = job'[k].flow => r = job'[k].p
           /\ \A m \in Jobs : Drawing(m)' /\ job'[m].flow = job'[k].flow => job'[m].p = job'[k].p
    BY <1>2, <1>10, <2>1 DEF StudioInv, FlowsAreOwned
  <2>6. QED
    BY <2>2, <2>3, <2>4, <2>5 DEF FlowsAreOwned
<1>13. OneCommand'
  BY <1>4, <1>5 DEF StudioInv, OneCommand
<1>14. SlotsAreSpent'
  <2>1. clock \in Nat
    BY StudioLimits DEF StudioTypeOK
  <2>2. \A r \in Projects : project'[r].due = 0 \/ project'[r].due = project[r].due
    BY <1>4, <1>5
  <2>3. QED
    BY <1>2, <2>1, <2>2 DEF StudioInv, SlotsAreSpent
<1>15. \A r \in Projects : Saved(r)' => Saved(r) /\ project'[r] = project[r]
  BY <1>5 DEF Saved
<1>16. RequestsFit'
  <2>1. \A k \in Jobs : k # j => (RequestFits(k)' <=> RequestFits(k))
    BY <1>3 DEF RequestFits
  <2>2. RequestFits(j)'
    BY <1>3 DEF RequestFits
  <2>3. \A r \in Projects : Saved(r)' => project'[r].rev > 0
    BY <1>15 DEF StudioInv, RequestsFit
  <2>4. job'[j].op = "none"
    BY <1>3, NoRequest
  <2>5. QED
    BY <1>2, <1>3, <2>1, <2>2, <2>3, <2>4 DEF StudioInv, RequestsFit
<1>17. OneByOne'
  <2> SUFFICES ASSUME ~overlapped' PROVE OneByOne'
    BY DEF OneByOne
  <2>1. \A k \in Jobs : job'[k].at = "done"
    BY <1>1, <1>2, <1>3 DEF StudioInv, OneByOne
  <2>2. \A k \in Jobs : Undisturbed(k)'
    BY <2>1 DEF Undisturbed, Drawing
  <2>3. faulted' \intersect {"agent", "project"} = {} => strays' = {}
    BY <1>2 DEF StudioInv, OneByOne
  <2>4. QED
    BY <2>1, <2>2, <2>3 DEF OneByOne
<1>18. WholeSoFar'
  <2> SUFFICES ASSUME ~overlapped', faulted' = {} PROVE WholeSoFar'
    BY DEF WholeSoFar
  <2>1. ~overlapped /\ faulted = {} /\ \A k \in Jobs : job[k].at \notin {"project", "hook", "flow"}
    BY <1>1, <1>2 DEF StudioInv, OneByOne
  <2>2. \A r \in Projects : Saved(r) => Runs(r) /\ Hooked(r)
    BY <2>1 DEF StudioInv, WholeSoFar
  <2>3. \A r \in Projects : Saved(r)' => Runs(r)' /\ Hooked(r)'
    BY <1>11, <1>15, <2>2 DEF Runs, Hooked
  <2>4. ASSUME NEW g \in StudioFlows, flowOf'[g] # NoStudioFlow
        PROVE  \E r \in Projects : project'[r].flow = g
    <3>1. flowOf'[g] = flowOf[g] /\ ~(\E p \in Projects : Unmade(p) /\ project[p].flow = g)
      BY <1>6, <2>4
    <3>2. PICK r \in Projects : project[r].flow = g
      BY <2>1, <2>4, <3>1 DEF StudioInv, WholeSoFar
    <3>3. project'[r] = project[r]
      BY <1>5, <3>1, <3>2
    <3>4. QED
      BY <3>2, <3>3
  <2>5. \A k \in Jobs : job'[k].at \notin {"agents", "project", "hook"}
    BY <1>1, <1>2, <1>3 DEF StudioInv, OneByOne
  <2>6. QED
    BY <2>3, <2>4, <2>5 DEF WholeSoFar
<1>19. QED
  BY <1>8, <1>12, <1>13, <1>14, <1>16, <1>17, <1>18 DEF StudioInv

-----------------------------------------------------------------------------
\* The Agents page and the schedulers.
LEMMA DeleteAgentKeeps ==
  ASSUME StudioTypeOK, StudioInv, DeleteAgent
  PROVE  StudioTypeOK' /\ StudioInv'
<1>1. UNCHANGED <<flowOf, project, skills, issued, job, tick, clock, claims, strays, leftovers, faulted>> /\ agentRows' \subseteq agentRows
  BY DEF DeleteAgent, past
<1>2. began \in Nat /\ began' = began + 1 /\ overlapped' = (overlapped \/ \E k \in Jobs : job[k] # NoJob)
  BY DEF DeleteAgent, StudioTypeOK
<1>3. overlapped' \in BOOLEAN /\ (overlapped => overlapped')
  BY <1>2 DEF StudioTypeOK
<1>4. ~overlapped' => \A k \in Jobs : job'[k].at = "done"
  BY <1>1, <1>2, NoRequest
<1>5. StudioTypeOK'
  BY <1>1, <1>2, <1>3 DEF StudioTypeOK
<1>6. FlowsAreOwned' /\ OneCommand' /\ SlotsAreSpent'
  BY <1>1 DEF StudioInv, FlowsAreOwned, OneCommand, SlotsAreSpent, Drawing
<1>7. RequestsFit'
  BY <1>1, <1>2 DEF StudioInv, RequestsFit, RequestFits, Saved
<1>8. OneByOne'
  <2>1. ~overlapped' => \A k \in Jobs : Undisturbed(k)'
    BY <1>4 DEF Undisturbed, Drawing
  <2>2. ~overlapped' /\ faulted' \intersect {"agent", "project"} = {} => strays' = {}
    BY <1>1, <1>3 DEF StudioInv, OneByOne
  <2>3. QED
    BY <1>4, <2>1, <2>2 DEF OneByOne
<1>9. WholeSoFar'
  BY <1>1, <1>3 DEF StudioInv, WholeSoFar, Saved, Runs, Hooked
<1>10. QED
  BY <1>5, <1>6, <1>7, <1>8, <1>9 DEF StudioInv

\* A step of a scheduler leaves to a project all but what it has next.
LEMMA ScheduleKeeps ==
  ASSUME StudioTypeOK, StudioInv, StudioTypeOK', SlotsAreSpent',
         UNCHANGED <<agentRows, flowOf, skills, issued, job, began, strays, leftovers, faulted, overlapped>>,
         \A p \in Projects :
           /\ project'[p].agents = project[p].agents /\ project'[p].rev = project[p].rev /\ project'[p].flow = project[p].flow
           /\ project'[p].trigger = project[p].trigger /\ project'[p].hook = project[p].hook
           /\ Saved(p)' <=> Saved(p)
  PROVE  StudioInv'
<1>1. FlowsAreOwned'
  BY DEF StudioInv, FlowsAreOwned, Drawing
<1>2. OneCommand'
  BY DEF StudioInv, OneCommand
<1>3. RequestsFit'
  BY DEF StudioInv, RequestsFit, RequestFits
<1>4. OneByOne'
  <2> SUFFICES ASSUME ~overlapped' PROVE OneByOne'
    BY DEF OneByOne
  <2>1. ASSUME NEW k \in Jobs PROVE Undisturbed(k)'
    <3>1. Undisturbed(k) /\ RequestFits(k)
      BY DEF StudioInv, OneByOne, RequestsFit
    <3>2. Drawing(k) \/ job[k].at = "hook" => job[k].p \in Projects
      BY <3>1 DEF RequestFits, Drawing
    <3>3. \A p \in Projects : Taken(p)' <=> Taken(p)
      BY DEF Taken
    <3>4. PICK p : p = job[k].p /\ p = job'[k].p
      OBVIOUS
    <3>5. Drawing(k) \/ job[k].at = "hook" => (Saved(p)' <=> Saved(p)) /\ (Taken(p)' <=> Taken(p)) /\ project'[p].flow = project[p].flow
      BY <3>2, <3>3, <3>4
    <3>6. Drawing(k)' <=> Drawing(k)
      BY DEF Drawing
    <3>7. Saved(p) \in BOOLEAN /\ Saved(p)' \in BOOLEAN
      BY DEF Saved
    <3>8. Drawing(k)' => /\ job'[k].old = Saved(p)'
                         /\ job'[k].trigger = "chat" => ~Taken(p)'
                         /\ job'[k].agents \subseteq agentRows' /\ job'[k].todo \subseteq job'[k].agents
      BY <3>1, <3>4, <3>5, <3>6, <3>7 DEF Undisturbed
    <3>9. /\ job'[k].at = "agents" => job'[k].flow = project'[p].flow
          /\ job'[k].at = "project" /\ job'[k].flow # "none" => flowOf'[job'[k].flow] # NoStudioFlow
          /\ job'[k].at = "hook" => Saved(p)'
          /\ job'[k].at = "flow" => \A q \in Projects : project'[q].flow # job'[k].flow
      BY <3>1, <3>4, <3>5 DEF Undisturbed, Drawing
    <3>10. QED
      BY <3>4, <3>8, <3>9 DEF Undisturbed, Saved, Taken
  <2>2. QED
    BY <2>1 DEF StudioInv, OneByOne
<1>5. WholeSoFar'
  <2> SUFFICES ASSUME ~overlapped', faulted' = {} PROVE WholeSoFar'
    BY DEF WholeSoFar
  <2>1. \A p \in Projects : (Runs(p)' <=> Runs(p)) /\ (Hooked(p)' <=> Hooked(p))
    BY DEF Runs, Hooked
  <2>2. \A p \in Projects : Saved(p)' =>
          /\ Runs(p)' \/ \E j \in Jobs : job'[j].at = "project" /\ job'[j].p = p
          /\ Hooked(p)' \/ \E j \in Jobs : job'[j].at = "hook" /\ job'[j].p = p
    BY <2>1 DEF StudioInv, WholeSoFar
  <2>3. \A f \in StudioFlows : flowOf'[f] # NoStudioFlow =>
          \/ \E p \in Projects : project'[p].flow = f
          \/ \E j \in Jobs : job'[j].at \in {"project", "flow"} /\ job'[j].flow = f
    BY DEF StudioInv, WholeSoFar
  <2>4. \A j \in Jobs :
          /\ job'[j].at \in {"agents", "project", "hook"} => ~job'[j].failed
          /\ job'[j].at = "project" =>
              /\ job'[j].flow # "none" /\ flowOf'[job'[j].flow].agents = job'[j].agents /\ flowOf'[job'[j].flow].rev = job'[j].rev
              /\ Saved(job[j].p)' => project'[job'[j].p].flow = job'[j].flow
    BY DEF StudioInv, WholeSoFar, RequestsFit, RequestFits
  <2>5. QED
    BY <2>2, <2>3, <2>4 DEF WholeSoFar
<1>6. QED
  BY <1>1, <1>2, <1>3, <1>4, <1>5 DEF StudioInv

LEMMA TimeKeeps ==
  ASSUME StudioTypeOK, StudioInv, Time
  PROVE  StudioTypeOK' /\ StudioInv'
<1>1. UNCHANGED <<agentRows, flowOf, project, skills, issued, job, tick, began, claims, strays, leftovers, faulted, overlapped>>
  BY DEF Time, rows, past
<1>2. clock \in Nat /\ clock' = clock + 1 /\ clock' \in 0..MaxSlots
  BY StudioLimits DEF Time, StudioTypeOK
<1>3. StudioTypeOK'
  BY <1>1, <1>2 DEF StudioTypeOK
<1>4. SlotsAreSpent'
  <2>1. \A s \in Tickers : tick[s] # NoDue => tick[s].project \in Projects /\ tick[s].due \in 1..clock'
    BY <1>2 DEF StudioInv, SlotsAreSpent
  <2>2. \A p \in Projects : project[p].due <= clock' + 1
    BY <1>2 DEF StudioInv, SlotsAreSpent, StudioTypeOK
  <2>3. \A p \in Projects, n \in 1..MaxSlots + 1 : claims[p][n] <= 1 /\ (claims[p][n] = 1 => n <= clock' /\ (project[p].due = 0 \/ project[p].due > n))
    BY <1>2, StudioLimits DEF StudioInv, SlotsAreSpent
  <2>4. QED
    BY <1>1, <2>1, <2>2, <2>3 DEF SlotsAreSpent
<1>5. QED
  BY <1>1, <1>3, <1>4, ScheduleKeeps DEF Saved

LEMMA DueScheduleKeeps ==
  ASSUME StudioTypeOK, StudioInv, NEW s \in Tickers, DueSchedule(s)
  PROVE  StudioTypeOK' /\ StudioInv'
<1>1. UNCHANGED <<agentRows, flowOf, project, skills, issued, job, clock, began, claims, strays, leftovers, faulted, overlapped>>
  BY DEF DueSchedule, rows, past
<1>2. PICK p \in Projects : /\ project[p].due \in 1..clock
                            /\ tick' = [tick EXCEPT ![s] = [project |-> p, due |-> project[p].due, flow |-> project[p].flow]]
  BY DEF DueSchedule
<1>3. PICK row \in [project : Projects \union {"none"}, due : Nat, flow : StudioFlows \union {"none"}] :
        row = [project |-> p, due |-> project[p].due, flow |-> project[p].flow]
  BY DEF StudioTypeOK
<1>4. tick' \in [Tickers -> [project : Projects \union {"none"}, due : Nat, flow : StudioFlows \union {"none"}]]
      /\ tick'[s] = row /\ \A t \in Tickers : t # s => tick'[t] = tick[t]
  BY <1>2, <1>3 DEF StudioTypeOK
<1>5. row.project \in Projects /\ row.due \in 1..clock
  BY <1>2, <1>3
<1>6. StudioTypeOK'
  BY <1>1, <1>4 DEF StudioTypeOK
<1>7. SlotsAreSpent'
  BY <1>1, <1>4, <1>5 DEF StudioInv, SlotsAreSpent
<1>8. QED
  BY <1>1, <1>6, <1>7, ScheduleKeeps DEF Saved

LEMMA ClaimSlotKeeps ==
  ASSUME StudioTypeOK, StudioInv, NEW s \in Tickers, ClaimSlot(s)
  PROVE  StudioTypeOK' /\ StudioInv'
<1>1. UNCHANGED <<agentRows, flowOf, skills, issued, job, clock, began, strays, leftovers, faulted, overlapped>>
  BY DEF ClaimSlot
<1>2. PICK p \in Projects, n \in 1..clock : p = tick[s].project /\ n = tick[s].due
  BY DEF ClaimSlot, StudioInv, SlotsAreSpent
<1>3. clock \in Nat /\ n \in Nat /\ n >= 1 /\ n <= clock /\ n \in 1..MaxSlots + 1
  BY <1>2, StudioLimits DEF StudioTypeOK
<1>4. /\ tick' \in [Tickers -> [project : Projects \union {"none"}, due : Nat, flow : StudioFlows \union {"none"}]]
      /\ \A t \in Tickers : tick'[t] # NoDue => tick'[t] = tick[t]
  <2>1. NoDue \in [project : Projects \union {"none"}, due : Nat, flow : StudioFlows \union {"none"}]
    BY DEF NoDue
  <2>2. tick' = [tick EXCEPT ![s] = NoDue]
    BY DEF ClaimSlot
  <2>3. QED
    BY <2>1, <2>2 DEF StudioTypeOK
<1>5. CASE project[p].due = n /\ project' = [project EXCEPT ![p] = [@ EXCEPT !.due = clock + 1]] /\ claims' = [claims EXCEPT ![p][n] = @ + 1]
  <2>1. project[p] \in ProjectRows /\ clock + 1 \in Nat
    BY <1>3 DEF StudioTypeOK, ProjectRows
  <2>2. PICK row \in ProjectRows : /\ row = [project[p] EXCEPT !.due = clock + 1] /\ row.due = clock + 1
                                   /\ row.agents = project[p].agents /\ row.rev = project[p].rev /\ row.flow = project[p].flow
                                   /\ row.trigger = project[p].trigger /\ row.hook = project[p].hook
    <3>1. \A r \in ProjectRows, due \in Nat : LET row == [r EXCEPT !.due = due] IN
            /\ row \in ProjectRows /\ row.due = due /\ row.agents = r.agents /\ row.rev = r.rev /\ row.flow = r.flow
            /\ row.trigger = r.trigger /\ row.hook = r.hook
      BY DEF ProjectRows
    <3>2. QED
      BY <2>1, <3>1
  <2>3. /\ project'[p] = row /\ (\A r \in Projects : r # p => project'[r] = project[r])
        /\ project' \in [Projects -> ProjectRows]
    BY <1>5, <2>2 DEF StudioTypeOK, ProjectRows
  <2>4. /\ claims'[p][n] = claims[p][n] + 1
        /\ \A r \in Projects, m \in 1..MaxSlots + 1 : r # p \/ m # n => claims'[r][m] = claims[r][m]
        /\ claims' \in [Projects -> [1..MaxSlots + 1 -> Nat]]
    <3>1. PICK c \in [1..MaxSlots + 1 -> Nat] : c = claims[p]
      BY DEF StudioTypeOK
    <3>2. c[n] \in Nat /\ c[n] + 1 \in Nat
      BY <1>3
    <3>3. PICK d \in [1..MaxSlots + 1 -> Nat] : d = [c EXCEPT ![n] = c[n] + 1] /\ d[n] = c[n] + 1 /\ \A m \in 1..MaxSlots + 1 : m # n => d[m] = c[m]
      <4>1. PICK x \in Nat : x = c[n] + 1
        BY <3>2
      <4>2. [c EXCEPT ![n] = x] \in [1..MaxSlots + 1 -> Nat]
        OBVIOUS
      <4>3. PICK d \in [1..MaxSlots + 1 -> Nat] : d = [c EXCEPT ![n] = x]
        BY <4>2
      <4>4. n \in DOMAIN c
        BY <1>3
      <4>5. d[n] = x /\ \A m \in 1..MaxSlots + 1 : m # n => d[m] = c[m]
        BY <4>3, <4>4
      <4>6. QED
        BY <4>1, <4>3, <4>5
    <3>4. claims' = [claims EXCEPT ![p] = d]
      BY <1>5, <3>1, <3>3
    <3>5. claims'[p] = d /\ (\A r \in Projects : r # p => claims'[r] = claims[r]) /\ claims' \in [Projects -> [1..MaxSlots + 1 -> Nat]]
      BY <3>4 DEF StudioTypeOK
    <3>6. QED
      BY <3>1, <3>3, <3>5
  <2>5. StudioTypeOK'
    BY <1>1, <1>4, <2>3, <2>4 DEF StudioTypeOK, ProjectRows
  <2>6. claims[p][n] = 0
    <3>1. claims[p][n] \in Nat /\ claims[p][n] <= 1 /\ (claims[p][n] = 1 => project[p].due = 0 \/ project[p].due > n)
      BY <1>3 DEF StudioTypeOK, StudioInv, SlotsAreSpent
    <3>2. QED
      BY <1>3, <1>5, <3>1
  <2>7. SlotsAreSpent'
    <3>1. \A t \in Tickers : tick'[t] # NoDue => tick'[t].project \in Projects /\ tick'[t].due \in 1..clock'
      BY <1>1, <1>4 DEF StudioInv, SlotsAreSpent
    <3>2. \A r \in Projects : project'[r].due <= clock' + 1
      <4>1. \A r \in Projects : project[r].due <= clock + 1
        BY DEF StudioInv, SlotsAreSpent
      <4>2. clock' = clock
        BY <1>1
      <4>3. project'[p].due <= clock + 1
        BY <1>3, <2>2, <2>3
      <4>4. QED
        BY <2>3, <4>1, <4>2, <4>3
    <3>3. ASSUME NEW r \in Projects, NEW m \in 1..MaxSlots + 1
          PROVE  claims'[r][m] <= 1 /\ (claims'[r][m] = 1 => m <= clock' /\ (project'[r].due = 0 \/ project'[r].due > m))
      <4>1. CASE r = p /\ m = n
        <5>1. claims'[p][n] <= 1 /\ clock' = clock /\ project'[p].due > n
          BY <1>1, <1>3, <2>2, <2>3, <2>4, <2>6
        <5>2. QED
          BY <1>3, <4>1, <5>1
      <4>2. CASE r = p /\ m # n
        <5>1. claims'[p][m] = claims[p][m] /\ claims[p][m] <= 1 /\ (claims[p][m] = 1 => m <= clock)
          BY <2>4, <4>2 DEF StudioInv, SlotsAreSpent
        <5>2. clock' = clock /\ project'[p].due = clock + 1
          BY <1>1, <2>2, <2>3
        <5>3. m <= clock => clock + 1 > m
          BY <1>3
        <5>4. QED
          BY <4>2, <5>1, <5>2, <5>3
      <4>3. CASE r # p
        BY <1>1, <2>3, <2>4, <4>3 DEF StudioInv, SlotsAreSpent
      <4>4. QED
        BY <4>1, <4>2, <4>3
    <3>4. QED
      BY <3>1, <3>2, <3>3 DEF SlotsAreSpent
  <2>8. NoProject.due = 0
    BY DEF NoProject
  <2>9. Saved(p) /\ Saved(p)'
    <3>1. project[p].due # 0 /\ project'[p].due # 0
      BY <1>3, <1>5, <2>2, <2>3
    <3>2. QED
      BY <2>8, <3>1 DEF Saved
  <2>10. \A r \in Projects :
           /\ project'[r].agents = project[r].agents /\ project'[r].rev = project[r].rev /\ project'[r].flow = project[r].flow
           /\ project'[r].trigger = project[r].trigger /\ project'[r].hook = project[r].hook
           /\ Saved(r)' <=> Saved(r)
    BY <2>2, <2>3, <2>9 DEF Saved
  <2>11. QED
    BY <1>1, <2>5, <2>7, <2>10, ScheduleKeeps
<1>6. CASE UNCHANGED <<project, claims>>
  <2>1. StudioTypeOK'
    BY <1>1, <1>4, <1>6 DEF StudioTypeOK
  <2>2. SlotsAreSpent'
    BY <1>1, <1>4, <1>6 DEF StudioInv, SlotsAreSpent
  <2>3. QED
    BY <1>1, <1>6, <2>1, <2>2, ScheduleKeeps DEF Saved
<1>7. QED
  BY <1>2, <1>5, <1>6 DEF ClaimSlot, Claimed

-----------------------------------------------------------------------------
LEMMA StudioBegins == StudioInit => StudioTypeOK /\ StudioInv
<1> SUFFICES ASSUME StudioInit PROVE StudioTypeOK /\ StudioInv
  OBVIOUS
<1>1. NoStudioFlow \in [agents : SUBSET AgentRows, rev : Nat] /\ NoProject \in ProjectRows
  BY DEF NoStudioFlow, NoProject, ProjectRows
<1>2. NoDue \in [project : Projects \union {"none"}, due : Nat, flow : StudioFlows \union {"none"}]
  BY DEF NoDue
<1>3. NoProject.flow = "none" /\ NoProject.trigger = "none" /\ NoProject.due = 0
  BY DEF NoProject
<1>4. StudioTypeOK
  <2>1. flowOf \in [StudioFlows -> [agents : SUBSET AgentRows, rev : Nat]] /\ project \in [Projects -> ProjectRows]
    BY <1>1 DEF StudioInit
  <2>2. job \in [Jobs -> Requests] /\ tick \in [Tickers -> [project : Projects \union {"none"}, due : Nat, flow : StudioFlows \union {"none"}]]
    BY <1>2, NoRequest DEF StudioInit
  <2>3. claims \in [Projects -> [1..MaxSlots + 1 -> Nat]] /\ clock \in 0..MaxSlots /\ began \in Nat
    BY StudioLimits DEF StudioInit
  <2>4. QED
    BY <2>1, <2>2, <2>3 DEF StudioInit, StudioTypeOK, ProjectRows
<1>5. /\ \A j \in Jobs : job[j] = NoJob /\ job[j].at = "done" /\ job[j].op = "none"
      /\ \A p \in Projects : ~Saved(p) /\ project[p].flow = "none" /\ project[p].trigger = "none" /\ project[p].due = 0
      /\ \A f \in StudioFlows : flowOf[f] = NoStudioFlow
      /\ \A p \in Projects, n \in 1..MaxSlots + 1 : claims[p][n] = 0
      /\ \A s \in Tickers : tick[s] = NoDue
      /\ clock = 0 /\ strays = {}
  BY <1>3, NoRequest DEF StudioInit, Saved
<1>6. FlowsAreOwned /\ OneCommand /\ SlotsAreSpent
  BY <1>5 DEF FlowsAreOwned, OneCommand, SlotsAreSpent, Drawing
<1>7. RequestsFit
  BY <1>5 DEF RequestsFit, RequestFits
<1>8. OneByOne /\ WholeSoFar
  BY <1>5 DEF OneByOne, WholeSoFar, Undisturbed, Drawing
<1>9. QED
  BY <1>4, <1>6, <1>7, <1>8 DEF StudioInv

LEMMA StudioStepKeeps ==
  ASSUME StudioTypeOK, StudioInv, [StudioNext]_studioVars
  PROVE  StudioTypeOK' /\ StudioInv'
<1>1. ASSUME NEW j \in Jobs,
             \/ BeginSave(j) \/ UpdateAgent(j) \/ CreateAgent(j) \/ AgentsFail(j) \/ WriteFlow(j)
             \/ WriteProject(j) \/ ProjectFails(j) \/ IssueWebhook(j) \/ RemoveProject(j) \/ RemoveFlow(j)
      PROVE  StudioTypeOK' /\ StudioInv'
  BY <1>1, BeginSaveKeeps, UpdateAgentKeeps, CreateAgentKeeps, AgentsFailKeeps, WriteFlowKeeps, WriteProjectKeeps, ProjectFailsKeeps,
     IssueWebhookKeeps, RemoveProjectKeeps, RemoveFlowKeeps
<1>2. ASSUME NEW j \in Jobs,
             \/ BeginImport(j) \/ ImportSkill(j) \/ ImportAgent(j) \/ ImportFunctions(j) \/ ImportProject(j) \/ Imported(j) \/ Undo(j)
      PROVE  StudioTypeOK' /\ StudioInv'
  BY <1>2, BeginImportKeeps, ImportSkillKeeps, ImportAgentKeeps, ImportFunctionsKeeps, ImportProjectKeeps, ImportedKeeps, UndoKeeps
<1>3. CASE DeleteAgent \/ Time
  BY <1>3, DeleteAgentKeeps, TimeKeeps
<1>4. ASSUME NEW s \in Tickers, DueSchedule(s) \/ ClaimSlot(s) PROVE StudioTypeOK' /\ StudioInv'
  BY <1>4, DueScheduleKeeps, ClaimSlotKeeps
<1>5. CASE UNCHANGED studioVars
  <2>1. UNCHANGED <<agentRows, flowOf, project, skills, issued, job, tick, clock, began, claims, faulted, overlapped, strays, leftovers>>
    BY <1>5 DEF studioVars
  <2>2. StudioTypeOK'
    BY <2>1 DEF StudioTypeOK
  <2>3. (FlowsAreOwned /\ OneCommand /\ SlotsAreSpent /\ RequestsFit)'
    BY <2>1 DEF StudioInv, FlowsAreOwned, OneCommand, SlotsAreSpent, RequestsFit, RequestFits, Drawing, Saved
  <2>4. OneByOne' /\ WholeSoFar'
    BY <2>1 DEF StudioInv, OneByOne, WholeSoFar, Undisturbed, Drawing, Saved, Taken, Runs, Hooked
  <2>5. QED
    BY <2>2, <2>3, <2>4 DEF StudioInv
<1>6. QED
  BY <1>1, <1>2, <1>3, <1>4, <1>5 DEF StudioNext

\* A workflow is one project's; a command and a slot are taken once; what no
\* other request disturbs and no write fails is written whole.
LEMMA WholeByInv ==
  ASSUME StudioTypeOK, StudioInv
  PROVE  ProjectsStayWhole
<1>1. \A p \in Projects : \A q \in Projects \ {p} :
        /\ project[p].flow # "none" => project[p].flow # project[q].flow
        /\ ~(project[p].trigger = "chat" /\ project[q].trigger = "chat")
  BY DEF StudioInv, FlowsAreOwned, OneCommand
<1>2. \A p \in Projects, n \in 1..MaxSlots + 1 : claims[p][n] <= 1
  BY DEF StudioInv, SlotsAreSpent
<1>3. ~overlapped /\ faulted \intersect {"agent", "project"} = {} => strays = {}
  BY DEF StudioInv, OneByOne
<1>4. ASSUME AllDone, ~overlapped, faulted = {}
      PROVE  /\ \A p \in Projects : Saved(p) => Runs(p) /\ Hooked(p)
             /\ \A f \in StudioFlows : flowOf[f] # NoStudioFlow => \E p \in Projects : project[p].flow = f
  <2>1. \A j \in Jobs : job[j].at = "done"
    BY <1>4, NoRequest DEF AllDone
  <2>2. QED
    BY <1>4, <2>1 DEF StudioInv, WholeSoFar
<1>5. QED
  BY <1>1, <1>2, <1>3, <1>4 DEF ProjectsStayWhole, Runs, Hooked

\* Rows, requests and ticks keep the shape the code gives them, whatever fails.
THEOREM StudioTypeCorrect == StudioSpec => []StudioTypeOK
<1>1. StudioSpec => [](StudioTypeOK /\ StudioInv)
  BY StudioBegins, StudioStepKeeps, PTL DEF StudioSpec
<1>2. QED
  BY <1>1, PTL

\* A workflow is one project's, a command and a slot of a schedule are taken
\* once, a save loses no agent it made unless agents or the project cannot be
\* written, and requests that neither overlap nor fail leave every project with
\* the workflow of its canvas (StudioService, PortableService, StudioRepository).
THEOREM StudioStaysWhole == StudioSpec => []ProjectsStayWhole
<1>1. StudioSpec => [](StudioTypeOK /\ StudioInv)
  BY StudioBegins, StudioStepKeeps, PTL DEF StudioSpec
<1>2. QED
  BY <1>1, WholeByInv, PTL

-----------------------------------------------------------------------------
(***************************************************************************)
(* Conversations: a list read page by page.  A cursor splits the chats in  *)
(* those shown and those to come: what is past it is not shown yet, what   *)
(* is before it was, as far as nobody wrote the chat meanwhile.  Pages are *)
(* cut by rank, so what is left out of one is older than its last chat.    *)
(***************************************************************************)
PagesInv ==
    pager.open =>
        /\ pager.quiet \subseteq Present
        /\ \A c \in pager.quiet :
             /\ pager.done => pager.shown[c] = 1
             /\ ~ pager.done => pager.shown[c] = IF c \in Past(pager.cursor) THEN 0 ELSE 1

\* A finite set that an order arranges has a first.
LEMMA FirstInOrder ==
  ASSUME NEW S, IsFiniteSet(S), S # {}, NEW R,
         \A x, y \in S : x = y \/ <<x, y>> \in R \/ <<y, x>> \in R,
         \A x, y, z \in S : <<x, y>> \in R /\ <<y, z>> \in R => <<x, z>> \in R,
         \A x \in S : <<x, x>> \notin R
  PROVE  \E x \in S : \A y \in S : y = x \/ <<x, y>> \in R
<1> DEFINE Before(x) == {y \in S : <<y, x>> \in R}
           Ranks == {Cardinality(Before(x)) : x \in S}
<1>1. \A x \in S : IsFiniteSet(Before(x)) /\ Cardinality(Before(x)) \in Nat
  <2>1. \A x \in S : Before(x) \subseteq S
    OBVIOUS
  <2> HIDE DEF Before
  <2>2. QED
    BY <2>1, FS_Subset, FS_CardinalityType
<1>2. PICK n \in Ranks : \A m \in Ranks : n <= m
  <2>1. Ranks \subseteq Nat /\ Ranks # {}
    <3> HIDE DEF Before
    <3>1. QED
      BY <1>1
  <2> HIDE DEF Ranks
  <2>2. QED
    BY <2>1, LeastOf
<1>3. PICK x \in S : n = Cardinality(Before(x))
  OBVIOUS
<1>4. ASSUME NEW y \in S, y # x, <<x, y>> \notin R PROVE FALSE
  <2>1. <<y, x>> \in R
    BY <1>4
  <2>2. Before(y) \subseteq Before(x) /\ y \in Before(x) /\ y \notin Before(y)
    BY <2>1
  <2>3. Cardinality(Before(y)) \in Ranks
    OBVIOUS
  <2>4. n <= Cardinality(Before(y))
    BY <1>2, <2>3
  <2> HIDE DEF Before, Ranks
  <2>5. Cardinality(Before(y)) <= Cardinality(Before(x)) /\ (Cardinality(Before(y)) = Cardinality(Before(x)) => Before(y) = Before(x))
    BY <1>1, <2>2, FS_Subset
  <2>6. Cardinality(Before(y)) # Cardinality(Before(x))
    BY <2>2, <2>5
  <2>7. Cardinality(Before(y)) \in Nat /\ Cardinality(Before(x)) \in Nat
    BY <1>1
  <2>8. QED
    BY <1>3, <2>4, <2>5, <2>6, <2>7
<1>5. QED
  BY <1>4

\* The order of the list.
LEMMA ChatsAreOrdered ==
  ASSUME ConversationsTypeOK
  PROVE  /\ \A c \in ChatIds : chat[c].at \in Nat /\ c \in Nat /\ ~ Newer(c, c)
         /\ \A c, d \in ChatIds : c = d \/ Newer(c, d) \/ Newer(d, c)
         /\ \A c, d, e \in ChatIds : Newer(c, d) /\ Newer(d, e) => Newer(c, e)
<1>1. \A c \in ChatIds : chat[c].at \in Nat /\ c \in Nat
  BY ConversationsAssumption DEF ConversationsTypeOK, ChatRows
<1>2. QED
  BY <1>1 DEF Newer

\* What a page leaves out is past its last chat; what it shows isn't.
LEMMA PagesAreCut ==
  ASSUME ConversationsTypeOK, NEW after \in {<<>>} \union (Nat \X ChatIds),
         NEW answer, answer = GetUserSessionsPage(after)
  PROVE  /\ answer.page \subseteq Past(after) /\ answer.next \in {<<>>} \union (Nat \X ChatIds)
         /\ answer.next = <<>> => answer.page = Past(after)
         /\ answer.next # <<>> => Past(answer.next) = Past(after) \ answer.page
<1> DEFINE left == Past(after)
           page == {c \in left : Cardinality({d \in left : Newer(d, c)}) < PageLimit}
           last == CHOOSE c \in page : \A d \in page : c = d \/ Newer(d, c)
<1>1. /\ answer.page = page /\ answer.next = IF left = page THEN <<>> ELSE <<chat[last].at, last>>
  BY DEF GetUserSessionsPage
<1>2. left \subseteq ChatIds /\ page \subseteq left /\ IsFiniteSet(left)
  <2>1. left \subseteq ChatIds
    BY DEF Past, Present
  <2>2. QED
    BY <2>1, FS_Subset, ConversationsAssumption
<1>3. ASSUME left # page PROVE page # {}
  <2> DEFINE R == {e \in ChatIds \X ChatIds : Newer(e[1], e[2])}
  <2>1. /\ \A x, y \in left : x = y \/ <<x, y>> \in R \/ <<y, x>> \in R
        /\ \A x, y, z \in left : <<x, y>> \in R /\ <<y, z>> \in R => <<x, z>> \in R
        /\ \A x \in left : <<x, x>> \notin R
    BY <1>2, ChatsAreOrdered
  <2>2. left # {}
    BY <1>3, <1>2
  <2>3. PICK x \in left : \A y \in left : y = x \/ <<x, y>> \in R
    <3> HIDE DEF R, left
    <3>1. QED
      BY <1>2, <2>1, <2>2, FirstInOrder
  <2>4. {d \in left : Newer(d, x)} = {}
    <3>1. \A y \in left : y = x \/ Newer(x, y)
      BY <1>2, <2>3
    <3>2. QED
      BY <1>2, <3>1, ChatsAreOrdered
  <2>5. x \in page
    <3>1. Cardinality({d \in left : Newer(d, x)}) = 0
      BY <2>4, FS_EmptySet
    <3>2. 0 < PageLimit
      BY ConversationsAssumption
    <3>3. QED
      BY <3>1, <3>2
  <2>6. QED
    BY <2>5
<1>4. ASSUME page # {} PROVE last \in page /\ \A d \in page : last = d \/ Newer(d, last)
  <2> DEFINE R == {e \in ChatIds \X ChatIds : Newer(e[2], e[1])}
  <2>1. /\ \A x, y \in page : x = y \/ <<x, y>> \in R \/ <<y, x>> \in R
        /\ \A x, y, z \in page : <<x, y>> \in R /\ <<y, z>> \in R => <<x, z>> \in R
        /\ \A x \in page : <<x, x>> \notin R
    BY <1>2, ChatsAreOrdered
  <2>2. IsFiniteSet(page)
    BY <1>2, FS_Subset
  <2>3. PICK x \in page : \A y \in page : y = x \/ <<x, y>> \in R
    <3> HIDE DEF R, left, page
    <3>1. QED
      BY <1>4, <2>1, <2>2, FirstInOrder
  <2>4. \A y \in page : x = y \/ Newer(y, x)
    BY <1>2, <2>3
  <2> HIDE DEF page, R
  <2>5. QED
    BY <2>4
<1>5. ASSUME NEW c \in left, NEW d \in left, Newer(c, d), d \in page PROVE c \in page
  <2>1. {e \in left : Newer(e, c)} \subseteq {e \in left : Newer(e, d)}
    BY <1>2, <1>5, ChatsAreOrdered
  <2>2. IsFiniteSet({e \in left : Newer(e, d)})
    BY <1>2, FS_Subset
  <2>3. Cardinality({e \in left : Newer(e, c)}) <= Cardinality({e \in left : Newer(e, d)})
    BY <2>1, <2>2, FS_Subset
  <2>4. Cardinality({e \in left : Newer(e, c)}) \in Nat /\ Cardinality({e \in left : Newer(e, d)}) \in Nat
    BY <2>1, <2>2, FS_Subset, FS_CardinalityType
  <2>5. Cardinality({e \in left : Newer(e, d)}) < PageLimit /\ PageLimit \in Nat
    BY <1>5, ConversationsAssumption
  <2>6. QED
    BY <2>3, <2>4, <2>5
<1>6. CASE left = page
  BY <1>1, <1>6
<1>7. CASE left # page
  <2>1. last \in page /\ \A d \in page : last = d \/ Newer(d, last)
    BY <1>3, <1>4, <1>7
  <2>2. PICK l \in page : l = last
    BY <2>1
  <2>3. answer.next = <<chat[l].at, l>> /\ l \in left /\ \A d \in page : l = d \/ Newer(d, l)
    BY <1>1, <1>2, <1>7, <2>1, <2>2
  <2>4. \A d \in left : d \in page \/ Newer(l, d)
    BY <1>2, <1>5, <2>2, <2>3, ChatsAreOrdered
  <2> HIDE DEF page, last
  <2>5. chat[l].at \in Nat /\ l \in ChatIds
    BY <1>2, <2>3, ChatsAreOrdered
  <2>6. \A c \in ChatIds : c \in Past(<<chat[l].at, l>>) <=> c \in Present /\ Newer(l, c)
    BY <2>5 DEF Past, Newer
  <2>7. \A c \in ChatIds : c \in Present /\ Newer(l, c) => c \in left
    <3>1. CASE after = <<>>
      BY <3>1 DEF Past
    <3>2. CASE after # <<>>
      <4>1. PICK a \in Nat, b \in ChatIds : after = <<a, b>>
        BY <3>2
      <4>2. \A c \in ChatIds : c \in left <=> c \in Present /\ (chat[c].at < a \/ (chat[c].at = a /\ c < b))
        BY <4>1 DEF Past
      <4>3. b \in Nat
        BY ConversationsAssumption
      <4>4. QED
        BY <2>3, <2>5, <4>2, <4>3, ChatsAreOrdered DEF Newer
    <3>3. QED
      BY <3>1, <3>2
  <2>8. \A c \in ChatIds : c \in page => ~ Newer(l, c)
    BY <1>2, <2>3, <2>5, ChatsAreOrdered
  <2>9. Past(<<chat[l].at, l>>) \subseteq ChatIds /\ left \subseteq Present
    BY DEF Past, Present
  <2>10. Past(<<chat[l].at, l>>) = left \ page
    BY <1>2, <2>4, <2>6, <2>7, <2>8, <2>9
  <2>11. QED
    BY <1>1, <1>2, <2>3, <2>5, <2>10
<1>8. QED
  BY <1>6, <1>7

-----------------------------------------------------------------------------
\* The steps: a chat that is written is not counted on, a page moves the cursor.
LEMMA DisturbedChatKeepsPages ==
  ASSUME ConversationsTypeOK, PagesInv, NEW c \in ChatIds, Disturb(c),
         \A d \in ChatIds : d # c => chat'[d] = chat[d]
  PROVE  PagesInv'
<1> SUFFICES ASSUME pager'.open PROVE PagesInv'
  BY DEF PagesInv
<1>1. pager \in Scrolls /\ pager' = IF pager.open THEN [pager EXCEPT !.quiet = pager.quiet \ {c}] ELSE pager
  BY DEF ConversationsTypeOK, Disturb
<1>2. pager.open
  BY <1>1
<1>3. PICK q \in SUBSET ChatIds : q = pager.quiet \ {c}
  BY <1>1 DEF Scrolls
<1>4. /\ pager'.quiet = q /\ pager'.done = pager.done /\ pager'.shown = pager.shown /\ pager'.cursor = pager.cursor
  BY <1>1, <1>2, <1>3 DEF Scrolls
<1>5. q \subseteq Present'
  BY <1>2, <1>3 DEF PagesInv, Present
<1>6. PICK after : after = pager.cursor
  OBVIOUS
<1>7. \A d \in q : d \in Past(after)' <=> d \in Past(after)
  BY <1>3 DEF Past, Present
<1>8. \A d \in q : d \in Past(pager.cursor)' <=> d \in Past(pager.cursor)
  <2>1. Past(pager.cursor)' = Past(after)'
    BY <1>4, <1>6
  <2>2. QED
    BY <1>6, <1>7, <2>1
<1>9. QED
  BY <1>2, <1>3, <1>4, <1>5, <1>8 DEF PagesInv

LEMMA QuietStepKeepsPages ==
  ASSUME PagesInv, UNCHANGED pager,
         \A d \in ChatIds : chat'[d].is = chat[d].is /\ chat'[d].at = chat[d].at
  PROVE  PagesInv'
<1>1. Present' = Present
  BY DEF Present
<1>2. Past(pager.cursor)' = Past(pager.cursor)
  BY <1>1 DEF Past, Present
<1>3. QED
  BY <1>1, <1>2 DEF PagesInv

\* What is shown of a page.
LEMMA ShownOnce ==
  ASSUME NEW s \in Scrolls, NEW page \in SUBSET ChatIds
  PROVE  /\ Show(s, page) \in Scrolls /\ Show(s, page).quiet = s.quiet /\ Show(s, page).cursor = s.cursor /\ Show(s, page).open = s.open
         /\ \A c \in ChatIds : Show(s, page).shown[c] = s.shown[c] + IF c \in page THEN 1 ELSE 0
<1>1. PICK f \in [ChatIds -> Nat] : f = [c \in ChatIds |-> s.shown[c] + IF c \in page THEN 1 ELSE 0]
  <2>1. \A c \in ChatIds : s.shown[c] + (IF c \in page THEN 1 ELSE 0) \in Nat
    BY DEF Scrolls
  <2>2. QED
    BY <2>1
<1>2. Show(s, page) = [s EXCEPT !.shown = f]
  BY <1>1 DEF Show
<1>3. QED
  BY <1>1, <1>2 DEF Scrolls

LEMMA FirstPageIs ==
  FirstPage \in Scrolls /\ FirstPage.open /\ ~ FirstPage.done /\ FirstPage.quiet = Present /\ FirstPage.cursor = <<>>
  /\ \A c \in ChatIds : FirstPage.shown[c] = 0
<1>1. PICK f \in [ChatIds -> Nat] : f = [c \in ChatIds |-> 0]
  OBVIOUS
<1>2. Present \in SUBSET ChatIds
  BY DEF Present
<1>3. NoScroll = [open |-> FALSE, done |-> FALSE, shown |-> f, quiet |-> {}, cursor |-> <<>>, offset |-> 0]
  BY <1>1 DEF NoScroll
<1>4. NoScroll \in Scrolls /\ NoScroll.cursor = <<>> /\ ~ NoScroll.done /\ NoScroll.shown = f
  BY <1>3 DEF Scrolls
<1>5. QED
  BY <1>1, <1>2, <1>4 DEF FirstPage, Scrolls

LEMMA ReadPageKeepsPages ==
  ASSUME ConversationsTypeOK, PagesInv, ReadPage
  PROVE  PagesInv' /\ pager' \in Scrolls
<1>1. PICK from \in Scrolls :
        /\ from = IF pager.open THEN pager ELSE FirstPage
        /\ from.open /\ ~ from.done /\ from.quiet \subseteq Present
        /\ \A c \in from.quiet : from.shown[c] = IF c \in Past(from.cursor) THEN 0 ELSE 1
  <2>1. CASE pager.open
    BY <2>1 DEF ConversationsTypeOK, PagesInv, ReadPage
  <2>2. CASE ~ pager.open
    <3>1. Past(<<>>) = Present
      BY DEF Past
    <3>2. Present \subseteq ChatIds
      BY DEF Present
    <3>3. QED
      BY <2>2, <3>1, <3>2, FirstPageIs
  <2>3. QED
    BY <2>1, <2>2
<1>2. PICK after \in {<<>>} \union (Nat \X ChatIds) : after = from.cursor
  BY DEF Scrolls
<1>3. PICK answer : answer = GetUserSessionsPage(after)
  OBVIOUS
<1>4. /\ answer.page \subseteq Past(after) /\ answer.next \in {<<>>} \union (Nat \X ChatIds)
      /\ answer.next = <<>> => answer.page = Past(after)
      /\ answer.next # <<>> => Past(answer.next) = Past(after) \ answer.page
  BY <1>3, PagesAreCut
<1>5. PICK page \in SUBSET ChatIds : page = answer.page
  BY <1>4 DEF Past, Present
<1>6. PICK next \in {<<>>} \union (Nat \X ChatIds) : next = answer.next
  BY <1>4
<1>7. pager' = [Show(from, page) EXCEPT !.cursor = next, !.done = next = <<>>]
  BY <1>1, <1>2, <1>3, <1>5, <1>6 DEF ReadPage
<1>8. PICK s \in Scrolls : /\ s = Show(from, page) /\ s.quiet = from.quiet
                           /\ \A c \in ChatIds : s.shown[c] = from.shown[c] + IF c \in page THEN 1 ELSE 0
  BY ShownOnce
<1>9. PICK end \in BOOLEAN : end = (next = <<>>)
  OBVIOUS
<1>10. pager' = [s EXCEPT !.cursor = next, !.done = end]
  BY <1>7, <1>8, <1>9
<1>11. pager' \in Scrolls /\ pager'.quiet = from.quiet /\ pager'.shown = s.shown /\ pager'.cursor = next /\ pager'.done = end
  BY <1>8, <1>10 DEF Scrolls
<1>12. Present' = Present /\ Past(next)' = Past(next)
  BY DEF ReadPage, Present, Past
<1>13. \A c \in from.quiet : /\ end => pager'.shown[c] = 1
                             /\ ~ end => pager'.shown[c] = IF c \in Past(next) THEN 0 ELSE 1
  <2> SUFFICES ASSUME NEW c \in from.quiet
      PROVE  /\ end => pager'.shown[c] = 1
             /\ ~ end => pager'.shown[c] = IF c \in Past(next) THEN 0 ELSE 1
    OBVIOUS
  <2>1. c \in ChatIds /\ pager'.shown[c] = (IF c \in Past(after) THEN 0 ELSE 1) + (IF c \in page THEN 1 ELSE 0)
    BY <1>1, <1>2, <1>8, <1>11 DEF Present
  <2>2. page \subseteq Past(after) /\ (end => page = Past(after)) /\ (~ end => Past(next) = Past(after) \ page)
    BY <1>4, <1>5, <1>6, <1>9
  <2>3. QED
    BY <2>1, <2>2
<1>14. Past(pager.cursor)' = Past(next)'
  BY <1>11
<1>15. PagesInv'
  BY <1>1, <1>11, <1>12, <1>13, <1>14 DEF PagesInv
<1>16. QED
  BY <1>11, <1>15

\* What is shown at the end.
LEMMA PagesByInv ==
  ASSUME ConversationsTypeOK, PagesInv
  PROVE  PagesAreComplete
BY DEF PagesInv, PagesAreComplete

-----------------------------------------------------------------------------
(***************************************************************************)
(* The messages that are stored, and what comes back of them.              *)
(***************************************************************************)
\* The kinds of messages; each has something readable.
LEMMA MessageKinds ==
  ASSUME NEW m \in Messages
  PROVE  \/ \E role \in {"user", "assistant"}, shape \in {"string", "parts"}, parts \in Seq(Known) :
               parts # <<>> /\ m = Said(role, shape, parts)
         \/ \E args \in {"none", "object"} : m = Called(args)
         \/ \E output \in {"none", "plain", "json"} : m = Returned(output)
<1>1. PICK b \in Batches : \E i \in 1 .. Len(b) : m = b[i]
  BY DEF Messages
<1>2. PICK p \in Seq(Known), q \in Seq(Known) : p = <<"text">> /\ q = <<"text", "input_file">> /\ p # <<>> /\ q # <<>>
  <2>1. <<"text">> \in Seq(Known) /\ <<"text", "input_file">> \in Seq(Known)
    BY DEF Known
  <2>2. QED
    BY <2>1
<1>3. \/ m = Said("user", "string", p) \/ m = Said("assistant", "parts", q)
      \/ m = Called("none") \/ m = Called("object")
      \/ m = Returned("plain") \/ m = Returned("json") \/ m = Returned("none")
  <2>1. \/ b = <<Said("user", "string", p)>>
        \/ b = <<Said("assistant", "parts", q), Called("none"), Returned("plain")>>
        \/ b = <<Called("object"), Returned("json"), Called("object"), Returned("none")>>
    BY <1>2 DEF Batches
  <2>2. QED
    BY <1>1, <2>1
<1>4. QED
  BY <1>2, <1>3, Zenon

LEMMA BatchesAreMessages ==
  ASSUME NEW b \in Batches
  PROVE  b \in Seq(Messages)
<1>1. \A i \in 1 .. Len(b) : b[i] \in Messages
  BY DEF Messages
<1>2. CASE \E x : b = <<x>>
  <2>1. PICK x : b = <<x>>
    BY <1>2
  <2>2. Len(b) = 1 /\ b[1] = x
    BY <2>1
  <2>3. x \in Messages
    BY <1>1, <2>2
  <2>4. QED
    BY <2>1, <2>3
<1>3. CASE \E x, y, z : b = <<x, y, z>>
  <2>1. PICK x, y, z : b = <<x, y, z>>
    BY <1>3
  <2>2. Len(b) = 3 /\ b[1] = x /\ b[2] = y /\ b[3] = z
    BY <2>1
  <2>3. x \in Messages /\ y \in Messages /\ z \in Messages
    BY <1>1, <2>2
  <2>4. QED
    BY <2>1, <2>3
<1>4. CASE \E x, y, z, w : b = <<x, y, z, w>>
  <2>1. PICK x, y, z, w : b = <<x, y, z, w>>
    BY <1>4
  <2>2. Len(b) = 4 /\ b[1] = x /\ b[2] = y /\ b[3] = z /\ b[4] = w
    BY <2>1
  <2>3. x \in Messages /\ y \in Messages /\ z \in Messages /\ w \in Messages
    BY <1>1, <2>2
  <2>4. QED
    BY <2>1, <2>3
<1>5. PICK h, i, j, k, l, m, n, o :
        /\ h = Said("user", "string", <<"text">>) /\ i = Said("assistant", "parts", <<"text", "input_file">>)
        /\ j = Called("none") /\ k = Returned("plain") /\ l = Called("object") /\ m = Returned("json")
        /\ n = Called("object") /\ o = Returned("none")
  OBVIOUS
<1>6. b = <<h>> \/ b = <<i, j, k>> \/ b = <<l, m, n, o>>
  BY <1>5 DEF Batches
<1>7. QED
  BY <1>2, <1>3, <1>4, <1>6, Zenon

\* A row that is written for one can be read again, and is taken.
LEMMA RowsComeBack ==
  ASSUME NEW m \in Messages
  PROVE  /\ InsertRow(m) \in StoredRows /\ Accepts(InsertRow(m)) /\ SanitizeRow(InsertRow(m)) = Meaning(m)
         /\ Meaning(m).role # "none"
         /\ Meaning(m).role \notin {"tool_call", "tool_call_output"} => Meaning(m).parts # <<>>
<1>1. InsertRow(m) \in StoredRows
  BY DEF StoredRows
<1>2. CASE \E role \in {"user", "assistant"}, shape \in {"string", "parts"}, parts \in Seq(Known) :
             parts # <<>> /\ m = Said(role, shape, parts)
  <2>1. PICK role \in {"user", "assistant"}, shape \in {"string", "parts"}, parts \in Seq(Known) :
               parts # <<>> /\ m = Said(role, shape, parts)
    BY <1>2
  <2>2. InsertRow(m) = [role |-> role, content |-> "array", parts |-> parts]
    BY <2>1 DEF InsertRow, Said
  <2>3. Only(parts, Known) = parts
    BY OnlyAll
  <2>4. SanitizeRow(InsertRow(m)) = [role |-> role, parts |-> parts, notice |-> FALSE]
    BY <2>1, <2>2, <2>3 DEF SanitizeRow
  <2>5. Meaning(m) = [role |-> role, parts |-> parts, notice |-> FALSE]
    BY <2>1 DEF Meaning, Said
  <2>6. QED
    BY <1>1, <2>1, <2>2, <2>4, <2>5 DEF Accepts
<1>3. CASE \E args \in {"none", "object"} : m = Called(args)
  <2>1. PICK args \in {"none", "object"} : m = Called(args)
    BY <1>3
  <2>2. InsertRow(m) = [role |-> "tool_call", args |-> IF args = "none" THEN "null" ELSE "object"]
    BY <2>1 DEF InsertRow, Called
  <2>3. SanitizeRow(InsertRow(m)) = [role |-> "tool_call", args |-> args]
    BY <2>1, <2>2 DEF SanitizeRow
  <2>4. Meaning(m) = [role |-> "tool_call", args |-> args]
    BY <2>1 DEF Meaning, Called
  <2>5. QED
    BY <1>1, <2>2, <2>3, <2>4 DEF Accepts
<1>4. CASE \E output \in {"none", "plain", "json"} : m = Returned(output)
  <2>1. PICK output \in {"none", "plain", "json"} : m = Returned(output)
    BY <1>4
  <2>2. PICK stored \in {"null", "value", "string"} :
          /\ InsertRow(m) = [role |-> "tool_call_output", output |-> stored]
          /\ stored = IF output = "none" THEN "null" ELSE IF output = "json" THEN "value" ELSE "string"
    BY <2>1 DEF InsertRow, Returned, ToJsonb
  <2>3. SanitizeRow(InsertRow(m)) = [role |-> "tool_call_output", output |-> IF stored = "null" THEN "none" ELSE stored]
    BY <2>2 DEF SanitizeRow
  <2>4. Meaning(m) = [role |-> "tool_call_output", output |-> IF output = "json" THEN "value" ELSE IF output = "plain" THEN "string" ELSE output]
    BY <2>1 DEF Meaning, Returned
  <2>5. QED
    BY <1>1, <2>1, <2>2, <2>3, <2>4 DEF Accepts
<1>5. QED
  BY <1>2, <1>3, <1>4, MessageKinds, Zenon

\* Whatever a row holds, there is something to send of it.
LEMMA RowsCanBeSent ==
  ASSUME NEW r \in StoredRows
  PROVE  /\ SanitizeRow(r).role # "none"
         /\ SanitizeRow(r).role \notin {"tool_call", "tool_call_output"} => SanitizeRow(r).parts # <<>>
<1>1. CASE r \in OldRowTypes
  <2>1. PICK readable : readable = Only(r.parts, Known)
    OBVIOUS
  <2>2. <<"text">> # <<>>
    OBVIOUS
  <2>3. CASE r.role = "none"
    BY <2>2, <2>3 DEF SanitizeRow, Notice
  <2>4. CASE r.role \in {"user", "assistant"}
    <3>1. SanitizeRow(r) = IF r.content # "array" \/ readable = <<>> THEN Notice(r.role)
                           ELSE [role |-> r.role, parts |-> readable, notice |-> FALSE]
      BY <2>1, <2>4 DEF SanitizeRow
    <3>2. QED
      BY <2>2, <2>4, <3>1 DEF Notice
  <2>5. QED
    BY <1>1, <2>3, <2>4 DEF OldRowTypes
<1>2. CASE \E m \in Messages : r = InsertRow(m)
  BY <1>2, RowsComeBack
<1>3. QED
  BY <1>1, <1>2 DEF StoredRows

-----------------------------------------------------------------------------
(***************************************************************************)
(* The invariant: a chat's rows are those earlier versions left in it and, *)
(* after them, the rows of what was stored, in order; and what the pages   *)
(* still have to show.                                                     *)
(***************************************************************************)
StoredInv ==
    \A c \in ChatIds :
        /\ c \notin Present => kept[c] = <<>>
        /\ c \in Present =>
             /\ Len(chat[c].rows) = chat[c].old + Len(kept[c])
             /\ \A i \in 1 .. Len(kept[c]), j \in Nat :
                   j = chat[c].old + i => chat[c].rows[j] = InsertRow(kept[c][i])

ChatsInv == ConversationsTypeOK /\ PagesInv /\ StoredInv

\* A chat that loads as its rows say loads as it was said.
LEMMA LoadedByInv ==
  ASSUME ConversationsTypeOK, StoredInv
  PROVE  ChatsLoadAsSaid
<1> SUFFICES ASSUME NEW c \in Present
    PROVE  LET loaded == GetSessionMessages(c) IN
           /\ SubSeq(loaded, chat[c].old + 1, Len(loaded)) = [i \in 1 .. Len(kept[c]) |-> Meaning(kept[c][i])]
           /\ \A i \in 1 .. Len(loaded) :
                 /\ loaded[i].role # "none"
                 /\ loaded[i].role \notin {"tool_call", "tool_call_output"} => loaded[i].parts # <<>>
  BY DEF ChatsLoadAsSaid
<1> DEFINE Read == {SanitizeRow(r) : r \in StoredRows}
<1>1. PICK held \in Seq(StoredRows), said \in Seq(Messages), old \in Nat :
        /\ held = chat[c].rows /\ said = kept[c] /\ old = chat[c].old
        /\ Len(held) = old + Len(said)
        /\ \A i \in 1 .. Len(said), j \in Nat : j = old + i => held[j] = InsertRow(said[i])
  <2>1. c \in ChatIds
    BY DEF Present
  <2>2. PICK held \in Seq(StoredRows), said \in Seq(Messages), old \in Nat :
          held = chat[c].rows /\ said = kept[c] /\ old = chat[c].old
    BY <2>1 DEF ConversationsTypeOK, ChatRows
  <2>3. /\ Len(held) = old + Len(said)
        /\ \A i \in 1 .. Len(said), j \in Nat : j = old + i => held[j] = InsertRow(said[i])
    BY <2>1, <2>2 DEF StoredInv
  <2>4. QED
    BY <2>2, <2>3
<1>2. PICK n \in Nat, m \in Nat : n = Len(held) /\ m = Len(said) /\ n = old + m
  <2>1. Len(held) \in Nat /\ Len(said) \in Nat
    BY Zenon, JoinedPlaces
  <2>2. QED
    BY <1>1, <2>1
<1>3. PICK loaded : loaded = [i \in 1 .. n |-> SanitizeRow(held[i])]
  OBVIOUS
<1>4. loaded \in Seq(Read) /\ Len(loaded) = n /\ \A i \in 1 .. n : loaded[i] = SanitizeRow(held[i]) /\ held[i] \in StoredRows
  <2>1. \A i \in 1 .. n : held[i] \in StoredRows
    <3>1. held \in Seq(StoredRows) /\ n = Len(held)
      BY <1>2
    <3>2. \A i \in 1 .. Len(held) : held[i] \in StoredRows
      BY ONLY <3>1
    <3>3. QED
      BY <1>2, <3>2
  <2>2. \A i \in 1 .. n : SanitizeRow(held[i]) \in Read
    BY <2>1
  <2> HIDE DEF Read
  <2>3. loaded \in Seq(Read) /\ Len(loaded) = n
    BY <1>3, <2>2
  <2>4. \A i \in 1 .. n : loaded[i] = SanitizeRow(held[i])
    BY <1>3
  <2>5. QED
    BY <2>1, <2>3, <2>4
<1>5. PICK last : last = SubSeq(loaded, old + 1, n)
  OBVIOUS
<1> HIDE DEF Read
<1>6. last \in Seq(Read) /\ Len(last) = m /\ \A i \in 1 .. m : last[i] = loaded[old + i]
  BY <1>2, <1>4, <1>5
<1>7. \A i \in 1 .. m : last[i] = Meaning(said[i])
  <2> SUFFICES ASSUME NEW i \in 1 .. m PROVE last[i] = Meaning(said[i])
    OBVIOUS
  <2>1. old + i \in 1 .. n /\ old + i \in Nat
    BY <1>2
  <2>2. said[i] \in Messages
    BY <1>2
  <2>3. last[i] = SanitizeRow(InsertRow(said[i]))
    BY <1>1, <1>2, <1>4, <1>6, <2>1
  <2>4. QED
    BY <2>2, <2>3, RowsComeBack
<1>8. last = [i \in 1 .. m |-> Meaning(said[i])]
  BY <1>6, <1>7
<1>9. GetSessionMessages(c) = loaded
  BY <1>1, <1>2, <1>3 DEF GetSessionMessages
<1>10. \A i \in 1 .. n : /\ loaded[i].role # "none"
                         /\ loaded[i].role \notin {"tool_call", "tool_call_output"} => loaded[i].parts # <<>>
  BY <1>4, RowsCanBeSent
<1>11. QED
  BY <1>1, <1>2, <1>4, <1>5, <1>8, <1>9, <1>10

\* Steps that leave what is stored alone.
LEMMA QuietStepKeepsRows ==
  ASSUME StoredInv, UNCHANGED kept,
         \A c \in ChatIds : chat'[c].is = chat[c].is /\ chat'[c].rows = chat[c].rows /\ chat'[c].old = chat[c].old
  PROVE  StoredInv'
<1>1. Present' = Present
  BY DEF Present
<1>2. QED
  BY <1>1 DEF StoredInv

\* What a chat that is written does to the browsers that scroll.
LEMMA DisturbedScrolls ==
  ASSUME ConversationsTypeOK, NEW c \in ChatIds, Disturb(c)
  PROVE  pager' \in Scrolls /\ scroll' \in Scrolls
<1>1. pager \in Scrolls /\ scroll \in Scrolls
  BY DEF ConversationsTypeOK
<1>2. pager' \in Scrolls
  <2>1. PICK q \in SUBSET ChatIds : q = pager.quiet \ {c}
    BY <1>1 DEF Scrolls
  <2>2. pager' = pager \/ pager' = [pager EXCEPT !.quiet = q]
    BY <2>1 DEF Disturb
  <2>3. QED
    BY <1>1, <2>2 DEF Scrolls
<1>3. scroll' \in Scrolls
  <2>1. scroll' = scroll \/ scroll' = [scroll EXCEPT !.quiet = {}]
    BY DEF Disturb
  <2>2. QED
    BY <1>1, <2>1 DEF Scrolls
<1>4. QED
  BY <1>2, <1>3

\* A chat's row is written; the others stay as they were.
LEMMA OneRowWritten ==
  ASSUME ConversationsTypeOK, NEW c \in ChatIds, NEW row \in ChatRows, chat' = [chat EXCEPT ![c] = row]
  PROVE  /\ chat' \in [ChatIds -> ChatRows] /\ chat'[c] = row
         /\ \A d \in ChatIds : d # c => chat'[d] = chat[d]
BY DEF ConversationsTypeOK

LEMMA InitChats == ConversationsInit => ChatsInv
<1> SUFFICES ASSUME ConversationsInit PROVE ChatsInv
  OBVIOUS
<1>1. PICK none \in Seq(StoredRows), said \in Seq(Messages), left \in Seq(StoredRows) :
         none = <<>> /\ said = <<>> /\ left = OldRows /\ Len(none) = 0 /\ Len(said) = 0
  <2>1. OldRows \in Seq(StoredRows)
    BY ConversationsAssumption DEF StoredRows
  <2>2. <<>> \in Seq(StoredRows) /\ <<>> \in Seq(Messages) /\ Len(<<>>) = 0
    OBVIOUS
  <2>3. QED
    BY <2>1, <2>2
<1>2. PICK n \in Nat : n = Len(left)
  OBVIOUS
<1>3. PICK old \in OldChats, named \in {{}, OldChats} :
        chat = [c \in ChatIds |-> IF c \in OldChats
                                  THEN [is |-> "there", at |-> 0, pinned |-> FALSE, titled |-> c \in named,
                                        rows |-> IF c = old THEN left ELSE none,
                                        old |-> IF c = old THEN n ELSE 0]
                                  ELSE NoChat]
  BY <1>1, <1>2 DEF ConversationsInit
<1>4. NoChat \in ChatRows /\ NoChat.is = "unused"
  BY <1>1 DEF NoChat, ChatRows
<1>5. chat \in [ChatIds -> ChatRows]
  <2>1. ASSUME NEW c \in ChatIds PROVE (c \in named) \in BOOLEAN
    OBVIOUS
  <2>2. ASSUME NEW c \in ChatIds, NEW b \in BOOLEAN
        PROVE  [is |-> "there", at |-> 0, pinned |-> FALSE, titled |-> b,
                rows |-> IF c = old THEN left ELSE none, old |-> IF c = old THEN n ELSE 0] \in ChatRows
    BY DEF ChatRows
  <2>3. QED
    BY <1>3, <1>4, <2>1, <2>2
<1>6. NoScroll \in Scrolls /\ ~ NoScroll.open
  BY FirstPageIs DEF NoScroll, Scrolls
<1>7. ConversationsTypeOK
  <2>1. kept \in [ChatIds -> Seq(Messages)]
    BY <1>1 DEF ConversationsInit
  <2>2. QED
    BY <1>5, <1>6, <2>1 DEF ConversationsInit, ConversationsTypeOK
<1>8. PagesInv
  BY <1>6 DEF ConversationsInit, PagesInv
<1>9. StoredInv
  <2> SUFFICES ASSUME NEW c \in ChatIds
      PROVE  kept[c] = said /\ (c \in Present => Len(chat[c].rows) = chat[c].old)
    BY <1>1, <1>5 DEF StoredInv, ChatRows
  <2>1. kept[c] = said
    BY <1>1 DEF ConversationsInit
  <2>2. ASSUME c \in Present PROVE Len(chat[c].rows) = chat[c].old
    <3>1. c \in OldChats
      BY <1>3, <1>4, <2>2 DEF Present
    <3>2. chat[c].rows = (IF c = old THEN left ELSE none) /\ chat[c].old = IF c = old THEN n ELSE 0
      BY <1>3, <3>1
    <3>3. QED
      BY <1>1, <1>2, <3>2
  <2>3. QED
    BY <2>1, <2>2
<1>10. QED
  BY <1>7, <1>8, <1>9 DEF ChatsInv

-----------------------------------------------------------------------------
\* The steps.
LEMMA NewSessionKeepsChats == ASSUME ChatsInv, NEW c \in ChatIds, NewSession(c) PROVE ChatsInv'
<1>1. PICK row \in ChatRows : /\ row = [NoChat EXCEPT !.is = "there", !.at = instant]
                              /\ row.rows = <<>> /\ row.old = 0 /\ Len(row.rows) = 0 /\ row.is = "there"
  <2>1. instant \in Nat /\ <<>> \in Seq(StoredRows) /\ Len(<<>>) = 0
    BY DEF ChatsInv, ConversationsTypeOK
  <2>2. PICK none \in Seq(StoredRows), time \in Nat : none = <<>> /\ Len(none) = 0 /\ time = instant
    BY <2>1
  <2>3. NoChat \in ChatRows /\ NoChat.rows = none /\ NoChat.old = 0
    BY <2>2 DEF NoChat, ChatRows
  <2>4. PICK base \in ChatRows : base = NoChat
    BY <2>3
  <2>5. PICK row \in ChatRows : /\ row = [base EXCEPT !.is = "there", !.at = time]
                                /\ row.rows = none /\ row.old = 0 /\ row.is = "there"
    <3>1. PICK row : row = [base EXCEPT !.is = "there", !.at = time]
      OBVIOUS
    <3>2. row \in ChatRows /\ row.rows = none /\ row.old = 0 /\ row.is = "there"
      BY <2>3, <2>4, <3>1 DEF ChatRows
    <3>3. QED
      BY <3>1, <3>2
  <2>6. QED
    BY <2>2, <2>4, <2>5
<1>2. chat' = [chat EXCEPT ![c] = row] /\ chat[c].is = "unused" /\ Disturb(c)
  BY <1>1 DEF NewSession, NoChat
<1>3. chat' \in [ChatIds -> ChatRows] /\ chat'[c] = row /\ \A d \in ChatIds : d # c => chat'[d] = chat[d]
  BY <1>2, OneRowWritten DEF ChatsInv
<1>4. ConversationsTypeOK'
  <2>1. pager' \in Scrolls /\ scroll' \in Scrolls
    BY <1>2, DisturbedScrolls DEF ChatsInv
  <2>2. QED
    BY <1>3, <2>1 DEF ChatsInv, ConversationsTypeOK, NewSession
<1>5. PagesInv'
  BY <1>2, <1>3, DisturbedChatKeepsPages DEF ChatsInv
<1>6. StoredInv'
  <2>1. kept' = kept /\ kept[c] = <<>> /\ Len(kept[c]) = 0
    BY <1>2 DEF ChatsInv, StoredInv, NewSession, Present
  <2> SUFFICES ASSUME NEW d \in ChatIds
      PROVE  /\ d \notin Present' => kept[d] = <<>>
             /\ d \in Present' =>
                  /\ Len(chat'[d].rows) = chat'[d].old + Len(kept[d])
                  /\ \A i \in 1 .. Len(kept[d]), j \in Nat : j = chat'[d].old + i => chat'[d].rows[j] = InsertRow(kept[d][i])
    BY <2>1 DEF StoredInv
  <2>2. CASE d = c
    <3>1. d \in Present'
      BY <1>1, <1>3, <2>2 DEF Present
    <3>2. Len(chat'[d].rows) = 0 /\ chat'[d].old = 0 /\ Len(kept[d]) = 0
      BY <1>1, <1>3, <2>1, <2>2
    <3>3. QED
      BY <3>1, <3>2
  <2>3. CASE d # c
    BY <1>3, <2>3 DEF ChatsInv, StoredInv, Present
  <2>4. QED
    BY <2>2, <2>3
<1>7. QED
  BY <1>4, <1>5, <1>6 DEF ChatsInv

LEMMA InsertKeepsChats == ASSUME ChatsInv, NEW t \in storing, InsertMultipleMessages(t) PROVE ChatsInv'
<1>1. PICK c \in ChatIds, b \in Batches, time \in Nat : c = t.chat /\ b = t.batch /\ time = t.at
  BY DEF ChatsInv, ConversationsTypeOK
<1>2. storing' \subseteq storing /\ UNCHANGED <<instant, pinning, writes>>
  BY DEF InsertMultipleMessages
<1>3. CASE c \notin Present
  <2>1. UNCHANGED <<chat, kept, pager, scroll>>
    BY <1>1, <1>3 DEF InsertMultipleMessages
  <2>2. ConversationsTypeOK'
    BY <1>2, <2>1 DEF ChatsInv, ConversationsTypeOK
  <2>3. PagesInv'
    BY <2>1, QuietStepKeepsPages DEF ChatsInv
  <2>4. StoredInv'
    BY <2>1, QuietStepKeepsRows DEF ChatsInv
  <2>5. QED
    BY <2>2, <2>3, <2>4 DEF ChatsInv
<1>4. CASE c \in Present
  <2>1. b \in Seq(Messages) /\ Len(b) \in Nat /\ \A i \in 1 .. Len(b) : b[i] \in Messages
    BY BatchesAreMessages
  <2>2. PICK new : new = [i \in 1 .. Len(b) |-> InsertRow(b[i])]
    OBVIOUS
  <2>3. new \in Seq(StoredRows) /\ Len(new) = Len(b) /\ \A i \in 1 .. Len(b) : new[i] = InsertRow(b[i]) /\ Accepts(new[i])
    <3>1. \A i \in 1 .. Len(b) : InsertRow(b[i]) \in StoredRows /\ Accepts(InsertRow(b[i]))
      BY <2>1, RowsComeBack
    <3>2. \A i \in 1 .. Len(b) : new[i] = InsertRow(b[i])
      BY <2>2
    <3>3. new \in Seq(StoredRows) /\ Len(new) = Len(b)
      BY <2>1, <2>2, <3>1
    <3>4. QED
      BY <3>1, <3>2, <3>3
  <2>4. PICK held \in Seq(StoredRows), said \in Seq(Messages), old \in Nat :
          /\ held = chat[c].rows /\ said = kept[c] /\ old = chat[c].old /\ chat[c] \in ChatRows /\ chat[c].is = "there"
          /\ Len(held) = old + Len(said)
          /\ \A i \in 1 .. Len(said), j \in Nat : j = old + i => held[j] = InsertRow(said[i])
    <3>1. PICK held \in Seq(StoredRows), said \in Seq(Messages), old \in Nat :
            held = chat[c].rows /\ said = kept[c] /\ old = chat[c].old /\ chat[c] \in ChatRows
      BY DEF ChatsInv, ConversationsTypeOK, ChatRows
    <3>2. /\ chat[c].is = "there" /\ Len(held) = old + Len(said)
          /\ \A i \in 1 .. Len(said), j \in Nat : j = old + i => held[j] = InsertRow(said[i])
      BY <1>4, <3>1 DEF ChatsInv, StoredInv, Present
    <3>3. QED
      BY <3>1, <3>2
  <2>5. PICK all \in Seq(StoredRows) :
          /\ all = held \o new /\ Len(all) = Len(held) + Len(b)
          /\ \A i \in 1 .. Len(held) : all[i] = held[i]
          /\ \A i \in 1 .. Len(b), j \in Nat : j = Len(held) + i => all[j] = InsertRow(b[i])
    <3>1. PICK all \in Seq(StoredRows) : all = held \o new
      BY <2>3, JoinedPlaces
    <3>2. /\ Len(all) = Len(held) + Len(new)
          /\ \A i \in 1 .. Len(held) : all[i] = held[i]
          /\ \A i \in 1 .. Len(new), j \in Nat : j = Len(held) + i => all[j] = new[i]
      <4>1. IsJoined(all, held, new)
        BY <2>3, <3>1, JoinedAre, Zenon
      <4>2. QED
        BY <4>1 DEF IsJoined
    <3>3. \A i \in 1 .. Len(b), j \in Nat : j = Len(held) + i => all[j] = InsertRow(b[i])
      BY <2>3, <3>2
    <3>4. QED
      BY <2>3, <3>1, <3>2, <3>3, Zenon
  <2>6. PICK more \in Seq(Messages) :
          /\ more = said \o b /\ Len(more) = Len(said) + Len(b)
          /\ \A i \in 1 .. Len(said) : more[i] = said[i]
          /\ \A i \in 1 .. Len(b), j \in Nat : j = Len(said) + i => more[j] = b[i]
    <3>1. PICK more \in Seq(Messages) : more = said \o b
      BY <2>1, JoinedPlaces
    <3>2. /\ Len(more) = Len(said) + Len(b)
          /\ \A i \in 1 .. Len(said) : more[i] = said[i]
          /\ \A i \in 1 .. Len(b), j \in Nat : j = Len(said) + i => more[j] = b[i]
      <4>1. IsJoined(more, said, b)
        BY <2>1, <3>1, JoinedAre, Zenon
      <4>2. QED
        BY <4>1 DEF IsJoined
    <3>3. QED
      BY <3>1, <3>2, Zenon
  <2>7. /\ chat' = [chat EXCEPT ![c].rows = @ \o new, ![c].at = time]
        /\ kept' = [kept EXCEPT ![c] = @ \o b] /\ Disturb(c)
    BY <1>1, <1>4, <2>2, <2>3 DEF InsertMultipleMessages
  <2>8. PICK row \in ChatRows : /\ chat' = [chat EXCEPT ![c] = row]
                                /\ row.rows = all /\ row.old = old /\ row.is = "there"
    <3>1. PICK before \in ChatRows : before = chat[c]
      BY <2>4
    <3>2. chat' = [chat EXCEPT ![c] = [before EXCEPT !.rows = all, !.at = time]]
      BY <2>4, <2>5, <2>7, <3>1 DEF ChatsInv, ConversationsTypeOK
    <3>3. PICK row : row = [before EXCEPT !.rows = all, !.at = time]
      OBVIOUS
    <3>4. row \in ChatRows /\ row.rows = all /\ row.old = old /\ row.is = "there"
      BY <2>4, <3>1, <3>3 DEF ChatRows
    <3>5. QED
      BY <3>2, <3>3, <3>4
  <2>9. chat' \in [ChatIds -> ChatRows] /\ chat'[c] = row /\ \A d \in ChatIds : d # c => chat'[d] = chat[d]
    BY <2>8, OneRowWritten DEF ChatsInv
  <2>10. kept' \in [ChatIds -> Seq(Messages)] /\ kept'[c] = more /\ \A d \in ChatIds : d # c => kept'[d] = kept[d]
    <3>1. kept' = [kept EXCEPT ![c] = more]
      BY <2>4, <2>6, <2>7 DEF ChatsInv, ConversationsTypeOK
    <3>2. QED
      BY <3>1 DEF ChatsInv, ConversationsTypeOK
  <2>11. ConversationsTypeOK'
    <3>1. pager' \in Scrolls /\ scroll' \in Scrolls
      BY <2>7, DisturbedScrolls DEF ChatsInv
    <3>2. QED
      BY <1>2, <2>9, <2>10, <3>1 DEF ChatsInv, ConversationsTypeOK
  <2>12. PagesInv'
    BY <2>7, <2>9, DisturbedChatKeepsPages DEF ChatsInv
  <2>13. \A i \in 1 .. Len(more), j \in Nat : j = old + i => all[j] = InsertRow(more[i])
    <3> SUFFICES ASSUME NEW i \in 1 .. Len(more), NEW j \in Nat, j = old + i PROVE all[j] = InsertRow(more[i])
      OBVIOUS
    <3>1. PICK n \in Nat, m \in Nat : n = Len(said) /\ m = Len(b) /\ Len(held) = old + n /\ Len(more) = n + m
      BY <2>1, <2>4, <2>6
    <3>2. CASE i <= n
      <4>1. i \in 1 .. Len(said) /\ j \in 1 .. Len(held)
        BY <3>1, <3>2
      <4>2. all[j] = held[j] /\ more[i] = said[i] /\ held[j] = InsertRow(said[i])
        BY <2>4, <2>5, <2>6, <4>1, Zenon
      <4>3. QED
        BY <4>2
    <3>3. CASE ~ i <= n
      <4>1. PICK k \in 1 .. m : i = n + k
        <5>1. i - n \in 1 .. m /\ i = n + (i - n)
          BY <3>1, <3>3
        <5>2. QED
          BY <5>1
      <4>2. j = Len(held) + k /\ i \in Nat
        BY <3>1, <4>1
      <4>3. all[j] = InsertRow(b[k]) /\ more[i] = b[k]
        BY <2>5, <2>6, <3>1, <4>1, <4>2
      <4>4. QED
        BY <4>3
    <3>4. QED
      BY <3>2, <3>3
  <2>14. Len(all) = old + Len(more)
    <3>1. PICK n \in Nat, m \in Nat : n = Len(said) /\ m = Len(b)
      BY <2>1, <2>4
    <3>2. Len(all) = (old + n) + m /\ Len(more) = n + m
      BY <2>4, <2>5, <2>6, <3>1
    <3>3. QED
      BY <3>2
  <2>15. StoredInv'
    <3> SUFFICES ASSUME NEW d \in ChatIds
        PROVE  /\ d \notin Present' => kept'[d] = <<>>
               /\ d \in Present' =>
                    /\ Len(chat'[d].rows) = chat'[d].old + Len(kept'[d])
                    /\ \A i \in 1 .. Len(kept'[d]), j \in Nat : j = chat'[d].old + i => chat'[d].rows[j] = InsertRow(kept'[d][i])
      BY DEF StoredInv
    <3>1. CASE d = c
      <4>1. d \in Present'
        BY <2>8, <2>9, <3>1 DEF Present
      <4>2. QED
        BY <2>8, <2>9, <2>10, <2>13, <2>14, <3>1, <4>1
    <3>2. CASE d # c
      <4>1. chat'[d] = chat[d] /\ kept'[d] = kept[d]
        BY <2>9, <2>10, <3>2
      <4>2. d \in Present' <=> d \in Present
        BY <4>1 DEF Present
      <4>3. PICK its, words : its = chat[d] /\ words = kept[d]
        OBVIOUS
      <4>4. /\ d \notin Present => words = <<>>
            /\ d \in Present =>
                 /\ Len(its.rows) = its.old + Len(words)
                 /\ \A i \in 1 .. Len(words), j \in Nat : j = its.old + i => its.rows[j] = InsertRow(words[i])
        BY <4>3, Zenon DEF ChatsInv, StoredInv
      <4>5. chat'[d] = its /\ kept'[d] = words
        BY <4>1, <4>3
      <4>6. QED
        BY <4>2, <4>4, <4>5
    <3>3. QED
      BY <3>1, <3>2
  <2>16. QED
    BY <2>11, <2>12, <2>15 DEF ChatsInv
<1>5. QED
  BY <1>3, <1>4

LEMMA UpdateTitleKeepsChats == ASSUME ChatsInv, NEW c \in ChatIds, UpdateTitle(c) PROVE ChatsInv'
<1>1. PICK before \in ChatRows, time \in Nat : before = chat[c] /\ time = instant
  BY DEF ChatsInv, ConversationsTypeOK
<1>2. PICK row \in ChatRows : /\ chat' = [chat EXCEPT ![c] = row]
                              /\ row.is = before.is /\ row.rows = before.rows /\ row.old = before.old
  <2>1. PICK flag \in BOOLEAN : flag = ~ before.titled
    OBVIOUS
  <2>2. chat' = [chat EXCEPT ![c] = [before EXCEPT !.titled = flag, !.at = time]]
    BY <1>1, <2>1 DEF UpdateTitle, ChatsInv, ConversationsTypeOK
  <2>3. PICK row : row = [before EXCEPT !.titled = flag, !.at = time]
    OBVIOUS
  <2>4. row \in ChatRows /\ row.is = before.is /\ row.rows = before.rows /\ row.old = before.old
    BY <2>3 DEF ChatRows
  <2>5. QED
    BY <2>2, <2>3, <2>4
<1>3. chat' \in [ChatIds -> ChatRows] /\ chat'[c] = row /\ \A d \in ChatIds : d # c => chat'[d] = chat[d]
  BY <1>2, OneRowWritten DEF ChatsInv
<1>4. Disturb(c) /\ UNCHANGED <<instant, storing, pinning, kept>> /\ writes' = writes + 1
  BY DEF UpdateTitle, Counted
<1>5. ConversationsTypeOK'
  <2>1. pager' \in Scrolls /\ scroll' \in Scrolls
    BY <1>4, DisturbedScrolls DEF ChatsInv
  <2>2. QED
    BY <1>3, <1>4, <2>1 DEF ChatsInv, ConversationsTypeOK
<1>6. PagesInv'
  BY <1>3, <1>4, DisturbedChatKeepsPages DEF ChatsInv
<1>7. StoredInv'
  <2>1. \A d \in ChatIds : chat'[d].is = chat[d].is /\ chat'[d].rows = chat[d].rows /\ chat'[d].old = chat[d].old
    BY <1>1, <1>2, <1>3
  <2>2. QED
    BY <1>4, <2>1, QuietStepKeepsRows DEF ChatsInv
<1>8. QED
  BY <1>5, <1>6, <1>7 DEF ChatsInv

LEMMA DeleteSessionKeepsChats == ASSUME ChatsInv, NEW c \in ChatIds, DeleteSession(c) PROVE ChatsInv'
<1>1. PICK row \in ChatRows, said \in Seq(Messages) : row = Gone /\ row.is = "gone" /\ said = <<>> /\ Len(said) = 0
  <2>1. <<>> \in Seq(StoredRows) /\ <<>> \in Seq(Messages) /\ Len(<<>>) = 0
    OBVIOUS
  <2>2. NoChat \in ChatRows
    BY <2>1 DEF NoChat, ChatRows
  <2>3. PICK base \in ChatRows : base = NoChat
    BY <2>2
  <2>4. PICK row : row = [base EXCEPT !.is = "gone"]
    OBVIOUS
  <2>5. row \in ChatRows /\ row.is = "gone"
    BY <2>4 DEF ChatRows
  <2>6. row = Gone
    BY <2>3, <2>4 DEF Gone
  <2>7. QED
    BY <2>1, <2>5, <2>6
<1>2. chat' = [chat EXCEPT ![c] = row] /\ kept' = [kept EXCEPT ![c] = said] /\ Disturb(c)
  BY <1>1 DEF DeleteSession
<1>3. chat' \in [ChatIds -> ChatRows] /\ chat'[c] = row /\ \A d \in ChatIds : d # c => chat'[d] = chat[d]
  BY <1>2, OneRowWritten DEF ChatsInv
<1>4. kept' \in [ChatIds -> Seq(Messages)] /\ kept'[c] = said /\ \A d \in ChatIds : d # c => kept'[d] = kept[d]
  BY <1>2 DEF ChatsInv, ConversationsTypeOK
<1>5. ConversationsTypeOK'
  <2>1. pager' \in Scrolls /\ scroll' \in Scrolls
    BY <1>2, DisturbedScrolls DEF ChatsInv
  <2>2. QED
    BY <1>3, <1>4, <2>1 DEF ChatsInv, ConversationsTypeOK, DeleteSession
<1>6. PagesInv'
  BY <1>2, <1>3, DisturbedChatKeepsPages DEF ChatsInv
<1>7. StoredInv'
  <2> SUFFICES ASSUME NEW d \in ChatIds
      PROVE  /\ d \notin Present' => kept'[d] = <<>>
             /\ d \in Present' =>
                  /\ Len(chat'[d].rows) = chat'[d].old + Len(kept'[d])
                  /\ \A i \in 1 .. Len(kept'[d]), j \in Nat : j = chat'[d].old + i => chat'[d].rows[j] = InsertRow(kept'[d][i])
    BY DEF StoredInv
  <2>1. CASE d = c
    BY <1>1, <1>3, <1>4, <2>1 DEF Present
  <2>2. CASE d # c
    BY <1>3, <1>4, <2>2 DEF ChatsInv, StoredInv, Present
  <2>3. QED
    BY <2>1, <2>2
<1>8. QED
  BY <1>5, <1>6, <1>7 DEF ChatsInv

LEMMA SetPinnedKeepsChats == ASSUME ChatsInv, NEW c \in ChatIds, NEW pinned \in BOOLEAN, SetPinned(c, pinned) PROVE ChatsInv'
<1>1. PICK before \in ChatRows : before = chat[c]
  BY DEF ChatsInv, ConversationsTypeOK
<1>2. PICK row \in ChatRows : /\ chat' = [chat EXCEPT ![c] = row] /\ row.at = before.at
                              /\ row.is = before.is /\ row.rows = before.rows /\ row.old = before.old
  <2>1. CASE c \in Present
    <3>1. chat' = [chat EXCEPT ![c] = [before EXCEPT !.pinned = pinned]]
      BY <1>1, <2>1 DEF SetPinned, ChatsInv, ConversationsTypeOK
    <3>2. PICK row : row = [before EXCEPT !.pinned = pinned]
      OBVIOUS
    <3>3. row \in ChatRows /\ row.at = before.at /\ row.is = before.is /\ row.rows = before.rows /\ row.old = before.old
      BY <3>2 DEF ChatRows
    <3>4. QED
      BY <3>1, <3>2, <3>3
  <2>2. CASE c \notin Present
    <3>1. chat' = [chat EXCEPT ![c] = before]
      BY <1>1, <2>2 DEF SetPinned, ChatsInv, ConversationsTypeOK
    <3>2. QED
      BY <3>1
  <2>3. QED
    BY <2>1, <2>2
<1>3. chat' \in [ChatIds -> ChatRows] /\ chat'[c] = row /\ \A d \in ChatIds : d # c => chat'[d] = chat[d]
  BY <1>2, OneRowWritten DEF ChatsInv
<1>4. UNCHANGED <<instant, storing, pager, scroll, kept>> /\ writes' \in Nat /\ pinning' \subseteq ChatIds
  BY DEF SetPinned, Counted, ChatsInv, ConversationsTypeOK
<1>5. ConversationsTypeOK'
  BY <1>3, <1>4 DEF ChatsInv, ConversationsTypeOK
<1>6. \A d \in ChatIds : /\ chat'[d].is = chat[d].is /\ chat'[d].at = chat[d].at
                         /\ chat'[d].rows = chat[d].rows /\ chat'[d].old = chat[d].old
  BY <1>1, <1>2, <1>3
<1>7. PagesInv'
  BY <1>4, <1>6, QuietStepKeepsPages DEF ChatsInv
<1>8. StoredInv'
  BY <1>4, <1>6, QuietStepKeepsRows DEF ChatsInv
<1>9. QED
  BY <1>5, <1>7, <1>8 DEF ChatsInv

\* Steps that write no chat.
LEMMA UnwrittenChatsStay ==
  ASSUME ChatsInv, UNCHANGED <<chat, kept>>, ConversationsTypeOK',
         PagesInv' \/ UNCHANGED pager
  PROVE  ChatsInv'
<1>1. StoredInv'
  BY QuietStepKeepsRows DEF ChatsInv
<1>2. PagesInv'
  BY QuietStepKeepsPages DEF ChatsInv
<1>3. QED
  BY <1>1, <1>2 DEF ChatsInv

LEMMA ReadResultsKeepsTypes == ASSUME ConversationsTypeOK, ReadResults PROVE scroll' \in Scrolls
<1>1. PICK from \in Scrolls : from = IF scroll.open THEN scroll ELSE FirstPage
  BY FirstPageIs DEF ConversationsTypeOK
<1>2. PICK offset \in Nat : offset = IF from.offset < MaxOffset THEN from.offset ELSE MaxOffset
  BY ConversationsAssumption DEF Scrolls
<1>3. PICK answer : answer = SearchChats(offset)
  OBVIOUS
<1>4. PICK results \in SUBSET ChatIds : results = answer.results
  BY <1>3 DEF SearchChats, Titles, Present
<1>5. PICK end \in BOOLEAN : end = ~ answer.hasMore
  OBVIOUS
<1>6. PICK found \in Nat : found = Cardinality(results)
  <2>1. IsFiniteSet(results)
    BY FS_Subset, ConversationsAssumption
  <2>2. QED
    BY <2>1, FS_CardinalityType
<1>7. PICK s \in Scrolls : s = Show(from, results)
  BY ShownOnce
<1>8. PICK next \in Nat : next = offset + found
  OBVIOUS
<1>9. scroll' = [s EXCEPT !.offset = next, !.done = end]
  BY <1>1, <1>2, <1>3, <1>4, <1>5, <1>6, <1>7, <1>8 DEF ReadResults
<1>10. QED
  BY <1>9 DEF Scrolls

LEMMA ChatsNext == ChatsInv /\ [ConversationsNext]_conversationVars => ChatsInv'
<1> SUFFICES ASSUME ChatsInv, [ConversationsNext]_conversationVars PROVE ChatsInv'
  OBVIOUS
<1>1. CASE ClockTick
  BY <1>1, UnwrittenChatsStay DEF ClockTick, ChatsInv, ConversationsTypeOK
<1>2. ASSUME NEW c \in ChatIds, NewSession(c) PROVE ChatsInv'
  BY <1>2, NewSessionKeepsChats
<1>3. ASSUME NEW c \in ChatIds, NEW b \in Batches, BeginStoring(c, b) PROVE ChatsInv'
  BY <1>3, UnwrittenChatsStay DEF BeginStoring, Counted, ChatsInv, ConversationsTypeOK
<1>4. ASSUME NEW c \in ChatIds, UpdateTitle(c) PROVE ChatsInv'
  BY <1>4, UpdateTitleKeepsChats
<1>5. ASSUME NEW c \in ChatIds, DeleteSession(c) PROVE ChatsInv'
  BY <1>5, DeleteSessionKeepsChats
<1>6. ASSUME NEW c \in ChatIds, CountPinned(c) PROVE ChatsInv'
  BY <1>6, UnwrittenChatsStay DEF CountPinned, Counted, ChatsInv, ConversationsTypeOK
<1>7. ASSUME NEW c \in ChatIds, NEW pinned \in BOOLEAN, SetPinned(c, pinned) PROVE ChatsInv'
  BY <1>7, SetPinnedKeepsChats
<1>8. ASSUME NEW t \in storing, InsertMultipleMessages(t) PROVE ChatsInv'
  BY <1>8, InsertKeepsChats
<1>9. CASE ReadPage
  <2>1. PagesInv' /\ pager' \in Scrolls
    BY <1>9, ReadPageKeepsPages DEF ChatsInv
  <2>2. ConversationsTypeOK'
    BY <1>9, <2>1 DEF ReadPage, ChatsInv, ConversationsTypeOK
  <2>3. QED
    BY <1>9, <2>1, <2>2, UnwrittenChatsStay DEF ReadPage
<1>10. CASE ReadResults
  <2>1. scroll' \in Scrolls
    BY <1>10, ReadResultsKeepsTypes DEF ChatsInv
  <2>2. ConversationsTypeOK'
    BY <1>10, <2>1 DEF ReadResults, ChatsInv, ConversationsTypeOK
  <2>3. QED
    BY <1>10, <2>2, UnwrittenChatsStay DEF ReadResults
<1>11. CASE UNCHANGED conversationVars
  <2>1. ConversationsTypeOK'
    BY <1>11 DEF conversationVars, ChatsInv, ConversationsTypeOK
  <2>2. QED
    BY <1>11, <2>1, UnwrittenChatsStay DEF conversationVars
<1>12. QED
  BY <1>1, <1>2, <1>3, <1>4, <1>5, <1>6, <1>7, <1>8, <1>9, <1>10, <1>11 DEF ConversationsNext

\* Chats, their rows and the two lists being scrolled are as the invariant says.
THEOREM ChatsInvariant == ConversationsSpec => []ChatsInv
BY InitChats, ChatsNext, PTL DEF ConversationsSpec

\* Scrolled to its end, the list has shown every chat that nobody wrote
\* meanwhile, once (GetUserSessionsPage and its cursor).
THEOREM PagesShowEveryChat == ConversationsSpec => []PagesAreComplete
<1>1. ChatsInv => PagesAreComplete
  BY PagesByInv DEF ChatsInv
<1>2. QED
  BY <1>1, ChatsInvariant, PTL

\* What was stored in a chat is loaded as it was said, in order and whole.
THEOREM ChatsLoadTheirMessages == ConversationsSpec => []ChatsLoadAsSaid
<1>1. ChatsInv => ChatsLoadAsSaid
  BY LoadedByInv DEF ChatsInv
<1>2. QED
  BY <1>1, ChatsInvariant, PTL

-----------------------------------------------------------------------------
(***************************************************************************)
(* ModelLoops: what is sent, what is stored and what is run.  Claude's     *)
(* request holds whole pairs: while tools run, it holds the answer's calls *)
(* already and not yet their results, and the store holds neither.  The    *)
(* turn's calls are numbered past everything stored, so a half pair of an  *)
(* earlier turn never finds its other half among them.                     *)
(***************************************************************************)
SentInv ==
    service = "anthropic" =>
      /\ loopAt \in {"head", "stream"} =>
            IdsIn("tool_call", inputMessages) = IdsIn("tool_call_output", inputMessages)
      /\ loopAt \in {"tools", "save"} =>
            IdsIn("tool_call", inputMessages)
               = IdsIn("tool_call_output", inputMessages) \union {calls[k].id : k \in DOMAIN calls}

ReplayInv ==
    loopFaults = 0 =>
      /\ loopAt \in {"head", "stream"} => inputMessages = FromInput(messages)
      /\ loopAt \in {"tools", "save"} =>
            inputMessages = IF service = "openai" THEN messages ELSE FromInput(messages) \o CallsOf(calls)

CallsInv ==
    /\ toolsRan \subseteq 1 .. asked
    /\ \A k \in DOMAIN calls : calls[k].id \in 1 .. asked
    /\ \A j, k \in DOMAIN calls : j < k => calls[j].id < calls[k].id
    /\ loopAt # "save" => \A k \in DOMAIN calls : calls[k].id \notin toolsRan
    /\ loopAt \in {"tools", "save"} => calls # <<>> /\ \A k \in DOMAIN calls : calls[k].args \in {"whole", "missing"}
    /\ \A k \in DOMAIN calls : calls[k].id \in toolsRan => calls[k].args = "whole"
    /\ service = "openai" => \A k \in DOMAIN calls : calls[k].args # "cut"
    /\ \A i \in DOMAIN messages : messages[i].id <= asked /\ \A k \in DOMAIN calls : messages[i].id < calls[k].id

LoopInv == LoopTypeOK /\ SentInv /\ ReplayInv /\ CallsInv

\* The calls a sequence speaks of.
LEMMA IdsJoined ==
  ASSUME NEW s \in Seq(LoopMessages), NEW t \in Seq(LoopMessages), NEW role
  PROVE  IdsIn(role, s \o t) = IdsIn(role, s) \union IdsIn(role, t)
<1> DEFINE n == Len(s)
           m == Len(t)
<1>1. PICK u \in Seq(LoopMessages) : u = s \o t
  BY JoinedPlaces
<1>2. /\ n \in Nat /\ m \in Nat /\ Len(u) = n + m
      /\ \A i \in 1 .. n : u[i] = s[i]
      /\ \A i \in 1 .. m, j \in Nat : j = n + i => u[j] = t[i]
  <2>1. IsJoined(u, s, t)
    BY <1>1, JoinedAre, Zenon
  <2>2. QED
    BY <2>1 DEF IsJoined
<1>3. DOMAIN u = 1 .. n + m /\ DOMAIN s = 1 .. n /\ DOMAIN t = 1 .. m
  BY <1>2
<1> HIDE DEF n, m
<1>4. ASSUME NEW i \in 1 .. n + m, u[i].role = role PROVE u[i].id \in IdsIn(role, s) \union IdsIn(role, t)
  <2>1. CASE i <= n
    BY <1>2, <1>3, <1>4, <2>1 DEF IdsIn
  <2>2. CASE ~ i <= n
    <3>1. PICK k \in 1 .. m : i = n + k
      <4>1. i - n \in 1 .. m /\ i = n + (i - n)
        BY <1>2, <2>2
      <4>2. QED
        BY <4>1
    <3>2. u[i] = t[k]
      BY <1>2, <3>1
    <3>3. QED
      BY <1>3, <1>4, <3>2 DEF IdsIn
  <2>3. QED
    BY <2>1, <2>2
<1>5. ASSUME NEW i \in 1 .. n, s[i].role = role PROVE s[i].id \in IdsIn(role, u)
  <2>1. i \in 1 .. n + m /\ u[i] = s[i]
    BY <1>2
  <2>2. QED
    BY <1>3, <1>5, <2>1 DEF IdsIn
<1>6. ASSUME NEW i \in 1 .. m, t[i].role = role PROVE t[i].id \in IdsIn(role, u)
  <2>1. PICK j \in 1 .. n + m : j = n + i
    BY <1>2
  <2>2. u[j] = t[i]
    BY <1>2, <2>1
  <2>3. QED
    BY <1>3, <1>6, <2>2 DEF IdsIn
<1>7. IdsIn(role, u) \subseteq IdsIn(role, s) \union IdsIn(role, t)
  BY <1>3, <1>4 DEF IdsIn
<1>8. IdsIn(role, s) \subseteq IdsIn(role, u) /\ IdsIn(role, t) \subseteq IdsIn(role, u)
  BY <1>3, <1>5, <1>6 DEF IdsIn
<1>9. QED
  BY <1>1, <1>7, <1>8

LEMMA IdsOfText ==
  ASSUME NEW s \in Seq(LoopMessages), NEW e \in LoopMessages, e.role \in {"user", "assistant"}
  PROVE  /\ Append(s, e) = s \o <<e>> /\ Append(s, e) \in Seq(LoopMessages) /\ <<e>> \in Seq(LoopMessages)
         /\ \A role \in {"tool_call", "tool_call_output"} : IdsIn(role, <<e>>) = {} /\ IdsIn(role, Append(s, e)) = IdsIn(role, s)
<1>1. Append(s, e) = s \o <<e>> /\ Append(s, e) \in Seq(LoopMessages)
  OBVIOUS
<1>2. <<e>> \in Seq(LoopMessages) /\ DOMAIN <<e>> = {1} /\ <<e>>[1] = e
  OBVIOUS
<1>3. \A role \in {"tool_call", "tool_call_output"} : IdsIn(role, <<e>>) = {}
  BY <1>2 DEF IdsIn
<1>4. PICK t \in Seq(LoopMessages) : t = <<e>>
  BY <1>2
<1>5. \A role \in {"tool_call", "tool_call_output"} : IdsIn(role, s \o t) = IdsIn(role, s)
  <2>1. \A role \in {"tool_call", "tool_call_output"} : IdsIn(role, t) = {}
    BY <1>3, <1>4
  <2>2. \A role : IdsIn(role, s \o t) = IdsIn(role, s) \union IdsIn(role, t)
    BY IdsJoined, Zenon
  <2>3. QED
    BY <2>1, <2>2
<1>6. QED
  BY <1>1, <1>2, <1>3, <1>4, <1>5

LEMMA IdsOfCalls ==
  ASSUME NEW cs \in Seq(LoopCalls)
  PROVE  /\ CallsOf(cs) \in Seq(LoopMessages) /\ OutputsOf(cs) \in Seq(LoopMessages)
         /\ IdsIn("tool_call", CallsOf(cs)) = {cs[k].id : k \in DOMAIN cs} /\ IdsIn("tool_call_output", CallsOf(cs)) = {}
         /\ IdsIn("tool_call_output", OutputsOf(cs)) = {cs[k].id : k \in DOMAIN cs} /\ IdsIn("tool_call", OutputsOf(cs)) = {}
<1>1. \A k \in DOMAIN cs : cs[k] \in LoopCalls /\ CallOf(cs[k]) \in LoopMessages /\ OutputOf(cs[k]) \in LoopMessages
  <2>1. \A k \in DOMAIN cs : cs[k] \in LoopCalls
    OBVIOUS
  <2>2. \A c \in LoopCalls : CallOf(c) \in LoopMessages /\ OutputOf(c) \in LoopMessages
    <3>1. \A c \in LoopCalls : c.id \in Int
      BY DEF LoopCalls
    <3>2. QED
      BY <3>1 DEF CallOf, OutputOf, Msg, LoopMessages
  <2>3. QED
    BY <2>1, <2>2
<1>2. CallsOf(cs) \in Seq(LoopMessages) /\ OutputsOf(cs) \in Seq(LoopMessages)
  <2>1. DOMAIN cs = 1 .. Len(cs) /\ Len(cs) \in Nat
    OBVIOUS
  <2>2. QED
    BY <1>1, <2>1 DEF CallsOf, OutputsOf
<1>3. PICK f, g : /\ f = CallsOf(cs) /\ g = OutputsOf(cs) /\ DOMAIN f = DOMAIN cs /\ DOMAIN g = DOMAIN cs
                  /\ \A k \in DOMAIN cs : /\ f[k].role = "tool_call" /\ f[k].id = cs[k].id
                                          /\ g[k].role = "tool_call_output" /\ g[k].id = cs[k].id
  <2>1. \A k \in DOMAIN cs : /\ CallsOf(cs)[k].role = "tool_call" /\ CallsOf(cs)[k].id = cs[k].id
                             /\ OutputsOf(cs)[k].role = "tool_call_output" /\ OutputsOf(cs)[k].id = cs[k].id
    BY <1>1 DEF CallsOf, OutputsOf, CallOf, OutputOf, Msg
  <2>2. DOMAIN CallsOf(cs) = DOMAIN cs /\ DOMAIN OutputsOf(cs) = DOMAIN cs
    BY DEF CallsOf, OutputsOf
  <2>3. QED
    BY <2>1, <2>2
<1>4. IdsIn("tool_call", f) = {cs[k].id : k \in DOMAIN cs} /\ IdsIn("tool_call_output", f) = {}
  BY <1>3 DEF IdsIn
<1>5. IdsIn("tool_call_output", g) = {cs[k].id : k \in DOMAIN cs} /\ IdsIn("tool_call", g) = {}
  BY <1>3 DEF IdsIn
<1>6. QED
  BY <1>2, <1>3, <1>4, <1>5

\* What is sent of what is stored pairs up.
LEMMA SentPairsUp ==
  ASSUME NEW s \in Seq(LoopMessages)
  PROVE  /\ Only(s, Paired(s)) \in Seq(LoopMessages)
         /\ IdsIn("tool_call", Only(s, Paired(s))) = IdsIn("tool_call_output", Only(s, Paired(s)))
<1>1. PICK u : u = Only(s, Paired(s))
  OBVIOUS
<1>2. u \in Seq(LoopMessages) /\ ToSet(u) = ToSet(s) \intersect Paired(s)
  BY <1>1, OnlySet
<1>3. \A v \in Seq(LoopMessages), role \in {"tool_call", "tool_call_output"}, i \in Int :
         i \in IdsIn(role, v) <=> \E m \in ToSet(v) : m.role = role /\ m.id = i
  BY DEF IdsIn, ToSet
<1>4. \A m \in ToSet(s) : m \in Paired(s) <=> /\ m.role = "tool_call" => m.id \in IdsIn("tool_call_output", s)
                                              /\ m.role = "tool_call_output" => m.id \in IdsIn("tool_call", s)
  BY DEF Paired, ToSet
<1>5. ASSUME NEW i \in Int
      PROVE  i \in IdsIn("tool_call", u) <=> i \in IdsIn("tool_call_output", u)
  <2>1. ASSUME i \in IdsIn("tool_call", u) PROVE i \in IdsIn("tool_call_output", u)
    <3>1. PICK m \in ToSet(u) : m.role = "tool_call" /\ m.id = i
      BY <1>2, <1>3, <2>1
    <3>2. i \in IdsIn("tool_call", s) /\ i \in IdsIn("tool_call_output", s)
      BY <1>2, <1>3, <1>4, <3>1
    <3>3. PICK o \in ToSet(s) : o.role = "tool_call_output" /\ o.id = i
      BY <1>3, <3>2
    <3>4. o \in ToSet(u)
      BY <1>2, <1>4, <3>2, <3>3
    <3>5. QED
      BY <1>2, <1>3, <3>3, <3>4
  <2>2. ASSUME i \in IdsIn("tool_call_output", u) PROVE i \in IdsIn("tool_call", u)
    <3>1. PICK m \in ToSet(u) : m.role = "tool_call_output" /\ m.id = i
      BY <1>2, <1>3, <2>2
    <3>2. i \in IdsIn("tool_call", s) /\ i \in IdsIn("tool_call_output", s)
      BY <1>2, <1>3, <1>4, <3>1
    <3>3. PICK o \in ToSet(s) : o.role = "tool_call" /\ o.id = i
      BY <1>3, <3>2
    <3>4. o \in ToSet(u)
      BY <1>2, <1>4, <3>2, <3>3
    <3>5. QED
      BY <1>2, <1>3, <3>3, <3>4
  <2>3. QED
    BY <2>1, <2>2
<1>6. IdsIn("tool_call", u) \subseteq Int /\ IdsIn("tool_call_output", u) \subseteq Int
  <2>1. \A k \in DOMAIN u : u[k] \in LoopMessages
    BY <1>2
  <2>2. \A k \in DOMAIN u : u[k].id \in Int
    BY <2>1 DEF LoopMessages
  <2>3. QED
    BY <2>2 DEF IdsIn
<1>7. QED
  BY <1>1, <1>2, <1>5, <1>6

\* What a round adds to the store is sent as it is, after what was sent before.
LEMMA NewPairsAreSent ==
  ASSUME NEW s \in Seq(LoopMessages), NEW t \in Seq(LoopMessages),
         IdsIn("tool_call", t) = IdsIn("tool_call_output", t),
         \A k \in DOMAIN s : s[k].id \notin IdsIn("tool_call", t)
  PROVE  Only(s \o t, Paired(s \o t)) = Only(s, Paired(s)) \o t
<1>1. PICK u \in Seq(LoopMessages) : u = s \o t
  BY JoinedPlaces
<1>2. /\ IdsIn("tool_call", u) = IdsIn("tool_call", s) \union IdsIn("tool_call", t)
      /\ IdsIn("tool_call_output", u) = IdsIn("tool_call_output", s) \union IdsIn("tool_call_output", t)
  BY <1>1, IdsJoined
<1>3. ToSet(u) = ToSet(s) \union ToSet(t)
  BY <1>1, JoinedSet
<1>4. DOMAIN s = 1 .. Len(s) /\ DOMAIN t = 1 .. Len(t) /\ (\A i \in 1 .. Len(s) : s[i] \in ToSet(s)) /\ (\A i \in 1 .. Len(t) : t[i] \in ToSet(t))
  BY DEF ToSet
<1>5. \A v \in Seq(LoopMessages) : \A m \in ToSet(v) :
        m \in Paired(v) <=> /\ m.role = "tool_call" => m.id \in IdsIn("tool_call_output", v)
                            /\ m.role = "tool_call_output" => m.id \in IdsIn("tool_call", v)
  BY DEF Paired, ToSet
<1>6. \A i \in 1 .. Len(s) : s[i] \in Paired(s) <=> s[i] \in Paired(u)
  <2> SUFFICES ASSUME NEW i \in 1 .. Len(s) PROVE s[i] \in Paired(s) <=> s[i] \in Paired(u)
    OBVIOUS
  <2>1. PICK m : m = s[i] /\ m \in ToSet(s) /\ m \in ToSet(u)
    BY <1>3, <1>4
  <2>2. m.id \notin IdsIn("tool_call", t)
    BY <1>4, <2>1
  <2>3. QED
    BY <1>2, <1>5, <2>1, <2>2
<1>7. \A i \in 1 .. Len(t) : t[i] \in Paired(u)
  <2> SUFFICES ASSUME NEW i \in 1 .. Len(t) PROVE t[i] \in Paired(u)
    OBVIOUS
  <2>1. PICK m : m = t[i] /\ m \in ToSet(t) /\ m \in ToSet(u)
    BY <1>3, <1>4
  <2>2. (m.role = "tool_call" => m.id \in IdsIn("tool_call", t)) /\ (m.role = "tool_call_output" => m.id \in IdsIn("tool_call_output", t))
    BY <1>4, <2>1 DEF IdsIn
  <2>3. QED
    BY <1>2, <1>5, <2>1, <2>2
<1>8. Only(u, Paired(u)) = Only(s, Paired(s)) \o t
  <2>1. PICK S, T : S = Paired(s) /\ T = Paired(u)
    OBVIOUS
  <2>2. Only(s \o t, T) = Only(s, S) \o t
    BY <1>6, <1>7, <2>1, OnlyJoined
  <2>3. QED
    BY <1>1, <2>1, <2>2
<1>9. QED
  BY <1>1, <1>8

-----------------------------------------------------------------------------
LEMMA InitLoop == LoopInit => LoopInv
<1> SUFFICES ASSUME LoopInit PROVE LoopInv
  OBVIOUS
<1>1. PICK none \in Seq(LoopMessages), no \in Seq(LoopCalls) : none = <<>> /\ no = <<>> /\ DOMAIN no = {}
  <2>1. <<>> \in Seq(LoopMessages) /\ <<>> \in Seq(LoopCalls) /\ DOMAIN <<>> = {}
    OBVIOUS
  <2>2. QED
    BY <2>1
<1>2. messages \in Seq(LoopMessages) /\ \A k \in DOMAIN messages : messages[k].id <= 0
  BY ModelLoopsAssumption DEF LoopInit
<1>3. LoopTypeOK
  <2>1. {text, wrapUpSent, fresh, stopPressed, titled, continueLoop} \subseteq BOOLEAN
    BY DEF LoopInit
  <2>2. inputMessages \in Seq(LoopMessages) /\ calls \in Seq(LoopCalls)
    BY <1>1 DEF LoopInit
  <2>3. {rounds, retries, asked, replies, loopFaults} \subseteq Nat /\ toolsRan \subseteq Nat
    BY DEF LoopInit
  <2>4. QED
    BY <1>2, <2>1, <2>2, <2>3 DEF LoopInit, LoopTypeOK
<1>4. SentInv /\ ReplayInv
  BY DEF LoopInit, SentInv, ReplayInv
<1>5. CallsInv
  BY <1>1, <1>2 DEF LoopInit, CallsInv
<1>6. QED
  BY <1>3, <1>4, <1>5 DEF LoopInv

\* Steps that say nothing and call nothing: the loop goes on or ends.
LEMMA SilentStepKeepsLoop ==
  ASSUME LoopInv, LoopTypeOK', UNCHANGED <<service, messages, inputMessages, asked, toolsRan>>,
         loopFaults' = loopFaults \/ loopAt' \in {"done", "failed", "cancelled"},
         loopAt' = loopAt \/ (loopAt \in {"head", "stream"} /\ loopAt' \in {"head", "stream"})
                          \/ (loopAt = "tools" /\ loopAt' = "tools")
                          \/ loopAt' \in {"done", "failed", "cancelled"},
         loopAt = "save" => calls' = <<>> \/ loopAt' = "save",
         calls' = calls \/ (calls' = <<>> /\ loopAt' \notin {"tools", "save"})
  PROVE  LoopInv'
<1>1. SentInv'
  BY DEF LoopInv, SentInv
<1>2. ReplayInv'
  BY DEF LoopInv, LoopTypeOK, ReplayInv, FromInput
<1>3. CallsInv'
  <2>1. CASE calls' = calls
    BY <2>1 DEF LoopInv, CallsInv
  <2>2. CASE calls' = <<>> /\ loopAt' \notin {"tools", "save"}
    <3>1. DOMAIN <<>> = {}
      OBVIOUS
    <3>2. QED
      BY <2>2, <3>1 DEF LoopInv, CallsInv
  <2>3. QED
    BY <2>1, <2>2
<1>4. QED
  BY <1>1, <1>2, <1>3 DEF LoopInv

LEMMA LoopFlags ==
  ASSUME LoopTypeOK, LoopNext
  PROVE  {text', wrapUpSent', fresh', stopPressed', titled', continueLoop'} \subseteq BOOLEAN
<1> {text, wrapUpSent, fresh, stopPressed, titled, continueLoop} \subseteq BOOLEAN
  BY DEF LoopTypeOK
<1> USE DEF SaveAndLoad, PressStop, Request, RequestFails, ContainerGone, TextDelta, CallAdded, Cancelled,
            Unreadable, FinalMessage, TextDone, ArgumentsDone, ResponseCompleted, RunTools, SaveRound, SavePair, EndRound
<1>1. text' \in BOOLEAN
  BY DEF LoopNext
<1>2. wrapUpSent' \in BOOLEAN
  BY DEF LoopNext
<1>3. fresh' \in BOOLEAN /\ stopPressed' \in BOOLEAN
  BY DEF LoopNext
<1>4. titled' \in BOOLEAN
  BY DEF LoopNext
<1>5. continueLoop' \in BOOLEAN
  BY DEF LoopNext
<1>6. QED
  BY <1>1, <1>2, <1>3, <1>4, <1>5

LEMMA LoopCounters ==
  ASSUME LoopTypeOK, LoopNext
  PROVE  /\ {rounds', retries', asked', replies', loopFaults'} \subseteq Nat /\ service' \in Services
         /\ loopAt' \in {"store", "head", "stream", "tools", "save", "done", "failed", "cancelled"}
<1> USE DEF SaveAndLoad, PressStop, Request, RequestFails, ContainerGone, TextDelta, CallAdded, Cancelled,
            Unreadable, FinalMessage, TextDone, ArgumentsDone, ResponseCompleted, RunTools, SaveRound, SavePair, EndRound,
            Works, Fails
<1>1. rounds' \in Nat /\ retries' \in Nat
  BY DEF LoopNext, LoopTypeOK
<1>2. asked' \in Nat /\ replies' \in Nat
  BY DEF LoopNext, LoopTypeOK
<1>3. loopFaults' \in Nat
  BY DEF LoopNext, LoopTypeOK
<1>4. service' \in Services
  BY DEF LoopNext, LoopTypeOK
<1>5. loopAt' \in {"store", "head", "stream", "tools", "save", "done", "failed", "cancelled"}
  BY DEF LoopNext, LoopTypeOK, AfterAnswer
<1>6. QED
  BY <1>1, <1>2, <1>3, <1>4, <1>5

LEMMA LoopTypesStay ==
  ASSUME LoopTypeOK, LoopNext, messages' \in Seq(LoopMessages), inputMessages' \in Seq(LoopMessages),
         calls' \in Seq(LoopCalls), toolsRan' \subseteq Nat
  PROVE  LoopTypeOK'
BY LoopFlags, LoopCounters DEF LoopTypeOK

LEMMA TextAdded ==
  ASSUME NEW s \in Seq(LoopMessages), NEW e \in LoopMessages, e.role \in {"user", "assistant"}
  PROVE  /\ Append(s, e) \in Seq(LoopMessages)
         /\ \A role \in {"tool_call", "tool_call_output"} : IdsIn(role, Append(s, e)) = IdsIn(role, s)
         /\ Only(Append(s, e), Paired(Append(s, e))) = Append(Only(s, Paired(s)), e)
         /\ \A i \in DOMAIN Append(s, e) : (i \in DOMAIN s /\ Append(s, e)[i] = s[i]) \/ Append(s, e)[i] = e
<1>1. PICK t \in Seq(LoopMessages), a \in Seq(LoopMessages) :
         /\ t = <<e>> /\ a = Append(s, e) /\ a = s \o t
         /\ \A role \in {"tool_call", "tool_call_output"} : IdsIn(role, t) = {} /\ IdsIn(role, a) = IdsIn(role, s)
  <2>1. PICK t \in Seq(LoopMessages), a \in Seq(LoopMessages) : t = <<e>> /\ a = Append(s, e)
    BY IdsOfText
  <2>2. a = s \o t /\ \A role \in {"tool_call", "tool_call_output"} : IdsIn(role, t) = {} /\ IdsIn(role, a) = IdsIn(role, s)
    BY <2>1, IdsOfText
  <2>3. QED
    BY <2>1, <2>2
<1>2. Only(s \o t, Paired(s \o t)) = Only(s, Paired(s)) \o t
  BY <1>1, NewPairsAreSent
<1>3. PICK o \in Seq(LoopMessages) : o = Only(s, Paired(s))
  BY SentPairsUp
<1>4. Append(o, e) = o \o t
  BY <1>1, IdsOfText
<1>5. Only(a, Paired(a)) = Append(Only(s, Paired(s)), e)
  BY <1>1, <1>2, <1>3, <1>4, Zenon
<1>6. \A i \in DOMAIN a : (i \in DOMAIN s /\ a[i] = s[i]) \/ a[i] = e
  BY <1>1
<1>7. QED
  BY <1>1, <1>5, <1>6, Zenon

LEMMA TextsAre ==
  /\ Reply \in LoopMessages /\ Reply.role = "assistant" /\ Reply.id = 0
  /\ Msg("user", 0) \in LoopMessages /\ Msg("user", 0).role = "user" /\ Msg("user", 0).id = 0
BY DEF Reply, Msg, LoopMessages

\* A text in the store is before every call.
LEMMA TextKeepsCalls ==
  ASSUME LoopInv, NEW e \in LoopMessages, e.role \in {"user", "assistant"}, e.id = 0,
         messages' = messages \/ messages' = Append(messages, e),
         UNCHANGED <<service, calls, asked, toolsRan>>, loopAt' # "save", loopAt' # "tools", loopAt # "save"
  PROVE  CallsInv'
<1>1. /\ messages \in Seq(LoopMessages) /\ asked \in Nat /\ \A k \in DOMAIN calls : calls[k].id \in 1 .. asked
      /\ \A i \in DOMAIN messages : messages[i].id <= asked /\ \A k \in DOMAIN calls : messages[i].id < calls[k].id
  BY DEF LoopInv, LoopTypeOK, CallsInv
<1>2. PICK m : m = messages'
  OBVIOUS
<1>3. \A i \in DOMAIN m : (i \in DOMAIN messages /\ m[i] = messages[i]) \/ m[i] = e
  BY <1>1, <1>2, TextAdded
<1>4. \A i \in DOMAIN m : m[i].id <= asked /\ \A k \in DOMAIN calls : m[i].id < calls[k].id
  BY <1>1, <1>3
<1>5. QED
  BY <1>2, <1>4 DEF LoopInv, CallsInv

LEMMA SaveAndLoadKeepsLoop == ASSUME LoopInv, LoopNext, SaveAndLoad PROVE LoopInv'
<1>1. CASE loopAt' = "failed"
  <2>1. LoopTypeOK'
    BY <1>1, LoopTypesStay DEF SaveAndLoad, LoopInv, LoopTypeOK
  <2>2. QED
    BY <1>1, <2>1, SilentStepKeepsLoop DEF SaveAndLoad
<1>2. CASE loopAt' # "failed"
  <2>1. PICK e \in LoopMessages : e = Msg("user", 0) /\ e.role = "user" /\ e.id = 0
    BY TextsAre
  <2>2. PICK m \in Seq(LoopMessages) : m = Append(messages, e) /\ m = messages'
    <3>1. messages' = Append(messages, e)
      BY <1>2, <2>1 DEF SaveAndLoad
    <3>2. Append(messages, e) \in Seq(LoopMessages)
      BY <2>1, TextAdded DEF LoopInv, LoopTypeOK
    <3>3. QED
      BY <3>1, <3>2
  <2>3. inputMessages' = (IF service = "openai" THEN m ELSE Only(m, Paired(m))) /\ loopAt' = "head" /\ service' = service
    BY <1>2, <2>2 DEF SaveAndLoad, FromInput
  <2>4. Only(m, Paired(m)) \in Seq(LoopMessages) /\ IdsIn("tool_call", Only(m, Paired(m))) = IdsIn("tool_call_output", Only(m, Paired(m)))
    BY SentPairsUp
  <2>5. LoopTypeOK'
    BY <2>2, <2>3, <2>4, LoopTypesStay DEF SaveAndLoad, LoopInv, LoopTypeOK
  <2>6. SentInv'
    BY <2>3, <2>4 DEF SentInv
  <2>7. ReplayInv'
    BY <2>2, <2>3 DEF ReplayInv, FromInput
  <2>8. CallsInv'
    BY <2>1, <2>2, <2>3, TextKeepsCalls DEF SaveAndLoad
  <2>9. QED
    BY <2>5, <2>6, <2>7, <2>8 DEF LoopInv
<1>3. QED
  BY <1>1, <1>2

LEMMA CancelledKeepsLoop == ASSUME LoopInv, LoopNext, Cancelled PROVE LoopInv'
<1>1. messages' = messages \/ messages' = Append(messages, Reply)
  BY DEF Cancelled
<1>2. messages' \in Seq(LoopMessages)
  BY <1>1, TextAdded, TextsAre DEF LoopInv, LoopTypeOK
<1>3. LoopTypeOK'
  BY <1>2, LoopTypesStay DEF Cancelled, LoopInv, LoopTypeOK
<1>4. SentInv' /\ ReplayInv'
  BY DEF Cancelled, SentInv, ReplayInv
<1>5. CallsInv'
  BY <1>1, TextKeepsCalls, TextsAre DEF Cancelled
<1>6. QED
  BY <1>3, <1>4, <1>5 DEF LoopInv

LEMMA TextDoneKeepsLoop == ASSUME LoopInv, LoopNext, TextDone PROVE LoopInv'
<1>1. \/ messages' = Append(messages, Reply) /\ inputMessages' = Append(inputMessages, Reply) /\ loopFaults' = loopFaults
      \/ messages' = messages /\ inputMessages' = inputMessages /\ loopFaults' = loopFaults + 1
  BY DEF TextDone, Works, Fails
<1>2. messages' \in Seq(LoopMessages) /\ inputMessages' \in Seq(LoopMessages)
  BY <1>1, TextAdded, TextsAre DEF LoopInv, LoopTypeOK
<1>3. LoopTypeOK'
  BY <1>2, LoopTypesStay DEF TextDone, LoopInv, LoopTypeOK
<1>4. SentInv'
  BY DEF TextDone, SentInv
<1>5. ReplayInv'
  <2>1. service = "openai" /\ service' = service /\ loopAt = "stream" /\ loopAt' = "stream" /\ loopFaults \in Nat
    BY DEF TextDone, LoopInv, LoopTypeOK
  <2>2. QED
    BY <1>1, <2>1 DEF LoopInv, ReplayInv, FromInput
<1>6. CallsInv'
  BY <1>1, TextKeepsCalls, TextsAre DEF TextDone
<1>7. QED
  BY <1>3, <1>4, <1>5, <1>6 DEF LoopInv

LEMMA CallAddedKeepsLoop == ASSUME LoopInv, LoopNext, CallAdded PROVE LoopInv'
<1>1. PICK c \in LoopCalls : c = [id |-> asked + 1, args |-> "open"] /\ c.id = asked + 1
  <2>1. PICK n \in Nat : n = asked + 1
    BY DEF LoopInv, LoopTypeOK
  <2>2. [id |-> n, args |-> "open"] \in LoopCalls /\ [id |-> n, args |-> "open"].id = n
    BY DEF LoopCalls
  <2>3. QED
    BY <2>1, <2>2
<1>2. calls' = Append(calls, c) /\ calls \in Seq(LoopCalls) /\ asked' = asked + 1 /\ asked \in Nat
  BY <1>1 DEF CallAdded, LoopInv, LoopTypeOK
<1>3. /\ calls' \in Seq(LoopCalls)
      /\ \A k \in DOMAIN calls' : (k \in DOMAIN calls /\ calls'[k] = calls[k]) \/ (calls'[k] = c /\ k = Len(calls) + 1)
  BY <1>2
<1>4. LoopTypeOK'
  BY <1>3, LoopTypesStay DEF CallAdded, LoopInv, LoopTypeOK
<1>5. SentInv' /\ ReplayInv'
  BY DEF CallAdded, LoopInv, SentInv, ReplayInv, FromInput
<1>6. CallsInv'
  <2>1. \A k \in DOMAIN calls : k \in 1 .. Len(calls) /\ Len(calls) \in Nat
    BY <1>2
  <2>2. toolsRan' \subseteq 1 .. asked'
    BY <1>2 DEF CallAdded, LoopInv, CallsInv
  <2>3. \A k \in DOMAIN calls' : calls'[k].id \in 1 .. asked' /\ calls'[k].id \notin toolsRan'
    BY <1>1, <1>2, <1>3 DEF CallAdded, LoopInv, CallsInv
  <2>4. \A j, k \in DOMAIN calls' : j < k => calls'[j].id < calls'[k].id
    BY <1>1, <1>2, <1>3, <2>1 DEF LoopInv, CallsInv
  <2>5. \A i \in DOMAIN messages' : messages'[i].id <= asked' /\ \A k \in DOMAIN calls' : messages'[i].id < calls'[k].id
    <3>1. messages' = messages /\ \A i \in DOMAIN messages : messages[i].id \in Int
      <4>1. PICK ms \in Seq(LoopMessages) : ms = messages
        BY DEF LoopInv, LoopTypeOK
      <4>2. \A i \in DOMAIN ms : ms[i] \in LoopMessages
        OBVIOUS
      <4>3. QED
        BY <4>1, <4>2 DEF CallAdded, LoopMessages
    <3>2. QED
      BY <1>1, <1>2, <1>3, <3>1 DEF LoopInv, CallsInv
  <2>6. service' = service /\ (service = "openai" => \A k \in DOMAIN calls' : calls'[k].args # "cut")
    <3>1. c.args = "open"
      BY <1>1
    <3>2. QED
      BY <1>3, <3>1 DEF CallAdded, LoopInv, CallsInv
  <2>7. QED
    BY <2>2, <2>3, <2>4, <2>5, <2>6 DEF CallAdded, CallsInv
<1>7. QED
  BY <1>4, <1>5, <1>6 DEF LoopInv

LEMMA FinalMessageKeepsLoop == ASSUME LoopInv, LoopNext, FinalMessage PROVE LoopInv'
<1>1. PICK reason \in {"end_turn", "max_tokens", "refusal", "pause_turn"} :
        /\ reason = "pause_turn" => calls = <<>> /\ text
        /\ loopAt' = AfterAnswer(reason)
        /\ \E args \in ArgsOf(reason) : calls' = [k \in DOMAIN calls |-> [calls[k] EXCEPT !.args = args[k]]]
  BY DEF FinalMessage
<1>2. PICK args \in ArgsOf(reason) : calls' = [k \in DOMAIN calls |-> [calls[k] EXCEPT !.args = args[k]]]
  BY <1>1
<1>3. PICK cs \in Seq(LoopCalls), said \in Seq(LoopMessages), stored \in Seq(LoopMessages) :
        cs = calls /\ said = inputMessages /\ stored = messages
  BY DEF LoopInv, LoopTypeOK
<1>4. PICK ds \in Seq(LoopCalls) :
        /\ ds = calls' /\ DOMAIN ds = DOMAIN cs
        /\ \A k \in DOMAIN cs : ds[k].id = cs[k].id /\ ds[k].args = args[k] /\ args[k] \in {"whole", "missing", "cut"}
  <2>1. args \in [DOMAIN cs -> {"whole", "missing", "cut"}]
    BY <1>3 DEF ArgsOf
  <2>2. PICK ds : ds = [k \in DOMAIN cs |-> [cs[k] EXCEPT !.args = args[k]]]
    OBVIOUS
  <2>3. \A k \in DOMAIN cs : cs[k] \in LoopCalls
    OBVIOUS
  <2>4. \A k \in DOMAIN cs : ds[k] \in LoopCalls /\ ds[k].id = cs[k].id /\ ds[k].args = args[k]
    BY <2>1, <2>2, <2>3 DEF LoopCalls
  <2>5. DOMAIN cs = 1 .. Len(cs) /\ Len(cs) \in Nat /\ ds = [k \in 1 .. Len(cs) |-> ds[k]]
    BY <2>2
  <2>6. ds \in Seq(LoopCalls) /\ DOMAIN ds = DOMAIN cs
    BY <2>4, <2>5
  <2>7. QED
    BY <1>2, <1>3, <2>1, <2>2, <2>4, <2>6
<1>5. CallsOf(ds) = CallsOf(cs) /\ {ds[k].id : k \in DOMAIN ds} = {cs[k].id : k \in DOMAIN cs}
  BY <1>4 DEF CallsOf, CallOf
<1>6. PICK base \in Seq(LoopMessages), stay \in Seq(LoopMessages) :
        /\ base = (IF text THEN Append(said, Reply) ELSE said)
        /\ stay = (IF text THEN Append(stored, Reply) ELSE stored)
        /\ \A role \in {"tool_call", "tool_call_output"} : IdsIn(role, base) = IdsIn(role, said)
        /\ said = Only(stored, Paired(stored)) => base = Only(stay, Paired(stay))
  <2>1. CASE text
    <3>1. PICK base \in Seq(LoopMessages), stay \in Seq(LoopMessages) :
            base = Append(said, Reply) /\ stay = Append(stored, Reply)
      BY TextAdded, TextsAre
    <3>2. /\ \A role \in {"tool_call", "tool_call_output"} : IdsIn(role, base) = IdsIn(role, said)
          /\ Only(stay, Paired(stay)) = Append(Only(stored, Paired(stored)), Reply)
      BY <3>1, TextAdded, TextsAre
    <3>3. QED
      BY <2>1, <3>1, <3>2
  <2>2. CASE ~ text
    BY <2>2
  <2>3. QED
    BY <2>1, <2>2
<1>7. \/ messages' = stay /\ loopFaults' = loopFaults
      \/ messages' = stored /\ loopFaults' = loopFaults + 1
  BY <1>3, <1>6 DEF FinalMessage, Works, Fails
<1>8. inputMessages' = IF loopAt' \in {"head", "tools"} THEN base \o CallsOf(cs) ELSE said
  BY <1>3, <1>6 DEF FinalMessage
<1>9. CallsOf(cs) \in Seq(LoopMessages) /\ IdsIn("tool_call", CallsOf(cs)) = {cs[k].id : k \in DOMAIN cs}
      /\ IdsIn("tool_call_output", CallsOf(cs)) = {}
  BY IdsOfCalls
<1>10. PICK sent \in Seq(LoopMessages) :
         /\ sent = base \o CallsOf(cs)
         /\ IdsIn("tool_call", sent) = IdsIn("tool_call", said) \union {cs[k].id : k \in DOMAIN cs}
         /\ IdsIn("tool_call_output", sent) = IdsIn("tool_call_output", said)
  <2>1. PICK t \in Seq(LoopMessages) : t = CallsOf(cs)
    BY <1>9
  <2>2. PICK sent \in Seq(LoopMessages) : sent = base \o t
    BY JoinedPlaces
  <2>3. IdsIn("tool_call", sent) = IdsIn("tool_call", base) \union IdsIn("tool_call", t)
    BY <2>2, IdsJoined
  <2>4. IdsIn("tool_call_output", sent) = IdsIn("tool_call_output", base) \union IdsIn("tool_call_output", t)
    BY <2>2, IdsJoined
  <2>5. QED
    BY <1>6, <1>9, <2>1, <2>2, <2>3, <2>4
<1>11. /\ loopAt = "stream" /\ service = "anthropic" /\ service' = service
       /\ asked' = asked /\ toolsRan' = toolsRan
  BY DEF FinalMessage
<1>12. /\ loopAt' \in {"failed", "head", "done", "tools"}
       /\ loopAt' = "head" => cs = <<>>
       /\ loopAt' = "tools" => cs # <<>> /\ reason # "max_tokens"
  BY <1>1, <1>3 DEF AfterAnswer
<1>13. LoopTypeOK'
  <2>1. messages' \in Seq(LoopMessages) /\ inputMessages' \in Seq(LoopMessages) /\ calls' \in Seq(LoopCalls)
    BY <1>4, <1>7, <1>8, <1>10
  <2>2. QED
    BY <1>11, <2>1, LoopTypesStay DEF LoopInv, LoopTypeOK
<1>14. SentInv'
  <2>1. IdsIn("tool_call", said) = IdsIn("tool_call_output", said)
    BY <1>3, <1>11 DEF LoopInv, SentInv
  <2>2. CASE loopAt' = "head"
    <3>1. DOMAIN cs = {}
      BY <1>12, <2>2
    <3>2. IdsIn("tool_call", sent) = IdsIn("tool_call_output", sent)
      BY <1>10, <2>1, <3>1
    <3>3. QED
      BY <1>8, <1>10, <2>2, <3>2 DEF SentInv
  <2>3. CASE loopAt' = "tools"
    BY <1>4, <1>5, <1>8, <1>10, <2>1, <2>3 DEF SentInv
  <2>4. QED
    BY <1>12, <2>2, <2>3 DEF SentInv
<1>15. ReplayInv'
  <2> SUFFICES ASSUME loopFaults' = 0, loopAt' \in {"head", "tools"}
      PROVE  /\ loopAt' = "head" => inputMessages' = Only(stay, Paired(stay))
             /\ loopAt' = "tools" => inputMessages' = Only(stay, Paired(stay)) \o CallsOf(ds)
    <3>1. loopFaults' = 0 => messages' = stay
      BY <1>7 DEF LoopInv, LoopTypeOK
    <3>2. QED
      BY <1>4, <1>11, <1>12, <3>1 DEF ReplayInv, FromInput
  <2>1. loopFaults = 0
    BY <1>7 DEF LoopInv, LoopTypeOK
  <2>2. said = Only(stored, Paired(stored))
    BY <1>3, <1>11, <2>1 DEF LoopInv, ReplayInv, FromInput
  <2>3. inputMessages' = Only(stay, Paired(stay)) \o CallsOf(cs)
    BY <1>6, <1>8, <2>2
  <2>4. CASE loopAt' = "head"
    <3>1. CallsOf(cs) = <<>>
      BY <1>12, <2>4 DEF CallsOf
    <3>2. base \o <<>> = base
      OBVIOUS
    <3>3. QED
      BY <1>6, <2>2, <2>3, <2>4, <3>1, <3>2
  <2>5. QED
    BY <1>5, <2>3, <2>4
<1>16. CallsInv'
  <2>1. /\ \A k \in DOMAIN cs : cs[k].id \in 1 .. asked /\ cs[k].id \notin toolsRan
        /\ \A j, k \in DOMAIN cs : j < k => cs[j].id < cs[k].id
        /\ \A i \in DOMAIN stored : stored[i].id <= asked /\ \A k \in DOMAIN cs : stored[i].id < cs[k].id
        /\ toolsRan \subseteq 1 .. asked /\ asked \in Nat
    BY <1>3, <1>11 DEF LoopInv, LoopTypeOK, CallsInv
  <2>2. loopAt' = "tools" => ds # <<>> /\ \A k \in DOMAIN ds : ds[k].args \in {"whole", "missing"}
    <3>1. \A k \in DOMAIN cs : args[k] = "cut" => reason = "max_tokens"
      BY <1>3 DEF ArgsOf
    <3>2. cs # <<>> => ds # <<>>
      BY <1>4
    <3>3. QED
      BY <1>4, <1>12, <3>1, <3>2
  <2>3. \A m : (m = stay \/ m = stored) =>
          \A i \in DOMAIN m : m[i].id <= asked /\ \A k \in DOMAIN cs : m[i].id < cs[k].id
    <3>1. \A i \in DOMAIN stay : (i \in DOMAIN stored /\ stay[i] = stored[i]) \/ stay[i] = Reply
      BY <1>6, TextAdded, TextsAre
    <3>2. ASSUME NEW i \in DOMAIN stay PROVE stay[i].id <= asked /\ \A k \in DOMAIN cs : stay[i].id < cs[k].id
      <4>1. CASE stay[i] = Reply
        <5>1. stay[i].id = 0 /\ \A k \in DOMAIN cs : 0 < cs[k].id
          BY <2>1, <4>1, TextsAre
        <5>2. QED
          BY <2>1, <5>1
      <4>2. CASE i \in DOMAIN stored /\ stay[i] = stored[i]
        BY <2>1, <4>2
      <4>3. QED
        BY <3>1, <4>1, <4>2
    <3>3. QED
      BY <2>1, <3>2
  <2>4. \A i \in DOMAIN messages' : messages'[i].id <= asked /\ \A k \in DOMAIN cs : messages'[i].id < cs[k].id
    BY <1>7, <2>3, Zenon
  <2>5. QED
    BY <1>4, <1>11, <1>12, <2>1, <2>2, <2>4 DEF CallsInv
<1>17. QED
  BY <1>13, <1>14, <1>15, <1>16 DEF LoopInv

LEMMA ArgumentsDoneKeepsLoop == ASSUME LoopInv, LoopNext, ArgumentsDone PROVE LoopInv'
<1>1. PICK j \in DOMAIN calls, args \in {"whole", "missing"} :
        calls[j].args = "open" /\ calls' = [calls EXCEPT ![j].args = args]
  BY DEF ArgumentsDone
<1>2. PICK cs \in Seq(LoopCalls) : cs = calls
  BY DEF LoopInv, LoopTypeOK
<1>3. PICK c \in LoopCalls : c = [cs[j] EXCEPT !.args = args] /\ c.id = cs[j].id /\ c.args = args
  <2>1. cs[j] \in LoopCalls
    BY <1>1, <1>2
  <2>2. PICK r \in LoopCalls : r = cs[j]
    BY <2>1
  <2>3. PICK c : c = [r EXCEPT !.args = args]
    OBVIOUS
  <2>4. c \in LoopCalls /\ c.id = r.id /\ c.args = args
    BY <2>3 DEF LoopCalls
  <2>5. QED
    BY <2>2, <2>3, <2>4
<1>4. PICK ds \in Seq(LoopCalls) : /\ ds = calls' /\ DOMAIN ds = DOMAIN cs
                                   /\ \A k \in DOMAIN cs : ds[k].id = cs[k].id /\ (ds[k].args = cs[k].args \/ ds[k].args = args)
  <2>1. PICK ds : ds = [cs EXCEPT ![j] = c]
    OBVIOUS
  <2>2. ds = calls'
    BY <1>1, <1>2, <1>3, <2>1
  <2>3. ds \in Seq(LoopCalls) /\ DOMAIN ds = DOMAIN cs /\ \A k \in DOMAIN cs : ds[k] = IF k = j THEN c ELSE cs[k]
    BY <1>1, <1>2, <2>1
  <2>4. QED
    BY <1>3, <2>2, <2>3
<1>5. /\ loopAt = "stream" /\ loopAt' = "stream" /\ service = "openai"
      /\ UNCHANGED <<service, messages, inputMessages, asked, toolsRan, loopFaults>>
  BY DEF ArgumentsDone
<1>6. LoopTypeOK'
  BY <1>4, <1>5, LoopTypesStay DEF LoopInv, LoopTypeOK
<1>7. SentInv' /\ ReplayInv'
  BY <1>5 DEF LoopInv, SentInv, ReplayInv, FromInput
<1>8. CallsInv'
  BY <1>2, <1>4, <1>5 DEF LoopInv, CallsInv
<1>9. QED
  BY <1>6, <1>7, <1>8 DEF LoopInv

LEMMA ResponseCompletedKeepsLoop == ASSUME LoopInv, LoopNext, ResponseCompleted PROVE LoopInv'
<1>1. /\ loopAt = "stream" /\ service = "openai" /\ loopAt' \in {"done", "tools"} /\ (loopAt' = "tools" => calls # <<>>)
      /\ UNCHANGED <<service, messages, inputMessages, calls, asked, toolsRan, loopFaults>>
  BY DEF ResponseCompleted
<1>2. LoopTypeOK'
  BY <1>1, LoopTypesStay DEF LoopInv, LoopTypeOK
<1>3. SentInv' /\ ReplayInv'
  BY <1>1 DEF LoopInv, SentInv, ReplayInv, FromInput
<1>4. CallsInv'
  <2>1. \A k \in DOMAIN calls : calls[k].args \in {"whole", "missing"}
    <3>1. PICK cs \in Seq(LoopCalls) : cs = calls
      BY DEF LoopInv, LoopTypeOK
    <3>2. \A k \in DOMAIN cs : cs[k] \in LoopCalls
      OBVIOUS
    <3>3. \A k \in DOMAIN calls : calls[k].args # "open" /\ calls[k].args # "cut"
      BY <1>1 DEF ResponseCompleted, LoopInv, CallsInv
    <3>4. QED
      BY <3>1, <3>2, <3>3 DEF LoopCalls
  <2>2. QED
    BY <1>1, <2>1 DEF LoopInv, CallsInv
<1>5. QED
  BY <1>2, <1>3, <1>4 DEF LoopInv

LEMMA RunToolsKeepsLoop == ASSUME LoopInv, LoopNext, RunTools PROVE LoopInv'
<1>1. /\ loopAt = "tools" /\ loopAt' = "save"
      /\ UNCHANGED <<service, messages, inputMessages, calls, asked, loopFaults>>
  BY DEF RunTools
<1>2. PICK ran : /\ ran = {c.id : c \in {calls[k] : k \in {k \in DOMAIN calls : Runnable(calls[k])}}}
                 /\ toolsRan' = toolsRan \union ran
  BY DEF RunTools
<1>3. \A i \in ran : \E k \in DOMAIN calls : i = calls[k].id /\ calls[k].args # "missing"
  BY <1>2 DEF Runnable
<1>4. toolsRan' \subseteq 1 .. asked /\ asked \in Nat
  BY <1>2, <1>3 DEF LoopInv, LoopTypeOK, CallsInv
<1>5. LoopTypeOK'
  <2>1. toolsRan' \subseteq Nat
    BY <1>4
  <2>2. QED
    BY <1>1, <2>1, LoopTypesStay DEF LoopInv, LoopTypeOK
<1>6. SentInv' /\ ReplayInv'
  BY <1>1 DEF LoopInv, SentInv, ReplayInv, FromInput
<1>7. CallsInv'
  <2>1. PICK cs \in Seq(LoopCalls) : cs = calls
    BY DEF LoopInv, LoopTypeOK
  <2>2. \A j, k \in DOMAIN cs : cs[j].id = cs[k].id => j = k
    <3>1. \A k \in DOMAIN cs : k \in Int /\ cs[k] \in LoopCalls
      OBVIOUS
    <3>2. \A j, k \in DOMAIN cs : j < k => cs[j].id < cs[k].id
      BY <2>1 DEF LoopInv, CallsInv
    <3>3. \A k \in DOMAIN cs : cs[k].id \in Nat
      BY <3>1 DEF LoopCalls
    <3>4. QED
      BY <3>1, <3>2, <3>3
  <2>3. ASSUME NEW k \in DOMAIN cs, cs[k].id \in toolsRan' PROVE cs[k].args = "whole"
    <3>1. cs[k].id \in ran
      BY <1>1, <1>2, <2>1, <2>3 DEF LoopInv, CallsInv
    <3>2. cs[k].args # "missing"
      BY <1>3, <2>1, <2>2, <3>1
    <3>3. QED
      BY <1>1, <2>1, <3>2 DEF LoopInv, CallsInv
  <2>4. QED
    BY <1>1, <1>4, <2>1, <2>3 DEF LoopInv, CallsInv
<1>8. QED
  BY <1>5, <1>6, <1>7 DEF LoopInv

LEMMA SaveRoundKeepsLoop == ASSUME LoopInv, LoopNext, SaveRound PROVE LoopInv'
<1>1. /\ loopAt = "save" /\ service = "anthropic" /\ service' = service /\ calls' = <<>>
      /\ loopAt' \in {"failed", "done", "head"} /\ asked' = asked /\ toolsRan' = toolsRan
  BY DEF SaveRound, EndRound
<1>2. \/ /\ loopFaults' = loopFaults
         /\ messages' = messages \o CallsOf(calls) \o OutputsOf(calls)
         /\ inputMessages' = inputMessages \o OutputsOf(calls)
      \/ /\ loopFaults' = loopFaults + 1 /\ loopAt' = "failed"
         /\ messages' = messages /\ inputMessages' = inputMessages
  BY DEF SaveRound, Works, Fails
<1>3. PICK cs \in Seq(LoopCalls), said \in Seq(LoopMessages), stored \in Seq(LoopMessages) :
        cs = calls /\ said = inputMessages /\ stored = messages
  BY DEF LoopInv, LoopTypeOK
<1>4. PICK c \in Seq(LoopMessages), o \in Seq(LoopMessages), ids \in SUBSET Int :
        /\ c = CallsOf(cs) /\ o = OutputsOf(cs) /\ ids = {cs[k].id : k \in DOMAIN cs}
        /\ IdsIn("tool_call", c) = ids /\ IdsIn("tool_call_output", c) = {}
        /\ IdsIn("tool_call", o) = {} /\ IdsIn("tool_call_output", o) = ids
  <2>1. PICK c \in Seq(LoopMessages), o \in Seq(LoopMessages) : c = CallsOf(cs) /\ o = OutputsOf(cs)
    BY IdsOfCalls
  <2>2. PICK ids \in SUBSET Int : ids = {cs[k].id : k \in DOMAIN cs}
    <3>1. \A k \in DOMAIN cs : cs[k] \in LoopCalls
      OBVIOUS
    <3>2. \A k \in DOMAIN cs : cs[k].id \in Int
      BY <3>1 DEF LoopCalls
    <3>3. QED
      BY <3>2
  <2>3. QED
    BY <2>1, <2>2, IdsOfCalls
<1>5. PICK t \in Seq(LoopMessages) : t = c \o o
  BY JoinedPlaces
<1>6. IdsIn("tool_call", t) = ids /\ IdsIn("tool_call_output", t) = ids
  <2>1. \A role : IdsIn(role, c \o o) = IdsIn(role, c) \union IdsIn(role, o)
    BY IdsJoined, Zenon
  <2>2. QED
    BY <1>4, <1>5, <2>1
<1>7. PICK m \in Seq(LoopMessages), q \in Seq(LoopMessages) : m = stored \o t /\ q = said \o o
  BY JoinedPlaces
<1>8. IdsIn("tool_call", q) = IdsIn("tool_call", said) /\ IdsIn("tool_call_output", q) = IdsIn("tool_call_output", said) \union ids
  <2>1. \A role : IdsIn(role, said \o o) = IdsIn(role, said) \union IdsIn(role, o)
    BY IdsJoined, Zenon
  <2>2. QED
    BY <1>4, <1>7, <2>1
<1>9. (stored \o c) \o o = m
  <2>1. JoinsTwice(stored, c, o)
    BY JoinedTwice, Zenon
  <2>2. QED
    BY <1>5, <1>7, <2>1, Zenon DEF JoinsTwice
<1>10. \/ loopFaults' = loopFaults /\ messages' = m /\ inputMessages' = q
       \/ loopFaults' = loopFaults + 1 /\ loopAt' = "failed" /\ messages' = stored /\ inputMessages' = said
  BY <1>2, <1>3, <1>4, <1>7, <1>9
<1>11. /\ \A k \in DOMAIN cs : cs[k].id \in 1 .. asked
       /\ \A i \in DOMAIN stored : stored[i].id <= asked /\ \A k \in DOMAIN cs : stored[i].id < cs[k].id
       /\ toolsRan \subseteq 1 .. asked /\ asked \in Nat /\ loopFaults \in Nat
  BY <1>3 DEF LoopInv, LoopTypeOK, CallsInv
<1>12. PICK none \in Seq(LoopCalls) : none = calls' /\ DOMAIN none = {}
  <2>1. <<>> \in Seq(LoopCalls) /\ DOMAIN <<>> = {}
    OBVIOUS
  <2>2. QED
    BY <1>1, <2>1
<1>13. LoopTypeOK'
  <2>1. messages' \in Seq(LoopMessages) /\ inputMessages' \in Seq(LoopMessages) /\ calls' \in Seq(LoopCalls)
    BY <1>10, <1>12
  <2>2. QED
    BY <1>1, <2>1, LoopTypesStay DEF LoopInv, LoopTypeOK
<1>14. SentInv'
  <2>1. IdsIn("tool_call", said) = IdsIn("tool_call_output", said) \union ids
    BY <1>1, <1>3, <1>4 DEF LoopInv, SentInv
  <2>2. CASE loopAt' = "head"
    BY <1>8, <1>10, <2>1, <2>2 DEF SentInv
  <2>3. QED
    BY <1>1, <2>2 DEF SentInv
<1>15. ReplayInv'
  <2> SUFFICES ASSUME loopFaults' = 0, loopAt' = "head" PROVE inputMessages' = Only(messages', Paired(messages'))
    BY <1>1 DEF ReplayInv, FromInput
  <2>1. messages' = m /\ inputMessages' = q /\ loopFaults = 0
    BY <1>10, <1>11
  <2>2. said = Only(stored, Paired(stored)) \o c
    BY <1>1, <1>3, <1>4, <2>1 DEF LoopInv, ReplayInv, FromInput
  <2>3. \A k \in DOMAIN stored : stored[k].id \notin ids
    <3>1. PICK s \in Seq(LoopMessages) : s = stored
      OBVIOUS
    <3>2. \A k \in DOMAIN s : s[k] \in LoopMessages
      OBVIOUS
    <3>3. \A k \in DOMAIN stored : stored[k].id \in Int
      BY <3>1, <3>2 DEF LoopMessages
    <3>4. QED
      BY <1>4, <1>11, <3>3
  <2>4. Only(m, Paired(m)) = Only(stored, Paired(stored)) \o t
    BY <1>6, <1>7, <2>3, NewPairsAreSent
  <2>5. PICK b \in Seq(LoopMessages) : b = Only(stored, Paired(stored))
    BY SentPairsUp
  <2>6. (b \o c) \o o = b \o t
    <3>1. JoinsTwice(b, c, o)
      BY JoinedTwice, Zenon
    <3>2. QED
      BY <1>5, <3>1, Zenon DEF JoinsTwice
  <2>7. QED
    BY <1>7, <2>1, <2>2, <2>4, <2>5, <2>6
<1>16. CallsInv'
  <2>1. \A i \in DOMAIN m : m[i].id <= asked
    <3>1. ToSet(m) = ToSet(stored) \union (ToSet(c) \union ToSet(o))
      <4>1. ToSet(t) = ToSet(c) \union ToSet(o)
        BY <1>5, JoinedSet, Zenon
      <4>2. ToSet(m) = ToSet(stored) \union ToSet(t)
        BY <1>7, JoinedSet, Zenon
      <4>3. QED
        BY <4>1, <4>2
    <3>2. \A e \in ToSet(c) \union ToSet(o) : e.id \in ids
      <4>1. \A k \in DOMAIN cs : CallsOf(cs)[k].id = cs[k].id /\ OutputsOf(cs)[k].id = cs[k].id
        BY DEF CallsOf, OutputsOf, CallOf, OutputOf, Msg
      <4>2. DOMAIN CallsOf(cs) = DOMAIN cs /\ DOMAIN OutputsOf(cs) = DOMAIN cs
        BY DEF CallsOf, OutputsOf
      <4>3. QED
        BY <1>4, <4>1, <4>2 DEF ToSet
    <3>3. \A e \in ToSet(m) : e.id <= asked
      <4>1. \A i \in ids : i <= asked
        BY <1>4, <1>11
      <4>2. \A e \in ToSet(stored) : e.id <= asked
        BY <1>11 DEF ToSet
      <4>3. QED
        BY <3>1, <3>2, <4>1, <4>2
    <3>4. QED
      BY <3>3 DEF ToSet
  <2>2. \A i \in DOMAIN messages' : messages'[i].id <= asked
    BY <1>10, <1>11, <2>1, Zenon
  <2>3. QED
    BY <1>1, <1>11, <1>12, <2>2 DEF CallsInv
<1>17. QED
  BY <1>13, <1>14, <1>15, <1>16 DEF LoopInv

LEMMA SavePairKeepsLoop == ASSUME LoopInv, LoopNext, SavePair PROVE LoopInv'
<1>1. PICK cs \in Seq(LoopCalls), said \in Seq(LoopMessages), stored \in Seq(LoopMessages) :
        cs = calls /\ said = inputMessages /\ stored = messages
  BY DEF LoopInv, LoopTypeOK
<1>2. /\ loopAt = "save" /\ service = "openai" /\ service' = service /\ asked' = asked /\ toolsRan' = toolsRan
      /\ loopAt' \in {"save", "failed", "head"} /\ (loopAt' = "save" <=> Len(cs) # 1) /\ calls' = Tail(cs)
  BY <1>1 DEF SavePair, EndRound
<1>3. cs # <<>> /\ loopFaults \in Nat /\ asked \in Nat
  BY <1>1, <1>2 DEF LoopInv, LoopTypeOK, CallsInv
<1>4. PICK n \in Nat \ {0}, ds \in Seq(LoopCalls) :
        /\ n = Len(cs) /\ DOMAIN cs = 1 .. n /\ ds = calls' /\ DOMAIN ds = 1 .. n - 1
        /\ \A k \in 1 .. n - 1 : k + 1 \in 1 .. n /\ ds[k] = cs[k + 1]
  <2>1. PICK n \in Nat \ {0} : n = Len(cs) /\ DOMAIN cs = 1 .. n
    BY <1>3
  <2>2. PICK ds \in Seq(LoopCalls) : ds = Tail(cs)
    <3>1. Tail(cs) \in Seq(LoopCalls)
      BY <1>3
    <3>2. QED
      BY <3>1
  <2>3. DOMAIN ds = 1 .. n - 1 /\ \A k \in 1 .. n - 1 : k + 1 \in 1 .. n /\ ds[k] = cs[k + 1]
    BY <1>3, <2>1, <2>2
  <2>4. QED
    BY <1>2, <2>1, <2>2, <2>3
<1>5. PICK pair \in Seq(LoopMessages) :
        /\ pair = <<CallOf(cs[1]), OutputOf(cs[1])>>
        /\ \A e \in ToSet(pair) : e.id = cs[1].id
  <2>1. cs[1] \in LoopCalls
    BY <1>4
  <2>2. PICK a \in LoopMessages, b \in LoopMessages : a = CallOf(cs[1]) /\ b = OutputOf(cs[1]) /\ a.id = cs[1].id /\ b.id = cs[1].id
    <3>1. cs[1].id \in Int
      BY <2>1 DEF LoopCalls
    <3>2. CallOf(cs[1]) \in LoopMessages /\ OutputOf(cs[1]) \in LoopMessages
      BY <3>1 DEF CallOf, OutputOf, Msg, LoopMessages
    <3>3. CallOf(cs[1]).id = cs[1].id /\ OutputOf(cs[1]).id = cs[1].id
      BY DEF CallOf, OutputOf, Msg
    <3>4. QED
      BY <3>2, <3>3
  <2>3. PICK pair \in Seq(LoopMessages) : pair = <<a, b>>
    <3>1. <<a, b>> \in Seq(LoopMessages)
      OBVIOUS
    <3>2. QED
      BY <3>1
  <2>4. ToSet(pair) = {a, b}
    BY <2>3 DEF ToSet
  <2>5. QED
    BY <2>2, <2>3, <2>4
<1>6. PICK m \in Seq(LoopMessages), q \in Seq(LoopMessages) : m = stored \o pair /\ q = said \o pair
  BY JoinedPlaces
<1>7. /\ inputMessages' = q
      /\ \/ messages' = m /\ loopFaults' = loopFaults
         \/ messages' = stored /\ loopFaults' = loopFaults + 1
  BY <1>1, <1>5, <1>6 DEF SavePair, Works, Fails
<1>8. LoopTypeOK'
  <2>1. messages' \in Seq(LoopMessages) /\ inputMessages' \in Seq(LoopMessages) /\ calls' \in Seq(LoopCalls)
    BY <1>4, <1>7
  <2>2. QED
    BY <1>2, <2>1, LoopTypesStay DEF LoopInv, LoopTypeOK
<1>9. SentInv'
  BY <1>2 DEF SentInv
<1>10. ReplayInv'
  <2> SUFFICES ASSUME loopFaults' = 0 PROVE inputMessages' = messages'
    BY <1>2 DEF ReplayInv, FromInput
  <2>1. loopFaults = 0 /\ messages' = m
    BY <1>3, <1>7
  <2>2. said = stored
    BY <1>1, <1>2, <2>1 DEF LoopInv, ReplayInv
  <2>3. QED
    BY <1>6, <1>7, <2>1, <2>2
<1>11. CallsInv'
  <2>1. /\ \A k \in 1 .. n : cs[k].id \in 1 .. asked /\ cs[k].args \in {"whole", "missing"}
        /\ \A j, k \in 1 .. n : j < k => cs[j].id < cs[k].id
        /\ \A i \in DOMAIN stored : stored[i].id <= asked /\ \A k \in 1 .. n : stored[i].id < cs[k].id
        /\ \A k \in 1 .. n : cs[k].id \in toolsRan => cs[k].args = "whole"
        /\ toolsRan \subseteq 1 .. asked
    BY <1>1, <1>2, <1>4 DEF LoopInv, CallsInv
  <2>2. \A j, k \in 1 .. n - 1 : j < k => ds[j].id < ds[k].id
    <3> SUFFICES ASSUME NEW j \in 1 .. n - 1, NEW k \in 1 .. n - 1, j < k PROVE ds[j].id < ds[k].id
      OBVIOUS
    <3>1. PICK x \in 1 .. n, y \in 1 .. n : x = j + 1 /\ y = k + 1 /\ x < y
      BY <1>4
    <3>2. QED
      BY <1>4, <2>1, <3>1
  <2>3. \A k \in 1 .. n - 1 : /\ ds[k].id \in 1 .. asked /\ ds[k].args \in {"whole", "missing"}
                              /\ ds[k].id \in toolsRan => ds[k].args = "whole"
    BY <1>4, <2>1
  <2>4. \A k \in 1 .. n - 1 : cs[1].id < ds[k].id
    <3> SUFFICES ASSUME NEW k \in 1 .. n - 1 PROVE cs[1].id < ds[k].id
      OBVIOUS
    <3>1. PICK y \in 1 .. n : y = k + 1 /\ 1 < y /\ 1 \in 1 .. n
      BY <1>4
    <3>2. QED
      BY <1>4, <2>1, <3>1
  <2>5. \A i \in DOMAIN m : m[i].id <= asked /\ \A k \in 1 .. n - 1 : m[i].id < ds[k].id
    <3>1. ToSet(m) = ToSet(stored) \union ToSet(pair)
      BY <1>6, JoinedSet
    <3>2. \A e \in ToSet(stored) : e.id <= asked /\ \A k \in 1 .. n - 1 : e.id < ds[k].id
      BY <1>4, <2>1 DEF ToSet
    <3>3. 1 \in 1 .. n
      OBVIOUS
    <3>4. \A e \in ToSet(pair) : e.id <= asked /\ \A k \in 1 .. n - 1 : e.id < ds[k].id
      BY <1>3, <1>5, <2>1, <2>4, <3>3
    <3>5. QED
      BY <3>1, <3>2, <3>4 DEF ToSet
  <2>6. \A i \in DOMAIN stored : stored[i].id <= asked /\ \A k \in 1 .. n - 1 : stored[i].id < ds[k].id
    BY <1>4, <2>1
  <2>7. \A i \in DOMAIN messages' : messages'[i].id <= asked /\ \A k \in 1 .. n - 1 : messages'[i].id < ds[k].id
    BY <1>7, <2>5, <2>6, Zenon
  <2>8. loopAt' # "save" => 1 .. n - 1 = {}
    <3>1. loopAt' # "save" => n = 1
      BY <1>2, <1>4
    <3>2. 1 .. 1 - 1 = {}
      OBVIOUS
    <3>3. QED
      BY <3>1, <3>2
  <2>9. loopAt' \in {"tools", "save"} => ds # <<>>
    <3>1. loopAt' \in {"tools", "save"} => 1 \in DOMAIN ds
      BY <1>2, <1>4
    <3>2. DOMAIN <<>> = {}
      OBVIOUS
    <3>3. QED
      BY <3>1, <3>2
  <2>10. QED
    BY <1>2, <1>4, <2>1, <2>2, <2>3, <2>7, <2>8, <2>9 DEF CallsInv
<1>12. QED
  BY <1>8, <1>9, <1>10, <1>11 DEF LoopInv

LEMMA LoopKeeps == LoopInv /\ [LoopNext]_loopVars => LoopInv'
<1> SUFFICES ASSUME LoopInv, [LoopNext]_loopVars PROVE LoopInv'
  OBVIOUS
<1>1. CASE UNCHANGED loopVars
  <2>1. LoopTypeOK' /\ SentInv' /\ CallsInv'
    BY <1>1 DEF loopVars, LoopInv, LoopTypeOK, SentInv, CallsInv
  <2>2. ReplayInv'
    BY <1>1 DEF loopVars, LoopInv, ReplayInv, FromInput
  <2>3. QED
    BY <2>1, <2>2 DEF LoopInv
<1>2. ASSUME LoopNext, PressStop \/ Request \/ RequestFails \/ ContainerGone \/ TextDelta \/ Unreadable PROVE LoopInv'
  <2>1. calls' = calls \/ (calls' = <<>> /\ loopAt' \notin {"tools", "save"})
    BY <1>2 DEF PressStop, Request, RequestFails, ContainerGone, TextDelta, Unreadable
  <2>2. calls' \in Seq(LoopCalls)
    <3>1. <<>> \in Seq(LoopCalls)
      OBVIOUS
    <3>2. QED
      BY <2>1, <3>1 DEF LoopInv, LoopTypeOK
  <2>3. UNCHANGED <<service, messages, inputMessages, asked, toolsRan, loopFaults>>
    BY <1>2 DEF PressStop, Request, RequestFails, ContainerGone, TextDelta, Unreadable
  <2>4. LoopTypeOK'
    BY <1>2, <2>2, <2>3, LoopTypesStay DEF LoopInv, LoopTypeOK
  <2>5. /\ loopAt # "save"
        /\ loopAt' = loopAt \/ (loopAt \in {"head", "stream"} /\ loopAt' \in {"head", "stream"})
                            \/ (loopAt = "tools" /\ loopAt' = "tools")
                            \/ loopAt' \in {"done", "failed", "cancelled"}
    BY <1>2 DEF PressStop, Request, RequestFails, ContainerGone, TextDelta, Unreadable
  <2>6. QED
    BY <2>1, <2>3, <2>4, <2>5, SilentStepKeepsLoop
<1>3. QED
  BY <1>1, <1>2, SaveAndLoadKeepsLoop, CallAddedKeepsLoop, CancelledKeepsLoop, FinalMessageKeepsLoop, TextDoneKeepsLoop,
     ArgumentsDoneKeepsLoop, ResponseCompletedKeepsLoop, RunToolsKeepsLoop, SaveRoundKeepsLoop, SavePairKeepsLoop
     DEF LoopNext

\* What is stored of a turn can be sent again whatever ended the turn, what
\* Claude is sent pairs up, and no half call is run (anthropic_provider.ts,
\* openai_provider.ts).
THEOREM LoopIsSafe == LoopSpec => []LoopSafety
<1>1. LoopInv => LoopSafety
  BY DEF LoopInv, SentInv, ReplayInv, CallsInv, LoopSafety, ReplaysAsAsked, RequestsPairUp, NoHalfCallRuns
<1>2. QED
  BY <1>1, InitLoop, LoopKeeps, PTL DEF LoopSpec
=============================================================================
