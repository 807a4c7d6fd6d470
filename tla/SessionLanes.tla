---------------------------- MODULE SessionLanes ----------------------------
(***************************************************************************)
(* The lane of ONE chat session (src/core/runtime/session_lanes.ts).       *)
(*                                                                         *)
(* A turn (one model run of the session) is served by a process (cluster   *)
(* worker).  Inside a process the lane is a chain of promises: a turn      *)
(* waits for the promise found in `tails` when it arrived.  With Redis the *)
(* turn also takes a lock, renewed while the turn runs and freed by its    *)
(* time to live when the process dies.                                     *)
(*                                                                         *)
(* The promise chain.  tail(t) = previous(t).then(() => mine(t)), so it is *)
(* settled once `mine` of t and of every turn chained before t is          *)
(* released.  behind[t] is that set of earlier turns, fixed on arrival.    *)
(* Sessions share nothing, so one session stands for all of them.          *)
(***************************************************************************)
EXTENDS Integers, FiniteSets

CONSTANTS
  Procs,         \* the processes serving the session
  Turns,         \* the turns that may ever ask for the lane (bounds the model)
  Cap,           \* turns allowed to wait behind the running one
  UseRedis,      \* is REDIS_URL set?
  RedisMayFail,  \* may a Redis command fail or lose its reply?
  LockMayLapse,  \* may renewals come later than the lock's time to live?
  MayCrash,      \* may a process die?
  NoTurn         \* not a turn: no tail, no lock owner

ASSUME LaneAssumption ==
  /\ IsFiniteSet(Turns)
  /\ NoTurn \notin Turns
  /\ Cap \in Nat
  /\ {UseRedis, RedisMayFail, LockMayLapse, MayCrash} \subseteq BOOLEAN

VARIABLES
  pc,        \* progress of each turn through acquire() and release()
  at,        \* the process serving the turn
  behind,    \* the turns whose `mine` the turn's `previous` stands for
  released,  \* turns whose `mine` is released
  tails,     \* per process: the owner of the last tail, or NoTurn
  depth,     \* per process: turns queued or running
  lock,      \* the turn whose token the Redis key holds, or NoTurn
  renewing,  \* turns whose renewal timer runs
  unlocking, \* turns whose release script is on its way to Redis
  cut        \* history: processes whose tail was forgotten with turns left

vars == <<pc, at, behind, released, tails, depth, lock, renewing, unlocking,
          cut>>

\* "locking": the first SET is on its way; "polling": it found the key taken.
Phases == {"new", "waiting", "locking", "polling", "running", "over", "full",
           "crashed"}

\* Counted in `depth`: between acquire() and finish().
Live(t) == pc[t] \in {"waiting", "locking", "polling", "running"}
PastWait(t) == pc[t] \in {"locking", "polling", "running"}

Init ==
  /\ pc = [t \in Turns |-> "new"]
  /\ at \in [Turns -> Procs]
  /\ behind = [t \in Turns |-> {}]
  /\ released = {}
  /\ tails = [p \in Procs |-> NoTurn]
  /\ depth = [p \in Procs |-> 0]
  /\ lock = NoTurn
  /\ renewing = {}
  /\ unlocking = {}
  /\ cut = {}

-----------------------------------------------------------------------------
\* acquire() up to its first await: refuse the turn or put it last in the lane.
Acquire(t) ==
  LET p == at[t] IN
  /\ pc[t] = "new"
  /\ \/ /\ depth[p] > Cap
        /\ pc' = [pc EXCEPT ![t] = "full"]
        /\ UNCHANGED <<behind, tails, depth>>
     \/ /\ depth[p] <= Cap
        /\ pc' = [pc EXCEPT ![t] = "waiting"]
        /\ behind' = [behind EXCEPT ![t] =
             IF tails[p] = NoTurn THEN {} ELSE behind[tails[p]] \union {tails[p]}]
        /\ tails' = [tails EXCEPT ![p] = t]
        /\ depth' = [depth EXCEPT ![p] = @ + 1]
  /\ UNCHANGED <<at, released, lock, renewing, unlocking, cut>>

\* Faulty variants of finish(), for mutation checks: count out twice, drop
\* whatever tail is there, forget to settle `mine`.
FinishCountsTwice(t) ==
  /\ released' = released \union {t}
  /\ depth' = [depth EXCEPT ![at[t]] = @ - 2]
  /\ tails' = [tails EXCEPT ![at[t]] = IF @ = t THEN NoTurn ELSE @]
  /\ UNCHANGED cut

FinishDropsTail(t) ==
  /\ released' = released \union {t}
  /\ depth' = [depth EXCEPT ![at[t]] = @ - 1]
  /\ tails' = [tails EXCEPT ![at[t]] = NoTurn]
  /\ UNCHANGED cut

FinishUnsettled(t) ==
  /\ depth' = [depth EXCEPT ![at[t]] = @ - 1]
  /\ tails' = [tails EXCEPT ![at[t]] = IF @ = t THEN NoTurn ELSE @]
  /\ UNCHANGED <<released, cut>>

\* finish(): settle `mine`, leave the count, forget the tail if it is t's own.
Finish(t) ==
  LET p == at[t] IN
  /\ released' = released \union {t}
  /\ depth' = [depth EXCEPT ![p] = IF @ <= 1 THEN 0 ELSE @ - 1]
  /\ tails' = [tails EXCEPT ![p] = IF @ = t THEN NoTurn ELSE @]
  /\ cut' = IF tails[p] = t /\ \E u \in Turns \ {t} : at[u] = p /\ Live(u)
            THEN cut \union {p} ELSE cut

\* waitFor(), or the sleep between two polls of lockRedis(), rejects: the
\* caller aborted or waited too long.
GiveUp(t) ==
  /\ pc[t] \in {"waiting", "polling"}
  /\ pc' = [pc EXCEPT ![t] = "over"]
  /\ Finish(t)
  /\ UNCHANGED <<at, behind, lock, renewing, unlocking>>

\* `previous` is settled: go on to the Redis lock, or run when there is none.
MyGo(t) ==
  /\ pc[t] = "waiting"
  /\ behind[t] \subseteq released
  /\ pc' = [pc EXCEPT ![t] = IF UseRedis THEN "locking" ELSE "running"]
  /\ UNCHANGED <<at, behind, released, tails, depth, lock, renewing, unlocking,
                 cut>>

\* SET key token PX ttl NX finds the key taken; it is tried again later.
LockBusy(t) ==
  /\ pc[t] = "locking"
  /\ lock # NoTurn
  /\ pc' = [pc EXCEPT ![t] = "polling"]
  /\ UNCHANGED <<at, behind, released, tails, depth, lock, renewing, unlocking,
                 cut>>

\* SET succeeds; the renewal timer starts.
TakeLock(t) ==
  /\ pc[t] \in {"locking", "polling"}
  /\ lock = NoTurn
  /\ pc' = [pc EXCEPT ![t] = "running"]
  /\ lock' = t
  /\ renewing' = renewing \union {t}
  /\ UNCHANGED <<at, behind, released, tails, depth, unlocking, cut>>

\* Redis fails in lockRedis(): the turn runs under the in-process lane alone.
\* The SET may have been executed with only its reply lost.
LockUnavailable(t) ==
  /\ RedisMayFail
  /\ pc[t] \in {"locking", "polling"}
  /\ pc' = [pc EXCEPT ![t] = "running"]
  /\ lock' \in IF lock = NoTurn THEN {t, NoTurn} ELSE {lock}
  /\ UNCHANGED <<at, behind, released, tails, depth, renewing, unlocking, cut>>

\* release(): stop renewing, send the release script, finish().
Release(t) ==
  /\ pc[t] = "running"
  /\ pc' = [pc EXCEPT ![t] = "over"]
  /\ Finish(t)
  /\ renewing' = renewing \ {t}
  /\ unlocking' = IF t \in renewing THEN unlocking \union {t} ELSE unlocking
  /\ UNCHANGED <<at, behind, lock>>

\* Faulty variant: delete the key without comparing the token.
UnlockedAnyOwner(t) ==
  /\ t \in unlocking
  /\ unlocking' = unlocking \ {t}
  /\ lock' = NoTurn
  /\ UNCHANGED <<pc, at, behind, released, tails, depth, renewing, cut>>

\* The release script deletes the key if it still holds the turn's token; its
\* failure is swallowed.
Unlocked(t) ==
  /\ t \in unlocking
  /\ unlocking' = unlocking \ {t}
  /\ \/ lock' = IF lock = t THEN NoTurn ELSE lock
     \/ RedisMayFail /\ lock' = lock
  /\ UNCHANGED <<pc, at, behind, released, tails, depth, renewing, cut>>

\* Faulty variant: nobody renews the key.
ExpireUnrenewed ==
  /\ lock # NoTurn
  /\ lock' = NoTurn
  /\ UNCHANGED <<pc, at, behind, released, tails, depth, renewing, unlocking,
                 cut>>

\* The key's time to live ends: nobody renews it, or renewals came too late.
Expire ==
  /\ lock # NoTurn
  /\ lock \notin renewing \/ LockMayLapse
  /\ lock' = NoTurn
  /\ UNCHANGED <<pc, at, behind, released, tails, depth, renewing, unlocking,
                 cut>>

\* A process dies with its maps, its timers and what it had not sent yet.
Crash(p) ==
  LET mine == {t \in Turns : at[t] = p} IN
  /\ MayCrash
  /\ \E t \in mine : Live(t)
  /\ pc' = [t \in Turns |-> IF t \in mine /\ Live(t) THEN "crashed" ELSE pc[t]]
  /\ tails' = [tails EXCEPT ![p] = NoTurn]
  /\ depth' = [depth EXCEPT ![p] = 0]
  /\ renewing' = renewing \ mine
  /\ unlocking' \in {unlocking, unlocking \ mine}
  /\ cut' = cut \ {p}
  /\ UNCHANGED <<at, behind, released, lock>>

Next ==
  \/ \E t \in Turns :
       \/ Acquire(t) \/ GiveUp(t) \/ MyGo(t) \/ LockBusy(t) \/ TakeLock(t)
       \/ LockUnavailable(t) \/ Release(t) \/ Unlocked(t)
  \/ Expire
  \/ \E p \in Procs : Crash(p)

\* Promises settle, the lock is polled until taken, every run ends (the
\* provider call is bounded) and Redis expires keys.  Nobody has to send a
\* turn, to give up or to crash.
Fairness ==
  /\ WF_vars(Expire)
  /\ \A t \in Turns : /\ WF_vars(MyGo(t)) /\ WF_vars(TakeLock(t))
                      /\ WF_vars(Release(t)) /\ WF_vars(Unlocked(t))

Spec == Init /\ [][Next]_vars
FairSpec == Spec /\ Fairness

-----------------------------------------------------------------------------
\* The shape of the state: every map over its keys, every set over the turns.
TypeOK ==
  /\ pc \in [Turns -> Phases]
  /\ at \in [Turns -> Procs]
  /\ behind \in [Turns -> SUBSET Turns]
  /\ released \subseteq Turns
  /\ tails \in [Procs -> Turns \union {NoTurn}]
  /\ depth \in [Procs -> Nat]
  /\ lock \in Turns \union {NoTurn}
  /\ renewing \subseteq Turns
  /\ unlocking \subseteq Turns
  /\ cut \subseteq Procs

\* The rule the module is written for (its header): at most one turn of the
\* session runs at any time, whatever process serves it.
OneTurnAtATime ==
  \A t, u \in Turns : pc[t] = "running" /\ pc[u] = "running" => t = u

\* What the promise chain alone gives, Redis or not ("a FIFO lane; a turn
\* waits for the one before it"): unless the last turn in line gave up with
\* others before it, the turn past the wait arrived before every other one in
\* the lane -- so it is the only one past the wait.
FirstComeFirstServed ==
  \A t, u \in Turns :
    /\ t # u /\ at[t] = at[u] /\ at[t] \notin cut
    /\ PastWait(t) /\ Live(u)
    => t \in behind[u] /\ pc[u] = "waiting"

\* The maps never leak and never undercount, however turns end: depth counts
\* exactly the turns queued or running, and an idle lane keeps no tail.
LaneAccounting ==
  \A p \in Procs :
    LET live == {t \in Turns : at[t] = p /\ Live(t)} IN
    /\ depth[p] = Cardinality(live)
    /\ tails[p] # NoTurn => tails[p] \in live
    /\ depth[p] <= Cap + 1

\* What a lane keeps to even when Redis does not: its order and its counts.
LaneSafety == FirstComeFirstServed /\ LaneAccounting

\* Every turn let into the lane ends its wait: it runs, gives up or dies with
\* its process -- also when a crash or a lost reply left a lock behind.
EveryTurnGetsItsGo ==
  \A t \in Turns : Live(t) ~> pc[t] \in {"running", "over", "crashed"}

\* What callers of acquire() are promised, as a specification of its own.
PhaseOf(t) ==
  CASE pc[t] = "new" -> "outside"
    [] pc[t] \in {"waiting", "locking", "polling"} -> "queued"
    [] pc[t] = "running" -> "running"
    [] OTHER -> "gone"

Promise == INSTANCE SessionTurns WITH phase <- [t \in Turns |-> PhaseOf(t)]

\* The lane, with Redis holding, implements the promise: whatever the chain,
\* the lock and the crashes do, callers see one running turn at a time.
ImplementsPromise == Promise!Spec
=============================================================================
