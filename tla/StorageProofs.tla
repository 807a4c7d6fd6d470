--------------------------- MODULE StorageProofs ----------------------------
(***************************************************************************)
(* Proofs about Watchers, KnowledgeBase, Retrieval and Migrating, the      *)
(* components that MCStorage checks together: for every number of          *)
(* overlapping requests, servers and faults, and on any data.              *)
(***************************************************************************)
EXTENDS Watchers, KnowledgeBase, Retrieval, Migrating, SequenceFacts


\* A content of a page that is watched for any change.
Whole(x) == x # Unset /\ x[1] \notin Ai

(***************************************************************************)
(* The invariant: what a check has read, and what it is about to save, is  *)
(* known to the owner, or is a first look, or will be told before.         *)
(***************************************************************************)
KnownInv ==
  /\ BaselineIsKnown
  /\ \A c \in Checks :
       /\ Whole(w[c].last) => w[c].last \in known
       /\ pc[c] = "ask" => ~Whole(res[c].last)
       /\ pc[c] = "deliver" /\ Whole(res[c].last) => ~res[c].pause
       /\ pc[c] = "save" /\ Whole(res[c].last) =>
            res[c].last \in known \/ w[c].last = Unset

RowType == [target : Targets \union {Unset}, last : Content \union {Unset},
            match : BOOLEAN \union {Unset}, fails : 0 .. PauseAfter]
ResultType == [last : Content \union {Unset}, match : BOOLEAN \union {Unset},
               fails : 0 .. PauseAfter, pause : BOOLEAN]

\* A check at work has read a row, and what it will tell the owner is a
\* content; an edit under way has a target.
WorkInv ==
  /\ \A c \in Checks :
       /\ pc[c] # "idle" => w[c].target \in Targets
       /\ pc[c] = "ask" => res[c].last \in Content
       /\ pc[c] = "deliver" /\ ~res[c].pause => res[c].last \in Content
  /\ \A e \in Editors : before[e] # Unset => input[e] \in Targets

LEMMA WatcherInit == Init => TypeOK /\ WorkInv /\ KnownInv
<1> SUFFICES ASSUME Init PROVE TypeOK /\ WorkInv /\ KnownInv
  OBVIOUS
<1> USE WatcherAssumption DEF Init
<1>1. NoRow \in RowType /\ NoResult \in ResultType
  BY DEF NoRow, NoResult, RowType, ResultType
<1>2. TypeOK
  <2>1. w \in [Checks -> RowType] /\ res \in [Checks -> ResultType]
    BY <1>1
  <2>2. /\ changes \in 0 .. MaxChanges /\ edits \in 0 .. MaxEdits
        /\ faults \in 0 .. MaxFaults /\ fails \in 0 .. PauseAfter
        /\ streak \in 0 .. PauseAfter
    OBVIOUS
  <2>3. /\ before \in [Editors -> Targets \union {Unset}]
        /\ input \in [Editors -> Targets \union {Unset}]
        /\ pc \in [Checks -> {"idle", "read", "fetch", "ask", "deliver", "save"}]
    OBVIOUS
  <2>4. QED
    BY <2>1, <2>2, <2>3 DEF TypeOK, RowType, ResultType
<1>3. WorkInv
  BY DEF WorkInv
<1>4. KnownInv
  BY DEF KnownInv, BaselineIsKnown, Whole, NoRow
<1>5. QED
  BY <1>2, <1>3, <1>4

\* The pieces of TypeOK, by who changes them.
RowOK ==
  /\ status \in {"active", "paused", "deleted"} /\ target \in Targets
  /\ last \in Content \union {Unset} /\ match \in BOOLEAN \union {Unset}
  /\ fails \in 0 .. PauseAfter /\ due \in BOOLEAN
WorldOK ==
  /\ page \in [Targets -> Versions]
  /\ changes \in 0 .. MaxChanges /\ edits \in 0 .. MaxEdits /\ faults \in 0 .. MaxFaults
CheckOK ==
  /\ pc \in [Checks -> {"idle", "read", "fetch", "ask", "deliver", "save"}]
  /\ w \in [Checks -> RowType] /\ res \in [Checks -> ResultType]
  /\ overlapped \in BOOLEAN
EditOK ==
  /\ before \in [Editors -> Targets \union {Unset}]
  /\ input \in [Editors -> Targets \union {Unset}]
HistoryOK ==
  /\ known \subseteq Content
  /\ armed \in BOOLEAN /\ doubled \in BOOLEAN /\ streak \in 0 .. PauseAfter

LEMMA TypeParts == TypeOK <=> RowOK /\ WorldOK /\ CheckOK /\ EditOK /\ HistoryOK
BY DEF TypeOK, RowOK, WorldOK, CheckOK, EditOK, HistoryOK, RowType, ResultType

LEMMA BlankTypes == NoRow \in RowType /\ NoResult \in ResultType
BY WatcherAssumption DEF NoRow, NoResult, RowType, ResultType

\* check() never counts beyond the failures that pause a watcher.
LEMMA OneMoreType == \A n \in 0 .. PauseAfter : OneMore(n) \in 0 .. PauseAfter
BY WatcherAssumption DEF OneMore

\* Reading the row, and leaving the check.
LEMMA ReadType ==
  ASSUME TypeOK, NEW c \in Checks, ReadRow(c), NEW l \in {"read", "fetch"}, Goto(c, l)
  PROVE  CheckOK'
<1> DEFINE r == [target |-> target, last |-> last, match |-> match, fails |-> fails]
<1>1. r \in RowType
  BY DEF TypeOK, RowType
<1>2. w' = [w EXCEPT ![c] = r] /\ res' = res
  BY DEF ReadRow
<1>3. overlapped' \in BOOLEAN
  BY DEF ReadRow, TypeOK, Checking
<1>4. w' \in [Checks -> RowType] /\ res' \in [Checks -> ResultType]
  BY <1>1, <1>2, TypeParts DEF CheckOK
<1>5. QED
  BY <1>3, <1>4 DEF CheckOK, Goto, TypeOK

LEMMA LeaveType ==
  ASSUME TypeOK, NEW c \in Checks, Leave(c)
  PROVE  CheckOK'
BY TypeParts, BlankTypes DEF Leave, Goto, CheckOK

LEMMA SettleType ==
  ASSUME TypeOK, NEW c \in Checks, NEW r \in ResultType, NEW alert, Settle(c, r, alert)
  PROVE  CheckOK'
BY TypeParts DEF Settle, Goto, CheckOK, check

LEMMA FailedType ==
  ASSUME TypeOK, NEW c \in Checks, Failed(c)
  PROVE  CheckOK' /\ HistoryOK'
<1> DEFINE n == OneMore(w[c].fails)
           r == [last |-> Unset, match |-> w[c].match, fails |-> n, pause |-> n = PauseAfter]
<1>1. w[c] \in RowType
  BY TypeParts DEF CheckOK
<1>2. w[c].fails \in 0 .. PauseAfter /\ w[c].match \in BOOLEAN \union {Unset}
  BY <1>1 DEF RowType
<1>3. n \in 0 .. PauseAfter /\ (n = PauseAfter) \in BOOLEAN
  BY <1>2, OneMoreType
<1> HIDE DEF n
<1>4. r \in ResultType
  BY <1>2, <1>3 DEF ResultType
<1>5. Settle(c, r, n = PauseAfter)
  BY DEF Failed, n
<1>6. CheckOK'
  BY <1>4, <1>5, SettleType
<1>7. HistoryOK'
  BY OneMoreType DEF Failed, HistoryOK, TypeOK
<1>8. QED
  BY <1>6, <1>7

LEMMA FoundType ==
  ASSUME NEW got \in Content \union {Unset}, NEW holds \in BOOLEAN \union {Unset}
  PROVE  Found(got, holds) \in ResultType
BY WatcherAssumption DEF Found, ResultType

\* Every step keeps the shape of the state.
LEMMA WatcherType == TypeOK /\ WorkInv /\ [Next]_vars => TypeOK'
<1> SUFFICES ASSUME TypeOK, WorkInv, [Next]_vars PROVE TypeOK'
  OBVIOUS
<1> USE WatcherAssumption
<1>1. RowOK /\ WorldOK /\ CheckOK /\ EditOK /\ HistoryOK
  BY TypeParts
<1>2. (RowOK /\ WorldOK /\ CheckOK /\ EditOK /\ HistoryOK)' => TypeOK'
  BY DEF TypeOK, RowOK, WorldOK, CheckOK, EditOK, HistoryOK, RowType, ResultType
<1>3. UNCHANGED check => CheckOK'
  BY <1>1 DEF CheckOK, check
<1>4. UNCHANGED world => WorldOK'
  BY <1>1 DEF WorldOK, world
<1>5. UNCHANGED edit => EditOK'
  BY <1>1 DEF EditOK, edit
<1>6. UNCHANGED history => HistoryOK'
  BY <1>1 DEF HistoryOK, history
<1>7. UNCHANGED row => RowOK'
  BY <1>1 DEF RowOK, row
<1>8. Owner => WorldOK'
  BY <1>1 DEF Owner, WorldOK
<1>9. ASSUME NEW e \in Editors, BeginEdit(e) PROVE TypeOK'
  <2>1. EditOK'
    BY <1>1, <1>9 DEF BeginEdit, EditOK, RowOK
  <2>2. QED
    BY <1>2, <1>3, <1>6, <1>7, <1>8, <1>9, <2>1 DEF BeginEdit
<1>10. ASSUME NEW e \in Editors, ApplyEdit(e) PROVE TypeOK'
  <2>1. EditOK'
    BY <1>1, <1>10 DEF ApplyEdit, EditOK
  <2>2. input[e] \in Targets
    BY <1>10 DEF ApplyEdit, WorkInv
  <2>3. UNCHANGED <<world, check>>
    BY <1>10 DEF ApplyEdit
  <2>4. CASE /\ target' = input[e]
             /\ last' = Unset /\ match' = Unset /\ fails' = 0 /\ due' = TRUE
             /\ armed' = TRUE /\ streak' = 0
             /\ UNCHANGED <<status, known, doubled>>
    <3>1. RowOK'
      BY <1>1, <2>2, <2>4 DEF RowOK
    <3>2. HistoryOK'
      BY <1>1, <2>4 DEF HistoryOK
    <3>3. QED
      BY <1>2, <1>3, <1>4, <2>1, <2>3, <3>1, <3>2
  <2>5. CASE /\ target' = input[e] /\ armed' = (armed \/ target' # target)
             /\ UNCHANGED <<status, last, match, fails, due, known, doubled, streak>>
    <3>1. RowOK'
      BY <1>1, <2>2, <2>5 DEF RowOK
    <3>2. HistoryOK'
      BY <1>1, <2>5 DEF HistoryOK
    <3>3. QED
      BY <1>2, <1>3, <1>4, <2>1, <2>3, <3>1, <3>2
  <2>6. CASE UNCHANGED <<row, history>>
    BY <1>2, <1>3, <1>4, <1>6, <1>7, <2>1, <2>3, <2>6
  <2>7. QED
    BY <1>10, <2>4, <2>5, <2>6 DEF ApplyEdit
<1>11. CASE SetWatcherStatus
  <2>1. RowOK' /\ HistoryOK'
    BY <1>1, <1>11 DEF SetWatcherStatus, RowOK, HistoryOK
  <2>2. QED
    BY <1>2, <1>3, <1>5, <1>8, <1>11, <2>1 DEF SetWatcherStatus
<1>12. CASE DeleteWatcher
  <2>1. RowOK'
    BY <1>1, <1>12 DEF DeleteWatcher, RowOK
  <2>2. QED
    BY <1>2, <1>3, <1>5, <1>6, <1>8, <1>12, <2>1 DEF DeleteWatcher
<1>13. CASE ComesDue
  <2>1. RowOK'
    BY <1>1, <1>13 DEF ComesDue, RowOK
  <2>2. QED
    BY <1>2, <1>3, <1>4, <1>5, <1>6, <1>13, <2>1 DEF ComesDue
<1>14. ASSUME NEW t \in Targets, PageChanges(t) PROVE TypeOK'
  <2>1. WorldOK'
    BY <1>1, <1>14 DEF PageChanges, WorldOK
  <2>2. QED
    BY <1>2, <1>3, <1>5, <1>6, <1>7, <1>14, <2>1 DEF PageChanges
<1>15. ASSUME NEW c \in Checks, ClaimDueWatchers(c) PROVE TypeOK'
  <2>1. CheckOK'
    BY <1>15, ReadType DEF ClaimDueWatchers
  <2>2. RowOK'
    BY <1>1, <1>15 DEF ClaimDueWatchers, ReadRow, RowOK
  <2>3. QED
    BY <1>2, <1>4, <1>5, <1>6, <1>15, <2>1, <2>2 DEF ClaimDueWatchers, ReadRow
<1>16. ASSUME NEW c \in Checks, CheckNow(c) PROVE TypeOK'
  <2>1. CheckOK'
    BY <1>16, ReadType DEF CheckNow
  <2>2. RowOK'
    BY <1>1, <1>16 DEF CheckNow, ReadRow, RowOK
  <2>3. QED
    BY <1>2, <1>4, <1>5, <1>6, <1>16, <2>1, <2>2 DEF CheckNow, ReadRow
<1>17. ASSUME NEW c \in Checks, BeginCheckNow(c) PROVE TypeOK'
  <2>1. CASE Leave(c)
    BY <1>2, <1>4, <1>5, <1>6, <1>7, <1>17, <2>1, LeaveType DEF BeginCheckNow
  <2>2. CASE Goto(c, "fetch") /\ UNCHANGED <<w, res, overlapped>>
    <3>1. CheckOK'
      BY <1>1, <2>2 DEF Goto, CheckOK
    <3>2. QED
      BY <1>2, <1>4, <1>5, <1>6, <1>7, <1>17, <3>1 DEF BeginCheckNow
  <2>3. QED
    BY <1>17, <2>1, <2>2 DEF BeginCheckNow
<1>18. ASSUME NEW c \in Checks, Failed(c) PROVE TypeOK'
  <2>1. UNCHANGED <<row, world, edit>>
    BY <1>18 DEF Failed, Settle
  <2>2. QED
    BY <1>2, <1>4, <1>5, <1>7, <1>18, <2>1, FailedType
<1>19. ASSUME NEW c \in Checks, NEW r \in ResultType, NEW alert,
              Settle(c, r, alert), UNCHANGED history
       PROVE  TypeOK'
  <2>1. UNCHANGED <<row, world, edit>>
    BY <1>19 DEF Settle
  <2>2. QED
    BY <1>2, <1>4, <1>5, <1>6, <1>7, <1>19, <2>1, SettleType
<1>20. ASSUME NEW c \in Checks, Fetch(c) PROVE TypeOK'
  <2> DEFINE t == w[c].target
             got == <<t, page[t]>>
  <2>1. t \in Targets /\ got \in Content
    BY <1>1, <1>20 DEF Fetch, WorkInv, WorldOK, Content
  <2> HIDE DEF got
  <2>2. Found(got, Unset) \in ResultType
    BY <2>1, FoundType
  <2>3. CASE Failed(c)
    BY <1>18, <2>3
  <2>4. CASE Settle(c, Found(got, Unset), w[c].last \notin {Unset, got}) /\ UNCHANGED history
    BY <1>19, <2>2, <2>4
  <2>5. CASE /\ res' = [res EXCEPT ![c] = Found(got, Unset)]
             /\ Goto(c, "ask")
             /\ UNCHANGED <<row, world, w, overlapped, edit, history>>
    <3>1. CheckOK'
      BY <1>1, <2>2, <2>5 DEF Goto, CheckOK
    <3>2. QED
      BY <1>2, <1>4, <1>5, <1>6, <1>7, <2>5, <3>1
  <2>6. QED
    BY <1>20, <2>3, <2>4, <2>5 DEF Fetch, got
<1>21. ASSUME NEW c \in Checks, Ask(c) PROVE TypeOK'
  <2> DEFINE yes == res[c].last[2] \in Holds
  <2>1. res[c].last \in Content /\ yes \in BOOLEAN
    BY <1>21 DEF Ask, WorkInv
  <2> HIDE DEF yes
  <2>2. Found(res[c].last, yes) \in ResultType
    BY <2>1, FoundType
  <2>3. Failed(c) \/ (Settle(c, Found(res[c].last, yes), yes /\ w[c].match # TRUE)
                      /\ UNCHANGED history)
    BY <1>21 DEF Ask, yes
  <2>4. QED
    BY <1>18, <1>19, <2>2, <2>3
<1>22. ASSUME NEW c \in Checks, Deliver(c) PROVE TypeOK'
  <2>1. CheckOK'
    BY <1>1, <1>22 DEF Deliver, Goto, CheckOK
  <2>2. known' \subseteq Content
    BY <1>1, <1>22 DEF Deliver, Told, WorkInv, HistoryOK
  <2>3. armed' \in BOOLEAN /\ doubled' \in BOOLEAN
    BY <1>1, <1>22 DEF Deliver, Told, HistoryOK
  <2>4. HistoryOK'
    BY <1>1, <1>22, <2>2, <2>3 DEF Deliver, HistoryOK
  <2>5. QED
    BY <1>2, <1>4, <1>5, <1>7, <1>22, <2>1, <2>4 DEF Deliver
<1>23. ASSUME NEW c \in Checks, SaveCheck(c) PROVE TypeOK'
  <2>1. CheckOK'
    BY <1>23, LeaveType DEF SaveCheck
  <2>2. res[c] \in ResultType /\ w[c] \in RowType
    BY <1>1 DEF CheckOK
  <2>3. /\ res[c].last \in Content \union {Unset} /\ res[c].fails \in 0 .. PauseAfter
        /\ res[c].match \in BOOLEAN \union {Unset}
    BY <2>2 DEF ResultType
  <2>4. RowOK'
    BY <1>1, <1>23, <2>3 DEF SaveCheck, RowOK
  <2>5. HistoryOK'
    <3>1. CASE Saved(c)
      <4>1. known' \subseteq Content
        BY <1>1, <2>3, <3>1 DEF Saved, HistoryOK
      <4>2. armed' \in BOOLEAN /\ streak' \in 0 .. PauseAfter /\ doubled' \in BOOLEAN
        BY <1>1, <3>1 DEF Saved, HistoryOK
      <4>3. QED
        BY <4>1, <4>2 DEF HistoryOK
    <3>2. CASE UNCHANGED history
      BY <1>6, <3>2
    <3>3. QED
      BY <1>23, <3>1, <3>2 DEF SaveCheck
  <2>6. QED
    BY <1>2, <1>4, <1>5, <1>23, <2>1, <2>4, <2>5 DEF SaveCheck
<1>24. ASSUME NEW c \in Checks, Lost(c) PROVE TypeOK'
  <2>1. CheckOK'
    BY <1>24, LeaveType DEF Lost
  <2>2. WorldOK'
    BY <1>1, <1>24 DEF Lost, WorldOK
  <2>3. QED
    BY <1>2, <1>5, <1>6, <1>7, <1>24, <2>1, <2>2 DEF Lost
<1>25. CASE UNCHANGED vars
  BY <1>2, <1>3, <1>4, <1>5, <1>6, <1>7, <1>25 DEF vars
<1>26. QED
  BY <1>9, <1>10, <1>11, <1>12, <1>13, <1>14, <1>15, <1>16, <1>17, <1>20, <1>21,
     <1>22, <1>23, <1>24, <1>25
  DEF Next, Step

\* A check at work keeps having a row, and an edit its target.
LEMMA WorkStep == TypeOK /\ WorkInv /\ [Next]_vars => WorkInv'
<1> SUFFICES ASSUME TypeOK, WorkInv, [Next]_vars PROVE WorkInv'
  OBVIOUS
<1> USE WatcherAssumption DEF WorkInv
<1>1. \A c \in Checks : \A x : Goto(c, x) => pc' = [pc EXCEPT ![c] = x]
  BY DEF Goto
<1>2. pc \in [Checks -> {"idle", "read", "fetch", "ask", "deliver", "save"}]
      /\ DOMAIN w = Checks /\ DOMAIN res = Checks
  BY DEF TypeOK
<1>3. UNCHANGED <<check, edit>> => WorkInv'
  BY DEF check, edit
<1>4. ASSUME NEW e \in Editors, BeginEdit(e) PROVE WorkInv'
  BY <1>4 DEF BeginEdit, TypeOK, check
<1>5. ASSUME NEW e \in Editors, ApplyEdit(e) PROVE WorkInv'
  <2>1. before' = [before EXCEPT ![e] = Unset] /\ input' = [input EXCEPT ![e] = Unset]
    BY <1>5 DEF ApplyEdit
  <2>2. UNCHANGED check
    BY <1>5 DEF ApplyEdit
  <2>3. QED
    BY <2>1, <2>2 DEF TypeOK, check
<1>6. CASE SetWatcherStatus \/ DeleteWatcher \/ ComesDue \/ \E t \in Targets : PageChanges(t)
  BY <1>3, <1>6 DEF SetWatcherStatus, DeleteWatcher, ComesDue, PageChanges
<1>7. ASSUME NEW c \in Checks, ReadRow(c), NEW l \in {"read", "fetch"}, Goto(c, l)
      PROVE  WorkInv'
  BY <1>1, <1>2, <1>7 DEF ReadRow, TypeOK, edit
<1>8. ASSUME NEW c \in Checks, Leave(c), UNCHANGED edit PROVE WorkInv'
  BY <1>1, <1>2, <1>8 DEF Leave, edit
<1>9. ASSUME NEW c \in Checks, BeginCheckNow(c) PROVE WorkInv'
  <2>1. CASE Goto(c, "fetch") /\ UNCHANGED <<w, res, overlapped>>
    BY <1>1, <1>2, <1>9, <2>1 DEF BeginCheckNow, edit
  <2>2. QED
    BY <1>8, <1>9, <2>1 DEF BeginCheckNow
<1>10. ASSUME NEW c \in Checks, NEW r, NEW alert, Settle(c, r, alert), pc[c] # "idle",
              alert => r.pause \/ r.last \in Content
       PROVE  WorkInv'
  BY <1>1, <1>2, <1>10 DEF Settle, edit
<1>11. ASSUME NEW c \in Checks, Failed(c), pc[c] # "idle" PROVE WorkInv'
  <2> DEFINE n == OneMore(w[c].fails)
  <2> HIDE DEF n
  <2>1. Settle(c, [last |-> Unset, match |-> w[c].match, fails |-> n,
                   pause |-> n = PauseAfter], n = PauseAfter)
    BY <1>11 DEF Failed, n
  <2>2. QED
    BY <1>10, <1>11, <2>1
<1>12. ASSUME NEW c \in Checks, Fetch(c) PROVE WorkInv'
  <2> DEFINE t == w[c].target
             got == <<t, page[t]>>
  <2>1. got \in Content /\ w[c].target \in Targets
    BY <1>12 DEF Fetch, TypeOK, Content
  <2> HIDE DEF got
  <2>2. CASE Settle(c, Found(got, Unset), w[c].last \notin {Unset, got})
    BY <1>10, <1>12, <2>1, <2>2 DEF Fetch, Found
  <2>3. CASE /\ res' = [res EXCEPT ![c] = Found(got, Unset)]
             /\ Goto(c, "ask")
             /\ UNCHANGED <<row, world, w, overlapped, edit, history>>
    BY <1>1, <1>2, <2>1, <2>3 DEF Found, edit
  <2>4. QED
    BY <1>11, <1>12, <2>2, <2>3 DEF Fetch, got
<1>13. ASSUME NEW c \in Checks, Ask(c) PROVE WorkInv'
  <2> DEFINE yes == res[c].last[2] \in Holds
  <2> HIDE DEF yes
  <2>1. CASE Settle(c, Found(res[c].last, yes), yes /\ w[c].match # TRUE)
    BY <1>10, <1>13, <2>1 DEF Ask, Found
  <2>2. QED
    BY <1>11, <1>13, <2>1 DEF Ask, yes
<1>14. ASSUME NEW c \in Checks, Deliver(c) PROVE WorkInv'
  BY <1>1, <1>2, <1>14 DEF Deliver, edit
<1>15. ASSUME NEW c \in Checks, SaveCheck(c) \/ Lost(c) PROVE WorkInv'
  BY <1>8, <1>15 DEF SaveCheck, Lost
<1>16. CASE UNCHANGED vars
  BY <1>3, <1>16 DEF vars
<1>17. QED
  BY <1>4, <1>5, <1>6, <1>7, <1>9, <1>12, <1>13, <1>14, <1>15, <1>16
  DEF Next, Step, ClaimDueWatchers, CheckNow

\* What the owner knows is never forgotten.
LEMMA KnownGrows == [Next]_vars => known \subseteq known'
<1> SUFFICES ASSUME [Next]_vars PROVE known \subseteq known'
  OBVIOUS
<1> USE DEF history
<1>1. ASSUME NEW e \in Editors, BeginEdit(e) \/ ApplyEdit(e) PROVE known \subseteq known'
  BY <1>1 DEF BeginEdit, ApplyEdit
<1>2. CASE SetWatcherStatus \/ DeleteWatcher \/ ComesDue \/ \E t \in Targets : PageChanges(t)
  BY <1>2 DEF SetWatcherStatus, DeleteWatcher, ComesDue, PageChanges
<1>3. ASSUME NEW c \in Checks,
             ClaimDueWatchers(c) \/ CheckNow(c) \/ BeginCheckNow(c) \/ Lost(c)
      PROVE  known \subseteq known'
  BY <1>3 DEF ClaimDueWatchers, CheckNow, BeginCheckNow, ReadRow, Lost
<1>4. ASSUME NEW c \in Checks, Fetch(c) \/ Ask(c) PROVE known \subseteq known'
  BY <1>4 DEF Fetch, Ask, Failed
<1>5. ASSUME NEW c \in Checks, Deliver(c) \/ SaveCheck(c) PROVE known \subseteq known'
  BY <1>5 DEF Deliver, Told, SaveCheck, Saved
<1>6. CASE UNCHANGED vars
  BY <1>6 DEF vars
<1>7. QED
  BY <1>1, <1>2, <1>3, <1>4, <1>5, <1>6 DEF Next, Step

\* Every step keeps the invariant.
LEMMA KnownStep == TypeOK /\ WorkInv /\ KnownInv /\ [Next]_vars => KnownInv'
<1> SUFFICES ASSUME TypeOK, WorkInv, KnownInv, [Next]_vars PROVE KnownInv'
  OBVIOUS
<1> USE WatcherAssumption DEF KnownInv, BaselineIsKnown, Whole
<1>1. known \subseteq known'
  BY KnownGrows
<1>2. /\ pc \in [Checks -> {"idle", "read", "fetch", "ask", "deliver", "save"}]
      /\ DOMAIN w = Checks /\ DOMAIN res = Checks
  BY DEF TypeOK
<1>3. UNCHANGED <<check, last>> => KnownInv'
  BY <1>1 DEF check
<1>4. ASSUME NEW e \in Editors, BeginEdit(e) PROVE KnownInv'
  BY <1>3, <1>4 DEF BeginEdit, row
<1>5. ASSUME NEW e \in Editors, ApplyEdit(e) PROVE KnownInv'
  <2>1. (last' = Unset \/ last' = last) /\ UNCHANGED check
    BY <1>5 DEF ApplyEdit, row
  <2>2. QED
    BY <1>1, <2>1 DEF check
<1>6. CASE SetWatcherStatus \/ DeleteWatcher \/ ComesDue \/ \E t \in Targets : PageChanges(t)
  BY <1>3, <1>6 DEF SetWatcherStatus, DeleteWatcher, ComesDue, PageChanges, row
<1>7. ASSUME NEW c \in Checks, ReadRow(c), NEW l \in {"read", "fetch"}, Goto(c, l)
      PROVE  KnownInv'
  <2>1. w'[c].last = last /\ last' = last /\ res' = res /\ pc'[c] = l
    BY <1>2, <1>7 DEF ReadRow, Goto
  <2>2. \A d \in Checks : d # c => pc'[d] = pc[d] /\ w'[d] = w[d]
    BY <1>2, <1>7 DEF ReadRow, Goto
  <2>3. QED
    BY <1>1, <2>1, <2>2
<1>8. ASSUME NEW c \in Checks, Leave(c), Whole(last') => last' \in known' PROVE KnownInv'
  <2>1. w'[c].last = Unset /\ pc'[c] = "idle"
    BY <1>2, <1>8 DEF Leave, Goto, NoRow
  <2>2. \A d \in Checks : d # c => pc'[d] = pc[d] /\ w'[d] = w[d] /\ res'[d] = res[d]
    BY <1>2, <1>8 DEF Leave, Goto
  <2>3. QED
    BY <1>1, <1>8, <2>1, <2>2
<1>9. ASSUME NEW c \in Checks, BeginCheckNow(c) PROVE KnownInv'
  <2>1. CASE Goto(c, "fetch") /\ UNCHANGED <<w, res, overlapped>>
    BY <1>1, <1>2, <1>9, <2>1 DEF BeginCheckNow, Goto, row
  <2>2. CASE Leave(c)
    BY <1>1, <1>8, <1>9, <2>2 DEF BeginCheckNow, row
  <2>3. QED
    BY <1>9, <2>1, <2>2 DEF BeginCheckNow
<1>10. ASSUME NEW c \in Checks, NEW r, NEW alert \in BOOLEAN, Settle(c, r, alert),
              Whole(r.last) => /\ ~r.pause
                               /\ ~alert => r.last \in known \/ w[c].last = Unset
       PROVE  KnownInv'
  <2>1. /\ res'[c] = r /\ pc'[c] = (IF alert THEN "deliver" ELSE "save")
        /\ w' = w /\ last' = last
    BY <1>2, <1>10 DEF Settle, Goto, row
  <2>2. \A d \in Checks : d # c => pc'[d] = pc[d] /\ res'[d] = res[d]
    BY <1>2, <1>10 DEF Settle, Goto
  <2>3. QED
    BY <1>1, <1>10, <2>1, <2>2
<1>11. ASSUME NEW c \in Checks, Failed(c) PROVE KnownInv'
  <2> DEFINE n == OneMore(w[c].fails)
  <2> HIDE DEF n
  <2>1. Settle(c, [last |-> Unset, match |-> w[c].match, fails |-> n,
                   pause |-> n = PauseAfter], n = PauseAfter)
    BY <1>11 DEF Failed, n
  <2>2. QED
    BY <1>10, <2>1
<1>12. ASSUME NEW c \in Checks, Fetch(c) PROVE KnownInv'
  <2> DEFINE t == w[c].target
             got == <<t, page[t]>>
  <2>1. got[1] = t /\ got # Unset
    <3>1. got \in Content
      BY <1>12 DEF Fetch, WorkInv, TypeOK, Content
    <3>2. QED
      BY <3>1
  <2> HIDE DEF got
  <2>2. CASE Settle(c, Found(got, Unset), w[c].last \notin {Unset, got})
    <3>1. got \in known \/ w[c].last = Unset \/ got[1] \in Ai \/ w[c].last \notin {Unset, got}
      BY <2>1
    <3>2. (w[c].last \notin {Unset, got}) \in BOOLEAN
      OBVIOUS
    <3>3. Found(got, Unset).last = got /\ ~Found(got, Unset).pause
      BY DEF Found
    <3>4. QED
      BY <1>10, <2>2, <3>1, <3>2, <3>3
  <2>3. CASE /\ t \in Ai
             /\ res' = [res EXCEPT ![c] = Found(got, Unset)]
             /\ Goto(c, "ask")
             /\ UNCHANGED <<row, world, w, overlapped, edit, history>>
    <3>1. ~Whole(res'[c].last) /\ pc'[c] = "ask" /\ last' = last /\ w' = w
      BY <1>2, <2>1, <2>3 DEF Found, Goto, row
    <3>2. \A d \in Checks : d # c => pc'[d] = pc[d] /\ res'[d] = res[d]
      BY <1>2, <2>3 DEF Goto
    <3>3. QED
      BY <1>1, <3>1, <3>2
  <2>4. QED
    BY <1>11, <1>12, <2>2, <2>3 DEF Fetch, got
<1>13. ASSUME NEW c \in Checks, Ask(c) PROVE KnownInv'
  <2> DEFINE yes == res[c].last[2] \in Holds
  <2> HIDE DEF yes
  <2>1. ~Whole(res[c].last)
    BY <1>13 DEF Ask
  <2>2. CASE Settle(c, Found(res[c].last, yes), yes /\ w[c].match # TRUE)
    BY <1>10, <2>1, <2>2 DEF Found
  <2>3. QED
    BY <1>11, <1>13, <2>2 DEF Ask, yes
<1>14. ASSUME NEW c \in Checks, Deliver(c) PROVE KnownInv'
  <2>1. pc'[c] = "save" /\ w' = w /\ res' = res /\ last' = last
    BY <1>2, <1>14 DEF Deliver, Goto, row
  <2>2. Whole(res[c].last) => res[c].last \in known'
    BY <1>14 DEF Deliver, Told
  <2>3. \A d \in Checks : d # c => pc'[d] = pc[d]
    BY <1>2, <1>14 DEF Deliver, Goto
  <2>4. QED
    BY <1>1, <2>1, <2>2, <2>3
<1>15. ASSUME NEW c \in Checks, SaveCheck(c) PROVE KnownInv'
  <2>1. Leave(c) /\ pc[c] = "save"
    BY <1>15 DEF SaveCheck
  <2>2. CASE /\ last' = (IF res[c].last = Unset THEN last ELSE res[c].last)
             /\ Saved(c)
    <3>1. CASE res[c].last = Unset
      BY <1>1, <1>8, <2>1, <2>2, <3>1
    <3>2. CASE res[c].last # Unset
      <4>1. Whole(res[c].last) => res[c].last \in known'
        BY <1>1, <2>1, <2>2, <3>2 DEF Saved
      <4>2. QED
        BY <1>8, <2>1, <2>2, <3>2, <4>1
    <3>3. QED
      BY <3>1, <3>2
  <2>3. CASE UNCHANGED last
    BY <1>1, <1>8, <2>1, <2>3
  <2>4. QED
    BY <1>15, <2>2, <2>3 DEF SaveCheck
<1>16. ASSUME NEW c \in Checks, Lost(c) PROVE KnownInv'
  BY <1>1, <1>8, <1>16 DEF Lost, row
<1>17. CASE UNCHANGED vars
  BY <1>3, <1>17 DEF vars, row
<1>18. QED
  BY <1>4, <1>5, <1>6, <1>7, <1>9, <1>12, <1>13, <1>14, <1>15, <1>16, <1>17
  DEF Next, Step, ClaimDueWatchers, CheckNow

\* The shape of a watcher, the checks and edits under way, and what each of
\* them has still to tell, hold in every state.
THEOREM WatcherInvariant == Spec => [](TypeOK /\ WorkInv /\ KnownInv)
<1>1. TypeOK /\ WorkInv /\ KnownInv /\ [Next]_vars => (TypeOK /\ WorkInv /\ KnownInv)'
  BY WatcherType, WorkStep, KnownStep
<1>2. QED
  BY WatcherInit, <1>1, PTL DEF Spec

\* The shape of the row, the checks and the edits under way is kept by every
\* step of check(), checkNow(), tick() and the owner.
THEOREM WatcherTypeCorrect == Spec => []TypeOK
BY WatcherInvariant, PTL

\* check() alerts before it saves: no change of a page becomes the baseline that
\* the owner was not told of, for any number of overlapping checks and faults.
THEOREM WatcherBaselineIsKnown == Spec => []BaselineIsKnown
<1>1. KnownInv => BaselineIsKnown
  BY DEF KnownInv
<1>2. QED
  BY WatcherInvariant, <1>1, PTL

-----------------------------------------------------------------------------
(***************************************************************************)
(* Alerts, pauses and baselines.  Checks that do not overlap are alone:    *)
(* what such a check has read and found is right about the alert that was  *)
(* sent last and about the failures so far.                                *)
(***************************************************************************)
Alone == ~overlapped => \A c, d \in Checks : pc[c] # "idle" /\ pc[d] # "idle" => c = d

\* A condition that was told of is noted in the row.
RowRight == armed \/ match = TRUE \/ target \notin Ai \/ status = "deleted"

\* What a check has read, will tell and will save fits the last alert.
AlertFits(c) ==
  /\ pc[c] \in {"read", "fetch", "ask"} =>
       \/ armed
       \/ w[c].target \in Ai /\ w[c].match = TRUE
       \/ w[c].target \notin Ai /\ target \notin Ai
  /\ pc[c] = "deliver" =>
       IF res[c].match = TRUE /\ ~res[c].pause THEN armed ELSE armed \/ res[c].match = TRUE \/ target \notin Ai
  /\ pc[c] = "save" =>
       armed \/ res[c].match = TRUE \/ (res[c].match = FALSE /\ ~res[c].pause) \/ target \notin Ai

AlertInv ==
  faults = 0 /\ ~overlapped => ~doubled /\ (\A c \in Checks : AlertFits(c)) /\ (~Checking => RowRight)

\* What a check found belongs to what it was to look at.
SeenInv ==
  \A c \in Checks :
    /\ pc[c] = "ask" => w[c].target \in Ai /\ res[c].last # Unset
    /\ pc[c] \in {"ask", "deliver", "save"} /\ res[c].last # Unset => res[c].last[1] = w[c].target
    /\ pc[c] \in {"deliver", "save"} /\ res[c].last # Unset => res[c].fails = 0

\* A check begins alone, or another is at work with it.
Starts(c) ==
  /\ overlapped' = (overlapped \/ Checking)
  /\ pc[c] = "idle" /\ pc'[c] \in {"read", "fetch"} /\ \A d \in Checks : d # c => pc'[d] = pc[d]
  /\ \A d \in Checks : d # c => w'[d] = w[d]
  /\ status # "deleted" /\ w'[c].target = target /\ w'[c].match = match /\ w'[c].fails = fails
  /\ UNCHANGED <<status, target, last, match, fails, world, res, edit, history>>

\* A check at work goes on.
GoesOnTo(c, to) ==
  /\ pc'[c] = to /\ \A d \in Checks : d # c => pc'[d] = pc[d]
  /\ pc[c] # "idle" /\ overlapped' = overlapped

\* It has a result.
HasResult(c, r, alert) ==
  /\ GoesOnTo(c, IF alert THEN "deliver" ELSE "save") /\ pc[c] \in {"fetch", "ask"}
  /\ res'[c] = r /\ (\A d \in Checks : d # c => res'[d] = res[d]) /\ UNCHANGED <<row, world, w, edit>>

\* Reading the row begins a check.
LEMMA StartsFields ==
  ASSUME TypeOK, NEW c \in Checks, ClaimDueWatchers(c) \/ CheckNow(c)
  PROVE  Starts(c)
<1>1. DOMAIN pc = Checks /\ DOMAIN w = Checks
  BY DEF TypeOK
<1>2. status # "deleted" /\ ReadRow(c) /\ (Goto(c, "read") \/ Goto(c, "fetch"))
  BY DEF ClaimDueWatchers, CheckNow
<1>3. QED
  BY <1>1, <1>2 DEF Starts, ReadRow, Goto

\* Fetching and asking go on, or settle.
LEMMA ResultFields ==
  ASSUME TypeOK, NEW c \in Checks, pc[c] \in {"fetch", "ask"}, NEW r, NEW alert, Settle(c, r, alert)
  PROVE  HasResult(c, r, alert)
BY DEF TypeOK, Settle, Goto, HasResult, GoesOnTo

\* It failed, once more in a row.
FailsNow(c) ==
  /\ UNCHANGED <<known, armed, doubled>> /\ streak' = OneMore(streak)
  /\ HasResult(c, res'[c], res'[c].pause) /\ res'[c].match = w[c].match /\ res'[c].last = Unset
  /\ res'[c].fails = OneMore(w[c].fails) /\ res'[c].pause = (OneMore(w[c].fails) = PauseAfter)

\* It found a content.
FindsNow(c, alert) ==
  /\ UNCHANGED history /\ HasResult(c, res'[c], alert)
  /\ res'[c].last # Unset /\ res'[c].last[1] = w[c].target /\ ~res'[c].pause /\ res'[c].fails = 0

\* A failed check says so.
LEMMA FailedFields ==
  ASSUME TypeOK, NEW c \in Checks, pc[c] \in {"fetch", "ask"}, Failed(c)
  PROVE  FailsNow(c)
<1> DEFINE n == OneMore(w[c].fails)
           r == [last |-> Unset, match |-> w[c].match, fails |-> n, pause |-> n = PauseAfter]
<1> HIDE DEF n
<1>1. Settle(c, r, n = PauseAfter) /\ UNCHANGED <<known, armed, doubled>> /\ streak' = OneMore(streak)
  BY DEF Failed, n
<1>2. r.match = w[c].match /\ r.last = Unset /\ r.fails = n /\ r.pause = (n = PauseAfter)
  OBVIOUS
<1> HIDE DEF r
<1>3. HasResult(c, r, r.pause) /\ res'[c] = r
  BY <1>1, <1>2, ResultFields DEF HasResult
<1>4. QED
  BY <1>1, <1>2, <1>3 DEF FailsNow, n

\* What became of a check that fetched.
LEMMA FetchFields ==
  ASSUME TypeOK, WorkInv, NEW c \in Checks, Fetch(c)
  PROVE  \/ FailsNow(c)
         \/ w[c].target \notin Ai /\ res'[c].match = Unset /\ \E alert \in BOOLEAN : FindsNow(c, alert)
         \/ /\ UNCHANGED <<row, world, w, edit, history>> /\ GoesOnTo(c, "ask") /\ pc[c] = "fetch"
            /\ w[c].target \in Ai /\ res'[c].last # Unset /\ res'[c].last[1] = w[c].target
            /\ \A d \in Checks : d # c => res'[d] = res[d]
<1>0. pc[c] = "fetch" /\ DOMAIN pc = Checks /\ DOMAIN res = Checks
  BY DEF Fetch, TypeOK
<1> DEFINE t == w[c].target
           got == <<t, page[t]>>
           r == Found(got, Unset)
<1>1. got \in Content /\ got[1] = t /\ got # Unset
  BY <1>0, WatcherAssumption DEF WorkInv, TypeOK, Content
<1>2. r.last = got /\ r.match = Unset /\ r.fails = 0 /\ ~ r.pause
  BY DEF Found
<1>3. (w[c].last \notin {Unset, got}) \in BOOLEAN
  OBVIOUS
<1>4. \/ Failed(c)
      \/ t \notin Ai /\ Settle(c, r, w[c].last \notin {Unset, got}) /\ UNCHANGED history
      \/ /\ t \in Ai /\ res' = [res EXCEPT ![c] = r] /\ Goto(c, "ask")
         /\ UNCHANGED <<row, world, w, overlapped, edit, history>>
  BY DEF Fetch
<1> HIDE DEF got, r
<1>5. CASE t \notin Ai /\ Settle(c, r, w[c].last \notin {Unset, got}) /\ UNCHANGED history
  <2>1. HasResult(c, r, w[c].last \notin {Unset, got}) /\ res'[c] = r
    BY <1>0, <1>5, ResultFields DEF HasResult
  <2>2. QED
    BY <1>1, <1>2, <1>3, <1>5, <2>1 DEF FindsNow
<1>6. CASE /\ t \in Ai /\ res' = [res EXCEPT ![c] = r] /\ Goto(c, "ask")
           /\ UNCHANGED <<row, world, w, overlapped, edit, history>>
  BY <1>0, <1>1, <1>2, <1>6 DEF Goto, GoesOnTo
<1>7. QED
  BY <1>0, <1>4, <1>5, <1>6, FailedFields

\* What became of a check that asked.
LEMMA AskFields ==
  ASSUME TypeOK, WorkInv, NEW c \in Checks, Ask(c), res[c].last[1] = w[c].target
  PROVE  \/ FailsNow(c)
         \/ res'[c].match \in BOOLEAN /\ FindsNow(c, res'[c].match = TRUE /\ w[c].match # TRUE)
<1>0. pc[c] = "ask" /\ res[c].last \in Content /\ Unset \notin Content
  BY WatcherAssumption DEF Ask, WorkInv
<1> DEFINE yes == res[c].last[2] \in Holds
           r == Found(res[c].last, yes)
<1>1. yes \in BOOLEAN
  OBVIOUS
<1>2. Failed(c) \/ (Settle(c, r, yes /\ w[c].match # TRUE) /\ UNCHANGED history)
  BY DEF Ask
<1> HIDE DEF yes
<1>3. r.last = res[c].last /\ r.match = yes /\ r.fails = 0 /\ ~ r.pause
  BY DEF Found
<1> HIDE DEF r
<1>4. CASE Settle(c, r, yes /\ w[c].match # TRUE) /\ UNCHANGED history
  <2>1. HasResult(c, r, yes /\ w[c].match # TRUE) /\ res'[c] = r
    BY <1>0, <1>4, ResultFields DEF HasResult
  <2>2. (yes /\ w[c].match # TRUE) = (r.match = TRUE /\ w[c].match # TRUE)
    BY <1>1, <1>3
  <2>3. QED
    BY <1>0, <1>1, <1>3, <1>4, <2>1, <2>2 DEF FindsNow
<1>5. QED
  BY <1>0, <1>2, <1>4, FailedFields

\* A check that leaves, delivers or was refused.
LEMMA MoveFields ==
  ASSUME TypeOK, NEW c \in Checks
  PROVE  /\ \A to : Goto(c, to) /\ pc[c] # "idle" /\ UNCHANGED overlapped => GoesOnTo(c, to)
         /\ Leave(c) /\ pc[c] # "idle" => GoesOnTo(c, "idle") /\ \A d \in Checks : d # c => w'[d] = w[d] /\ res'[d] = res[d]
<1>1. DOMAIN pc = Checks /\ DOMAIN w = Checks /\ DOMAIN res = Checks
  BY DEF TypeOK
<1>2. QED
  BY <1>1 DEF Goto, Leave, GoesOnTo

\* The request to check at once goes on, or is refused beside another check.
GoesAhead(c) ==
  GoesOnTo(c, "fetch") /\ pc[c] = "read" /\ UNCHANGED <<row, world, w, res, edit, history>>
Refused(c) ==
  /\ GoesOnTo(c, "idle") /\ pc[c] = "read" /\ UNCHANGED <<row, world, edit, history>>
  /\ \E d \in Checks : d # c /\ pc[d] # "idle"
  /\ \A d \in Checks : d # c => w'[d] = w[d] /\ res'[d] = res[d]

\* It ends.
Ends(c) == GoesOnTo(c, "idle") /\ \A d \in Checks : d # c => w'[d] = w[d] /\ res'[d] = res[d]

Moves(c) ==
  \/ Starts(c) \/ GoesAhead(c) \/ Refused(c) \/ Fetch(c) \/ Ask(c) \/ (Deliver(c) /\ GoesOnTo(c, "save"))
  \/ (SaveCheck(c) /\ Ends(c)) \/ (Lost(c) /\ Ends(c))

\* What the owner, the page and the clock do to the row.
EditStarts == UNCHANGED <<row, history, faults, changes, page>> /\ \E e \in Editors : BeginEdit(e)
EditEnds == UNCHANGED world /\ \E e \in Editors : ApplyEdit(e)
OwnerActs ==
  /\ UNCHANGED <<target, last, match, faults, before, input, known, armed, doubled>>
  /\ OwnerDuringCheck \/ ~Checking
  /\ status # "deleted"
  /\ \/ fails' = 0 /\ streak' = 0
     \/ status' = "deleted" /\ fails' = fails /\ streak' = streak
TimePasses == UNCHANGED <<status, target, last, match, fails, faults, edit, history>>
Outside == EditStarts \/ EditEnds \/ OwnerActs \/ TimePasses

\* What each step does to the checks, and what it is when it does nothing.
LEMMA CheckSteps ==
  ASSUME TypeOK, WorkInv, SeenInv, [Next]_vars
  PROVE  (UNCHANGED check /\ Outside) \/ \E c \in Checks : Moves(c)
<1>1. CASE UNCHANGED vars
  BY <1>1 DEF vars, check, row, world, Outside, TimePasses
<1>2. ASSUME NEW e \in Editors, BeginEdit(e) \/ ApplyEdit(e) PROVE UNCHANGED check /\ Outside
  BY <1>2 DEF BeginEdit, ApplyEdit, Owner, Outside, EditStarts, EditEnds
<1>3. CASE SetWatcherStatus \/ DeleteWatcher
  BY <1>3 DEF SetWatcherStatus, DeleteWatcher, Owner, Outside, OwnerActs, edit, history
<1>3a. CASE ComesDue \/ \E t \in Targets : PageChanges(t)
  BY <1>3a DEF ComesDue, PageChanges, row, world, Outside, TimePasses
<1>4. ASSUME NEW c \in Checks, BeginCheckNow(c) PROVE Moves(c)
  <2>1. pc[c] = "read" /\ UNCHANGED <<row, world, edit, history>>
    BY <1>4 DEF BeginCheckNow
  <2>2. \/ Leave(c) /\ \E d \in Checks : pc[d] \notin {"idle", "read"}
        \/ Goto(c, "fetch") /\ UNCHANGED <<w, res, overlapped>>
    BY <1>4 DEF BeginCheckNow
  <2>3. QED
    BY <2>1, <2>2, MoveFields DEF Moves, GoesAhead, Refused
<1>5. ASSUME NEW c \in Checks, Deliver(c) PROVE Moves(c)
  BY <1>5, MoveFields DEF Deliver, Moves
<1>6. ASSUME NEW c \in Checks, SaveCheck(c) \/ Lost(c) PROVE Moves(c)
  BY <1>6, MoveFields DEF SaveCheck, Lost, Moves, Ends
<1>7. QED
  BY <1>1, <1>2, <1>3, <1>3a, <1>4, <1>5, <1>6, StartsFields DEF Next, Step, Moves

\* Checks that overlap say so.
LEMMA AloneStep ==
  ASSUME TypeOK, WorkInv, SeenInv, Alone, [Next]_vars
  PROVE  Alone'
<1>1. CASE UNCHANGED check
  BY <1>1 DEF check, Alone
<1>2. ASSUME NEW c \in Checks, Starts(c) PROVE Alone'
  BY <1>2 DEF Starts, Checking, Alone
<1>3. ASSUME NEW c \in Checks, NEW to, GoesOnTo(c, to) PROVE Alone'
  BY <1>3 DEF GoesOnTo, Alone
<1>4. ASSUME NEW c \in Checks, Fetch(c) PROVE Alone'
  BY <1>3, <1>4, FetchFields DEF FailsNow, FindsNow, HasResult
<1>5. ASSUME NEW c \in Checks, Ask(c) PROVE Alone'
  BY <1>3, <1>5, AskFields DEF FailsNow, FindsNow, HasResult, SeenInv, Ask
<1>6. QED
  BY <1>1, <1>2, <1>3, <1>4, <1>5, CheckSteps DEF Moves, GoesAhead, Refused, Ends

\* A check that is at work is the only one.
LEMMA OthersIdle ==
  ASSUME Alone, ~overlapped, NEW c \in Checks, pc[c] # "idle", NEW to, GoesOnTo(c, to)
  PROVE  \A d \in Checks : d # c => pc[d] = "idle" /\ pc'[d] = "idle"
BY DEF Alone, GoesOnTo

\* What is found belongs to what is looked at.
LEMMA SeenStep ==
  ASSUME TypeOK, WorkInv, SeenInv, [Next]_vars
  PROVE  SeenInv'
<1>1. CASE UNCHANGED check
  BY <1>1 DEF check, SeenInv
<1>2. ASSUME NEW c \in Checks, Starts(c) PROVE SeenInv'
  BY <1>2 DEF Starts, SeenInv
<1>3. ASSUME NEW c \in Checks, GoesAhead(c) \/ Refused(c) \/ (SaveCheck(c) /\ Ends(c)) \/ (Lost(c) /\ Ends(c)) PROVE SeenInv'
  BY <1>3 DEF GoesAhead, Refused, Ends, GoesOnTo, SeenInv
<1>4. ASSUME NEW c \in Checks, Deliver(c), GoesOnTo(c, "save") PROVE SeenInv'
  BY <1>4 DEF Deliver, GoesOnTo, SeenInv
<1>5. ASSUME NEW c \in Checks, FailsNow(c) PROVE SeenInv'
  BY <1>5 DEF FailsNow, HasResult, GoesOnTo, SeenInv
<1>6. ASSUME NEW c \in Checks, NEW alert, FindsNow(c, alert) PROVE SeenInv'
  BY <1>6 DEF FindsNow, HasResult, GoesOnTo, SeenInv
<1>7. ASSUME NEW c \in Checks, Fetch(c) PROVE SeenInv'
  BY <1>5, <1>6, <1>7, FetchFields DEF GoesOnTo, SeenInv
<1>8. ASSUME NEW c \in Checks, Ask(c) PROVE SeenInv'
  BY <1>5, <1>6, <1>8, AskFields DEF SeenInv, Ask
<1>9. QED
  BY <1>1, <1>2, <1>3, <1>4, <1>7, <1>8, CheckSteps DEF Moves

\* Every step keeps that alerts, read rows and findings fit.
LEMMA AlertStep ==
  ASSUME TypeOK, WorkInv, SeenInv, Alone, AlertInv, [Next]_vars
  PROVE  AlertInv'
<1> SUFFICES ASSUME faults' = 0, ~overlapped'
             PROVE  ~doubled' /\ (\A c \in Checks : AlertFits(c)') /\ (~Checking' => RowRight')
  BY DEF AlertInv
<1> DEFINE Goal == ~doubled' /\ (\A c \in Checks : AlertFits(c)') /\ (~Checking' => RowRight')
<1>0. /\ faults \in Nat /\ doubled \in BOOLEAN /\ armed \in BOOLEAN /\ DOMAIN pc = Checks /\ overlapped \in BOOLEAN
      /\ Unset \notin BOOLEAN
  BY WatcherAssumption DEF TypeOK
<1>1. ASSUME faults = 0, ~overlapped PROVE ~doubled /\ (\A c \in Checks : AlertFits(c)) /\ (~Checking => RowRight)
  BY <1>1 DEF AlertInv
<1>2. ASSUME NEW c \in Checks, pc[c] # "idle", ~overlapped, NEW to, GoesOnTo(c, to), ~doubled', AlertFits(c)',
             to = "idle" => RowRight'
      PROVE  Goal
  <2>1. \A d \in Checks : d # c => pc'[d] = "idle"
    BY <1>2, OthersIdle
  <2>2. \A d \in Checks : d # c => AlertFits(d)'
    BY <2>1 DEF AlertFits
  <2>3. Checking' \/ to = "idle"
    BY <1>2 DEF Checking, GoesOnTo
  <2>4. QED
    BY <1>2, <2>2, <2>3
<1>3. ASSUME NEW c \in Checks, FailsNow(c) PROVE Goal
  <2>1. faults = 0 /\ ~overlapped /\ pc[c] \in {"fetch", "ask"} /\ UNCHANGED <<row, armed, doubled>>
    BY <1>3 DEF FailsNow, HasResult, GoesOnTo, world
  <2>2. AlertFits(c)
    BY <1>1, <2>1
  <2>3. AlertFits(c)'
    BY <1>3, <2>1, <2>2 DEF FailsNow, HasResult, GoesOnTo, AlertFits, row
  <2>4. ~doubled' /\ GoesOnTo(c, IF res'[c].pause THEN "deliver" ELSE "save")
    BY <1>1, <1>3, <2>1 DEF FailsNow, HasResult
  <2>5. QED
    BY <1>2, <2>1, <2>3, <2>4
<1>4. ASSUME NEW c \in Checks, Fetch(c) PROVE Goal
  <2>1. CASE w[c].target \notin Ai /\ res'[c].match = Unset /\ \E alert \in BOOLEAN : FindsNow(c, alert)
    <3>1. PICK alert \in BOOLEAN : FindsNow(c, alert)
      BY <2>1
    <3>2. /\ faults = 0 /\ ~overlapped /\ pc[c] \in {"fetch", "ask"} /\ UNCHANGED <<row, w, armed, doubled>>
          /\ GoesOnTo(c, IF alert THEN "deliver" ELSE "save")
      BY <3>1 DEF FindsNow, HasResult, GoesOnTo, world, history
    <3>3. AlertFits(c)
      BY <1>1, <3>2
    <3>4. AlertFits(c)'
      BY <1>0, <2>1, <3>1, <3>2, <3>3 DEF GoesOnTo, AlertFits, row
    <3>5. QED
      BY <1>1, <1>2, <3>2, <3>4
  <2>2. CASE /\ UNCHANGED <<row, world, w, edit, history>> /\ GoesOnTo(c, "ask") /\ pc[c] = "fetch"
             /\ w[c].target \in Ai /\ res'[c].last # Unset
    <3>1. faults = 0 /\ ~overlapped /\ AlertFits(c) /\ ~doubled
      BY <1>1, <2>2 DEF GoesOnTo, world
    <3>2. AlertFits(c)' /\ ~doubled'
      BY <2>2, <3>1 DEF AlertFits, GoesOnTo, row, history
    <3>3. QED
      BY <1>2, <2>2, <3>1, <3>2
  <2>3. QED
    BY <1>3, <1>4, <2>1, <2>2, FetchFields
<1>5. ASSUME NEW c \in Checks, Ask(c) PROVE Goal
  <2>1. pc[c] = "ask" /\ w[c].target \in Ai /\ res[c].last[1] = w[c].target
    BY <1>5 DEF Ask, SeenInv
  <2>2. CASE res'[c].match \in BOOLEAN /\ FindsNow(c, res'[c].match = TRUE /\ w[c].match # TRUE)
    <3>1. /\ faults = 0 /\ ~overlapped /\ UNCHANGED <<row, w, armed, doubled>> /\ ~res'[c].pause
          /\ GoesOnTo(c, IF res'[c].match = TRUE /\ w[c].match # TRUE THEN "deliver" ELSE "save")
      BY <2>2 DEF FindsNow, HasResult, GoesOnTo, world, history
    <3>2. AlertFits(c)
      BY <1>1, <3>1
    <3>3. armed \/ w[c].match = TRUE
      BY <2>1, <3>2 DEF AlertFits
    <3>4. AlertFits(c)'
      BY <2>1, <2>2, <3>1, <3>3 DEF GoesOnTo, AlertFits
    <3>5. QED
      BY <1>1, <1>2, <2>1, <3>1, <3>4
  <2>3. QED
    BY <1>3, <1>5, <2>1, <2>2, AskFields
<1>6. ASSUME NEW c \in Checks, Starts(c) PROVE Goal
  <2>1. /\ faults = 0 /\ ~overlapped /\ ~Checking /\ UNCHANGED <<armed, doubled, match, target, status>> /\ status # "deleted"
    BY <1>0, <1>6 DEF Starts, world, history
  <2>2. RowRight /\ ~doubled
    BY <1>1, <2>1
  <2>3. \A d \in Checks : d # c => pc'[d] = "idle"
    BY <1>6, <2>1 DEF Starts, Checking
  <2>4. AlertFits(c)'
    BY <1>6, <2>1, <2>2 DEF Starts, AlertFits, RowRight
  <2>5. Checking' /\ \A d \in Checks : d # c => AlertFits(d)'
    BY <1>6, <2>3 DEF Starts, Checking, AlertFits
  <2>6. QED
    BY <2>1, <2>2, <2>4, <2>5
<1>7. ASSUME NEW c \in Checks, GoesAhead(c) PROVE Goal
  <2>1. faults = 0 /\ ~overlapped /\ AlertFits(c) /\ ~doubled
    BY <1>1, <1>7 DEF GoesAhead, GoesOnTo, world
  <2>2. AlertFits(c)' /\ ~doubled'
    BY <1>7, <2>1 DEF GoesAhead, AlertFits, GoesOnTo, row, history
  <2>3. QED
    BY <1>2, <1>7, <2>1, <2>2 DEF GoesAhead
<1>8. ASSUME NEW c \in Checks, Refused(c) PROVE FALSE
  BY <1>8, OthersIdle DEF Refused, GoesOnTo
<1>9. ASSUME NEW c \in Checks, Deliver(c), GoesOnTo(c, "save") PROVE Goal
  <2>1. faults = 0 /\ ~overlapped /\ pc[c] = "deliver" /\ pc'[c] = "save" /\ UNCHANGED <<res, target>> /\ Told(c)
    BY <1>9 DEF Deliver, GoesOnTo, world, row
  <2>2. AlertFits(c) /\ ~doubled
    BY <1>1, <2>1
  <2>3. AlertFits(c)' /\ ~doubled'
    BY <2>1, <2>2 DEF AlertFits, Told
  <2>4. QED
    BY <1>2, <1>9, <2>1, <2>3
<1>10. ASSUME NEW c \in Checks, SaveCheck(c), Ends(c) PROVE Goal
  <2>1. faults = 0 /\ ~overlapped /\ pc[c] = "save" /\ pc'[c] = "idle" /\ UNCHANGED target /\ GoesOnTo(c, "idle")
    BY <1>10 DEF SaveCheck, Ends, GoesOnTo, world
  <2>2. AlertFits(c) /\ ~doubled
    BY <1>1, <2>1
  <2>3. \/ match' = res[c].match /\ armed' = (armed \/ (res[c].match = FALSE /\ ~res[c].pause)) /\ doubled' = doubled
        \/ status' = "deleted" /\ doubled' = doubled
    BY <1>10 DEF SaveCheck, Saved, history
  <2>3a. armed \/ res[c].match = TRUE \/ (res[c].match = FALSE /\ ~res[c].pause) \/ target \notin Ai
    BY <2>1, <2>2 DEF AlertFits
  <2>3b. RowRight'
    BY <2>1, <2>3, <2>3a DEF RowRight
  <2>4. RowRight' /\ ~doubled' /\ AlertFits(c)'
    BY <2>1, <2>2, <2>3, <2>3b DEF AlertFits
  <2>5. QED
    BY <1>2, <2>1, <2>4
<1>11. ASSUME NEW c \in Checks, Lost(c) PROVE FALSE
  BY <1>0, <1>11 DEF Lost
<1>12. CASE UNCHANGED check /\ Outside
  <2>1. faults = 0 /\ ~overlapped /\ pc' = pc /\ w' = w /\ res' = res
    BY <1>12 DEF check, Outside, EditStarts, EditEnds, OwnerActs, TimePasses, world
  <2>2. ~doubled /\ (\A c \in Checks : AlertFits(c)) /\ (~Checking => RowRight)
    BY <1>1, <2>1
  <2>3. CASE UNCHANGED <<target, armed, doubled, match>> /\ (status' # status => status # "deleted")
    BY <2>1, <2>2, <2>3 DEF AlertFits, Checking, RowRight
  <2>4. CASE armed' = TRUE /\ doubled' = doubled
    BY <2>1, <2>2, <2>4 DEF AlertFits, RowRight
  <2>5. CASE EditEnds
    BY <1>0, <2>3, <2>4, <2>5 DEF EditEnds, ApplyEdit, row, history
  <2>6. CASE EditStarts \/ OwnerActs \/ TimePasses
    BY <2>3, <2>6 DEF EditStarts, OwnerActs, TimePasses, row, history
  <2>7. QED
    BY <1>12, <2>5, <2>6 DEF Outside
<1>13. QED
  BY <1>4, <1>5, <1>6, <1>7, <1>8, <1>9, <1>10, <1>11, <1>12, CheckSteps DEF Moves

-----------------------------------------------------------------------------
\* Checks that do not overlap count no more failures than there were in a row.
Counted(c) ==
  /\ pc[c] \in {"read", "fetch", "ask"} => w[c].fails <= streak
  /\ pc[c] \in {"deliver", "save"} => res[c].fails <= streak /\ (res[c].pause => streak >= PauseAfter)

PauseInv == ~overlapped => fails <= streak /\ \A c \in Checks : Counted(c)

\* Counting keeps the order.
LEMMA OneMoreOrder ==
  ASSUME NEW m \in 0 .. PauseAfter, NEW n \in 0 .. PauseAfter, m <= n
  PROVE  /\ OneMore(m) <= OneMore(n) /\ n <= OneMore(n)
         /\ OneMore(m) = PauseAfter => OneMore(n) >= PauseAfter
BY WatcherAssumption DEF OneMore

\* Every step keeps the count.
LEMMA PauseStep ==
  ASSUME OwnerDuringCheck = FALSE, TypeOK, TypeOK', WorkInv, SeenInv, Alone, PauseInv, [Next]_vars
  PROVE  PauseInv'
<1> SUFFICES ASSUME ~overlapped' PROVE fails' <= streak' /\ \A c \in Checks : Counted(c)'
  BY DEF PauseInv
<1> DEFINE Goal == fails' <= streak' /\ \A c \in Checks : Counted(c)'
<1>0. /\ fails \in Nat /\ streak \in 0 .. PauseAfter /\ overlapped \in BOOLEAN /\ PauseAfter \in Nat
      /\ \A c \in Checks : w[c].fails \in 0 .. PauseAfter /\ res[c].fails \in Nat
  BY WatcherAssumption DEF TypeOK
<1>1. ASSUME ~overlapped PROVE fails <= streak /\ \A c \in Checks : Counted(c)
  BY <1>1 DEF PauseInv
<1>2. ASSUME NEW c \in Checks, pc[c] # "idle", ~overlapped, NEW to, GoesOnTo(c, to), Counted(c)', fails' <= streak'
      PROVE  Goal
  <2>1. \A d \in Checks : d # c => pc'[d] = "idle"
    BY <1>2, OthersIdle
  <2>2. \A d \in Checks : d # c => Counted(d)'
    BY <2>1 DEF Counted
  <2>3. QED
    BY <1>2, <2>2
<1>3. ASSUME NEW c \in Checks, FailsNow(c) PROVE Goal
  <2>1. /\ ~overlapped /\ pc[c] \in {"fetch", "ask"} /\ fails' = fails /\ streak' = OneMore(streak)
        /\ res'[c].fails = OneMore(w[c].fails) /\ res'[c].pause = (OneMore(w[c].fails) = PauseAfter)
        /\ GoesOnTo(c, IF res'[c].pause THEN "deliver" ELSE "save")
    BY <1>3 DEF FailsNow, HasResult, GoesOnTo, row
  <2>2. Counted(c) /\ fails <= streak
    BY <1>1, <2>1
  <2>3. w[c].fails <= streak
    BY <2>1, <2>2 DEF Counted
  <2>4. OneMore(w[c].fails) <= OneMore(streak) /\ (OneMore(w[c].fails) = PauseAfter => OneMore(streak) >= PauseAfter)
    BY <1>0, <2>3, OneMoreOrder
  <2>5. pc'[c] \in {"deliver", "save"} /\ fails' <= streak'
    BY <1>0, <2>1, <2>2, OneMoreOrder DEF GoesOnTo, OneMore
  <2>6. Counted(c)'
    BY <2>1, <2>4, <2>5 DEF Counted
  <2>7. QED
    BY <1>2, <2>1, <2>5, <2>6
<1>4. ASSUME NEW c \in Checks, NEW alert, FindsNow(c, alert) PROVE Goal
  <2>1. /\ ~overlapped /\ pc[c] # "idle" /\ fails' = fails /\ streak' = streak /\ res'[c].fails = 0 /\ ~res'[c].pause
        /\ GoesOnTo(c, IF alert THEN "deliver" ELSE "save")
    BY <1>4 DEF FindsNow, HasResult, GoesOnTo, row, history
  <2>2. Counted(c)' /\ fails' <= streak'
    BY <1>0, <1>1, <2>1 DEF Counted, GoesOnTo
  <2>3. QED
    BY <1>2, <2>1, <2>2
<1>5. ASSUME NEW c \in Checks, Fetch(c) PROVE Goal
  <2>1. CASE UNCHANGED <<row, world, w, edit, history>> /\ GoesOnTo(c, "ask") /\ pc[c] = "fetch"
    <3>1. ~overlapped /\ fails' = fails /\ streak' = streak
      BY <2>1 DEF GoesOnTo, row, history
    <3>2. Counted(c)' /\ fails' <= streak'
      BY <1>1, <2>1, <3>1 DEF Counted, GoesOnTo
    <3>3. QED
      BY <1>2, <2>1, <3>1, <3>2
  <2>2. QED
    BY <1>3, <1>4, <1>5, <2>1, FetchFields
<1>6. ASSUME NEW c \in Checks, Ask(c) PROVE Goal
  BY <1>3, <1>4, <1>6, AskFields DEF SeenInv, Ask
<1>7. ASSUME NEW c \in Checks, Starts(c) PROVE Goal
  <2>1. ~overlapped /\ ~Checking /\ fails' = fails /\ streak' = streak /\ w'[c].fails = fails /\ pc'[c] \in {"read", "fetch"}
    BY <1>0, <1>7 DEF Starts, history
  <2>2. \A d \in Checks : d # c => pc'[d] = "idle"
    BY <1>7, <2>1 DEF Starts, Checking
  <2>3. QED
    BY <1>1, <2>1, <2>2 DEF Counted
<1>8. ASSUME NEW c \in Checks, GoesAhead(c) \/ Refused(c) PROVE Goal
  <2>1. pc[c] = "read" /\ ~overlapped /\ fails' = fails /\ streak' = streak
    BY <1>8 DEF GoesAhead, Refused, GoesOnTo, row, history
  <2>2. Counted(c)' /\ fails' <= streak'
    BY <1>1, <1>8, <2>1 DEF Counted, GoesAhead, Refused, GoesOnTo
  <2>3. QED
    BY <1>2, <1>8, <2>1, <2>2 DEF GoesAhead, Refused
<1>9. ASSUME NEW c \in Checks, Deliver(c), GoesOnTo(c, "save") PROVE Goal
  <2>1. pc[c] = "deliver" /\ ~overlapped /\ fails' = fails /\ streak' = streak /\ res' = res
    BY <1>9 DEF Deliver, GoesOnTo, row
  <2>2. Counted(c)' /\ fails' <= streak'
    BY <1>1, <1>9, <2>1 DEF Counted, GoesOnTo
  <2>3. QED
    BY <1>2, <1>9, <2>1, <2>2
<1>10. ASSUME NEW c \in Checks, SaveCheck(c), Ends(c) PROVE Goal
  <2>1. pc[c] = "save" /\ ~overlapped /\ GoesOnTo(c, "idle") /\ pc'[c] = "idle"
    BY <1>10 DEF SaveCheck, Ends, GoesOnTo
  <2>2. res[c].fails <= streak /\ fails <= streak
    BY <1>1, <2>1 DEF Counted
  <2>3. \/ fails' = res[c].fails /\ streak' = IF res[c].last # Unset THEN 0 ELSE streak
        \/ fails' = fails /\ streak' = streak
    BY <1>10 DEF SaveCheck, Saved, history
  <2>4. fails' <= streak'
    BY <2>1, <2>2, <2>3 DEF SeenInv
  <2>5. QED
    BY <1>2, <2>1, <2>4 DEF Counted
<1>11. ASSUME NEW c \in Checks, Lost(c), Ends(c) PROVE Goal
  <2>1. pc[c] # "idle" /\ ~overlapped /\ GoesOnTo(c, "idle") /\ pc'[c] = "idle" /\ fails' = fails /\ streak' = streak
    BY <1>11 DEF Lost, Ends, GoesOnTo, row, history
  <2>2. QED
    BY <1>1, <1>2, <2>1 DEF Counted
<1>12. CASE UNCHANGED check /\ Outside
  <2>1. ~overlapped /\ pc' = pc /\ w' = w /\ res' = res
    BY <1>12 DEF check
  <2>2. fails <= streak /\ \A c \in Checks : Counted(c)
    BY <1>1, <2>1
  <2>3. CASE fails' = fails /\ streak' = streak
    BY <2>1, <2>2, <2>3 DEF Counted
  <2>4. CASE ~Checking /\ fails' = 0 /\ streak' = 0
    BY <2>1, <2>4 DEF Counted, Checking
  <2>5. CASE EditEnds
    BY <2>3, <2>4, <2>5 DEF EditEnds, ApplyEdit, row, history
  <2>6. CASE EditStarts \/ OwnerActs \/ TimePasses
    BY <2>3, <2>4, <2>6 DEF EditStarts, OwnerActs, TimePasses, row, history
  <2>7. QED
    BY <1>12, <2>5, <2>6 DEF Outside
<1>13. QED
  BY <1>5, <1>6, <1>7, <1>8, <1>9, <1>10, <1>11, <1>12, CheckSteps DEF Moves

\* Only the owner, or a check that counted enough failures, pauses.
LEMMA PauseCause ==
  ASSUME TypeOK, PauseInv, [Next]_vars, status = "active", status' = "paused"
  PROVE  SetWatcherStatus \/ overlapped \/ streak >= PauseAfter
<1>1. ASSUME NEW c \in Checks, SaveCheck(c), ~overlapped PROVE streak >= PauseAfter
  BY <1>1 DEF SaveCheck, PauseInv, Counted
<1>2. ASSUME NEW c \in Checks, ClaimDueWatchers(c) \/ CheckNow(c) \/ BeginCheckNow(c) \/ Deliver(c) \/ Lost(c) PROVE FALSE
  BY <1>2 DEF ClaimDueWatchers, CheckNow, ReadRow, BeginCheckNow, Deliver, Lost, row
<1>3. ASSUME NEW c \in Checks, Fetch(c) \/ Ask(c) PROVE FALSE
  BY <1>3 DEF Fetch, Ask, Failed, Settle, row
<1>4. ASSUME NEW e \in Editors, BeginEdit(e) \/ ApplyEdit(e) PROVE FALSE
  BY <1>4 DEF BeginEdit, ApplyEdit, row
<1>5. CASE DeleteWatcher \/ ComesDue \/ \E t \in Targets : PageChanges(t)
  BY <1>5 DEF DeleteWatcher, ComesDue, PageChanges, row
<1>6. status' # status
  OBVIOUS
<1>7. QED
  BY <1>1, <1>2, <1>3, <1>4, <1>5, <1>6 DEF Next, Step, vars, row, TypeOK

-----------------------------------------------------------------------------
\* With one edit at a time and none while a check runs, all look at one target.
Watching ==
  /\ last # Unset => last[1] = target
  /\ \A e \in Editors : before[e] # Unset => before[e] = target
  /\ \A c \in Checks : pc[c] # "idle" => w[c].target = target

\* Every step keeps it.
LEMMA WatchingStep ==
  ASSUME OwnerDuringCheck = FALSE, \A e, f \in Editors : e = f,
         TypeOK, WorkInv, SeenInv, Watching, [Next]_vars
  PROVE  Watching'
<1>0. DOMAIN before = Editors /\ DOMAIN pc = Checks /\ Unset \notin Targets /\ target \in Targets
  BY WatcherAssumption DEF TypeOK
<1>1. ASSUME NEW c \in Checks, NEW to, GoesOnTo(c, to), last' = last, target' = target, before' = before,
             \A d \in Checks : d # c => w'[d] = w[d], to = "idle" \/ w'[c].target = w[c].target
      PROVE  Watching'
  BY <1>1 DEF GoesOnTo, Watching
<1>2. ASSUME NEW c \in Checks, FailsNow(c) PROVE Watching'
  BY <1>1, <1>2 DEF FailsNow, HasResult, row, edit
<1>3. ASSUME NEW c \in Checks, NEW alert, FindsNow(c, alert) PROVE Watching'
  BY <1>1, <1>3 DEF FindsNow, HasResult, row, edit
<1>4. ASSUME NEW c \in Checks, Fetch(c) PROVE Watching'
  <2>1. CASE UNCHANGED <<row, world, w, edit, history>> /\ GoesOnTo(c, "ask")
    BY <1>1, <2>1 DEF row, edit
  <2>2. QED
    BY <1>2, <1>3, <1>4, <2>1, FetchFields
<1>5. ASSUME NEW c \in Checks, Ask(c) PROVE Watching'
  BY <1>2, <1>3, <1>5, AskFields DEF SeenInv, Ask
<1>6. ASSUME NEW c \in Checks, Starts(c) PROVE Watching'
  BY <1>6 DEF Starts, Watching, edit
<1>7. ASSUME NEW c \in Checks, GoesAhead(c) \/ Refused(c) PROVE Watching'
  BY <1>1, <1>7 DEF GoesAhead, Refused, row, edit
<1>8. ASSUME NEW c \in Checks, Deliver(c), GoesOnTo(c, "save") PROVE Watching'
  BY <1>1, <1>8 DEF Deliver, row, edit
<1>9. ASSUME NEW c \in Checks, SaveCheck(c), Ends(c) PROVE Watching'
  <2>1. pc[c] = "save" /\ target' = target /\ before' = before /\ (last' = last \/ (last' = res[c].last /\ res[c].last # Unset))
    BY <1>9 DEF SaveCheck, edit
  <2>2. res[c].last # Unset => res[c].last[1] = target
    BY <2>1 DEF SeenInv, Watching
  <2>3. QED
    BY <1>9, <2>1, <2>2 DEF Ends, GoesOnTo, Watching
<1>10. ASSUME NEW c \in Checks, Lost(c), Ends(c) PROVE Watching'
  BY <1>1, <1>10 DEF Lost, Ends, row, edit
<1>11. CASE UNCHANGED check /\ Outside
  <2>1. pc' = pc /\ w' = w
    BY <1>11 DEF check
  <2>2. CASE OwnerActs \/ TimePasses
    BY <2>1, <2>2 DEF OwnerActs, TimePasses, edit, Watching
  <2>3. CASE EditStarts
    <3>1. PICK e \in Editors : BeginEdit(e)
      BY <2>3 DEF EditStarts
    <3>2. target' = target /\ last' = last /\ before' = [before EXCEPT ![e] = target]
      BY <2>3, <3>1 DEF EditStarts, BeginEdit, row
    <3>3. QED
      BY <1>0, <2>1, <3>2 DEF Watching
  <2>4. CASE EditEnds
    <3>1. PICK e \in Editors : ApplyEdit(e)
      BY <2>4 DEF EditEnds
    <3>2. /\ ~Checking /\ before[e] # Unset /\ before' = [before EXCEPT ![e] = Unset]
          /\ \/ last' = Unset
             \/ target' = before[e] /\ last' = last
             \/ target' = target /\ last' = last
      BY <3>1 DEF ApplyEdit, row
    <3>3. \A f \in Editors : before'[f] = Unset
      BY <1>0, <3>2
    <3>4. QED
      BY <2>1, <3>2, <3>3 DEF Watching, Checking
  <2>5. QED
    BY <1>11, <2>2, <2>3, <2>4 DEF Outside
<1>12. QED
  BY <1>4, <1>5, <1>6, <1>7, <1>8, <1>9, <1>10, <1>11, CheckSteps DEF Moves

-----------------------------------------------------------------------------
\* A watcher begins with nothing read, found, told or counted.
LEMMA WatchBegins == Init => SeenInv /\ Alone /\ AlertInv /\ PauseInv /\ Watching
BY WatcherAssumption DEF Init, SeenInv, Alone, AlertInv, AlertFits, RowRight, PauseInv, Counted, Watching, Checking

\* Checks that overlap say so, and what is found belongs to what is looked at.
LEMMA CheckInvariant == Spec => [](TypeOK /\ WorkInv /\ SeenInv /\ Alone)
<1> DEFINE Inv == TypeOK /\ WorkInv
<1>1. Spec => []Inv
  BY WatcherInvariant, PTL
<1>2. Init => SeenInv /\ Alone
  BY WatchBegins
<1>3. Inv /\ SeenInv /\ Alone /\ [Next]_vars => (SeenInv /\ Alone)'
  BY SeenStep, AloneStep
<1> HIDE DEF Inv
<1>4. Spec => [](Inv /\ SeenInv /\ Alone)
  BY <1>1, <1>2, <1>3, PTL DEF Spec
<1>5. Inv => TypeOK /\ WorkInv
  BY DEF Inv
<1>6. QED
  BY <1>4, <1>5, PTL

\* check() alerts when the condition becomes true: unless checks overlap, or one
\* is lost between its alert and saveCheck(), no rise is told twice -- even if
\* the owner edits, pauses or deletes the watcher while a check runs.
THEOREM WatcherAlertsOncePerRise == Spec => []OneAlertPerRise
<1>1. Init => AlertInv
  BY WatchBegins
<1>2. (TypeOK /\ WorkInv /\ SeenInv /\ Alone) /\ AlertInv /\ [Next]_vars => AlertInv'
  BY AlertStep
<1>3. AlertInv => OneAlertPerRise
  BY DEF AlertInv, OneAlertPerRise
<1>4. QED
  BY <1>1, <1>2, <1>3, CheckInvariant, PTL DEF Spec

\* The scheduler pauses a watcher only for failures in a row: no owner acts
\* while a check runs, and no checks overlap.
THEOREM WatcherPausedForCause ==
  ASSUME OwnerDuringCheck = FALSE
  PROVE  Spec => PausedForCause
<1> DEFINE Base == TypeOK /\ WorkInv /\ SeenInv /\ Alone
<1>1. Init => PauseInv
  BY WatchBegins
<1>2. Base /\ Base' /\ PauseInv /\ [Next]_vars => PauseInv'
  BY PauseStep
<1>3. Base /\ PauseInv /\ [Next]_vars =>
        [(status = "active" /\ status' = "paused") => SetWatcherStatus \/ overlapped \/ streak >= PauseAfter]_vars
  BY PauseCause
<1>4. Spec => []Base
  BY CheckInvariant
<1> HIDE DEF Base
<1>5. QED
  BY <1>1, <1>2, <1>3, <1>4, PTL DEF Spec, PausedForCause

\* As long as the owner makes one edit at a time and none while a check is
\* running, the baseline belongs to what is watched, was told, rises are told
\* once and only repeated failures pause the watcher.
THEOREM WatcherIsSafe ==
  ASSUME OwnerDuringCheck = FALSE, \A e, f \in Editors : e = f
  PROVE  Spec => WatcherSafety
<1> DEFINE Base == TypeOK /\ WorkInv /\ SeenInv /\ Alone
<1>1. Init => Watching
  BY WatchBegins
<1>2. Base /\ Watching /\ [Next]_vars => Watching'
  BY WatchingStep
<1>3. Watching => NoStaleBaseline
  BY DEF Watching, NoStaleBaseline
<1>4. Spec => []Base
  BY CheckInvariant
<1> HIDE DEF Base
<1>5. Spec => []NoStaleBaseline
  BY <1>1, <1>2, <1>3, <1>4, PTL DEF Spec
<1>6. QED
  BY <1>5, WatcherBaselineIsKnown, WatcherAlertsOncePerRise, WatcherPausedForCause, PTL DEF WatcherSafety

-----------------------------------------------------------------------------
(***************************************************************************)
(* KnowledgeBase: what a request that is alone with its document leaves.   *)
(***************************************************************************)
Ops == {"none", "upload", "index", "delete", "reindex", "clear"}
Places == {"idle", "begin", "embed", "put", "stale", "roll back", "copy", "unindex", "clear index"}
Outcomes == {"unknown", "failed", "stored", "uploaded", "indexed", "deleted"}
JobRecords == [op : Ops, key : FileKeys \union {NoJob.key}, at : Places, text : Nat, ids : SUBSET Nat]

Active(j) == job[j].op # "none"

KbShape ==
  /\ stored \in [FileKeys -> Nat] /\ index \in [FileKeys -> SUBSET Nat] /\ job \in [KbJobs -> JobRecords]
  /\ alone \in [KbJobs -> BOOLEAN] /\ heldBefore \in [FileKeys -> SUBSET Nat] /\ outcome \in [FileKeys -> Outcomes]
  /\ \A j \in KbJobs : IF Active(j) THEN job[j].key \in FileKeys /\ (job[j].op = "upload" => job[j].key \in Documents)
                      ELSE job[j].at = "idle"

\* Two requests that have nothing of each other's in their hands.
Apart(i, j) ==
  Active(i) => job[i].op # "clear" /\ job[j].op # "clear" /\ TextKey(job[i].key) # TextKey(job[j].key)

AloneIsAlone == \A j \in KbJobs : alone[j] /\ Active(j) => \A i \in KbJobs \ {j} : Apart(i, j)

\* What was answered is of a document that no request has in its hands.
AnswersRest ==
  \A key \in FileKeys : outcome[key] # "unknown" =>
    \A i \in KbJobs : Active(i) => job[i].op # "clear" /\ TextKey(job[i].key) # TextKey(key)

\* How far a request that is alone has come.
UploadAt(j) ==
  LET key == job[j].key at == job[j].at text == job[j].text ids == job[j].ids IN
  job[j].op = "upload" =>
    /\ key \in Documents /\ text # 0 /\ at \in {"begin", "embed", "put", "stale", "roll back"}
    /\ ids \in {{}, Chunks(text)} /\ (at = "begin" => ids = {}) /\ (at = "embed" => ids = Chunks(text))
    /\ index[key] = IF at \in {"begin", "embed"} THEN heldBefore[key] ELSE heldBefore[key] \union ids
    /\ at = "stale" => stored[key] = text /\ (ids # {} => stored[TextKey(key)] = text)

IndexAt(j) ==
  LET key == job[j].key at == job[j].at text == job[j].text ids == job[j].ids copy == stored[TextKey(job[j].key)] IN
  job[j].op = "index" =>
    /\ at \in {"begin", "copy", "embed", "stale"}
    /\ index[key] = IF at = "stale" THEN heldBefore[key] \union ids ELSE heldBefore[key]
    /\ at # "begin" => text # 0 /\ ids = Chunks(text) /\ (copy = text \/ (copy = 0 /\ stored[key] = text))

ReindexAt(j) ==
  LET key == job[j].key at == job[j].at text == job[j].text ids == job[j].ids IN
  job[j].op = "reindex" =>
    /\ at \in {"begin", "embed", "stale"}
    /\ index[key] = IF at = "stale" THEN heldBefore[key] \union ids ELSE heldBefore[key]
    /\ at # "begin" => stored[TextKey(key)] = text /\ (text # 0 => ids = Chunks(text))

RemovalAt(j) ==
  /\ job[j].op = "delete" => job[j].at \in {"begin", "unindex"} /\ (job[j].at = "unindex" => stored[job[j].key] = 0)
  /\ job[j].op = "clear" => job[j].at \in {"begin", "clear index"} /\ (job[j].at = "clear index" => \A k \in FileKeys : stored[k] = 0)

Reached(j) == UploadAt(j) /\ IndexAt(j) /\ ReindexAt(j) /\ RemovalAt(j)

\* The promise of the answer about one document.
Held(key) ==
  LET text == IF stored[TextKey(key)] # 0 THEN stored[TextKey(key)] ELSE stored[key] IN
  CASE outcome[key] = "uploaded" -> stored[key] # 0 /\ text = stored[key] /\ index[key] = Chunks(text)
    [] outcome[key] = "indexed"  -> text # 0 => index[key] = Chunks(text)
    [] outcome[key] = "stored"   -> stored[key] # 0 /\ index[key] = heldBefore[key]
    [] outcome[key] = "deleted"  -> stored[key] = 0 /\ index[key] = {}
    [] outcome[key] = "failed"   -> index[key] \subseteq heldBefore[key]
    [] OTHER -> TRUE

KbInv ==
  /\ kbFaults \in Nat /\ KbShape /\ AloneIsAlone /\ AnswersRest
  /\ \A j \in KbJobs : alone[j] /\ Active(j) => Reached(j)
  /\ \A key \in FileKeys : Held(key)

\* The copy of a document is its own text.
LEMMA TextKeys ==
  /\ \A d \in Documents : d \in FileKeys /\ CopyOf(d) \in FileKeys /\ CopyOf(d) \notin Documents
  /\ \A key \in FileKeys : TextKey(key) \in FileKeys /\ TextKey(TextKey(key)) = TextKey(key)
  /\ \A d \in Documents : TextKey(d) = CopyOf(d) /\ TextKey(CopyOf(d)) = CopyOf(d)
<1>1. \A d \in Documents : d \in FileKeys /\ CopyOf(d) \in FileKeys /\ CopyOf(d) \notin Documents
  BY KbAssumption DEF FileKeys, CopyOf
<1>2. \A d \in Documents : TextKey(d) = CopyOf(d) /\ TextKey(CopyOf(d)) = CopyOf(d)
  BY <1>1 DEF TextKey, IsCopy
<1>3. \A key \in FileKeys : key \in Documents \/ \E d \in Documents : key = CopyOf(d)
  BY DEF FileKeys
<1>4. QED
  BY <1>1, <1>2, <1>3

\* A request's record, moved on.
LEMMA JobFields ==
  ASSUME KbShape, NEW j \in KbJobs
  PROVE  /\ \A place \in Places : JobStep(j, place) =>
              /\ job' \in [KbJobs -> JobRecords] /\ \A i \in KbJobs \ {j} : job'[i] = job[i]
              /\ job'[j].op = job[j].op /\ job'[j].key = job[j].key /\ job'[j].at = place
              /\ job'[j].text = job[j].text /\ job'[j].ids = job[j].ids
              /\ heldBefore' = heldBefore
         /\ \A place \in Places, text \in Nat, ids \in SUBSET Nat : StepWith(j, place, text, ids) =>
              /\ job' \in [KbJobs -> JobRecords] /\ \A i \in KbJobs \ {j} : job'[i] = job[i]
              /\ job'[j].op = job[j].op /\ job'[j].key = job[j].key /\ job'[j].at = place
              /\ job'[j].text = text /\ job'[j].ids = ids
              /\ heldBefore' = heldBefore
         /\ \A what \in Outcomes : Answer(j, what) =>
              /\ job' \in [KbJobs -> JobRecords] /\ \A i \in KbJobs \ {j} : job'[i] = job[i]
              /\ job'[j].op = "none" /\ job'[j].at = "idle"
              /\ heldBefore' = heldBefore /\ alone' = alone
              /\ outcome' = [outcome EXCEPT ![job[j].key] = IF alone[j] THEN what ELSE "unknown"]
<1>1. job \in [KbJobs -> JobRecords] /\ job[j] \in JobRecords
  BY DEF KbShape
<1>2. ASSUME NEW place \in Places, JobStep(j, place)
      PROVE  /\ job' \in [KbJobs -> JobRecords] /\ \A i \in KbJobs \ {j} : job'[i] = job[i]
             /\ job'[j].op = job[j].op /\ job'[j].key = job[j].key /\ job'[j].at = place
             /\ job'[j].text = job[j].text /\ job'[j].ids = job[j].ids
             /\ heldBefore' = heldBefore
  <2>1. [job[j] EXCEPT !.at = place] \in JobRecords
    BY <1>1 DEF JobRecords
  <2>2. QED
    BY <1>1, <1>2, <2>1 DEF JobStep, JobRecords
<1>3. ASSUME NEW place \in Places, NEW text \in Nat, NEW ids \in SUBSET Nat, StepWith(j, place, text, ids)
      PROVE  /\ job' \in [KbJobs -> JobRecords] /\ \A i \in KbJobs \ {j} : job'[i] = job[i]
             /\ job'[j].op = job[j].op /\ job'[j].key = job[j].key /\ job'[j].at = place
             /\ job'[j].text = text /\ job'[j].ids = ids
             /\ heldBefore' = heldBefore
  <2>1. [job[j] EXCEPT !.at = place, !.text = text, !.ids = ids] \in JobRecords
    BY <1>1 DEF JobRecords
  <2>2. QED
    BY <1>1, <1>3, <2>1 DEF StepWith, JobRecords
<1>4. ASSUME NEW what \in Outcomes, Answer(j, what)
      PROVE  /\ job' \in [KbJobs -> JobRecords] /\ \A i \in KbJobs \ {j} : job'[i] = job[i]
             /\ job'[j].op = "none" /\ job'[j].at = "idle"
             /\ heldBefore' = heldBefore /\ alone' = alone
             /\ outcome' = [outcome EXCEPT ![job[j].key] = IF alone[j] THEN what ELSE "unknown"]
  <2>1. NoJob \in JobRecords /\ NoJob.op = "none" /\ NoJob.at = "idle"
    BY DEF JobRecords, NoJob, Ops, Places
  <2>2. QED
    BY <1>1, <1>4, <2>1 DEF Answer
<1>5. QED
  BY <1>2, <1>3, <1>4

\* The calls to the vector table and to S3 change what they name.
LEMMA IndexCalls ==
  ASSUME KbShape, NEW key \in FileKeys, NEW ids \in SUBSET Nat,
         Upsert(key, ids) \/ DeleteVectors(key, ids) \/ DeleteOthers(key, ids) \/ DeleteBySourceFile(key)
  PROVE  /\ index' \in [FileKeys -> SUBSET Nat] /\ \A k \in FileKeys \ {key} : index'[k] = index[k]
         /\ Upsert(key, ids) => index'[key] = index[key] \union ids
         /\ DeleteVectors(key, ids) => index'[key] = index[key] \ ids
         /\ DeleteOthers(key, ids) => index'[key] = index[key] \intersect ids
         /\ DeleteBySourceFile(key) => index'[key] = {}
<1>1. index \in [FileKeys -> SUBSET Nat] /\ index[key] \in SUBSET Nat
  BY DEF KbShape
<1>2. QED
  BY <1>1 DEF Upsert, DeleteVectors, DeleteOthers, DeleteBySourceFile

LEMMA StoreCalls ==
  ASSUME KbShape, NEW v \in Nat, NEW K \in SUBSET FileKeys, PutObjects(K, v)
  PROVE  /\ stored' \in [FileKeys -> Nat]
         /\ \A k \in FileKeys : stored'[k] = IF k \in K THEN v ELSE stored[k]
BY DEF KbShape, PutObjects

\* A step of a request: what it leaves alone, and where it takes the request.
Local(j) ==
  /\ Active(j) /\ job' \in [KbJobs -> JobRecords] /\ (\A i \in KbJobs \ {j} : job'[i] = job[i])
  /\ heldBefore' = heldBefore /\ alone' = alone
  /\ stored' \in [FileKeys -> Nat] /\ index' \in [FileKeys -> SUBSET Nat]
  /\ job[j].op # "clear" => \A k \in FileKeys : TextKey(k) # TextKey(job[j].key) => stored'[k] = stored[k] /\ index'[k] = index[k]

Goes(j) ==
  /\ outcome' = outcome /\ job'[j].op = job[j].op /\ job'[j].key = job[j].key
  /\ alone[j] => Reached(j)'

Answers(j) ==
  /\ job'[j].op = "none" /\ job'[j].at = "idle"
  /\ \E what \in Outcomes :
       /\ outcome' = [outcome EXCEPT ![job[j].key] = what]
       /\ ~alone[j] => what = "unknown"
  /\ \E key \in FileKeys : key = job[j].key /\ (alone[j] => Held(key)')

KbMoves(j) == Local(j) /\ (Goes(j) \/ Answers(j))

\* An answer that fits what is stored.
LEMMA AnswerFits ==
  ASSUME KbShape, NEW j \in KbJobs, Active(j), NEW what \in Outcomes, Answer(j, what),
         NEW key \in FileKeys, key = job[j].key,
         alone[j] => LET text == IF stored'[TextKey(key)] # 0 THEN stored'[TextKey(key)] ELSE stored'[key] IN
           /\ what = "uploaded" => stored'[key] # 0 /\ text = stored'[key] /\ index'[key] = Chunks(text)
           /\ what = "indexed" => (text # 0 => index'[key] = Chunks(text))
           /\ what = "stored" => stored'[key] # 0 /\ index'[key] = heldBefore[key]
           /\ what = "deleted" => stored'[key] = 0 /\ index'[key] = {}
           /\ what = "failed" => index'[key] \subseteq heldBefore[key]
  PROVE  Answers(j)
<1>1. /\ job'[j].op = "none" /\ job'[j].at = "idle" /\ heldBefore' = heldBefore
      /\ outcome' = [outcome EXCEPT ![key] = IF alone[j] THEN what ELSE "unknown"]
  BY JobFields
<1>2. outcome'[key] = IF alone[j] THEN what ELSE "unknown"
  BY <1>1 DEF KbShape
<1>3. alone[j] => Held(key)'
  <2> SUFFICES ASSUME alone[j] PROVE Held(key)'
    OBVIOUS
  <2>1. outcome'[key] = what /\ heldBefore' = heldBefore
    BY <1>1, <1>2
  <2>2. QED
    BY <2>1, Zenon DEF Held
<1>4. PICK x \in Outcomes : x = IF alone[j] THEN what ELSE "unknown"
  BY DEF Outcomes
<1>5. outcome' = [outcome EXCEPT ![job[j].key] = x] /\ (~alone[j] => x = "unknown")
  BY <1>1, <1>4
<1>6. QED
  BY <1>1, <1>3, <1>5, Zenon DEF Answers

\* What is known of a request that is alone.
LEMMA WhereItIs ==
  ASSUME KbInv, NEW j \in KbJobs, Active(j)
  PROVE  /\ job[j] \in JobRecords /\ job[j].key \in FileKeys /\ job[j].text \in Nat /\ job[j].ids \in SUBSET Nat
         /\ TextKey(job[j].key) \in FileKeys
         /\ alone[j] => UploadAt(j) /\ IndexAt(j) /\ ReindexAt(j) /\ RemovalAt(j)
         /\ index[job[j].key] \in SUBSET Nat /\ heldBefore[job[j].key] \in SUBSET Nat
<1>1. job[j].key \in FileKeys /\ job[j] \in JobRecords
  BY DEF KbInv, KbShape
<1>2. QED
  BY <1>1, TextKeys DEF KbInv, KbShape, Reached, JobRecords

LEMMA ChunksTyped == \A v \in Nat : Chunks(v) \in SUBSET Nat /\ (v # 0 => Chunks(v) # {})
BY DEF Chunks

LEMMA ConvertMoves ==
  ASSUME KbInv, NEW j \in KbJobs, Convert(j)
  PROVE  KbMoves(j)
<1>1. KbShape /\ job[j].op = "upload" /\ job[j].at = "begin" /\ Active(j)
  BY DEF KbInv, Convert, JobAt, Active
<1>2. PICK key \in FileKeys, text \in Nat : key = job[j].key /\ text = job[j].text
  BY <1>1, WhereItIs
<1>3. stored' = stored /\ index' = index /\ alone' = alone /\ outcome' = outcome
  BY DEF Convert
<1>4. /\ job' \in [KbJobs -> JobRecords] /\ \A i \in KbJobs \ {j} : job'[i] = job[i]
      /\ job'[j].op = "upload" /\ job'[j].key = key /\ job'[j].text = text /\ heldBefore' = heldBefore
      /\ \/ job'[j].at = "embed" /\ job'[j].ids = Chunks(text)
         \/ job'[j].at = "put" /\ job'[j].ids = job[j].ids
  <2>1. CASE StepWith(j, "embed", text, Chunks(text))
    <3>1. PICK ids \in SUBSET Nat : ids = Chunks(text)
      BY ChunksTyped
    <3>2. StepWith(j, "embed", text, ids) /\ "embed" \in Places
      BY <2>1, <3>1 DEF Places
    <3>3. QED
      BY <1>1, <1>2, <3>1, <3>2, JobFields
  <2>2. CASE JobStep(j, "put")
    BY <1>1, <1>2, <2>2, JobFields DEF Places
  <2>3. QED
    BY <1>2, <2>1, <2>2 DEF Convert
<1>5. alone[j] => Reached(j)'
  <2> SUFFICES ASSUME alone[j] PROVE Reached(j)'
    OBVIOUS
  <2>1. UploadAt(j)
    BY <1>1, WhereItIs
  <2>2. /\ key \in Documents /\ text # 0 /\ job[j].ids = {} /\ index[key] = heldBefore[key]
    BY <1>1, <1>2, <2>1 DEF UploadAt
  <2>3. UploadAt(j)'
    BY <1>3, <1>4, <2>2 DEF UploadAt
  <2>4. QED
    BY <1>4, <2>3 DEF Reached, IndexAt, ReindexAt, RemovalAt
<1>6. QED
  BY <1>1, <1>2, <1>3, <1>4, <1>5 DEF KbMoves, Local, Goes, KbShape

\* What an upsert makes of a request, and what its failure does.
LEMMA EmbedMoves ==
  ASSUME KbInv, NEW j \in KbJobs, EmbedAndStore(j)
  PROVE  KbMoves(j)
<1>1. KbShape /\ job[j].at = "embed" /\ Active(j)
  BY DEF KbInv, KbShape, EmbedAndStore, Active
<1>2. PICK key \in FileKeys, ids \in SUBSET Nat : key = job[j].key /\ ids = job[j].ids
  BY <1>1, WhereItIs
<1>3. stored' = stored /\ job[j].op \in Ops \ {"none"}
  BY <1>1, WhereItIs DEF EmbedAndStore, JobRecords, Active
<1>4. CASE Answer(j, "failed") /\ index' = index
  <2>1. alone[j] => index[key] = heldBefore[key]
    BY <1>1, <1>2, <1>3, WhereItIs DEF UploadAt, IndexAt, ReindexAt, RemovalAt, Ops
  <2>2. Answers(j)
    BY <1>1, <1>2, <1>4, <2>1, AnswerFits DEF Outcomes
  <2>3. Local(j)
    BY <1>1, <1>3, <1>4, JobFields DEF Local, Outcomes, KbShape
  <2>4. QED
    BY <2>2, <2>3 DEF KbMoves
<1>5. CASE Upsert(key, ids) /\ JobStep(j, IF job[j].op = "upload" THEN "put" ELSE "stale") /\ UNCHANGED <<alone, outcome>>
  <2>1. /\ job' \in [KbJobs -> JobRecords] /\ \A i \in KbJobs \ {j} : job'[i] = job[i]
        /\ job'[j].op = job[j].op /\ job'[j].key = key /\ job'[j].at = (IF job[j].op = "upload" THEN "put" ELSE "stale")
        /\ job'[j].text = job[j].text /\ job'[j].ids = ids /\ heldBefore' = heldBefore
    BY <1>1, <1>2, <1>5, JobFields DEF Places
  <2>2. /\ index' \in [FileKeys -> SUBSET Nat] /\ \A k \in FileKeys \ {key} : index'[k] = index[k]
        /\ index'[key] = index[key] \union ids
    BY <1>1, <1>5, IndexCalls
  <2>3. alone[j] => Reached(j)'
    <3> SUFFICES ASSUME alone[j] PROVE Reached(j)'
      OBVIOUS
    <3>1. UploadAt(j) /\ IndexAt(j) /\ ReindexAt(j) /\ RemovalAt(j)
      BY <1>1, WhereItIs
    <3>2. UploadAt(j)'
      BY <1>1, <1>2, <1>3, <2>1, <2>2, <3>1 DEF UploadAt
    <3>3. IndexAt(j)'
      BY <1>1, <1>2, <1>3, <2>1, <2>2, <3>1 DEF IndexAt
    <3>4. ReindexAt(j)'
      BY <1>1, <1>2, <1>3, <2>1, <2>2, <3>1 DEF ReindexAt
    <3>5. RemovalAt(j)'
      BY <1>1, <1>2, <1>3, <2>1, <3>1 DEF RemovalAt
    <3>6. QED
      BY <3>2, <3>3, <3>4, <3>5 DEF Reached
  <2>4. Local(j)
    BY <1>1, <1>2, <1>3, <1>5, <2>1, <2>2 DEF Local, KbShape
  <2>5. QED
    BY <1>2, <1>5, <2>1, <2>3, <2>4 DEF KbMoves, Goes
<1>6. QED
  BY <1>2, <1>4, <1>5, Zenon DEF EmbedAndStore

\* The file and its copy; some of them may be stored although it fails.
LEMMA PutMoves ==
  ASSUME KbInv, NEW j \in KbJobs, Put(j)
  PROVE  KbMoves(j)
<1>1. KbShape /\ job[j].op = "upload" /\ job[j].at = "put" /\ Active(j)
  BY DEF KbInv, Put, JobAt, Active
<1>2. PICK key \in FileKeys, text \in Nat, ids \in SUBSET Nat : key = job[j].key /\ text = job[j].text /\ ids = job[j].ids
  BY <1>1, WhereItIs
<1>3. index' = index /\ alone' = alone /\ outcome' = outcome
  BY DEF Put
<1> DEFINE files == {key} \union (IF ids = {} THEN {} ELSE {CopyOf(key)})
<1>4. \E K \in SUBSET files :
        /\ PutObjects(K, text)
        /\ (K = files /\ JobStep(j, "stale")) \/ JobStep(j, "roll back")
  BY <1>2, Zenon DEF Put
<1>5. PICK K \in SUBSET files :
        /\ PutObjects(K, text)
        /\ (K = files /\ JobStep(j, "stale")) \/ JobStep(j, "roll back")
  BY <1>4
<1>6. /\ job' \in [KbJobs -> JobRecords] /\ \A i \in KbJobs \ {j} : job'[i] = job[i]
      /\ job'[j].op = "upload" /\ job'[j].key = key /\ job'[j].text = text /\ job'[j].ids = ids /\ heldBefore' = heldBefore
      /\ (K = files /\ job'[j].at = "stale") \/ job'[j].at = "roll back"
  <2>1. "stale" \in Places /\ "roll back" \in Places
    BY DEF Places
  <2> HIDE DEF files
  <2>2. QED
    BY <1>1, <1>2, <1>5, <2>1, JobFields
<1>7. \A k \in FileKeys : stored'[k] = IF k \in K THEN text ELSE stored[k]
  BY <1>5 DEF PutObjects
<1>8. stored' \in [FileKeys -> Nat]
  BY <1>1, <1>5 DEF PutObjects, KbShape
<1>9. TextKey(key) \in FileKeys /\ (key \in Documents => TextKey(key) = CopyOf(key))
  BY TextKeys
<1>10. alone[j] => Reached(j)'
  <2> SUFFICES ASSUME alone[j] PROVE Reached(j)'
    OBVIOUS
  <2>1. UploadAt(j)
    BY <1>1, WhereItIs
  <2>2. /\ key \in Documents /\ text # 0 /\ ids \in {{}, Chunks(text)} /\ index[key] = heldBefore[key] \union ids
    BY <1>1, <1>2, <2>1 DEF UploadAt
  <2>3. job'[j].at = "stale" => stored'[key] = text /\ (ids # {} => stored'[TextKey(key)] = text)
    BY <1>6, <1>7, <1>9, <2>2
  <2> HIDE DEF files
  <2>4. UploadAt(j)'
    BY <1>3, <1>6, <2>2, <2>3 DEF UploadAt
  <2>5. QED
    BY <1>6, <2>4 DEF Reached, IndexAt, ReindexAt, RemovalAt
<1>11. \A k \in FileKeys : TextKey(k) # TextKey(key) => stored'[k] = stored[k]
  <2>1. key \in Documents
    BY <1>1, <1>2 DEF KbShape
  <2>2. \A k \in files : TextKey(k) = TextKey(key)
    BY <2>1, TextKeys
  <2> HIDE DEF files
  <2>3. QED
    BY <1>7, <2>2
<1>12. QED
  BY <1>1, <1>2, <1>3, <1>6, <1>8, <1>10, <1>11 DEF KbMoves, Local, Goes, KbShape

LEMMA DropMoves ==
  ASSUME KbInv, NEW j \in KbJobs, DropStaleChunks(j)
  PROVE  KbMoves(j)
<1>1. KbShape /\ job[j].at = "stale" /\ Active(j)
  BY DEF KbInv, KbShape, DropStaleChunks, Active
<1>2. PICK key \in FileKeys, text \in Nat, ids \in SUBSET Nat : key = job[j].key /\ text = job[j].text /\ ids = job[j].ids
  BY <1>1, WhereItIs
<1>3. stored' = stored /\ job[j].op \in Ops \ {"none"}
  BY <1>1, WhereItIs DEF DropStaleChunks, JobRecords, Active
<1>4. PICK what \in Outcomes :
        /\ Answer(j, what)
        /\ \/ what = "unknown" /\ index' = index
           \/ what = Outcome(j) /\ (IF ids = {} THEN index' = index ELSE DeleteOthers(key, ids))
  <2>1. Outcome(j) \in Outcomes
    BY DEF Outcome, Outcomes
  <2>2. "unknown" \in Outcomes
    BY DEF Outcomes
  <2>3. CASE Answer(j, "unknown") /\ index' = index
    BY <2>2, <2>3, Zenon
  <2>4. CASE Answer(j, Outcome(j)) /\ (IF ids = {} THEN index' = index ELSE DeleteOthers(key, ids))
    BY <2>1, <2>4, Zenon
  <2>5. QED
    BY <1>2, <2>3, <2>4, Zenon DEF DropStaleChunks
<1>5. /\ index' \in [FileKeys -> SUBSET Nat] /\ \A k \in FileKeys \ {key} : index'[k] = index[k]
      /\ what # "unknown" => index'[key] = IF ids = {} THEN index[key] ELSE index[key] \intersect ids
  <2>1. CASE index' = index /\ (what = "unknown" \/ ids = {})
    BY <1>1, <2>1 DEF KbShape
  <2>2. CASE ids # {} /\ DeleteOthers(key, ids)
    BY <1>1, <2>2, IndexCalls
  <2>3. QED
    BY <1>4, <2>1, <2>2
<1>6. Local(j)
  <2>1. /\ job' \in [KbJobs -> JobRecords] /\ (\A i \in KbJobs \ {j} : job'[i] = job[i]) /\ heldBefore' = heldBefore /\ alone' = alone
    BY <1>1, <1>4, JobFields
  <2>2. QED
    BY <1>1, <1>2, <1>3, <1>5, <2>1 DEF Local, KbShape
<1>7. ASSUME alone[j], what # "unknown"
      PROVE  /\ what = "uploaded" => stored[key] = text /\ text # 0 /\ stored[TextKey(key)] = text /\ index'[key] = Chunks(text)
             /\ what = "indexed" =>
                  text # 0 /\ (stored[TextKey(key)] = text \/ (stored[TextKey(key)] = 0 /\ stored[key] = text)) /\ index'[key] = Chunks(text)
             /\ what = "stored" => stored[key] # 0 /\ index'[key] = heldBefore[key]
             /\ what \notin {"deleted", "failed"}
  <2>1. UploadAt(j) /\ IndexAt(j) /\ ReindexAt(j) /\ RemovalAt(j) /\ what = Outcome(j)
    BY <1>1, <1>4, <1>7, WhereItIs
  <2>2. (text # 0 => Chunks(text) # {}) /\ heldBefore[key] \in SUBSET Nat
    BY <1>1, <1>2, ChunksTyped, WhereItIs
  <2>3. CASE job[j].op = "upload"
    <3>1. text # 0 /\ ids \in {{}, Chunks(text)} /\ index[key] = heldBefore[key] \union ids /\ stored[key] = text /\ (ids # {} => stored[TextKey(key)] = text)
      BY <1>1, <1>2, <2>1, <2>3 DEF UploadAt
    <3>2. what = IF ids = {} THEN "stored" ELSE "uploaded"
      <4>1. CASE ids = {}
        BY <1>2, <2>1, <2>3, <3>1, <4>1 DEF Outcome
      <4>2. CASE ids # {}
        BY <1>2, <2>1, <2>3, <3>1, <4>2 DEF Outcome
      <4>3. QED
        BY <4>1, <4>2
    <3>3. index'[key] = IF ids = {} THEN heldBefore[key] ELSE ids
      BY <1>5, <1>7, <3>1
    <3>4. QED
      BY <3>1, <3>2, <3>3
  <2>4. CASE job[j].op = "index"
    <3>1. /\ index[key] = heldBefore[key] \union ids /\ text # 0 /\ ids = Chunks(text)
          /\ stored[TextKey(key)] = text \/ (stored[TextKey(key)] = 0 /\ stored[key] = text)
      BY <1>1, <1>2, <2>1, <2>4 DEF IndexAt
    <3>2. what = "indexed"
      BY <1>2, <2>1, <2>4, <3>1 DEF Outcome
    <3>3. index'[key] = ids
      BY <1>5, <1>7, <2>2, <3>1
    <3>4. QED
      BY <3>1, <3>2, <3>3
  <2>5. CASE job[j].op = "reindex"
    <3>1. index[key] = heldBefore[key] \union ids /\ (text # 0 => ids = Chunks(text)) /\ stored[TextKey(key)] = text
      BY <1>1, <1>2, <2>1, <2>5 DEF ReindexAt
    <3>2. what = "indexed" /\ text # 0
      BY <1>2, <1>7, <2>1, <2>5 DEF Outcome
    <3>3. index'[key] = ids
      BY <1>5, <1>7, <2>2, <3>1, <3>2
    <3>4. QED
      BY <3>1, <3>2, <3>3
  <2>6. QED
    BY <1>1, <1>3, <2>1, <2>3, <2>4, <2>5 DEF RemovalAt, Ops
<1>8. Answers(j)
  BY <1>1, <1>2, <1>3, <1>4, <1>7, AnswerFits
<1>9. QED
  BY <1>6, <1>8 DEF KbMoves

LEMMA RollBackMoves ==
  ASSUME KbInv, NEW j \in KbJobs, RollBack(j)
  PROVE  KbMoves(j)
<1>1. KbShape /\ job[j].op = "upload" /\ job[j].at = "roll back" /\ Active(j)
  BY DEF KbInv, RollBack, JobAt, Active
<1>2. PICK key \in FileKeys, ids \in SUBSET Nat : key = job[j].key /\ ids = job[j].ids
  BY <1>1, WhereItIs
<1>3. stored' = stored
  BY DEF RollBack
<1>4. PICK what \in {"failed", "unknown"} :
        Answer(j, what) /\ (DeleteVectors(key, ids) \/ (what = "unknown" /\ index' = index))
  <2>1. CASE kbFaults' = kbFaults
    <3>1. Answer(j, "failed")
      BY <2>1, Zenon DEF RollBack
    <3>2. DeleteVectors(key, ids) \/ Fails
      BY <1>2, Zenon DEF RollBack
    <3>3. ~Fails
      BY <2>1 DEF Fails, KbInv
    <3>4. QED
      BY <3>1, <3>2, <3>3
  <2>2. CASE kbFaults' # kbFaults
    <3>1. Answer(j, "unknown")
      BY <2>2, Zenon DEF RollBack
    <3>2. DeleteVectors(key, ids) \/ index' = index
      BY <1>2, Zenon DEF RollBack
    <3>3. QED
      BY <3>1, <3>2
  <2>3. QED
    BY <2>1, <2>2
<1>5. /\ index' \in [FileKeys -> SUBSET Nat] /\ \A k \in FileKeys \ {key} : index'[k] = index[k]
      /\ what # "unknown" => index'[key] = index[key] \ ids
  <2>1. CASE index' = index /\ what = "unknown"
    BY <1>1, <2>1 DEF KbShape
  <2>2. CASE DeleteVectors(key, ids)
    BY <1>1, <2>2, IndexCalls
  <2>3. QED
    BY <1>4, <2>1, <2>2
<1>6. what \in Outcomes
  BY DEF Outcomes
<1>7. Local(j)
  <2>1. /\ job' \in [KbJobs -> JobRecords] /\ (\A i \in KbJobs \ {j} : job'[i] = job[i]) /\ heldBefore' = heldBefore /\ alone' = alone
    BY <1>1, <1>4, <1>6, JobFields
  <2>2. QED
    BY <1>1, <1>2, <1>3, <1>5, <2>1 DEF Local, KbShape
<1>8. alone[j] /\ what = "failed" => index'[key] \subseteq heldBefore[key]
  <2> SUFFICES ASSUME alone[j], what = "failed" PROVE index'[key] \subseteq heldBefore[key]
    OBVIOUS
  <2>1. UploadAt(j)
    BY <1>1, WhereItIs
  <2>2. index[key] = heldBefore[key] \union ids
    BY <1>1, <1>2, <2>1 DEF UploadAt
  <2>3. QED
    BY <1>5, <2>2
<1>9. Answers(j)
  BY <1>1, <1>2, <1>3, <1>4, <1>6, <1>8, AnswerFits
<1>10. QED
  BY <1>7, <1>9 DEF KbMoves

\* A request that gives up has changed nothing.
LEMMA GivesUp ==
  ASSUME KbInv, NEW j \in KbJobs, Active(j), NEW what \in {"unknown", "failed"}, Answer(j, what), stored' = stored, index' = index,
         what = "failed" /\ alone[j] => index[job[j].key] \subseteq heldBefore[job[j].key]
  PROVE  KbMoves(j)
<1>1. PICK key \in FileKeys : key = job[j].key
  BY WhereItIs
<1>2. KbShape /\ what \in Outcomes
  BY DEF KbInv, Outcomes
<1>3. Answers(j)
  BY <1>1, <1>2, AnswerFits
<1>4. /\ job' \in [KbJobs -> JobRecords] /\ (\A i \in KbJobs \ {j} : job'[i] = job[i]) /\ heldBefore' = heldBefore /\ alone' = alone
  BY <1>2, JobFields
<1>5. Local(j)
  BY <1>2, <1>4 DEF Local, KbShape
<1>6. QED
  BY <1>3, <1>5 DEF KbMoves

LEMMA ReadMoves ==
  ASSUME KbInv, NEW j \in KbJobs, ReadStored(j)
  PROVE  KbMoves(j)
<1>1. KbShape /\ job[j].op = "index" /\ job[j].at = "begin" /\ Active(j)
  BY DEF KbInv, ReadStored, JobAt, Active
<1>2. PICK key \in FileKeys : key = job[j].key
  BY <1>1, WhereItIs
<1>3. alone[j] => index[key] = heldBefore[key]
  BY <1>1, <1>2, WhereItIs DEF IndexAt
<1>4. stored[key] \in Nat /\ stored[TextKey(key)] \in Nat
  BY <1>1, TextKeys DEF KbShape
<1>5. index' = index
  BY DEF ReadStored
<1>6. CASE Answer(j, "failed") /\ stored' = stored
  BY <1>1, <1>2, <1>3, <1>5, <1>6, GivesUp
<1>7. ASSUME NEW text \in Nat \ {0}, NEW place \in {"embed", "copy"},
             StepWith(j, place, text, Chunks(text)), UNCHANGED <<stored, alone, outcome>>,
             stored[TextKey(key)] = text \/ (stored[TextKey(key)] = 0 /\ stored[key] = text)
      PROVE  KbMoves(j)
  <2>1. PICK ids \in SUBSET Nat : ids = Chunks(text)
    BY ChunksTyped
  <2>2. StepWith(j, place, text, ids) /\ place \in Places
    BY <1>7, <2>1 DEF Places
  <2>3. /\ job' \in [KbJobs -> JobRecords] /\ (\A i \in KbJobs \ {j} : job'[i] = job[i])
        /\ job'[j].op = "index" /\ job'[j].key = key /\ job'[j].at = place /\ job'[j].text = text /\ job'[j].ids = ids
        /\ heldBefore' = heldBefore
    BY <1>1, <1>2, <2>2, JobFields
  <2>4. alone[j] => IndexAt(j)'
    BY <1>3, <1>5, <1>7, <2>1, <2>3 DEF IndexAt
  <2>5. alone[j] => Reached(j)'
    BY <2>3, <2>4 DEF Reached, UploadAt, ReindexAt, RemovalAt
  <2>6. Local(j)
    BY <1>1, <1>5, <1>7, <2>3 DEF Local, KbShape
  <2>7. QED
    BY <1>1, <1>2, <1>7, <2>3, <2>5, <2>6 DEF KbMoves, Goes
<1>8. CASE /\ stored[TextKey(key)] # 0 /\ StepWith(j, "embed", stored[TextKey(key)], Chunks(stored[TextKey(key)]))
           /\ UNCHANGED <<stored, alone, outcome>>
  BY <1>4, <1>7, <1>8
<1>9. CASE /\ stored[TextKey(key)] = 0 /\ stored[key] # 0 /\ StepWith(j, "copy", stored[key], Chunks(stored[key]))
           /\ UNCHANGED <<stored, alone, outcome>>
  BY <1>4, <1>7, <1>9
<1>10. QED
  BY <1>2, <1>6, <1>8, <1>9, Zenon DEF ReadStored

LEMMA CopyMoves ==
  ASSUME KbInv, NEW j \in KbJobs, KeepCopy(j)
  PROVE  KbMoves(j)
<1>1. KbShape /\ job[j].op = "index" /\ job[j].at = "copy" /\ Active(j)
  BY DEF KbInv, KeepCopy, JobAt, Active
<1>2. PICK key \in FileKeys, text \in Nat, ids \in SUBSET Nat : key = job[j].key /\ text = job[j].text /\ ids = job[j].ids
  BY <1>1, WhereItIs
<1>3. index' = index /\ alone' = alone /\ outcome' = outcome /\ JobStep(j, "embed")
  BY DEF KeepCopy
<1>4. PICK other \in FileKeys : other = TextKey(key) /\ TextKey(other) = TextKey(key)
  BY TextKeys
<1>5. PutObjects({other}, text) \/ stored' = stored
  BY <1>2, <1>4, Zenon DEF KeepCopy
<1>6. /\ stored' \in [FileKeys -> Nat] /\ \A k \in FileKeys \ {other} : stored'[k] = stored[k]
      /\ stored'[other] = text \/ stored' = stored
  <2>1. CASE PutObjects({other}, text)
    BY <1>1, <2>1, StoreCalls
  <2>2. QED
    BY <1>1, <1>5, <2>1 DEF KbShape
<1>7. /\ job' \in [KbJobs -> JobRecords] /\ (\A i \in KbJobs \ {j} : job'[i] = job[i])
      /\ job'[j].op = "index" /\ job'[j].key = key /\ job'[j].at = "embed" /\ job'[j].text = text /\ job'[j].ids = ids
      /\ heldBefore' = heldBefore
  BY <1>1, <1>2, <1>3, JobFields DEF Places
<1>8. alone[j] => Reached(j)'
  <2> SUFFICES ASSUME alone[j] PROVE Reached(j)'
    OBVIOUS
  <2>1. IndexAt(j)
    BY <1>1, WhereItIs
  <2>2. index[key] = heldBefore[key] /\ text # 0 /\ ids = Chunks(text) /\ (stored[other] = text \/ (stored[other] = 0 /\ stored[key] = text))
    BY <1>1, <1>2, <1>4, <2>1 DEF IndexAt
  <2>3. stored'[other] = text \/ (stored'[other] = 0 /\ stored'[key] = text)
    BY <1>6, <2>2
  <2>4. IndexAt(j)'
    BY <1>3, <1>4, <1>7, <2>2, <2>3 DEF IndexAt
  <2>5. QED
    BY <1>7, <2>4 DEF Reached, UploadAt, ReindexAt, RemovalAt
<1>9. \A k \in FileKeys : TextKey(k) # TextKey(key) => stored'[k] = stored[k]
  BY <1>4, <1>6
<1>10. QED
  BY <1>1, <1>2, <1>3, <1>6, <1>7, <1>8, <1>9 DEF KbMoves, Local, Goes, KbShape

LEMMA RereadMoves ==
  ASSUME KbInv, NEW j \in KbJobs, ReadForReindex(j)
  PROVE  KbMoves(j)
<1>1. KbShape /\ job[j].op = "reindex" /\ job[j].at = "begin" /\ Active(j)
  BY DEF KbInv, ReadForReindex, JobAt, Active
<1>2. PICK key \in FileKeys : key = job[j].key
  BY <1>1, WhereItIs
<1>3. PICK text \in Nat : text = stored[TextKey(key)]
  BY <1>1, TextKeys DEF KbShape
<1>4. index' = index /\ stored' = stored
  BY DEF ReadForReindex
<1>5. PICK ids \in SUBSET Nat : ids = IF text # 0 THEN Chunks(text) ELSE index[key]
  BY <1>1, <1>2, ChunksTyped, WhereItIs
<1>6. CASE Answer(j, "unknown")
  BY <1>1, <1>4, <1>6, GivesUp
<1>7. CASE StepWith(j, "embed", text, ids) /\ UNCHANGED <<alone, outcome>>
  <2>1. /\ job' \in [KbJobs -> JobRecords] /\ (\A i \in KbJobs \ {j} : job'[i] = job[i])
        /\ job'[j].op = "reindex" /\ job'[j].key = key /\ job'[j].at = "embed" /\ job'[j].text = text /\ job'[j].ids = ids
        /\ heldBefore' = heldBefore
    BY <1>1, <1>2, <1>7, JobFields DEF Places
  <2>2. alone[j] => index[key] = heldBefore[key]
    BY <1>1, <1>2, WhereItIs DEF ReindexAt
  <2>3. alone[j] => ReindexAt(j)'
    BY <1>3, <1>4, <1>5, <2>1, <2>2 DEF ReindexAt
  <2>4. alone[j] => Reached(j)'
    BY <2>1, <2>3 DEF Reached, UploadAt, IndexAt, RemovalAt
  <2>5. Local(j)
    BY <1>1, <1>4, <1>7, <2>1 DEF Local, KbShape
  <2>6. QED
    BY <1>1, <1>2, <1>7, <2>1, <2>4, <2>5 DEF KbMoves, Goes
<1>8. QED
  BY <1>2, <1>3, <1>5, <1>6, <1>7, Zenon DEF ReadForReindex

LEMMA RemoveMoves ==
  ASSUME KbInv, NEW j \in KbJobs, RemoveFile(j) \/ Unindex(j)
  PROVE  KbMoves(j)
<1>1. KbShape /\ job[j].op = "delete" /\ Active(j)
  BY DEF KbInv, RemoveFile, Unindex, JobAt, Active
<1>2. PICK key \in FileKeys : key = job[j].key
  BY <1>1, WhereItIs
<1>3. CASE Answer(j, "unknown") /\ UNCHANGED <<stored, index>>
  BY <1>1, <1>3, GivesUp
<1>4. CASE DeleteObject(key) /\ JobStep(j, "unindex") /\ UNCHANGED <<alone, outcome, index>>
  <2>1. stored' \in [FileKeys -> Nat] /\ stored'[key] = 0 /\ \A k \in FileKeys \ {key} : stored'[k] = stored[k]
    BY <1>1, <1>4 DEF DeleteObject, KbShape
  <2>2. /\ job' \in [KbJobs -> JobRecords] /\ (\A i \in KbJobs \ {j} : job'[i] = job[i])
        /\ job'[j].op = "delete" /\ job'[j].key = key /\ job'[j].at = "unindex" /\ heldBefore' = heldBefore
    BY <1>1, <1>2, <1>4, JobFields DEF Places
  <2>3. Reached(j)'
    BY <2>1, <2>2 DEF Reached, UploadAt, IndexAt, ReindexAt, RemovalAt
  <2>4. Local(j)
    BY <1>1, <1>2, <1>4, <2>1, <2>2 DEF Local, KbShape
  <2>5. QED
    BY <1>1, <1>2, <1>4, <2>2, <2>3, <2>4 DEF KbMoves, Goes
<1>5. CASE job[j].at = "unindex" /\ DeleteBySourceFile(key) /\ Answer(j, "deleted") /\ stored' = stored
  <2>1. index' \in [FileKeys -> SUBSET Nat] /\ index'[key] = {} /\ \A k \in FileKeys \ {key} : index'[k] = index[k]
    BY <1>1, <1>5, IndexCalls
  <2>2. "deleted" \in Outcomes
    BY DEF Outcomes
  <2>3. alone[j] => stored[key] = 0
    BY <1>1, <1>2, <1>5, WhereItIs DEF RemovalAt
  <2>4. Answers(j)
    BY <1>1, <1>2, <1>5, <2>1, <2>2, <2>3, AnswerFits
  <2>5. /\ job' \in [KbJobs -> JobRecords] /\ (\A i \in KbJobs \ {j} : job'[i] = job[i]) /\ heldBefore' = heldBefore /\ alone' = alone
    BY <1>1, <1>5, <2>2, JobFields
  <2>6. Local(j)
    BY <1>1, <1>2, <1>5, <2>1, <2>5 DEF Local, KbShape
  <2>7. QED
    BY <2>4, <2>6 DEF KbMoves
<1>6. QED
  BY <1>2, <1>3, <1>4, <1>5, Zenon DEF RemoveFile, Unindex, JobAt

LEMMA ClearMoves ==
  ASSUME KbInv, NEW j \in KbJobs, ClearFolder(j) \/ ClearIndex(j)
  PROVE  KbMoves(j)
<1>1. KbShape /\ job[j].op = "clear" /\ Active(j)
  BY DEF KbInv, ClearFolder, ClearIndex, JobAt, Active
<1>2. PICK key \in FileKeys : key = job[j].key
  BY <1>1, WhereItIs
<1>3. CASE Answer(j, "unknown") /\ UNCHANGED <<stored, index>>
  BY <1>1, <1>3, GivesUp
<1>4. ASSUME JobStep(j, "clear index"), UNCHANGED <<alone, outcome>>, stored' \in [FileKeys -> Nat], index' \in [FileKeys -> SUBSET Nat],
             alone[j] => \A k \in FileKeys : stored'[k] = 0
      PROVE  KbMoves(j)
  <2>1. /\ job' \in [KbJobs -> JobRecords] /\ (\A i \in KbJobs \ {j} : job'[i] = job[i])
        /\ job'[j].op = "clear" /\ job'[j].key = key /\ job'[j].at = "clear index" /\ heldBefore' = heldBefore
    BY <1>1, <1>2, <1>4, JobFields DEF Places
  <2>2. alone[j] => Reached(j)'
    BY <1>4, <2>1 DEF Reached, UploadAt, IndexAt, ReindexAt, RemovalAt
  <2>3. Local(j)
    BY <1>1, <1>2, <1>4, <2>1 DEF Local, KbShape
  <2>4. QED
    BY <1>1, <1>2, <1>4, <2>1, <2>2, <2>3 DEF KbMoves, Goes
<1>5. CASE ClearFolder(j) /\ DeleteFolder /\ JobStep(j, "clear index") /\ UNCHANGED <<alone, outcome, index>>
  <2>1. stored' \in [FileKeys -> Nat] /\ \A k \in FileKeys : stored'[k] = 0
    BY <1>5 DEF DeleteFolder
  <2>2. QED
    BY <1>1, <1>4, <1>5, <2>1 DEF KbShape
<1>6. ASSUME job[j].at = "clear index", alone[j] PROVE \A k \in FileKeys : stored[k] = 0
  BY <1>1, <1>6, WhereItIs DEF RemovalAt
<1>7. CASE job[j].at = "clear index" /\ stored' = stored /\ (\A k \in FileKeys : index[k] = {}) /\ Answer(j, "deleted") /\ index' = index
  <2>1. "deleted" \in Outcomes
    BY DEF Outcomes
  <2>2. Answers(j)
    BY <1>1, <1>2, <1>6, <1>7, <2>1, AnswerFits
  <2>3. /\ job' \in [KbJobs -> JobRecords] /\ (\A i \in KbJobs \ {j} : job'[i] = job[i]) /\ heldBefore' = heldBefore /\ alone' = alone
    BY <1>1, <1>7, <2>1, JobFields
  <2>4. Local(j)
    BY <1>1, <1>7, <2>3 DEF Local, KbShape
  <2>5. QED
    BY <2>2, <2>4 DEF KbMoves
<1>8. CASE /\ job[j].at = "clear index" /\ stored' = stored /\ JobStep(j, "clear index") /\ UNCHANGED <<alone, outcome>>
           /\ \E k \in FileKeys : DeleteBySourceFile(k)
  <2>1. index' \in [FileKeys -> SUBSET Nat]
    BY <1>1, <1>8, IndexCalls
  <2>2. QED
    BY <1>1, <1>4, <1>6, <1>8, <2>1 DEF KbShape
<1>9. QED
  BY <1>3, <1>5, <1>7, <1>8, Zenon DEF ClearFolder, ClearIndex, JobAt

\* What a request does is nothing to the requests that are alone with other documents.
LEMMA OthersStay ==
  ASSUME KbInv, NEW j \in KbJobs, Local(j), NEW i \in KbJobs \ {j}, alone[i], Active(i)
  PROVE  Reached(i)'
<1>1. PICK key \in FileKeys : key = job[i].key
  BY WhereItIs
<1>2. job[i].op # "clear" /\ job[j].op # "clear" /\ TextKey(job[j].key) # TextKey(key)
  BY <1>1 DEF KbInv, AloneIsAlone, Apart, Local
<1>3. PICK copy \in FileKeys : copy = TextKey(key) /\ TextKey(copy) = TextKey(key)
  BY TextKeys
<1>4. /\ stored'[key] = stored[key] /\ index'[key] = index[key] /\ stored'[copy] = stored[copy]
      /\ job'[i] = job[i] /\ heldBefore' = heldBefore
  BY <1>2, <1>3 DEF Local
<1>5. UploadAt(i) /\ IndexAt(i) /\ ReindexAt(i) /\ RemovalAt(i)
  BY WhereItIs
<1>6. UploadAt(i)'
  BY <1>1, <1>3, <1>4, <1>5 DEF UploadAt
<1>7. IndexAt(i)'
  BY <1>1, <1>3, <1>4, <1>5 DEF IndexAt
<1>8. ReindexAt(i)'
  BY <1>1, <1>3, <1>4, <1>5 DEF ReindexAt
<1>9. RemovalAt(i)'
  BY <1>1, <1>2, <1>4, <1>5 DEF RemovalAt
<1>10. QED
  BY <1>6, <1>7, <1>8, <1>9 DEF Reached

\* Nor to what was answered about documents it does not have.
LEMMA AnswersStay ==
  ASSUME KbInv, NEW j \in KbJobs, Local(j), NEW key \in FileKeys, outcome'[key] = outcome[key]
  PROVE  Held(key)'
<1>1. CASE outcome[key] = "unknown"
  BY <1>1 DEF Held
<1>2. CASE outcome[key] # "unknown"
  <2>1. job[j].op # "clear" /\ TextKey(job[j].key) # TextKey(key)
    BY <1>2 DEF KbInv, AnswersRest, Local
  <2>2. PICK copy \in FileKeys : copy = TextKey(key) /\ TextKey(copy) = TextKey(key)
    BY TextKeys
  <2>3. /\ stored'[key] = stored[key] /\ index'[key] = index[key] /\ stored'[copy] = stored[copy]
        /\ heldBefore' = heldBefore
    BY <2>1, <2>2 DEF Local
  <2>4. Held(key)
    BY DEF KbInv
  <2>5. QED
    BY <2>2, <2>3, <2>4 DEF Held
<1>3. QED
  BY <1>1, <1>2

LEMMA MovesKeep ==
  ASSUME KbInv, NEW j \in KbJobs, KbMoves(j), kbFaults' \in Nat
  PROVE  KbInv'
<1>1. KbShape /\ AloneIsAlone /\ AnswersRest /\ Local(j) /\ (Goes(j) \/ Answers(j))
  BY DEF KbInv, KbMoves
<1>2. PICK mine \in FileKeys : mine = job[j].key
  BY <1>1, WhereItIs DEF Local
<1>3. /\ outcome' \in [FileKeys -> Outcomes] /\ \A key \in FileKeys \ {mine} : outcome'[key] = outcome[key]
      /\ outcome'[mine] = outcome[mine] \/ (Answers(j) /\ (~alone[j] => outcome'[mine] = "unknown"))
  <2>1. CASE Goes(j)
    BY <1>1, <2>1 DEF Goes, KbShape
  <2>2. CASE Answers(j)
    BY <1>1, <1>2, <2>2 DEF Answers, KbShape
  <2>3. QED
    BY <1>1, <2>1, <2>2
<1>4. \A i \in KbJobs : Active(i)' => Active(i) /\ job'[i].op = job[i].op /\ job'[i].key = job[i].key /\ (i = j => Goes(j))
  BY <1>1 DEF Local, Goes, Answers, Active
<1>5. KbShape'
  <2>1. \A i \in KbJobs : IF Active(i)' THEN job'[i].key \in FileKeys /\ (job'[i].op = "upload" => job'[i].key \in Documents)
                          ELSE job'[i].at = "idle"
    <3>1. SUFFICES ASSUME NEW i \in KbJobs
                   PROVE  IF Active(i)' THEN job'[i].key \in FileKeys /\ (job'[i].op = "upload" => job'[i].key \in Documents)
                          ELSE job'[i].at = "idle"
      OBVIOUS
    <3>2. IF Active(i) THEN job[i].key \in FileKeys /\ (job[i].op = "upload" => job[i].key \in Documents)
                       ELSE job[i].at = "idle"
      BY <1>1 DEF KbShape
    <3>3. CASE i = j /\ Answers(j)
      BY <1>1, <3>3 DEF Answers, Active
    <3>4. CASE i = j /\ Goes(j)
      BY <1>1, <3>2, <3>4 DEF Goes, Local, Active
    <3>5. CASE i # j
      BY <1>1, <3>2, <3>5 DEF Local, Active
    <3>6. QED
      BY <1>1, <3>3, <3>4, <3>5
  <2>2. QED
    BY <1>1, <1>3, <2>1 DEF KbShape, Local
<1>6. AloneIsAlone'
  <2>1. SUFFICES ASSUME NEW i \in KbJobs, alone'[i], Active(i)', NEW k \in KbJobs \ {i}, Active(k)'
                 PROVE  job'[k].op # "clear" /\ job'[i].op # "clear" /\ TextKey(job'[k].key) # TextKey(job'[i].key)
    BY DEF AloneIsAlone, Apart, Active, TextKey, IsCopy, CopyOf
  <2>2. alone[i] /\ Active(i) /\ Active(k)
    BY <1>1, <1>4, <2>1 DEF Local
  <2>3. job[k].op # "clear" /\ job[i].op # "clear" /\ TextKey(job[k].key) # TextKey(job[i].key)
    BY <1>1, <2>2 DEF AloneIsAlone, Apart
  <2>4. QED
    BY <1>4, <2>1, <2>3
<1>7. AnswersRest'
  <2>1. SUFFICES ASSUME NEW key \in FileKeys, outcome'[key] # "unknown", NEW i \in KbJobs, Active(i)'
                 PROVE  job'[i].op # "clear" /\ TextKey(job'[i].key) # TextKey(key)
    BY DEF AnswersRest, Active, TextKey, IsCopy, CopyOf
  <2>2. Active(i) /\ job'[i].op = job[i].op /\ job'[i].key = job[i].key
    BY <1>4, <2>1
  <2>3. CASE outcome'[key] = outcome[key]
    BY <1>1, <2>1, <2>2, <2>3 DEF AnswersRest
  <2>4. CASE outcome'[key] # outcome[key]
    <3>1. key = mine /\ Answers(j) /\ alone[j]
      BY <1>3, <2>1, <2>4
    <3>2. i # j
      BY <2>1, <3>1 DEF Answers, Active
    <3>3. QED
      BY <1>1, <1>2, <2>2, <3>1, <3>2 DEF AloneIsAlone, Apart, Local
  <2>5. QED
    BY <2>3, <2>4
<1>8. ASSUME NEW i \in KbJobs, alone'[i], Active(i)' PROVE Reached(i)'
  <2>1. alone[i] /\ Active(i) /\ (i = j => Goes(j))
    BY <1>1, <1>4, <1>8 DEF Local
  <2>2. CASE i = j
    BY <2>1, <2>2 DEF Goes
  <2>3. CASE i # j
    BY <1>1, <2>1, <2>3, OthersStay
  <2>4. QED
    BY <2>2, <2>3
<1>9. ASSUME NEW key \in FileKeys PROVE Held(key)'
  <2>1. CASE outcome'[key] = outcome[key]
    BY <1>1, <2>1, AnswersStay
  <2>2. CASE outcome'[key] # outcome[key]
    <3>1. key = mine /\ Answers(j) /\ (alone[j] \/ outcome'[key] = "unknown")
      BY <1>3, <2>2
    <3>2. CASE outcome'[key] = "unknown"
      BY <3>2 DEF Held
    <3>3. CASE alone[j]
      <4>1. PICK k \in FileKeys : k = job[j].key /\ (alone[j] => Held(k)')
        BY <3>1 DEF Answers
      <4>2. k = key
        BY <1>2, <3>1, <4>1
      <4>3. QED
        BY <3>3, <4>1, <4>2
    <3>4. QED
      BY <3>1, <3>2, <3>3
  <2>3. QED
    BY <2>1, <2>2
<1>10. QED
  BY <1>5, <1>6, <1>7, <1>8, <1>9 DEF KbInv

\* A request that comes in: whoever meets it is no longer alone, and what it
\* meets is no longer answered for.
LEMMA RequestKeeps ==
  ASSUME KbInv, NEW j \in KbJobs, NEW op \in Ops \ {"none"}, NEW key \in FileKeys, NEW v \in 0 .. LastVersion,
         Request(j, op, key, v)
  PROVE  KbInv'
<1> DEFINE Meets(k) == op = "clear" \/ TextKey(k) = TextKey(key)
<1>1. KbShape /\ AloneIsAlone /\ AnswersRest /\ v \in Nat /\ ~Active(j)
  BY KbAssumption DEF KbInv, Request, Active
<1>2. PICK others \in SUBSET KbJobs :
        /\ others = {i \in KbJobs \ {j} : job[i].op = "clear" \/ (job[i].op # "none" /\ Meets(job[i].key))}
        /\ alone' = [i \in KbJobs |-> IF i = j THEN others = {} ELSE alone[i] /\ i \notin others]
  BY DEF Request
<1>3. /\ stored' = stored /\ index' = index /\ kbFaults' = kbFaults
      /\ job' = [job EXCEPT ![j] = [op |-> op, key |-> key, at |-> "begin", text |-> v, ids |-> {}]]
      /\ heldBefore' = [heldBefore EXCEPT ![key] = index[key]]
      /\ outcome' = [k \in FileKeys |-> IF Meets(k) THEN "unknown" ELSE outcome[k]]
      /\ op = "upload" => ~IsCopy(key) /\ v \in 1 .. LastVersion
  BY Zenon DEF Request
<1>4. op = "upload" => key \in Documents /\ v # 0
  BY <1>3, KbAssumption DEF IsCopy
<1>5. /\ job' \in [KbJobs -> JobRecords] /\ (\A i \in KbJobs \ {j} : job'[i] = job[i])
      /\ job'[j].op = op /\ job'[j].key = key /\ job'[j].at = "begin" /\ job'[j].text = v /\ job'[j].ids = {}
  <2>1. [op |-> op, key |-> key, at |-> "begin", text |-> v, ids |-> {}] \in JobRecords
    BY <1>1 DEF JobRecords, Places
  <2>2. QED
    BY <1>1, <1>3, <2>1 DEF KbShape
<1>6. /\ heldBefore' \in [FileKeys -> SUBSET Nat] /\ heldBefore'[key] = index[key]
      /\ \A k \in FileKeys \ {key} : heldBefore'[k] = heldBefore[k]
  BY <1>1, <1>3 DEF KbShape
<1>7. /\ outcome' \in [FileKeys -> Outcomes]
      /\ \A k \in FileKeys : outcome'[k] # "unknown" => ~Meets(k) /\ outcome'[k] = outcome[k]
  <2>1. "unknown" \in Outcomes
    BY DEF Outcomes
  <2> HIDE DEF Meets
  <2>2. QED
    BY <1>1, <1>3, <2>1 DEF KbShape
<1>8. /\ alone' \in [KbJobs -> BOOLEAN]
      /\ alone'[j] => others = {}
      /\ \A i \in KbJobs \ {j} : alone'[i] => alone[i] /\ i \notin others
  <2>1. alone \in [KbJobs -> BOOLEAN]
    BY <1>1 DEF KbShape
  <2>2. \A i \in KbJobs : alone'[i] = IF i = j THEN others = {} ELSE alone[i] /\ i \notin others
    BY <1>2, Zenon
  <2>3. alone' \in [KbJobs -> BOOLEAN]
    BY <1>2, <2>1
  <2>4. QED
    BY <2>2, <2>3, Zenon
<1>9. \A i \in KbJobs \ {j} : i \notin others /\ Active(i) => job[i].op # "clear" /\ ~Meets(job[i].key)
  BY <1>2 DEF Active
<1>10. KbShape'
  BY <1>1, <1>3, <1>5, <1>6, <1>7, <1>8, <1>4 DEF KbShape, Active
<1>11. AloneIsAlone'
  <2>1. SUFFICES ASSUME NEW i \in KbJobs, alone'[i], Active(i)', NEW k \in KbJobs \ {i}, Active(k)'
                 PROVE  job'[k].op # "clear" /\ job'[i].op # "clear" /\ TextKey(job'[k].key) # TextKey(job'[i].key)
    BY DEF AloneIsAlone, Apart, Active, TextKey, IsCopy, CopyOf
  <2>2. CASE i = j
    <3>1. job'[k] = job[k] /\ Active(k) /\ k \notin others
      BY <1>5, <1>8, <2>1, <2>2 DEF Active
    <3>2. job[k].op # "clear" /\ ~Meets(job[k].key)
      BY <1>9, <2>2, <3>1
    <3>3. QED
      BY <1>5, <2>2, <3>1, <3>2
  <2>3. CASE k = j
    <3>1. job'[i] = job[i] /\ Active(i) /\ i \notin others
      BY <1>5, <1>8, <2>1, <2>3 DEF Active
    <3>2. job[i].op # "clear" /\ ~Meets(job[i].key)
      BY <1>9, <2>3, <3>1
    <3>3. QED
      BY <1>5, <2>3, <3>1, <3>2
  <2>4. CASE i # j /\ k # j
    BY <1>1, <1>5, <1>8, <2>1, <2>4 DEF AloneIsAlone, Apart, Active
  <2>5. QED
    BY <2>2, <2>3, <2>4
<1>12. AnswersRest'
  <2>1. SUFFICES ASSUME NEW k \in FileKeys, outcome'[k] # "unknown", NEW i \in KbJobs, Active(i)'
                 PROVE  job'[i].op # "clear" /\ TextKey(job'[i].key) # TextKey(k)
    BY DEF AnswersRest, Active, TextKey, IsCopy, CopyOf
  <2>2. ~Meets(k) /\ outcome[k] # "unknown"
    BY <1>7, <2>1
  <2>3. CASE i = j
    BY <1>5, <2>2, <2>3
  <2>4. CASE i # j
    BY <1>1, <1>5, <2>1, <2>2, <2>4 DEF AnswersRest, Active
  <2>5. QED
    BY <2>3, <2>4
<1>13. ASSUME NEW i \in KbJobs, alone'[i], Active(i)' PROVE Reached(i)'
  <2>1. CASE i = j
    BY <1>1, <1>3, <1>5, <1>6, <1>4, <2>1 DEF Reached, UploadAt, IndexAt, ReindexAt, RemovalAt
  <2>2. CASE i # j
    <3>1. job'[i] = job[i] /\ Active(i) /\ alone[i] /\ i \notin others
      BY <1>5, <1>8, <1>13, <2>2 DEF Active
    <3>2. PICK k \in FileKeys : k = job[i].key
      BY <3>1, WhereItIs
    <3>3. k # key
      BY <1>9, <2>2, <3>1, <3>2
    <3>4. heldBefore'[k] = heldBefore[k]
      BY <1>6, <3>3
    <3>5. UploadAt(i) /\ IndexAt(i) /\ ReindexAt(i) /\ RemovalAt(i)
      BY <3>1, WhereItIs
    <3>6. UploadAt(i)' /\ IndexAt(i)'
      BY <1>3, <3>1, <3>2, <3>4, <3>5 DEF UploadAt, IndexAt
    <3>7. ReindexAt(i)' /\ RemovalAt(i)'
      BY <1>3, <3>1, <3>2, <3>4, <3>5 DEF ReindexAt, RemovalAt
    <3>8. QED
      BY <3>6, <3>7 DEF Reached
  <2>3. QED
    BY <2>1, <2>2
<1>14. ASSUME NEW k \in FileKeys PROVE Held(k)'
  <2>1. CASE outcome'[k] = "unknown"
    BY <2>1 DEF Held
  <2>2. CASE outcome'[k] # "unknown"
    <3>1. ~Meets(k) /\ outcome'[k] = outcome[k]
      BY <1>7, <2>2
    <3>2. k # key
      BY <3>1
    <3>3. heldBefore'[k] = heldBefore[k]
      BY <1>6, <3>2
    <3>4. Held(k)
      BY DEF KbInv
    <3>5. QED
      BY <1>3, <3>1, <3>3, <3>4 DEF Held
  <2>3. QED
    BY <2>1, <2>2
<1>15. kbFaults' \in Nat
  BY <1>3 DEF KbInv
<1>16. QED
  BY <1>10, <1>11, <1>12, <1>13, <1>14, <1>15 DEF KbInv

LEMMA KbInvInit == KbInit => KbInv
<1> SUFFICES ASSUME KbInit PROVE KbInv
  OBVIOUS
<1>1. /\ stored = [key \in FileKeys |-> 0] /\ index = [key \in FileKeys |-> {}]
      /\ job = [j \in KbJobs |-> NoJob] /\ kbFaults = 0
      /\ alone = [j \in KbJobs |-> FALSE]
      /\ heldBefore = [key \in FileKeys |-> {}] /\ outcome = [key \in FileKeys |-> "unknown"]
  BY DEF KbInit
<1>2. NoJob \in JobRecords /\ NoJob.op = "none" /\ NoJob.at = "idle"
  BY DEF JobRecords, NoJob, Ops, Places
<1>3. \A j \in KbJobs : ~Active(j) /\ job[j].at = "idle" /\ ~alone[j]
  BY <1>1, <1>2 DEF Active
<1>4. KbShape
  <2>1. "unknown" \in Outcomes
    BY DEF Outcomes
  <2>2. QED
    BY <1>1, <1>2, <1>3, <2>1 DEF KbShape
<1>5. QED
  BY <1>1, <1>3, <1>4 DEF KbInv, AloneIsAlone, AnswersRest, Held

LEMMA FaultsAreCounted ==
  ASSUME KbInv, NEW j \in KbJobs,
         \/ Convert(j) \/ EmbedAndStore(j) \/ Put(j) \/ DropStaleChunks(j) \/ RollBack(j)
         \/ ReadStored(j) \/ KeepCopy(j) \/ ReadForReindex(j)
         \/ RemoveFile(j) \/ Unindex(j) \/ ClearFolder(j) \/ ClearIndex(j)
  PROVE  kbFaults' \in Nat
<1>1. Works \/ Fails
  BY Zenon DEF Convert, EmbedAndStore, Put, DropStaleChunks, RollBack, ReadStored, KeepCopy, ReadForReindex, RemoveFile,
       Unindex, ClearFolder, ClearIndex
<1>2. QED
  BY <1>1 DEF Works, Fails, KbInv

LEMMA KbInvStep == KbInv /\ [KbNext]_kbVars => KbInv'
<1> SUFFICES ASSUME KbInv, [KbNext]_kbVars PROVE KbInv'
  OBVIOUS
<1>1. CASE UNCHANGED kbVars
  <2>1. /\ stored' = stored /\ index' = index /\ job' = job /\ kbFaults' = kbFaults /\ alone' = alone
        /\ heldBefore' = heldBefore /\ outcome' = outcome
    BY <1>1 DEF kbVars
  <2>2. QED
    BY <2>1 DEF KbInv, KbShape, AloneIsAlone, AnswersRest, Apart, Active, Reached, UploadAt, IndexAt, ReindexAt, RemovalAt, Held
<1>2. CASE KbNext
  <2>1. PICK j \in KbJobs :
          \/ \E op \in {"upload", "index", "delete", "reindex", "clear"}, key \in FileKeys, v \in 0 .. LastVersion :
               Request(j, op, key, v)
          \/ Convert(j) \/ EmbedAndStore(j) \/ Put(j) \/ DropStaleChunks(j) \/ RollBack(j)
          \/ ReadStored(j) \/ KeepCopy(j) \/ ReadForReindex(j)
          \/ RemoveFile(j) \/ Unindex(j) \/ ClearFolder(j) \/ ClearIndex(j)
    BY <1>2 DEF KbNext
  <2>2. CASE \E op \in {"upload", "index", "delete", "reindex", "clear"}, key \in FileKeys, v \in 0 .. LastVersion :
               Request(j, op, key, v)
    <3>1. {"upload", "index", "delete", "reindex", "clear"} \subseteq Ops \ {"none"}
      BY DEF Ops
    <3>2. QED
      BY <2>2, <3>1, RequestKeeps
  <2>3. ASSUME KbMoves(j), kbFaults' \in Nat PROVE KbInv'
    BY <2>3, MovesKeep
  <2>4. CASE Convert(j) \/ EmbedAndStore(j) \/ Put(j) \/ DropStaleChunks(j) \/ RollBack(j)
    BY <2>3, <2>4, FaultsAreCounted, ConvertMoves, EmbedMoves, PutMoves, DropMoves, RollBackMoves
  <2>5. CASE ReadStored(j) \/ KeepCopy(j) \/ ReadForReindex(j)
    BY <2>3, <2>5, FaultsAreCounted, ReadMoves, CopyMoves, RereadMoves
  <2>6. CASE RemoveFile(j) \/ Unindex(j) \/ ClearFolder(j) \/ ClearIndex(j)
    BY <2>3, <2>6, FaultsAreCounted, RemoveMoves, ClearMoves
  <2>7. QED
    BY <2>1, <2>2, <2>4, <2>5, <2>6
<1>3. QED
  BY <1>1, <1>2

\* A request that had its document to itself leaves the search with the text
\* that is stored, or with what it had (KnowledgeBase, PostgresqlVectorDb).
THEOREM StorageIsSearchable == KbSpec => []SearchFollowsStorage
<1>1. KbInv => SearchFollowsStorage
  BY DEF KbInv, SearchFollowsStorage, Held
<1>2. QED
  BY <1>1, KbInvInit, KbInvStep, PTL DEF KbSpec

-----------------------------------------------------------------------------
(***************************************************************************)
(* Retrieval: what is fetched is enough.                                   *)
(***************************************************************************)

\* More is fetched than is wanted.
LEMMA FetchesEnough == Limit \in Nat /\ Candidates \in Nat /\ Limit > 0 /\ Candidates >= Limit
<1>1. Limit \in Nat /\ OverFetch \in Nat /\ Limit > 0 /\ OverFetch > 0
  BY RetrievalAssumption
<1>2. Limit * OverFetch = Limit + Limit * (OverFetch - 1) /\ Limit * (OverFetch - 1) \in Nat
  BY <1>1
<1>3. QED
  BY <1>1, <1>2 DEF Candidates

\* As many as there are, and all of them, when they are no more than wanted.
LEMMA FewAreAllTaken ==
  ASSUME NEW S, IsFiniteSet(S), NEW n \in Nat, Cardinality(S) <= n, NEW T \in SUBSET S,
         Cardinality(T) = IF Cardinality(S) < n THEN Cardinality(S) ELSE n
  PROVE  T = S
<1>1. Cardinality(S) \in Nat /\ (Cardinality(T) = Cardinality(S) => T = S)
  BY FS_CardinalityType, FS_Subset
<1>2. QED
  BY <1>1

SearchType == table \in [KbChunks -> [score : Scores, hit : BOOLEAN]]

LEMMA RankTyped ==
  ASSUME SearchType, NEW c \in KbChunks
  PROVE  /\ table[c].score \in Nat /\ Rank(c) \in Nat /\ Rank(c) >= table[c].score
         /\ ~table[c].hit => Rank(c) = table[c].score
<1>1. table[c].score \in Nat /\ KeywordBonus \in Nat
  BY RetrievalAssumption DEF SearchType
<1>2. CASE table[c].hit
  BY <1>1, <1>2 DEF Rank
<1>3. CASE ~table[c].hit
  BY <1>1, <1>3 DEF Rank
<1>4. QED
  BY <1>1, <1>2, <1>3

\* What passes the floor and the margin among the chunks of R.
Eligible(R) == {c \in R : AboveFloor(c) /\ \A d \in R : Rank(c) >= Rank(d) - RelativeMargin}

\* Fetched, and all of them, or so many that no other chunk is closer; and
\* every chunk that is not fetched does not have the words.
FetchedSo(vec, R) ==
  /\ R \subseteq KbChunks /\ vec \subseteq R
  /\ \A d \in KbChunks \ R : /\ Cardinality(vec) = Candidates /\ ~table[d].hit
                             /\ \A c \in vec : ~Closer(d, c)

\* T is a best answer out of the chunks of R.
AnswerOf(T, R) ==
  /\ T \in SUBSET Eligible(R)
  /\ Cardinality(T) = IF Cardinality(Eligible(R)) < Limit THEN Cardinality(Eligible(R)) ELSE Limit
  /\ \A c \in T, d \in Eligible(R) \ T : ~Better(d, c)

LEMMA RankedAnswers == \A R : \A T : T \in Ranked(R) <=> AnswerOf(T, R)
BY Zenon DEF Ranked, FirstOf, AnswerOf, Eligible

LEMMA AllOrMany ==
  ASSUME NEW vec \in SUBSET KbChunks, NEW kw \in SUBSET {c \in KbChunks : table[c].hit},
         Cardinality(vec) = IF Cardinality(KbChunks) < Candidates THEN Cardinality(KbChunks) ELSE Candidates,
         Cardinality(kw) = IF Cardinality({c \in KbChunks : table[c].hit}) < Candidates
                           THEN Cardinality({c \in KbChunks : table[c].hit}) ELSE Candidates,
         Cardinality({c \in KbChunks : table[c].hit}) <= Candidates,
         \A c \in vec, d \in KbChunks \ vec : ~Closer(d, c)
  PROVE  FetchedSo(vec, vec \union kw)
<1>1. IsFiniteSet(KbChunks) /\ Candidates \in Nat
  BY RetrievalAssumption, FetchesEnough
<1>2. PICK hits \in SUBSET KbChunks : hits = {c \in KbChunks : table[c].hit}
  OBVIOUS
<1>3. kw = hits
  <2>1. IsFiniteSet(hits)
    BY <1>1, FS_Subset
  <2>2. QED
    BY <1>1, <1>2, <2>1, FewAreAllTaken
<1>4. Cardinality(KbChunks) < Candidates => vec = KbChunks
  <2>1. Cardinality(KbChunks) \in Nat
    BY <1>1, FS_CardinalityType
  <2>2. QED
    BY <1>1, <2>1, FewAreAllTaken
<1>5. QED
  BY <1>2, <1>3, <1>4 DEF FetchedSo

\* The answer made of the candidates is one that ranking everything would give.
LEMMA FetchedIsEnough ==
  ASSUME SearchType, NEW vec, NEW R, FetchedSo(vec, R), NEW T, AnswerOf(T, R)
  PROVE  AnswerOf(T, KbChunks)
<1>1. /\ R \subseteq KbChunks /\ vec \subseteq R
      /\ \A d \in KbChunks \ R : /\ Cardinality(vec) = Candidates /\ ~table[d].hit
                                 /\ \A c \in vec : ~Closer(d, c)
  BY DEF FetchedSo
<1>2. IsFiniteSet(KbChunks) /\ RelativeMargin \in Nat /\ Candidates \in Nat /\ Limit \in Nat /\ Candidates >= Limit /\ Limit > 0
  BY RetrievalAssumption, FetchesEnough
<1>3. /\ T \in SUBSET Eligible(R)
      /\ Cardinality(T) = IF Cardinality(Eligible(R)) < Limit THEN Cardinality(Eligible(R)) ELSE Limit
      /\ \A c \in T, d \in Eligible(R) \ T : ~Better(d, c)
  BY DEF AnswerOf
<1>4. \A c \in KbChunks : Rank(c) \in Nat
  BY RankTyped
<1>5. \A d \in KbChunks \ R, c \in vec : Rank(c) >= Rank(d) /\ table[c].score >= Rank(d) /\ table[d].score = Rank(d)
  <2>1. SUFFICES ASSUME NEW d \in KbChunks \ R, NEW c \in vec
                 PROVE  Rank(c) >= Rank(d) /\ table[c].score >= Rank(d) /\ table[d].score = Rank(d)
    OBVIOUS
  <2>2. c \in KbChunks /\ Rank(d) = table[d].score /\ ~(table[d].score > table[c].score)
    BY <1>1, RankTyped DEF Closer
  <2>3. Rank(c) \in Nat /\ table[c].score \in Nat /\ table[d].score \in Nat /\ Rank(c) >= table[c].score
    BY <2>2, RankTyped
  <2>4. QED
    BY <2>2, <2>3
<1>6. \A d \in KbChunks \ R : \E c \in vec : TRUE
  <2>1. SUFFICES ASSUME NEW d \in KbChunks \ R, vec = {} PROVE FALSE
    OBVIOUS
  <2>2. Cardinality(vec) = 0
    BY <2>1, FS_EmptySet
  <2>3. QED
    BY <1>1, <1>2, <2>2
<1>7. Eligible(R) = Eligible(KbChunks) \intersect R
  <2>1. ASSUME NEW c \in Eligible(R) PROVE c \in Eligible(KbChunks)
    <3>1. c \in R /\ c \in KbChunks /\ AboveFloor(c) /\ \A d \in R : Rank(c) >= Rank(d) - RelativeMargin
      BY <1>1, <2>1 DEF Eligible
    <3>2. ASSUME NEW d \in KbChunks \ R PROVE Rank(c) >= Rank(d) - RelativeMargin
      <4>1. PICK v \in vec : Rank(v) >= Rank(d) /\ v \in R
        BY <1>1, <1>5, <1>6
      <4>2. Rank(c) >= Rank(v) - RelativeMargin /\ v \in KbChunks
        BY <1>1, <3>1, <4>1
      <4>3. QED
        BY <1>2, <1>4, <3>1, <4>1, <4>2
    <3>3. QED
      BY <3>1, <3>2 DEF Eligible
  <2>2. QED
    BY <1>1, <2>1 DEF Eligible
<1>8. /\ Cardinality(T) = IF Cardinality(Eligible(KbChunks)) < Limit THEN Cardinality(Eligible(KbChunks)) ELSE Limit
      /\ \A c \in T, d \in Eligible(KbChunks) \ T : ~Better(d, c)
  <2>1. CASE Eligible(KbChunks) \subseteq R
    <3>1. Eligible(R) = Eligible(KbChunks)
      BY <1>7, <2>1
    <3>2. QED
      BY <1>3, <3>1
  <2>2. CASE ~(Eligible(KbChunks) \subseteq R)
    <3>1. PICK e \in Eligible(KbChunks) : e \notin R
      BY <2>2
    <3>2. e \in KbChunks \ R /\ AboveFloor(e) /\ \A d \in KbChunks : Rank(e) >= Rank(d) - RelativeMargin
      BY <3>1 DEF Eligible
    <3>3. vec \subseteq Eligible(R)
      <4>1. SUFFICES ASSUME NEW v \in vec PROVE v \in Eligible(R)
        OBVIOUS
      <4>2. v \in R /\ v \in KbChunks /\ Rank(v) >= Rank(e) /\ table[v].score >= Rank(e) /\ table[e].score = Rank(e)
        BY <1>1, <1>5, <3>2
      <4>3. table[e].score >= MinScore
        BY <1>1, <3>2 DEF AboveFloor
      <4>4. table[v].score \in Nat /\ MinScore \in Nat
        BY <4>2, RankTyped, RetrievalAssumption
      <4>5. AboveFloor(v)
        <5>1. table[v].score >= MinScore
          BY <1>4, <3>2, <4>2, <4>3, <4>4
        <5>2. QED
          BY <5>1 DEF AboveFloor
      <4>6. ASSUME NEW d \in R PROVE Rank(v) >= Rank(d) - RelativeMargin
        <5>1. Rank(e) >= Rank(d) - RelativeMargin /\ d \in KbChunks
          BY <1>1, <3>2
        <5>2. QED
          BY <1>2, <1>4, <3>2, <4>2, <5>1
      <4>7. QED
        BY <4>2, <4>5, <4>6 DEF Eligible
    <3>4. /\ IsFiniteSet(Eligible(KbChunks)) /\ IsFiniteSet(Eligible(R)) /\ IsFiniteSet(T)
          /\ Cardinality(vec) <= Cardinality(Eligible(R)) /\ Cardinality(Eligible(R)) <= Cardinality(Eligible(KbChunks))
      <4>1. Eligible(KbChunks) \subseteq KbChunks
        BY DEF Eligible
      <4>2. IsFiniteSet(Eligible(KbChunks))
        BY <1>2, <4>1, FS_Subset
      <4>3. IsFiniteSet(Eligible(R)) /\ Cardinality(Eligible(R)) <= Cardinality(Eligible(KbChunks))
        BY <1>7, <4>2, FS_Subset
      <4>4. IsFiniteSet(T)
        BY <1>3, <4>3, FS_Subset
      <4>5. QED
        BY <3>3, <4>2, <4>3, <4>4, FS_Subset
    <3>5. Cardinality(vec) = Candidates
      BY <1>1, <3>2
    <3>6. Cardinality(Eligible(R)) \in Nat /\ Cardinality(Eligible(KbChunks)) \in Nat
      BY <3>4, FS_CardinalityType
    <3>7. Cardinality(T) = Limit /\ Cardinality(Eligible(KbChunks)) >= Limit
      BY <1>2, <1>3, <3>4, <3>5, <3>6
    <3>8. ASSUME NEW c \in T, NEW d \in Eligible(KbChunks) \ T PROVE ~Better(d, c)
      <4>1. c \in KbChunks /\ d \in KbChunks
        BY <1>1, <1>3, <3>8 DEF Eligible
      <4>2. CASE d \in R
        BY <1>3, <1>7, <3>8, <4>2
      <4>3. CASE d \notin R
        <5>1. PICK v \in vec : v = c \/ v \notin T
          <6>1. CASE vec \subseteq T
            <7>1. Cardinality(vec) <= Cardinality(T) /\ (Cardinality(vec) = Cardinality(T) => vec = T)
              BY <3>4, <6>1, FS_Subset
            <7>2. vec = T
              BY <1>2, <3>5, <3>7, <7>1
            <7>3. QED
              BY <3>8, <7>2
          <6>2. QED
            BY <6>1
        <5>2. Rank(v) >= Rank(d) /\ v \in KbChunks
          BY <1>1, <1>5, <4>1, <4>3
        <5>3. v = c \/ ~(Rank(v) > Rank(c))
          BY <1>3, <3>3, <3>8, <5>1 DEF Better
        <5>4. Rank(v) \in Nat /\ Rank(c) \in Nat /\ Rank(d) \in Nat
          BY <1>4, <4>1, <5>2
        <5>5. ~(Rank(d) > Rank(c))
          BY <5>2, <5>3, <5>4
        <5>6. QED
          BY <5>5 DEF Better
      <4>4. QED
        BY <4>2, <4>3
    <3>9. QED
      BY <1>2, <3>6, <3>7, <3>8
  <2>3. QED
    BY <2>1, <2>2
<1>9. T \in SUBSET Eligible(KbChunks)
  BY <1>3, <1>7
<1>10. QED
  BY <1>8, <1>9 DEF AnswerOf

\* SearchIsExact, for any table: the more that is fetched, the floor and the
\* margin lose no chunk that ranking the whole table would have answered.
THEOREM SearchLosesNothing == SearchSpec => []SearchIsExact
<1>1. SearchInit => SearchType /\ SearchIsExact
  BY DEF SearchInit, SearchType, SearchIsExact
<1>2. SearchType /\ SearchIsExact /\ [Search]_searchVars => (SearchType /\ SearchIsExact)'
  <2> SUFFICES ASSUME SearchType, SearchIsExact, [Search]_searchVars PROVE (SearchType /\ SearchIsExact)'
    OBVIOUS
  <2>1. table' = table
    BY DEF Search, searchVars
  <2>2. CASE Search
    <3>1. PICK vec \in FirstOf(Candidates, KbChunks, Closer),
               kw \in FirstOf(Candidates, {c \in KbChunks : table[c].hit}, LAMBDA c, d : FALSE) :
             found' \in Ranked(vec \union kw)
      BY <2>2 DEF Search
    <3>2. Cardinality({c \in KbChunks : table[c].hit}) <= Candidates => found' \in Ranked(KbChunks)
      <4>1. SUFFICES ASSUME Cardinality({c \in KbChunks : table[c].hit}) <= Candidates PROVE AnswerOf(found', KbChunks)
        BY RankedAnswers, Zenon
      <4>2. FetchedSo(vec, vec \union kw)
        <5>1. /\ vec \in SUBSET KbChunks
              /\ Cardinality(vec) = IF Cardinality(KbChunks) < Candidates THEN Cardinality(KbChunks) ELSE Candidates
              /\ \A c \in vec, d \in KbChunks \ vec : ~Closer(d, c)
          BY Zenon DEF FirstOf
        <5>2. /\ kw \in SUBSET {c \in KbChunks : table[c].hit}
              /\ Cardinality(kw) = IF Cardinality({c \in KbChunks : table[c].hit}) < Candidates
                                   THEN Cardinality({c \in KbChunks : table[c].hit}) ELSE Candidates
          BY Zenon DEF FirstOf
        <5>3. QED
          BY <4>1, <5>1, <5>2, AllOrMany, Zenon
      <4>3. AnswerOf(found', vec \union kw)
        BY <3>1, RankedAnswers, Zenon
      <4>4. QED
        BY <4>2, <4>3, FetchedIsEnough, Zenon
    <3>3. Ranked(KbChunks)' = Ranked(KbChunks)
      BY <2>1 DEF Ranked, FirstOf, AboveFloor, Rank, Better
    <3>4. QED
      BY <2>1, <3>2, <3>3 DEF SearchType, SearchIsExact
  <2>3. CASE UNCHANGED searchVars
    BY <2>3 DEF searchVars, SearchType, SearchIsExact, Ranked, FirstOf, AboveFloor, Rank, Better
  <2>4. QED
    BY <2>2, <2>3
<1>3. QED
  BY <1>1, <1>2, PTL DEF SearchSpec

-----------------------------------------------------------------------------
(***************************************************************************)
(* Migrating: the servers and their lock.                                  *)
(***************************************************************************)
Stages == {"off", "waiting", "choosing", "running", "finishing", "serving"}
PastTheLock == {"choosing", "running", "finishing"}
Databases == [recorded : SUBSET Nat, schema : {SchemaAt[n] : n \in 0 .. Len(Migrations)}, broken : BOOLEAN]

\* The recorded versions and the schema of a database that is at version n.
Is(db, n) == db.recorded = 1 .. n /\ db.schema = SchemaAt[n]

MigInv ==
  /\ stage \in [Servers -> Stages] /\ work \in [Servers -> Databases] /\ next \in [Servers -> Nat] /\ troubles \in Nat
  /\ SchemaIsAsRecorded
  /\ \A p \in Servers :
       /\ stage[p] \in PastTheLock =>
            /\ holder = p
            /\ \E n \in 0 .. Len(Migrations) : /\ Is(work[p], n)
                                               /\ stage[p] = "running" => n < Len(Migrations) /\ next[p] = n + 1
       /\ stage[p] \notin PastTheLock => ~work[p].broken
       /\ work[p].broken => stage[p] = "finishing" /\ troubles > 0
       /\ stage[p] = "finishing" /\ troubles = 0 /\ PoolSize > 1 => work[p].recorded = SchemaVersions

LEMMA VersionsTyped ==
  /\ Len(Migrations) \in Nat /\ SchemaVersions = 1 .. Len(Migrations)
  /\ \A n \in 0 .. Len(Migrations) - 1 : n + 1 \in SchemaVersions /\ (n + 1) - 1 = n
BY MigrationsFit DEF SchemaVersions

LEMMA MigInit == MigratingInit => MigInv
<1> SUFFICES ASSUME MigratingInit PROVE MigInv
  OBVIOUS
<1>1. /\ recorded = {} /\ schema = {} /\ troubles = 0
      /\ \A p \in Servers : stage[p] = "off" /\ work[p] = NoWork
      /\ stage \in [Servers -> Stages] /\ work \in [Servers -> Databases] /\ next \in [Servers -> Nat]
  <2>1. NoWork \in Databases
    BY MigrationsFit DEF NoWork, Databases
  <2>2. QED
    BY <2>1 DEF MigratingInit, Stages
<1>2. SchemaIsAsRecorded
  <2>1. recorded = 1 .. 0 /\ schema = SchemaAt[0] /\ 0 \in 0 .. Len(Migrations)
    BY <1>1, MigrationsFit
  <2>2. QED
    BY <2>1 DEF SchemaIsAsRecorded
<1>3. QED
  BY <1>1, <1>2 DEF MigInv, NoWork, PastTheLock

LEMMA LockKeeps ==
  ASSUME MigInv, NEW p \in Servers, TakeLock(p) PROVE MigInv'
<1>1. PICK n \in 0 .. Len(Migrations) : recorded = 1 .. n /\ schema = SchemaAt[n]
  BY DEF MigInv, SchemaIsAsRecorded
<1> DEFINE mine == [recorded |-> recorded, schema |-> schema, broken |-> FALSE]
<1>2. /\ stage' = [stage EXCEPT ![p] = "choosing"] /\ work' = [work EXCEPT ![p] = mine] /\ holder' = p /\ holder = Nobody
      /\ recorded' = recorded /\ schema' = schema /\ next' = next /\ troubles' = troubles /\ reported' = reported
  BY DEF TakeLock
<1>3. \A q \in Servers \ {p} : stage'[q] = stage[q] /\ work'[q] = work[q] /\ stage[q] \notin PastTheLock
  BY <1>2, MigratingAssumption DEF MigInv
<1>4. stage'[p] = "choosing" /\ work'[p] = mine
  BY <1>2 DEF MigInv
<1>5. /\ stage' \in [Servers -> Stages] /\ work' \in [Servers -> Databases]
  <2>1. mine \in Databases
    BY <1>1 DEF Databases
  <2>2. QED
    BY <1>2, <2>1 DEF MigInv, Stages
<1>6. SchemaIsAsRecorded'
  BY <1>2 DEF MigInv, SchemaIsAsRecorded
<1>7. QED
  BY <1>1, <1>2, <1>3, <1>4, <1>5, <1>6 DEF MigInv, PastTheLock, Is

\* A step of a server past the lock that keeps it there.
TaskStep(p, s, x, n) ==
  /\ stage' = [stage EXCEPT ![p] = s] /\ work' = [work EXCEPT ![p] = x]
  /\ Is(x, n) /\ (s = "running" => n < Len(Migrations) /\ next'[p] = n + 1)
  /\ x.broken => s = "finishing" /\ troubles' > 0
  /\ s = "finishing" /\ troubles' = 0 /\ PoolSize > 1 => x.recorded = SchemaVersions
  /\ recorded' = recorded /\ schema' = schema /\ holder' = holder
  /\ troubles' \in Nat /\ troubles' >= troubles /\ next' \in [Servers -> Nat]

LEMMA WorkKeeps ==
  ASSUME MigInv, NEW p \in Servers, stage[p] \in PastTheLock, NEW s \in PastTheLock, NEW x \in Databases,
         NEW n \in 0 .. Len(Migrations), TaskStep(p, s, x, n)
  PROVE  MigInv'
<1>1. /\ stage' = [stage EXCEPT ![p] = s] /\ work' = [work EXCEPT ![p] = x]
      /\ Is(x, n) /\ (s = "running" => n < Len(Migrations) /\ next'[p] = n + 1)
      /\ x.broken => s = "finishing" /\ troubles' > 0
      /\ s = "finishing" /\ troubles' = 0 /\ PoolSize > 1 => x.recorded = SchemaVersions
      /\ recorded' = recorded /\ schema' = schema /\ holder' = holder
      /\ troubles' \in Nat /\ troubles' >= troubles /\ next' \in [Servers -> Nat]
  BY Zenon DEF TaskStep
<1>2. \A q \in Servers \ {p} : stage'[q] = stage[q] /\ work'[q] = work[q] /\ stage[q] \notin PastTheLock
  BY <1>1 DEF MigInv
<1>3. stage'[p] = s /\ work'[p] = x /\ holder' = p
  BY <1>1 DEF MigInv
<1>4. stage' \in [Servers -> Stages] /\ work' \in [Servers -> Databases] /\ SchemaIsAsRecorded'
  BY <1>1 DEF MigInv, Stages, PastTheLock, SchemaIsAsRecorded
<1>5. ASSUME NEW q \in Servers
      PROVE  /\ stage'[q] \in PastTheLock =>
                  /\ holder' = q
                  /\ \E k \in 0 .. Len(Migrations) : /\ Is(work'[q], k)
                                                     /\ stage'[q] = "running" => k < Len(Migrations) /\ next'[q] = k + 1
             /\ stage'[q] \notin PastTheLock => ~work'[q].broken
             /\ work'[q].broken => stage'[q] = "finishing" /\ troubles' > 0
             /\ stage'[q] = "finishing" /\ troubles' = 0 /\ PoolSize > 1 => work'[q].recorded = SchemaVersions
  <2>1. CASE q = p
    BY <1>1, <1>3, <2>1
  <2>2. CASE q # p
    BY <1>1, <1>2, <2>2 DEF MigInv, PastTheLock
  <2>3. QED
    BY <2>1, <2>2
<1>6. QED
  BY <1>1, <1>4, <1>5 DEF MigInv, Is

\* Where a server past the lock is.
LEMMA AtWork ==
  ASSUME MigInv, NEW p \in Servers, stage[p] \in PastTheLock
  PROVE  /\ work[p] \in Databases /\ (stage[p] # "finishing" => ~work[p].broken)
         /\ troubles \in Nat /\ next \in [Servers -> Nat] /\ work \in [Servers -> Databases]
         /\ \E n \in 0 .. Len(Migrations) : /\ Is(work[p], n)
                                            /\ stage[p] = "running" => n < Len(Migrations) /\ next[p] = n + 1
BY DEF MigInv

LEMMA NextKeeps ==
  ASSUME MigInv, NEW p \in Servers, NextMigration(p) \/ NoConnection(p) \/ UpToDate(p)
  PROVE  MigInv'
<1>1. stage[p] = "choosing" /\ stage[p] \in PastTheLock
  BY DEF NextMigration, NoConnection, UpToDate, At, PastTheLock
<1>2. PICK n \in 0 .. Len(Migrations) : Is(work[p], n)
  BY <1>1, AtWork
<1>3. PICK x \in Databases : x = work[p]
  BY <1>1, AtWork
<1>4. /\ work' = [work EXCEPT ![p] = x] /\ recorded' = recorded /\ schema' = schema /\ holder' = holder
  <2>1. work' = work /\ recorded' = recorded /\ schema' = schema /\ holder' = holder
    BY DEF NextMigration, NoConnection, UpToDate
  <2>2. work = [work EXCEPT ![p] = work[p]]
    BY <1>1, AtWork
  <2>3. QED
    BY <1>3, <2>1, <2>2
<1>5. ~x.broken /\ Is(x, n) /\ troubles \in Nat /\ next \in [Servers -> Nat]
  BY <1>1, <1>2, <1>3, AtWork
<1>6. Pending(p) = (1 .. Len(Migrations)) \ (1 .. n) /\ Len(Migrations) \in Nat
  BY <1>2, VersionsTyped DEF Is, Pending
<1>7. CASE NextMigration(p)
  <2>1. n < Len(Migrations) /\ n + 1 \in Pending(p) /\ (\A u \in Pending(p) : n + 1 <= u)
    BY <1>6, <1>7 DEF NextMigration
  <2>2. \A v \in Pending(p) : (\A u \in Pending(p) : v <= u) => v = n + 1
    <3>1. SUFFICES ASSUME NEW v \in Pending(p), \A u \in Pending(p) : v <= u PROVE v = n + 1
      OBVIOUS
    <3>2. v <= n + 1 /\ n + 1 <= v /\ v \in Nat
      BY <1>6, <2>1, <3>1
    <3>3. QED
      BY <3>2
  <2>3. (CHOOSE v \in Pending(p) : \A u \in Pending(p) : v <= u) = n + 1
    BY <2>1, <2>2
  <2>4. next' = [next EXCEPT ![p] = n + 1] /\ stage' = [stage EXCEPT ![p] = "running"] /\ troubles' = troubles
    BY <1>7, <2>3 DEF NextMigration
  <2>5. next'[p] = n + 1 /\ next' \in [Servers -> Nat]
    BY <1>5, <1>6, <2>4
  <2>6. "running" \in PastTheLock
    BY DEF PastTheLock
  <2>7. TaskStep(p, "running", x, n)
    BY <1>4, <1>5, <2>1, <2>4, <2>5 DEF TaskStep
  <2>8. QED
    BY <1>1, <2>7, <2>6, WorkKeeps
<1>8. CASE NoConnection(p)
  <2>1. stage' = [stage EXCEPT ![p] = "finishing"] /\ next' = next
    BY <1>8 DEF NoConnection
  <2>2. troubles' \in Nat /\ troubles' >= troubles /\ (PoolSize > 1 => troubles' > 0)
    BY <1>5, <1>8 DEF NoConnection, Trouble
  <2>3. "finishing" \in PastTheLock
    BY DEF PastTheLock
  <2>4. troubles' = 0 /\ PoolSize > 1 => FALSE
    BY <2>2
  <2>5. TaskStep(p, "finishing", x, n)
    BY <1>4, <1>5, <2>1, <2>2, <2>4 DEF TaskStep
  <2>6. QED
    BY <1>1, <2>5, <2>3, WorkKeeps
<1>9. CASE UpToDate(p)
  <2>1. stage' = [stage EXCEPT ![p] = "finishing"] /\ next' = next /\ troubles' = troubles /\ Pending(p) = {}
    BY <1>9 DEF UpToDate
  <2>2. x.recorded = SchemaVersions
    <3>1. (1 .. Len(Migrations)) \ (1 .. n) = {}
      BY <1>6, <2>1
    <3>2. \A k \in 1 .. Len(Migrations) : k \in 1 .. n
      BY <3>1
    <3>3. 1 .. n = SchemaVersions
      BY <1>6, <3>2, VersionsTyped
    <3>4. QED
      BY <1>5, <3>3 DEF Is
  <2>3. "finishing" \in PastTheLock
    BY DEF PastTheLock
  <2>4. TaskStep(p, "finishing", x, n)
    BY <1>4, <1>5, <2>1, <2>2 DEF TaskStep
  <2>5. QED
    BY <1>1, <2>4, <2>3, WorkKeeps
<1>10. QED
  BY <1>7, <1>8, <1>9

LEMMA DatabaseBreaks ==
  ASSUME NEW db \in Databases
  PROVE  \E x \in Databases : /\ x = [db EXCEPT !.broken = TRUE]
                              /\ x.recorded = db.recorded /\ x.schema = db.schema /\ x.broken = TRUE
<1>1. [db EXCEPT !.broken = TRUE] \in Databases
  BY DEF Databases
<1>2. QED
  BY <1>1 DEF Databases

LEMMA ApplyKeeps ==
  ASSUME MigInv, NEW p \in Servers, Apply(p) \/ StatementFails(p)
  PROVE  MigInv'
<1>1. stage[p] = "running" /\ stage[p] \in PastTheLock
  BY DEF Apply, StatementFails, At, PastTheLock
<1>2. PICK n \in 0 .. Len(Migrations) : Is(work[p], n) /\ n < Len(Migrations) /\ next[p] = n + 1
  BY <1>1, AtWork
<1>3. RunAll(Migrations[next[p]].up, work[p].schema) = [ok |-> TRUE, objs |-> SchemaAt[n + 1]]
  <2>1. n + 1 \in SchemaVersions /\ (n + 1) - 1 = n
    BY <1>2, VersionsTyped
  <2>2. RunAll(Migrations[n + 1].up, SchemaAt[n]) = [ok |-> TRUE, objs |-> SchemaAt[n + 1]]
    BY <2>1, MigrationsFit
  <2>3. QED
    BY <1>2, <2>2 DEF Is
<1>4. /\ recorded' = recorded /\ schema' = schema /\ holder' = holder /\ next' = next
      /\ work[p] \in Databases /\ work[p].broken = FALSE /\ troubles \in Nat /\ next \in [Servers -> Nat]
  <2>1. recorded' = recorded /\ schema' = schema /\ holder' = holder /\ next' = next
    BY DEF Apply, StatementFails
  <2>2. QED
    BY <1>1, <2>1, AtWork
<1>5. CASE Apply(p)
  <2>1. PICK x \in Databases : x = [recorded |-> work[p].recorded \union {n + 1}, schema |-> SchemaAt[n + 1], broken |-> FALSE]
    <3>1. n + 1 \in 0 .. Len(Migrations) /\ n + 1 \in Nat
      BY <1>2, VersionsTyped
    <3>2. [recorded |-> work[p].recorded \union {n + 1}, schema |-> SchemaAt[n + 1], broken |-> FALSE] \in Databases
      BY <1>4, <3>1 DEF Databases
    <3>3. QED
      BY <3>2
  <2>2. work' = [work EXCEPT ![p] = x]
    <3>1. work' = [work EXCEPT ![p] = [recorded |-> work[p].recorded \union {next[p]},
                                       schema |-> RunAll(Migrations[next[p]].up, work[p].schema).objs, broken |-> work[p].broken]]
      BY <1>5, Zenon DEF Apply
    <3>2. RunAll(Migrations[next[p]].up, work[p].schema).objs = SchemaAt[n + 1]
      BY <1>3
    <3>3. QED
      BY <1>2, <1>4, <2>1, <3>1, <3>2, Zenon
  <2>3. Is(x, n + 1) /\ n + 1 \in 0 .. Len(Migrations)
    BY <1>2, <2>1, VersionsTyped DEF Is
  <2>4. ~x.broken
    BY <2>1
  <2>5. stage' = [stage EXCEPT ![p] = "choosing"] /\ troubles' = troubles
    BY <1>5 DEF Apply
  <2>6. "choosing" \in PastTheLock
    BY DEF PastTheLock
  <2>7. PICK k \in 0 .. Len(Migrations) : k = n + 1 /\ Is(x, k)
    BY <2>3
  <2>8. TaskStep(p, "choosing", x, k)
    BY <1>4, <2>2, <2>4, <2>5, <2>7 DEF TaskStep
  <2>9. QED
    BY <1>1, <2>8, <2>6, WorkKeeps
<1>6. CASE StatementFails(p)
  <2>1. PICK x \in Databases :
          /\ x = [work[p] EXCEPT !.broken = TRUE]
          /\ x.recorded = work[p].recorded /\ x.schema = work[p].schema /\ x.broken = TRUE
    BY <1>4, DatabaseBreaks
  <2>2. work' = [work EXCEPT ![p] = x]
    <3>1. work' = [work EXCEPT ![p] = [work[p] EXCEPT !.broken = TRUE]]
      BY <1>6, Zenon DEF StatementFails
    <3>2. QED
      BY <2>1, <3>1, Zenon
  <2>3. Is(x, n)
    BY <1>2, <2>1 DEF Is
  <2>5. stage' = [stage EXCEPT ![p] = "finishing"] /\ Trouble
    BY <1>3, <1>6 DEF StatementFails
  <2>6. troubles' \in Nat /\ troubles' >= troubles /\ troubles' > 0
    BY <1>4, <2>5 DEF Trouble
  <2>7. "finishing" \in PastTheLock /\ "finishing" # "running"
    BY DEF PastTheLock
  <2>8. ~(troubles' = 0)
    BY <2>6
  <2>9. TaskStep(p, "finishing", x, n)
    BY <1>4, <2>2, <2>3, <2>5, <2>6, <2>7, <2>8 DEF TaskStep
  <2>10. QED
    BY <1>1, <2>7, <2>9, WorkKeeps
<1>7. QED
  BY <1>5, <1>6

\* A server that lets go of the lock, or has none: committing or not.
LEMMA LeaveKeeps ==
  ASSUME MigInv, NEW p \in Servers, NEW s \in Stages \ PastTheLock, NEW x \in {NoWork, work[p]},
         stage[p] \notin PastTheLock \/ x = NoWork,
         stage' = [stage EXCEPT ![p] = s], work' = [work EXCEPT ![p] = x],
         holder' = holder \/ (stage[p] \in PastTheLock /\ holder' = Nobody) \/ (holder = p /\ holder' = Nobody),
         SchemaIsAsRecorded', troubles' \in Nat, troubles' >= troubles,
         next' \in [Servers -> Nat], \A q \in Servers \ {p} : next'[q] = next[q]
  PROVE  MigInv'
<1>1. \A q \in Servers \ {p} : stage'[q] = stage[q] /\ work'[q] = work[q]
  BY DEF MigInv
<1>2. stage'[p] = s /\ work'[p] = x
  BY DEF MigInv
<1>3. stage' \in [Servers -> Stages] /\ work' \in [Servers -> Databases]
  <2>1. NoWork \in Databases
    BY MigrationsFit DEF NoWork, Databases
  <2>2. QED
    BY <2>1 DEF MigInv
<1>4. ~x.broken
  BY DEF MigInv, NoWork
<1>5. \A q \in Servers \ {p} : stage[q] \in PastTheLock => holder' = holder
  BY DEF MigInv
<1>6. ASSUME NEW q \in Servers
      PROVE  /\ stage'[q] \in PastTheLock =>
                  /\ holder' = q
                  /\ \E k \in 0 .. Len(Migrations) : /\ Is(work'[q], k)
                                                     /\ stage'[q] = "running" => k < Len(Migrations) /\ next'[q] = k + 1
             /\ stage'[q] \notin PastTheLock => ~work'[q].broken
             /\ work'[q].broken => stage'[q] = "finishing" /\ troubles' > 0
             /\ stage'[q] = "finishing" /\ troubles' = 0 /\ PoolSize > 1 => work'[q].recorded = SchemaVersions
  <2>1. CASE q = p
    BY <1>2, <1>4, <2>1 DEF PastTheLock
  <2>2. CASE q # p
    <3>1. troubles \in Nat /\ (troubles > 0 => troubles' > 0) /\ (troubles' = 0 => troubles = 0)
      BY DEF MigInv
    <3>2. QED
      BY <1>1, <1>5, <2>2, <3>1 DEF MigInv
  <2>3. QED
    BY <2>1, <2>2
<1>7. QED
  BY <1>3, <1>6 DEF MigInv, Is

LEMMA FinishKeeps ==
  ASSUME MigInv, NEW p \in Servers, Finish(p)
  PROVE  MigInv'
<1>1. stage[p] = "finishing" /\ stage[p] \in PastTheLock
  BY DEF Finish, At, PastTheLock
<1>2. PICK n \in 0 .. Len(Migrations) : Is(work[p], n)
  BY <1>1, AtWork
<1>3. /\ stage' = [stage EXCEPT ![p] = "serving"] /\ work' = [work EXCEPT ![p] = NoWork] /\ holder' = Nobody
      /\ next' = next /\ troubles' = troubles
  BY DEF Finish
<1>4. SchemaIsAsRecorded'
  <2>1. CASE work[p].broken
    BY <2>1 DEF Finish, MigInv, SchemaIsAsRecorded
  <2>2. CASE ~work[p].broken
    <3>1. recorded' = 1 .. n /\ schema' = SchemaAt[n]
      BY <1>2, <2>2 DEF Finish, Is
    <3>2. QED
      BY <3>1 DEF SchemaIsAsRecorded
  <2>3. QED
    BY <2>1, <2>2
<1>5. "serving" \in Stages \ PastTheLock
  BY DEF Stages, PastTheLock
<1>6. troubles \in Nat /\ next \in [Servers -> Nat] /\ troubles >= troubles
  BY DEF MigInv
<1>7. PICK x \in {NoWork, work[p]} : x = NoWork
  OBVIOUS
<1>8. work' = [work EXCEPT ![p] = x]
  BY <1>3, <1>7
<1>9. QED
  BY <1>1, <1>3, <1>4, <1>5, <1>6, <1>7, <1>8, LeaveKeeps

LEMMA BootDieKeeps ==
  ASSUME MigInv, NEW p \in Servers, Boot(p) \/ Die(p)
  PROVE  MigInv'
<1>1. troubles \in Nat /\ next \in [Servers -> Nat] /\ work \in [Servers -> Databases]
  BY DEF MigInv
<1>2. SchemaIsAsRecorded'
  BY DEF Boot, Die, MigInv, SchemaIsAsRecorded
<1>3. CASE Boot(p)
  <2>1. /\ stage' = [stage EXCEPT ![p] = "waiting"] /\ holder' = holder /\ next' = next /\ troubles' = troubles
        /\ work' = work /\ stage[p] \notin PastTheLock
    BY <1>3 DEF Boot, At, PastTheLock
  <2>2. work' = [work EXCEPT ![p] = work[p]]
    BY <1>1, <2>1
  <2>3. "waiting" \in Stages \ PastTheLock
    BY DEF Stages, PastTheLock
  <2>4. PICK x \in {NoWork, work[p]} : x = work[p]
    OBVIOUS
  <2>5. work' = [work EXCEPT ![p] = x]
    BY <2>2, <2>4
  <2>6. troubles' \in Nat /\ troubles' >= troubles /\ next' \in [Servers -> Nat] /\ \A q \in Servers \ {p} : next'[q] = next[q]
    BY <1>1, <2>1
  <2>7. QED
    BY <1>2, <2>1, <2>3, <2>5, <2>6, LeaveKeeps
<1>4. CASE Die(p)
  <2>1. /\ stage' = [stage EXCEPT ![p] = "off"] /\ work' = [work EXCEPT ![p] = NoWork]
        /\ next' = [next EXCEPT ![p] = 1]
        /\ holder' = (IF holder = p THEN Nobody ELSE holder) /\ Trouble
    BY <1>4 DEF Die
  <2>2. troubles' \in Nat /\ troubles' >= troubles
    BY <1>1, <2>1 DEF Trouble
  <2>3. "off" \in Stages \ PastTheLock
    BY DEF Stages, PastTheLock
  <2>4. next' \in [Servers -> Nat] /\ \A q \in Servers \ {p} : next'[q] = next[q]
    BY <1>1, <2>1
  <2>5. holder' = holder \/ (holder = p /\ holder' = Nobody)
    BY <2>1
  <2>6. PICK x \in {NoWork, work[p]} : x = NoWork
    OBVIOUS
  <2>7. work' = [work EXCEPT ![p] = x]
    BY <2>1, <2>6
  <2>8. QED
    BY <1>2, <2>1, <2>2, <2>3, <2>4, <2>5, <2>6, <2>7, LeaveKeeps
<1>5. QED
  BY <1>3, <1>4

\* What undoing the newest of n migrations leaves.
LEMMA UndoNewest ==
  ASSUME NEW n \in 1 .. Len(Migrations)
  PROVE  Undo([recorded |-> 1 .. n, schema |-> SchemaAt[n]], n) = [recorded |-> 1 .. n - 1, schema |-> SchemaAt[n - 1]]
<1>1. RunAll(Migrations[n].down, SchemaAt[n]) = [ok |-> TRUE, objs |-> SchemaAt[n - 1]]
  BY MigrationsFit DEF SchemaVersions
<1>2. (1 .. n) \ {n} = 1 .. n - 1
  BY MigrationsFit
<1>3. QED
  <2> DEFINE db == [recorded |-> 1 .. n, schema |-> SchemaAt[n]]
  <2>1. RunAll(Migrations[n].down, db.schema) = [ok |-> TRUE, objs |-> SchemaAt[n - 1]] /\ db.recorded \ {n} = 1 .. n - 1
    BY <1>1, <1>2
  <2> HIDE DEF db
  <2>2. Undo(db, n) = [recorded |-> 1 .. n - 1, schema |-> SchemaAt[n - 1]]
    <3> DEFINE r == RunAll(Migrations[n].down, db.schema)
    <3>1. r.ok = TRUE /\ r.objs = SchemaAt[n - 1]
      BY <2>1
    <3>2. Undo(db, n) = IF r.ok THEN [recorded |-> db.recorded \ {n}, schema |-> r.objs] ELSE db
      BY Zenon DEF Undo
    <3> HIDE DEF r
    <3>3. QED
      BY <2>1, <3>1, <3>2
  <2>3. QED
    BY <2>2 DEF db

LEMMA DownKeeps ==
  ASSUME MigInv, NEW steps \in 1 .. Cardinality(recorded), MigrateDown(steps)
  PROVE  MigInv'
<1>1. PICK top \in 0 .. Len(Migrations) : recorded = 1 .. top /\ schema = SchemaAt[top]
  BY DEF MigInv, SchemaIsAsRecorded
<1>2. Len(Migrations) \in Nat /\ top \in Nat
  BY <1>1, MigrationsFit
<1>3. Cardinality(recorded) = top
  BY <1>1, <1>2, FS_Interval
<1> DEFINE Before(k) == [recorded |-> 1 .. k, schema |-> SchemaAt[k]]
           Run(f) == [n \in 0 .. steps |-> IF n = 0 THEN Before(top) ELSE Undo(f[n - 1], top + 1 - n)]
           down == [n \in 0 .. steps |-> Before(top - n)]
           db == CHOOSE f : f = Run(f)
<1>4. steps \in Nat /\ steps <= top /\ steps >= 1
  BY <1>2, <1>3
<1>5. \A n \in 1 .. steps : Undo(Before(top - (n - 1)), top + 1 - n) = Before(top - n)
  <2>1. SUFFICES ASSUME NEW n \in 1 .. steps PROVE Undo(Before(top - (n - 1)), top + 1 - n) = Before(top - n)
    OBVIOUS
  <2>2. PICK k \in 1 .. Len(Migrations) : k = top + 1 - n /\ k = top - (n - 1) /\ k - 1 = top - n
    BY <1>2, <1>4
  <2>3. Undo([recorded |-> 1 .. k, schema |-> SchemaAt[k]], k) = [recorded |-> 1 .. k - 1, schema |-> SchemaAt[k - 1]]
    BY UndoNewest
  <2>4. QED
    BY <2>2, <2>3
<1>6. down = Run(down)
  <2> HIDE DEF Before
  <2>1. \A n \in 0 .. steps : down[n] = IF n = 0 THEN Before(top) ELSE Undo(down[n - 1], top + 1 - n)
    <3>1. SUFFICES ASSUME NEW n \in 0 .. steps
                   PROVE  down[n] = IF n = 0 THEN Before(top) ELSE Undo(down[n - 1], top + 1 - n)
      OBVIOUS
    <3>2. CASE n = 0
      <4>1. top - 0 = top
        BY <1>2
      <4>2. QED
        BY <3>2, <4>1
    <3>3. CASE n # 0
      <4>1. n \in 1 .. steps /\ n - 1 \in 0 .. steps
        BY <1>4, <3>3
      <4>2. down[n - 1] = Before(top - (n - 1)) /\ down[n] = Before(top - n)
        BY <4>1
      <4>3. QED
        BY <1>5, <3>3, <4>1, <4>2
    <3>4. QED
      BY <3>2, <3>3
  <2>2. QED
    BY <2>1
<1> HIDE DEF down
<1>7. db = Run(db)
  <2> HIDE DEF Run
  <2>1. \E f : f = Run(f)
    BY <1>6
  <2>2. QED
    BY <2>1, Zenon
<1>8. \A n \in 0 .. steps : db[n] = Before(top - n)
  <2> HIDE DEF db
  <2>1. \A n \in 0 .. steps : db[n] = IF n = 0 THEN Before(top) ELSE Undo(db[n - 1], top + 1 - n)
    BY <1>7
  <2> HIDE DEF Before
  <2> DEFINE T == {n \in Nat : n <= steps => db[n] = Before(top - n)}
  <2>2. 0 \in T
    <3>1. top - 0 = top /\ 0 \in 0 .. steps
      BY <1>2, <1>4
    <3>2. QED
      BY <2>1, <3>1
  <2>3. ASSUME NEW n \in Nat, n \in T PROVE n + 1 \in T
    <3>1. SUFFICES ASSUME n + 1 <= steps PROVE db[n + 1] = Before(top - (n + 1))
      <4>1. n + 1 \in Nat
        OBVIOUS
      <4>2. QED
        BY <4>1, Zenon DEF T
    <3>2. n <= steps /\ n + 1 \in 0 .. steps /\ n + 1 \in 1 .. steps /\ n + 1 # 0 /\ (n + 1) - 1 = n
      BY <1>4, <3>1
    <3>3. db[n] = Before(top - n)
      BY <2>3, <3>2
    <3>4. db[n + 1] = Undo(db[n], top + 1 - (n + 1))
      BY <2>1, <3>2
    <3>5. Undo(Before(top - n), top + 1 - (n + 1)) = Before(top - (n + 1))
      BY <1>5, <3>2
    <3>6. QED
      BY <3>3, <3>4, <3>5
  <2>4. Nat \subseteq T
    <3> HIDE DEF T
    <3>1. QED
      BY <2>2, <2>3, SetInduction
  <2>5. QED
    BY <1>4, <2>4
<1>9. recorded' = db[steps].recorded /\ schema' = db[steps].schema /\ stage' = stage /\ work' = work
      /\ holder' = holder /\ next' = next /\ troubles' = troubles
  BY <1>1, <1>3, Zenon DEF MigrateDown
<1>10. SchemaIsAsRecorded'
  <2>1. db[steps] = Before(top - steps)
    <3> HIDE DEF db, Before
    <3>1. steps \in 0 .. steps
      BY <1>4
    <3>2. QED
      BY <1>8, <3>1
  <2>2. PICK k \in 0 .. Len(Migrations) : k = top - steps
    BY <1>2, <1>4
  <2>3. recorded' = 1 .. k /\ schema' = SchemaAt[k]
    BY <1>9, <2>1, <2>2
  <2>4. QED
    BY <2>3 DEF SchemaIsAsRecorded
<1>11. QED
  BY <1>9, <1>10 DEF MigInv, Is

LEMMA MigStep == MigInv /\ [MigratingNext]_migratingVars => MigInv'
<1> SUFFICES ASSUME MigInv, [MigratingNext]_migratingVars PROVE MigInv'
  OBVIOUS
<1>1. CASE UNCHANGED migratingVars
  BY <1>1 DEF migratingVars, MigInv, Is, SchemaIsAsRecorded
<1>2. CASE MigratingNext
  BY <1>2, BootDieKeeps, LockKeeps, NextKeeps, ApplyKeeps, FinishKeeps, DownKeeps, Zenon DEF MigratingNext, Server
<1>3. QED
  BY <1>1, <1>2

\* MigrationSafety, for any number of servers, of failures and of undone
\* migrations.
THEOREM MigrationsAreSafe == MigratingSpec => []MigrationSafety
<1>1. MigInv => MigrationSafety
  <2> SUFFICES ASSUME MigInv PROVE MigrationSafety
    OBVIOUS
  <2>1. OneMigrator
    BY DEF MigInv, OneMigrator, PastTheLock, At
  <2>2. EveryMigrationWorks
    BY DEF MigInv, EveryMigrationWorks
  <2>3. QED
    BY <2>1, <2>2 DEF MigInv, MigrationSafety
<1>2. QED
  BY <1>1, MigInit, MigStep, PTL DEF MigratingSpec
=============================================================================
