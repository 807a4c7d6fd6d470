------------------------------ MODULE Watchers ------------------------------
(***************************************************************************)
(* The life of ONE web watcher (src/core/automations/automation_service.ts *)
(* and its repository): its row of `web_watchers`, its owner, the page it  *)
(* watches, and the checks -- of the scheduler's ticks and of "Check now"  *)
(* requests, on any server -- that read the row, fetch the page, perhaps   *)
(* ask a model, alert the owner and only then save what they found.        *)
(*                                                                         *)
(* A page's content is a version of its target (a URL with a mode and a    *)
(* condition).  Watchers share nothing; one stands for all.                *)
(***************************************************************************)
EXTENDS Integers

CONSTANTS
  Targets,           \* what the watcher may be set to watch
  Ai,                \* the targets watched in mode "ai", the others "change"
  Versions,          \* contents a page may have
  Holds,             \* the versions on which an "ai" condition holds
  Checks,            \* checks that may run at one time
  ServerOf,          \* ServerOf[c]: the server check c runs on
  Editors,           \* edits that may be under way at one time
  PauseAfter,        \* PAUSE_AFTER_FAILURES
  OwnerDuringCheck,  \* may the owner act while a check is running?
  MaxFaults,         \* how often a query fails or a server dies (bounds the model)
  MaxEdits,          \* how often the owner acts (bounds the model)
  MaxChanges,        \* how often pages change (bounds the model)
  Unset              \* last_hash, last_match: NULL

Content == Targets \X Versions

ASSUME WatcherAssumption ==
  /\ Ai \subseteq Targets /\ Holds \subseteq Versions
  /\ PauseAfter \in Nat \ {0} /\ MaxEdits \in Nat /\ MaxChanges \in Nat
  /\ MaxFaults \in Nat /\ OwnerDuringCheck \in BOOLEAN
  /\ Unset \notin Content /\ Unset \notin BOOLEAN /\ Unset \notin Targets

VARIABLES
  \* the row of web_watchers
  status, target, last, match, fails,
  due,       \* next_check_at <= now
  \* the world
  page,      \* the version of each target's page
  changes, edits, faults,
  \* checks
  pc,        \* progress of each check
  w,         \* the row as the check read it
  res,       \* what it will save
  \* edits under way
  before,    \* the target as updateWatcher() read it; Unset when idle
  input,     \* the target the owner asks for
  \* history
  known,     \* contents the owner was told of, or started from
  armed,     \* no alert was sent since the condition last did not hold or
             \* was another
  doubled,   \* an alert was sent while not armed
  streak,    \* failed checks in a row since a success or the owner's act
  overlapped \* two checks were running at one time

row == <<status, target, last, match, fails, due>>
world == <<page, changes, edits, faults>>
check == <<pc, w, res, overlapped>>
edit == <<before, input>>
history == <<known, armed, doubled, streak>>
vars == <<row, world, check, edit, history>>

NoRow == [target |-> Unset, last |-> Unset, match |-> Unset, fails |-> 0]
NoResult == [last |-> Unset, match |-> Unset, fails |-> 0, pause |-> FALSE]

\* createWatcher(): active, to be checked at once.
Init ==
  /\ status = "active" /\ target \in Targets /\ due = TRUE
  /\ last = Unset /\ match = Unset /\ fails = 0
  /\ page \in [Targets -> Versions] /\ changes = 0 /\ edits = 0 /\ faults = 0
  /\ pc = [c \in Checks |-> "idle"]
  /\ w = [c \in Checks |-> NoRow] /\ res = [c \in Checks |-> NoResult]
  /\ before = [e \in Editors |-> Unset] /\ input = [e \in Editors |-> Unset]
  /\ known = {} /\ armed = TRUE /\ doubled = FALSE /\ streak = 0
  /\ overlapped = FALSE

Goto(c, label) == pc' = [pc EXCEPT ![c] = label]
Checking == \E c \in Checks : pc[c] # "idle"

-----------------------------------------------------------------------------
\* The owner acts, in the way `act`, a bounded number of times.
Owner ==
  /\ OwnerDuringCheck \/ ~Checking
  /\ edits < MaxEdits /\ edits' = edits + 1
  /\ UNCHANGED <<page, changes, faults>>

\* updateWatcher() reads the row, then looks the new address up (an await).
BeginEdit(e) ==
  /\ status # "deleted" /\ before[e] = Unset /\ Owner
  /\ before' = [before EXCEPT ![e] = target]
  /\ \E t \in Targets : input' = [input EXCEPT ![e] = t]
  /\ UNCHANGED <<row, check, history>>

\* Faulty variant, for mutation checks: a new target keeps the old baseline.
ApplyEditKeeping(e) ==
  /\ OwnerDuringCheck \/ ~Checking
  /\ before[e] # Unset
  /\ target' = input[e]
  /\ before' = [before EXCEPT ![e] = Unset] /\ input' = [input EXCEPT ![e] = Unset]
  /\ UNCHANGED <<status, last, match, fails, due, world, check, history>>

\* It starts over if what is watched differs from what it read.
ApplyEdit(e) ==
  /\ OwnerDuringCheck \/ ~Checking
  /\ before[e] # Unset
  /\ \/ /\ status # "deleted" /\ input[e] # before[e]
        /\ target' = input[e]
        /\ last' = Unset /\ match' = Unset /\ fails' = 0 /\ due' = TRUE
        /\ armed' = TRUE /\ streak' = 0
        /\ UNCHANGED <<status, known, doubled>>
     \/ /\ status # "deleted" /\ input[e] = before[e]
        /\ target' = input[e]
        /\ armed' = (armed \/ target' # target)
        /\ UNCHANGED <<status, last, match, fails, due, known, doubled, streak>>
     \/ status = "deleted" /\ UNCHANGED <<row, history>>
  /\ before' = [before EXCEPT ![e] = Unset] /\ input' = [input EXCEPT ![e] = Unset]
  /\ UNCHANGED <<world, check>>

\* Faulty variant: failures from before the resume still count.
SetWatcherStatusKeepsFails ==
  /\ status # "deleted" /\ Owner
  /\ status' \in {"active", "paused"}
  /\ streak' = 0
  /\ due' = (due \/ status' = "active")
  /\ UNCHANGED <<target, last, match, fails, check, edit, known, armed, doubled>>

\* setWatcherStatus(): a resumed watcher is checked at once.
SetWatcherStatus ==
  /\ status # "deleted" /\ Owner
  /\ status' \in {"active", "paused"}
  /\ fails' = 0 /\ streak' = 0
  /\ due' = (due \/ status' = "active")
  /\ UNCHANGED <<target, last, match, check, edit, known, armed, doubled>>

DeleteWatcher ==
  /\ status # "deleted" /\ Owner
  /\ status' = "deleted"
  /\ UNCHANGED <<target, last, match, fails, due, check, edit, history>>

PageChanges(t) ==
  /\ changes < MaxChanges
  /\ \E v \in Versions \ {page[t]} : page' = [page EXCEPT ![t] = v]
  /\ changes' = changes + 1
  /\ UNCHANGED <<row, edits, faults, check, edit, history>>

\* The interval of the watcher passes.
ComesDue ==
  /\ ~due
  /\ due' = TRUE
  /\ UNCHANGED <<status, target, last, match, fails, world, check, edit, history>>

-----------------------------------------------------------------------------
ReadRow(c) ==
  /\ pc[c] = "idle"
  /\ w' = [w EXCEPT ![c] = [target |-> target, last |-> last, match |-> match,
                            fails |-> fails]]
  /\ overlapped' = (overlapped \/ Checking)
  /\ UNCHANGED <<status, target, last, match, fails, world, res, edit, history>>

Leave(c) ==
  /\ Goto(c, "idle")
  /\ w' = [w EXCEPT ![c] = NoRow] /\ res' = [res EXCEPT ![c] = NoResult]
  /\ UNCHANGED overlapped

\* claimDueWatchers(): the next check is pushed forward first.
ClaimDueWatchers(c) ==
  /\ status = "active" /\ due /\ due' = FALSE
  /\ ReadRow(c) /\ Goto(c, "fetch")

\* checkNow() reads the row first.
CheckNow(c) ==
  /\ status # "deleted" /\ UNCHANGED due
  /\ ReadRow(c) /\ Goto(c, "read")

\* It is refused while this server is checking the watcher.
BeginCheckNow(c) ==
  /\ pc[c] = "read"
  /\ IF \E d \in Checks : ServerOf[d] = ServerOf[c] /\ pc[d] \notin {"idle", "read"}
     THEN Leave(c)
     ELSE Goto(c, "fetch") /\ UNCHANGED <<w, res, overlapped>>
  /\ UNCHANGED <<row, world, edit, history>>

\* check() has its result: alert the owner first, if there is reason to.
Settle(c, result, alert) ==
  /\ res' = [res EXCEPT ![c] = result]
  /\ Goto(c, IF alert THEN "deliver" ELSE "save")
  /\ UNCHANGED <<row, world, w, overlapped, edit>>

\* Failures are counted up to PauseAfter: beyond it they all mean the same.
OneMore(n) == IF n < PauseAfter THEN n + 1 ELSE n

\* failed(): one failure more, which may pause the watcher.
Failed(c) ==
  LET n == OneMore(w[c].fails) IN
  /\ Settle(c, [last |-> Unset, match |-> w[c].match, fails |-> n,
                pause |-> n = PauseAfter], n = PauseAfter)
  /\ streak' = OneMore(streak)
  /\ UNCHANGED <<known, armed, doubled>>

Found(got, holds) == [last |-> got, match |-> holds, fails |-> 0, pause |-> FALSE]

\* The page is read, or cannot be; in mode "change" it is compared at once with
\* the baseline the check started from.
Fetch(c) ==
  LET t == w[c].target  got == <<t, page[t]>> IN
  /\ pc[c] = "fetch"
  /\ \/ Failed(c)
     \/ /\ t \notin Ai
        /\ Settle(c, Found(got, Unset), w[c].last \notin {Unset, got})
        /\ UNCHANGED history
     \/ /\ t \in Ai
        /\ res' = [res EXCEPT ![c] = Found(got, Unset)]
        /\ Goto(c, "ask")
        /\ UNCHANGED <<row, world, w, overlapped, edit, history>>

\* Faulty variant: alert whenever the condition holds.
AskAlertsAlways(c) ==
  /\ pc[c] = "ask"
  /\ LET yes == res[c].last[2] \in Holds IN Settle(c, Found(res[c].last, yes), yes)
  /\ UNCHANGED history

\* Mode "ai": the model answers yes or no, or fails; alert when it becomes true.
Ask(c) ==
  /\ pc[c] = "ask"
  /\ \/ Failed(c)
     \/ /\ LET yes == res[c].last[2] \in Holds IN
           Settle(c, Found(res[c].last, yes), yes /\ w[c].match # TRUE)
        /\ UNCHANGED history

\* History: what the owner was told.
Told(c) ==
  /\ known' = IF res[c].pause THEN known ELSE known \union {res[c].last}
  /\ IF res[c].match = TRUE /\ ~res[c].pause
     THEN armed' = FALSE /\ doubled' = (doubled \/ ~armed)
     ELSE UNCHANGED <<armed, doubled>>

\* Faulty variant: an alert that cannot be stored is given up.
DeliverOrNot(c) ==
  /\ pc[c] = "deliver"
  /\ Told(c) \/ UNCHANGED <<known, armed, doubled>>
  /\ Goto(c, "save")
  /\ UNCHANGED <<row, world, w, res, overlapped, edit, streak>>

\* deliver(): a message to the phone, if it gets there, and an alert in the app.
Deliver(c) ==
  /\ pc[c] = "deliver"
  /\ Told(c)
  /\ Goto(c, "save")
  /\ UNCHANGED <<row, world, w, res, overlapped, edit, streak>>

\* History: a first look is a baseline, not a change; a condition that does not
\* hold arms the next alert.
Saved(c) ==
  /\ known' = IF w[c].last = Unset /\ res[c].last # Unset
              THEN known \union {res[c].last} ELSE known
  /\ armed' = (armed \/ (res[c].match = FALSE /\ ~res[c].pause))
  /\ streak' = IF res[c].last # Unset THEN 0 ELSE streak
  /\ UNCHANGED doubled

\* Faulty variant: COALESCE with its arguments swapped.
SaveCheckKeepsOld(c) ==
  /\ pc[c] = "save"
  /\ last' = IF last = Unset THEN res[c].last ELSE last
  /\ match' = res[c].match /\ fails' = res[c].fails
  /\ status' = IF res[c].pause THEN "paused" ELSE status
  /\ Saved(c)
  /\ Leave(c)
  /\ UNCHANGED <<target, due, world, edit>>

\* saveCheck(): whatever the row is by now.
SaveCheck(c) ==
  /\ pc[c] = "save"
  /\ \/ /\ status # "deleted"
        /\ last' = IF res[c].last = Unset THEN last ELSE res[c].last
        /\ match' = res[c].match /\ fails' = res[c].fails
        /\ status' = IF res[c].pause THEN "paused" ELSE status
        /\ Saved(c)
     \/ /\ status = "deleted"
        /\ UNCHANGED <<status, last, match, fails, history>>
  /\ Leave(c)
  /\ UNCHANGED <<target, due, world, edit>>

\* A query of the check fails, or its server dies: nothing more is saved.
Lost(c) ==
  /\ faults < MaxFaults /\ faults' = faults + 1
  /\ pc[c] # "idle"
  /\ Leave(c)
  /\ UNCHANGED <<row, page, changes, edits, edit, history>>

Step(c) == BeginCheckNow(c) \/ Fetch(c) \/ Ask(c) \/ Deliver(c) \/ SaveCheck(c)

Next ==
  \/ \E e \in Editors : BeginEdit(e) \/ ApplyEdit(e)
  \/ SetWatcherStatus \/ DeleteWatcher \/ ComesDue
  \/ \E t \in Targets : PageChanges(t)
  \/ \E c \in Checks : ClaimDueWatchers(c) \/ CheckNow(c) \/ Step(c) \/ Lost(c)

Spec == Init /\ [][Next]_vars

\* Time passes, a tick comes every 30 seconds, and what it started goes on.
Fairness ==
  /\ WF_vars(ComesDue)
  /\ \A c \in Checks : WF_vars(Step(c)) /\ SF_vars(ClaimDueWatchers(c))

FairSpec == Spec /\ Fairness

-----------------------------------------------------------------------------
\* The shape of the state.
TypeOK ==
  /\ status \in {"active", "paused", "deleted"} /\ target \in Targets
  /\ last \in Content \union {Unset} /\ match \in BOOLEAN \union {Unset}
  /\ fails \in 0 .. PauseAfter /\ due \in BOOLEAN
  /\ page \in [Targets -> Versions]
  /\ changes \in 0 .. MaxChanges /\ edits \in 0 .. MaxEdits /\ faults \in 0 .. MaxFaults
  /\ pc \in [Checks -> {"idle", "read", "fetch", "ask", "deliver", "save"}]
  /\ w \in [Checks -> [target : Targets \union {Unset}, last : Content \union {Unset},
                       match : BOOLEAN \union {Unset}, fails : 0 .. PauseAfter]]
  /\ res \in [Checks -> [last : Content \union {Unset}, match : BOOLEAN \union {Unset},
                         fails : 0 .. PauseAfter, pause : BOOLEAN]]
  /\ before \in [Editors -> Targets \union {Unset}]
  /\ input \in [Editors -> Targets \union {Unset}]
  /\ known \subseteq Content
  /\ armed \in BOOLEAN /\ doubled \in BOOLEAN /\ streak \in 0 .. PauseAfter
  /\ overlapped \in BOOLEAN

\* "Changing what's watched starts over (no stale baseline)": the baseline is a
\* content of what is watched now.
NoStaleBaseline == last # Unset => last[1] = target

\* A change is told before it becomes the baseline: whatever checks overlap,
\* fail or die, the page is never compared with something the owner has not
\* heard of.
BaselineIsKnown == last # Unset /\ last[1] \notin Ai => last \in known

\* "Alerts when it becomes true (not on every check while it stays true)" -- as
\* long as checks do not overlap, and none tells the owner and then cannot save.
OneAlertPerRise == faults = 0 /\ ~overlapped => ~doubled

\* "Repeated failures pause the watcher": the scheduler pauses it only after
\* that many failed checks in a row, counted from the owner's last resume -- as
\* long as checks do not overlap, since each counts from the row it has read.
PausedForCause ==
  [][(status = "active" /\ status' = "paused") =>
       SetWatcherStatus \/ overlapped \/ streak >= PauseAfter]_vars

\* A check compares with what belongs to this page and was told, tells of a
\* rise once, and pauses the watcher only for what it says.
WatcherSafety == [](NoStaleBaseline /\ BaselineIsKnown /\ OneAlertPerRise) /\ PausedForCause

\* An active watcher keeps up with its page once the page is left alone.
WatcherKeepsUp ==
  []<>(status # "active" \/ last = <<target, page[target]>>)
=============================================================================
