----------------------------- MODULE RemoteAnswers -----------------------------
(***************************************************************************)
(* Questions a running chat asks its user and waits for: a command to run  *)
(* on the user's own computer (src/core/local_commands/), a permission or  *)
(* a sign-in for the hosted browser (native_agent_service.ts).  The answer *)
(* may arrive at another server than the one that waits; it is then found  *)
(* through a key in Redis and relayed over a Redis channel, to which the   *)
(* waiting server subscribes when it first asks.                           *)
(***************************************************************************)
EXTENDS Naturals, FiniteSets, Sequences, SequencesExt

CONSTANTS
  Asks,       \* questions
  Commands,   \* those that are commands for the desktop app
  Posts,      \* answers that are posted
  MaxAskFaults

ASSUME AskAssumption ==
  /\ Commands \subseteq Asks /\ MaxAskFaults \in Nat
  /\ "expired" \notin Posts /\ "cancelled" \notin Posts

VARIABLES
  ask,        \* each question: "new", "open", or how it was settled
  keys,       \* questions stored in Redis
  relay,      \* answers published and not yet delivered: <<question, post>>
  listening,  \* the channel's subscription: "no", "asked", "yes"
  desktop,    \* each command at the desktop app: "nothing", "shown", "running", "ran", "denied"
  post,       \* each answer: [of, at, told]
  askFaults,
  \* history
  settled,    \* settlements in order: <<question, post or "expired" or "cancelled">>
  missed      \* answers lost on the way

answerVars == <<ask, keys, relay, listening, desktop, post, askFaults, settled, missed>>

NoPost == [of |-> "nothing", at |-> "idle", told |-> "nothing"]

AnswersInit ==
  /\ ask = [q \in Asks |-> "new"] /\ keys = {} /\ relay = {} /\ listening = "no"
  /\ desktop = [q \in Commands |-> "nothing"] /\ post = [p \in Posts |-> NoPost]
  /\ askFaults = 0 /\ settled = <<>> /\ missed = {}

AskFault == askFaults < MaxAskFaults /\ askFaults' = askFaults + 1

\* finish(): the first settlement counts; the key is deleted (or outlives the
\* question, when Redis fails).
FinishAsk(q, outcome, by) ==
  /\ ask[q] = "open" /\ ask' = [ask EXCEPT ![q] = outcome]
  /\ settled' = Append(settled, <<q, by>>)
  /\ \/ keys' = keys \ {q} /\ UNCHANGED askFaults
     \/ q \in keys /\ AskFault /\ UNCHANGED keys

\* LocalCommandBroker.request(), and NativeAgentService.waitForApproval(): the
\* question is shown in the chat, and its key stored without waiting for it.
Wait(q) ==
  /\ ask[q] = "new" /\ ask' = [ask EXCEPT ![q] = "open"]
  /\ listening' = IF listening = "no" THEN "asked" ELSE listening
  /\ \/ keys' = keys \union {q} /\ UNCHANGED askFaults
     \/ AskFault /\ UNCHANGED keys
RequestCommand(q) ==
  /\ q \in Commands /\ Wait(q) /\ desktop' = [desktop EXCEPT ![q] = "shown"]
  /\ UNCHANGED <<relay, post, settled, missed>>
WaitForApproval(q) ==
  /\ q \notin Commands /\ Wait(q)
  /\ UNCHANGED <<relay, desktop, post, settled, missed>>

\* ensureSubscribed() completes.
Subscribed ==
  /\ listening = "asked" /\ listening' = "yes"
  /\ UNCHANGED <<ask, keys, relay, desktop, post, askFaults, settled, missed>>

\* The desktop app: the user allows the command, it runs, or is denied.
Desktop(q) ==
  /\ \/ desktop[q] = "shown" /\ \E s \in {"running", "denied"} : desktop' = [desktop EXCEPT ![q] = s]
     \/ desktop[q] = "running" /\ desktop' = [desktop EXCEPT ![q] = "ran"]
  /\ UNCHANGED <<ask, keys, relay, listening, post, askFaults, settled, missed>>

Told(p, q, place, told) == post' = [post EXCEPT ![p] = [of |-> q, at |-> place, told |-> told]]

\* answer() and answerApproval(): at the server that waits, the question is
\* settled at once; at another (or when it has been settled) the key decides.
Lookup(p, q, here) ==
  /\ post[p] = NoPost /\ ask[q] # "new"
  /\ IF here /\ ask[q] = "open"
     THEN FinishAsk(q, "answered", p) /\ Told(p, q, "done", "ok")
     ELSE /\ IF q \in keys THEN Told(p, q, "found", "nothing") ELSE Told(p, q, "done", "expired")
          /\ UNCHANGED <<ask, keys, askFaults, settled>>
  /\ UNCHANGED <<relay, listening, desktop, missed>>
Results == {"ran", "denied"}
AnswerCommand(p, q, here) == q \in Commands /\ desktop[q] \in Results /\ Lookup(p, q, here)
AnswerApproval(p, q, here) == q \notin Commands /\ Lookup(p, q, here)

\* Faulty variant, for mutation checks: an answer is relayed only if it has
\* not been relayed before.
PublishOnce(p) ==
  /\ post[p].at = "found" /\ Told(p, post[p].of, "done", "ok")
  /\ relay' = IF \E r \in relay : r[1] = post[p].of THEN relay ELSE relay \union {<<post[p].of, p>>}
  /\ UNCHANGED <<ask, keys, listening, desktop, askFaults, settled, missed>>

\* The relay, which is not waited for when it is an approval.
Publish(p) ==
  /\ post[p].at = "found" /\ Told(p, post[p].of, "done", "ok")
  /\ relay' = relay \union {<<post[p].of, p>>}
  /\ UNCHANGED <<ask, keys, listening, desktop, askFaults, settled, missed>>

\* Redis refuses it.
PublishFails(p) ==
  /\ post[p].at = "found" /\ AskFault
  /\ Told(p, post[p].of, "done", IF post[p].of \in Commands THEN "failed" ELSE "ok")
  /\ missed' = missed \union {p}
  /\ UNCHANGED <<ask, keys, relay, listening, desktop, settled>>

\* A relayed answer arrives; one for a question no longer open is dropped, and
\* so is every one that is sent before the subscription stands.
Deliver(r) ==
  /\ relay' = relay \ {r} /\ r \in relay
  /\ IF listening = "yes" /\ ask[r[1]] = "open"
     THEN FinishAsk(r[1], "answered", r[2]) /\ UNCHANGED missed
     ELSE /\ missed' = IF listening = "yes" THEN missed ELSE missed \union {r[2]}
          /\ UNCHANGED <<ask, keys, askFaults, settled>>
  /\ UNCHANGED <<listening, desktop, post>>

\* The timer; the user stops the chat.
TimeOut(q) ==
  /\ FinishAsk(q, "expired", "expired")
  /\ UNCHANGED <<relay, listening, desktop, post, missed>>
Stop(q) ==
  /\ FinishAsk(q, "cancelled", "cancelled")
  /\ UNCHANGED <<relay, listening, desktop, post, missed>>

\* A key left behind goes with its time to live.
KeyExpires(q) ==
  /\ q \in keys /\ ask[q] # "open" /\ keys' = keys \ {q}
  /\ UNCHANGED <<ask, relay, listening, desktop, post, askFaults, settled, missed>>

AnswersNext ==
  \/ \E q \in Asks : RequestCommand(q) \/ WaitForApproval(q) \/ TimeOut(q) \/ Stop(q) \/ KeyExpires(q)
  \/ \E q \in Commands : Desktop(q)
  \/ \E p \in Posts : \/ Publish(p) \/ PublishFails(p)
                      \/ \E q \in Asks, here \in BOOLEAN : AnswerCommand(p, q, here) \/ AnswerApproval(p, q, here)
  \/ \E r \in relay : Deliver(r)
  \/ Subscribed

AnswersSpec == AnswersInit /\ [][AnswersNext]_answerVars

-----------------------------------------------------------------------------
UsedFor(q) == {i \in DOMAIN settled : settled[i][1] = q}

\* A question is settled once, by one answer or none; an answer that was
\* refused is never used; one that was accepted is used, or is on its way, or
\* came after the question was settled otherwise, or was lost on the way.
AnswersAreKept ==
  /\ \A q \in Asks : Cardinality(UsedFor(q)) = (IF ask[q] \in {"new", "open"} THEN 0 ELSE 1)
  /\ \A p \in Posts :
       /\ post[p].told \in {"expired", "failed"} => \A i \in DOMAIN settled : settled[i][2] # p
       /\ post[p].told = "ok" => \/ <<post[p].of, p>> \in ToSet(settled) \/ <<post[p].of, p>> \in relay
                                 \/ p \in missed \/ ask[post[p].of] # "open"

\* forModel(): what the model is told of a command.
ForModel(outcome) == IF outcome = "answered" THEN "the answer" ELSE "the command was not run"

\* What the model is told of a command nobody answered for in time, or whose
\* chat was stopped: "The command wasn't run."
NotRunMeansNotRun ==
  [][\A q \in Commands : (ask[q] = "open" /\ ask'[q] # "open"
                           /\ ForModel(ask'[q]) = "the command was not run") =>
                             desktop[q] \notin {"running", "ran"}]_answerVars
=============================================================================
