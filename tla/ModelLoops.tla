----------------------------- MODULE ModelLoops -----------------------------
(***************************************************************************)
(* One turn of the two providers with a loop of their own                  *)
(* (llms/anthropic_provider.ts and llms/openai_provider.ts): the request   *)
(* made from the stored messages, the answer as it streams in, the tools   *)
(* it asks for, and what of it is stored for the turns to come. The loop   *)
(* of the other services, the guard and the runner of tools are ChatTurns. *)
(*                                                                         *)
(* A message is who said it and the number of the call it belongs to, 0    *)
(* for text. What the services answer is a choice, and so is the moment    *)
(* at which the user presses Stop.                                         *)
(***************************************************************************)
EXTENDS Integers, Sequences, Filters

CONSTANTS
    Services,       \* the services asked, of {"anthropic", "openai"}
    PastStores,     \* what may be stored of earlier turns
    JsonRetries,    \* answers asked for again because a tool's input cannot be read
    RoundLimit,     \* rounds of tools before the model is told to wrap up
    MaxAsked,       \* bound: calls the model makes in the turn
    MaxReplies,       \* bound: texts the model writes
    MaxLoopFaults   \* bound: queries that fail

LoopMessages == [role : {"user", "assistant", "tool_call", "tool_call_output"}, id : Int]

(* A call's id is new: the turn's calls count from 1, those of earlier turns have other numbers. *)
ASSUME ModelLoopsAssumption ==
    /\ Services \subseteq {"anthropic", "openai"}
    /\ \A stored \in PastStores :
          stored \in Seq(LoopMessages) /\ \A k \in DOMAIN stored : stored[k].id <= 0
    /\ {JsonRetries, RoundLimit, MaxAsked, MaxReplies, MaxLoopFaults} \subseteq Nat

VARIABLES
    service,
    messages,   \* chat_messages of the session
    inputMessages,    \* history of the one, inputMessages of the other: what is sent
    loopAt,         \* where the loop is
    text,       \* streamedText, pendingText: text not stored yet
    calls,      \* the calls of this answer, in order
    rounds,     \* the guard's rounds
    wrapUpSent,
    retries,    \* jsonRetries
    fresh,      \* forceFreshContainer
    stopPressed,    \* signal.aborted
    titled,     \* titleGenerated
    continueLoop, \* FALSE once a result could not be stored (OpenAI)
    asked,      \* calls made so far
    toolsRan,        \* history: calls whose tool was run
    replies, loopFaults

loopVars == <<service, messages, inputMessages, loopAt, text, calls, rounds, wrapUpSent, retries, fresh,
              stopPressed, titled, continueLoop, asked, toolsRan, replies, loopFaults>>

Msg(role, id) == [role |-> role, id |-> id]
Reply == Msg("assistant", 0)
CallOf(c) == Msg("tool_call", c.id)
OutputOf(c) == Msg("tool_call_output", c.id)
CallsOf(cs) == [k \in DOMAIN cs |-> CallOf(cs[k])]
OutputsOf(cs) == [k \in DOMAIN cs |-> OutputOf(cs[k])]

(* The calls a sequence of messages speaks of in that role, and what of it has its other half. *)
IdsIn(role, stored) == {stored[k].id : k \in {k \in DOMAIN stored : stored[k].role = role}}
Paired(stored) ==
    {m \in {stored[k] : k \in DOMAIN stored} :
        /\ m.role = "tool_call" => m.id \in IdsIn("tool_call_output", stored)
        /\ m.role = "tool_call_output" => m.id \in IdsIn("tool_call", stored)}

(* Faulty variant, for mutation checks: half a pair is sent as it is stored. *)
FromInputAsStored(stored) == stored

(* The request's history. Claude rejects a call without its result and a
   result without its call, so neither is sent; OpenAI gets all there is. *)
FromInput(stored) == IF service = "openai" THEN stored ELSE Only(stored, Paired(stored))

(* A container an earlier answer ran code in is used again; the answer's number
   is -1. *)
FindReusableContainer == \E k \in DOMAIN messages : messages[k] = Msg("assistant", -1)

LoopInit ==
    /\ service \in Services /\ messages \in PastStores
    /\ inputMessages = <<>> /\ loopAt = "store" /\ text = FALSE /\ calls = <<>>
    /\ rounds = 0 /\ wrapUpSent = FALSE /\ retries = 0 /\ fresh = FALSE
    /\ stopPressed = FALSE /\ titled = FALSE /\ continueLoop = TRUE /\ asked = 0 /\ toolsRan = {}
    /\ replies = 0 /\ loopFaults = 0

Fails == loopFaults < MaxLoopFaults /\ loopFaults' = loopFaults + 1
Works == UNCHANGED loopFaults

(* The user's message is stored and read back with all the others.         *)
SaveAndLoad ==
    /\ loopAt = "store"
    /\ \/ Works /\ messages' = Append(messages, Msg("user", 0))
          /\ inputMessages' = FromInput(messages') /\ loopAt' = "head"
       \/ Fails /\ loopAt' = "failed" /\ UNCHANGED <<messages, inputMessages>>
    /\ UNCHANGED <<service, continueLoop, text, calls, rounds, wrapUpSent, retries, fresh,
                   stopPressed, titled, asked, toolsRan, replies>>

PressStop ==
    /\ loopAt \in {"head", "stream", "tools"} /\ ~ stopPressed /\ stopPressed' = TRUE
    /\ UNCHANGED <<service, continueLoop, messages, inputMessages, loopAt, text, calls, rounds,
                   wrapUpSent, retries, fresh, titled, asked, toolsRan, replies, loopFaults>>

(* The head of the loop. Only OpenAI's looks at the guard here; Claude's is told
   to wrap up with its tools' results. *)
Request ==
    LET spent == rounds >= RoundLimit IN
    /\ loopAt = "head"
    /\ loopAt' = IF stopPressed THEN "cancelled"
             ELSE IF service = "openai" /\ spent /\ wrapUpSent THEN "done"
             ELSE "stream"
    /\ wrapUpSent' = (wrapUpSent \/ (service = "openai" /\ spent /\ ~ stopPressed))
    /\ text' = (text /\ service = "openai") /\ calls' = <<>>
    /\ UNCHANGED <<service, continueLoop, messages, inputMessages, rounds, retries, fresh, stopPressed,
                   titled, asked, toolsRan, replies, loopFaults>>

(* The service refuses the request, or the answer breaks off.              *)
RequestFails ==
    /\ loopAt = "stream" /\ ~ stopPressed
    /\ loopAt' = "failed"
    /\ UNCHANGED <<service, continueLoop, messages, inputMessages, text, calls, rounds, wrapUpSent,
                   retries, fresh, stopPressed, titled, asked, toolsRan, replies, loopFaults>>

(* OpenAI refuses a container it was to use again: once more with a new one. *)
ContainerGone ==
    /\ loopAt = "stream" /\ ~ stopPressed /\ ~ text /\ calls = <<>>
    /\ service = "openai" /\ ~ fresh /\ FindReusableContainer
    /\ fresh' = TRUE /\ loopAt' = "head"
    /\ UNCHANGED <<service, continueLoop, messages, inputMessages, text, calls, rounds, wrapUpSent,
                   retries, stopPressed, titled, asked, toolsRan, replies, loopFaults>>

TextDelta ==
    /\ loopAt = "stream" /\ ~ text /\ text' = TRUE
    /\ replies < MaxReplies /\ replies' = replies + 1
    /\ UNCHANGED <<service, continueLoop, messages, inputMessages, loopAt, calls, rounds, wrapUpSent,
                   retries, fresh, stopPressed, titled, asked, toolsRan, loopFaults>>

(* A call begins: the user is told of it, its arguments are still to come. *)
CallAdded ==
    /\ loopAt = "stream" /\ asked < MaxAsked
    /\ asked' = asked + 1
    /\ calls' = Append(calls, [id |-> asked + 1, args |-> "open"])
    /\ UNCHANGED <<service, continueLoop, messages, inputMessages, loopAt, text, rounds, wrapUpSent,
                   retries, fresh, stopPressed, titled, toolsRan, replies, loopFaults>>

(* Stop, noticed between two events: the text seen so far is stored.       *)
Cancelled ==
    /\ loopAt = "stream" /\ stopPressed
    /\ \/ Works /\ messages' = IF text THEN Append(messages, Reply) ELSE messages
       \/ text /\ Fails /\ UNCHANGED messages
    /\ loopAt' = "cancelled" /\ text' = FALSE
    /\ UNCHANGED <<service, continueLoop, inputMessages, calls, rounds, wrapUpSent, retries, fresh,
                   stopPressed, titled, asked, toolsRan, replies>>

-----------------------------------------------------------------------------
(* Claude: the answer is looked at when it is complete.                    *)

(* A tool's input that is not JSON: the answer is asked for again.         *)
Unreadable ==
    /\ loopAt = "stream" /\ service = "anthropic" /\ ~ stopPressed /\ calls # <<>>
    /\ retries' = retries + 1
    /\ loopAt' = IF retries < JsonRetries THEN "head" ELSE "failed"
    /\ UNCHANGED <<service, continueLoop, messages, inputMessages, text, calls, rounds, wrapUpSent,
                   fresh, stopPressed, titled, asked, toolsRan, replies, loopFaults>>

(* The arguments an answer ended with that reason may hold: complete, with a
   field missing, or, in its last call, cut off where the limit was reached. *)
ArgsOf(reason) ==
    {a \in [DOMAIN calls -> {"whole", "missing", "cut"}] :
        \A k \in DOMAIN calls : a[k] = "cut" => reason = "max_tokens" /\ k = Len(calls)}

(* Faulty variant, for mutation checks: calls of an answer cut off are run. *)
AfterAnyAnswer(reason) ==
    CASE reason = "refusal"    -> "failed"
      [] reason = "pause_turn" -> "head"
      [] calls = <<>>          -> "done"
      [] OTHER                 -> "tools"

(* What becomes of the turn, by the reason the answer ended for.           *)
AfterAnswer(reason) ==
    CASE reason = "refusal"    -> "failed"
      [] reason = "pause_turn" -> "head"
      [] calls = <<>>          -> "done"
      [] reason = "max_tokens" -> "failed"
      [] OTHER                 -> "tools"

(* Its text is stored, a title made of the first; a failure to is told to the
   user, and the turn goes on. What follows depends on why the answer ended. *)
FinalMessage ==
    /\ loopAt = "stream" /\ service = "anthropic"
    /\ \E reason \in {"end_turn", "max_tokens", "refusal", "pause_turn"} :
          /\ reason = "pause_turn" => calls = <<>> /\ text
          /\ loopAt' = AfterAnswer(reason)
          /\ \E args \in ArgsOf(reason) :
                calls' = [k \in DOMAIN calls |-> [calls[k] EXCEPT !.args = args[k]]]
    /\ \/ Works /\ messages' = (IF text THEN Append(messages, Reply) ELSE messages)
          /\ titled' = (titled \/ text)
       \/ text /\ Fails /\ UNCHANGED <<messages, titled>>
    /\ inputMessages' = IF loopAt' \in {"head", "tools"}
                  THEN (IF text THEN Append(inputMessages, Reply) ELSE inputMessages) \o CallsOf(calls)
                  ELSE inputMessages
    /\ retries' = 0 /\ text' = FALSE
    /\ UNCHANGED <<service, continueLoop, rounds, wrapUpSent, fresh, stopPressed, asked, toolsRan,
                   replies>>

-----------------------------------------------------------------------------
(* OpenAI: the answer is followed event by event.                          *)

(* A text is stored, and sent with the next request, when it is complete.  *)
TextDone ==
    /\ loopAt = "stream" /\ service = "openai" /\ text /\ text' = FALSE
    /\ \/ Works /\ messages' = Append(messages, Reply) /\ inputMessages' = Append(inputMessages, Reply)
          /\ titled' = TRUE
       \/ Fails /\ UNCHANGED <<messages, inputMessages, titled>>
    /\ UNCHANGED <<service, continueLoop, loopAt, calls, rounds, wrapUpSent, retries, fresh,
                   stopPressed, asked, toolsRan, replies>>

(* A call's arguments are complete; they may still not be JSON.            *)
ArgumentsDone ==
    /\ loopAt = "stream" /\ service = "openai"
    /\ \E k \in DOMAIN calls, args \in {"whole", "missing"} :
          calls[k].args = "open" /\ calls' = [calls EXCEPT ![k].args = args]
    /\ UNCHANGED <<service, continueLoop, messages, inputMessages, loopAt, text, rounds, wrapUpSent,
                   retries, fresh, stopPressed, titled, asked, toolsRan, replies, loopFaults>>

(* Faulty variant, for mutation checks: the calls are run before the response ends. *)
CompletedEarly ==
    /\ loopAt = "stream" /\ service = "openai" /\ ~ text
    /\ loopAt' = IF calls = <<>> THEN "done" ELSE "tools"
    /\ UNCHANGED <<service, continueLoop, messages, inputMessages, text, calls, rounds, wrapUpSent,
                   retries, fresh, stopPressed, titled, asked, toolsRan, replies, loopFaults>>

(* The response is complete, with it every text and every call in it: the calls
   are run, or there are none and the turn is done. *)
ResponseCompleted ==
    /\ loopAt = "stream" /\ service = "openai" /\ ~ text
    /\ \A k \in DOMAIN calls : calls[k].args # "open"
    /\ loopAt' = IF calls = <<>> THEN "done" ELSE "tools"
    /\ UNCHANGED <<service, continueLoop, messages, inputMessages, text, calls, rounds, wrapUpSent,
                   retries, fresh, stopPressed, titled, asked, toolsRan, replies, loopFaults>>

-----------------------------------------------------------------------------
(* A call whose input is known to be no good fails without being run.      *)
Runnable(c) == c.args # "missing"

(* Stop does not undo the round: the tools' results are stored and sent either way. *)
RunTools ==
    /\ loopAt = "tools" /\ loopAt' = "save"
    /\ toolsRan' = toolsRan \union {c.id : c \in {calls[k] : k \in {k \in DOMAIN calls : Runnable(calls[k])}}}
    /\ UNCHANGED <<service, continueLoop, messages, inputMessages, text, calls, rounds, wrapUpSent,
                   retries, fresh, stopPressed, titled, asked, replies, loopFaults>>

(* The guard counts the round; Claude is told to wrap up with the results, and
   the turn is over if it was told before and asked for tools all the same. *)
EndRound ==
    /\ rounds' = rounds + 1
    /\ loopAt' = IF ~ continueLoop' THEN "failed"
             ELSE IF service = "anthropic" /\ rounds' >= RoundLimit /\ wrapUpSent THEN "done"
             ELSE "head"
    /\ wrapUpSent' = (wrapUpSent \/ (service = "anthropic" /\ rounds' >= RoundLimit))

(* Faulty variant, for mutation checks: every call with its result, one by one. *)
SaveRoundInPairs ==
    /\ loopAt = "save" /\ service = "anthropic"
    /\ \/ /\ Works
          /\ messages' = messages \o [k \in 1 .. 2 * Len(calls) |->
                            IF k % 2 = 1 THEN CallOf(calls[(k + 1) \div 2]) ELSE OutputOf(calls[k \div 2])]
          /\ inputMessages' = inputMessages \o OutputsOf(calls)
          /\ UNCHANGED continueLoop /\ EndRound
       \/ Fails /\ loopAt' = "failed" /\ UNCHANGED <<messages, inputMessages, rounds, wrapUpSent, continueLoop>>
    /\ calls' = <<>>
    /\ UNCHANGED <<service, text, retries, fresh, stopPressed, titled, asked, toolsRan, replies>>

(* Claude: calls first, then outputs, in one transaction.                  *)
SaveRound ==
    /\ loopAt = "save" /\ service = "anthropic"
    /\ \/ /\ Works
          /\ messages' = messages \o CallsOf(calls) \o OutputsOf(calls)
          /\ inputMessages' = inputMessages \o OutputsOf(calls)
          /\ UNCHANGED continueLoop /\ EndRound
       \/ Fails /\ loopAt' = "failed" /\ UNCHANGED <<messages, inputMessages, rounds, wrapUpSent, continueLoop>>
    /\ calls' = <<>>
    /\ UNCHANGED <<service, text, retries, fresh, stopPressed, titled, asked, toolsRan, replies>>

(* OpenAI: every call with its result in a transaction of its own. One that is
   not stored ends the turn, after the others. *)
SavePair ==
    /\ loopAt = "save" /\ service = "openai"
    /\ LET pair == <<CallOf(calls[1]), OutputOf(calls[1])>> IN
       /\ inputMessages' = inputMessages \o pair
       /\ \/ Works /\ messages' = messages \o pair /\ UNCHANGED continueLoop
          \/ Fails /\ continueLoop' = FALSE /\ UNCHANGED messages
    /\ calls' = Tail(calls)
    /\ IF Len(calls) = 1 THEN EndRound ELSE UNCHANGED <<loopAt, rounds, wrapUpSent>>
    /\ UNCHANGED <<service, text, retries, fresh, stopPressed, titled, asked, toolsRan, replies>>

LoopNext ==
    \/ SaveAndLoad \/ PressStop \/ Request \/ RequestFails \/ ContainerGone
    \/ TextDelta \/ CallAdded \/ Cancelled
    \/ Unreadable \/ FinalMessage
    \/ TextDone \/ ArgumentsDone \/ ResponseCompleted
    \/ RunTools \/ SaveRound \/ SavePair

LoopSpec == LoopInit /\ [][LoopNext]_loopVars

-----------------------------------------------------------------------------
LoopCalls == [id : Nat, args : {"open", "whole", "missing", "cut"}]

(* The state's types. *)
LoopTypeOK ==
    /\ service \in Services
    /\ messages \in Seq(LoopMessages) /\ inputMessages \in Seq(LoopMessages)
    /\ loopAt \in {"store", "head", "stream", "tools", "save", "done", "failed", "cancelled"}
    /\ calls \in Seq(LoopCalls)
    /\ {text, wrapUpSent, fresh, stopPressed, titled, continueLoop} \subseteq BOOLEAN
    /\ {rounds, retries, asked, replies, loopFaults} \subseteq Nat /\ toolsRan \subseteq Nat

(* The conversation as the model saw it is the conversation a later turn will
   read back: before every request that follows an answer, what is sent equals
   what the stored messages replay as, however the rounds, retries and texts
   fell -- unless a write failed. *)
ReplaysAsAsked ==
    loopAt = "head" /\ loopFaults = 0 => inputMessages = FromInput(messages)

(* What Claude is sent holds no call without its result and no result without
   its call, whatever earlier turns left behind. *)
RequestsPairUp ==
    service = "anthropic" /\ loopAt \in {"head", "stream"} =>
        IdsIn("tool_call", inputMessages) = IdsIn("tool_call_output", inputMessages)

(* A tool runs only on a call that came in whole: never on one cut off by a
   limit, still streaming, or with a field missing. *)
NoHalfCallRuns ==
    \A k \in DOMAIN calls : calls[k].id \in toolsRan => calls[k].args = "whole"

(* What is stored of a turn can be sent again, whatever ended the turn, and
   only what the model asked for is run. *)
LoopSafety == ReplaysAsAsked /\ RequestsPairUp /\ NoHalfCallRuns
=============================================================================
