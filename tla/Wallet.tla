-------------------------------- MODULE Wallet --------------------------------
(***************************************************************************)
(* Spending credits (src/core/marketplace/): a call of the public model    *)
(* API (api_v1.ts) or a turn of the chat (failover_llm.ts, wallet_llm.ts)  *)
(* is let in, sent to the first provider that works (router.ts), and       *)
(* charged afterwards (marketplace_service.ts, market_repository.ts).      *)
(* Between any two awaits other calls run.  One user with one API key, one *)
(* server.                                                                 *)
(***************************************************************************)
EXTENDS Integers, Sequences, FiniteSets, SequencesExt, Filters

CONSTANTS
  Calls,           \* calls that may be under way at one time
  Offers,          \* the model's providers, best first: a sequence
  Price,           \* what a call costs at each provider, markup included
  MaxConcurrent,   \* MAX_CONCURRENT_PER_USER
  FailsToTrip,     \* FAILS_TO_TRIP
  Credit, KeyLimit,
  MaxCalls, MaxWalletFaults    \* bounds of the model

ASSUME WalletAssumption ==
  /\ Offers \in Seq(ToSet(Offers)) /\ IsInjective(Offers) /\ Price \in [ToSet(Offers) -> Nat \ {0}]
  /\ {MaxConcurrent, FailsToTrip} \subseteq Nat \ {0}
  /\ {Credit, KeyLimit, MaxCalls, MaxWalletFaults} \subseteq Nat /\ IsFiniteSet(Calls)

VARIABLES
  balance,       \* market_wallets.balance_nanos
  ledger,        \* market_ledger: [call, provider], in order
  keyUsed, keyOn,  \* market_api_keys.usage_nanos, not disabled
  inflight,      \* requests of the user being served
  health,        \* each provider: [fails, open]
  sticky,        \* the provider that served the chat last
  spend,          \* each call: [no, kind, at, routes, limited, by, started]
  callsMade, walletFaults,
  \* history
  tried,         \* providers each call was sent to and failed at, in order
  served,        \* <<spend, provider>> that generated something
  unbilled       \* calls whose charge a fault took, in whole or in part

walletVars == <<balance, ledger, keyUsed, keyOn, inflight, health, sticky, spend,
                callsMade, walletFaults, tried, served, unbilled>>

Providers == ToSet(Offers)
NoCall == [no |-> 0, kind |-> "none", at |-> "idle", routes |-> <<>>, limited |-> FALSE, by |-> "nobody", started |-> FALSE]

WalletInit ==
  /\ balance = Credit /\ ledger = <<>> /\ keyUsed = 0 /\ keyOn = TRUE /\ inflight = 0
  /\ health = [p \in Providers |-> [fails |-> 0, open |-> FALSE]] /\ sticky = "nobody"
  /\ spend = [c \in Calls |-> NoCall] /\ callsMade = 0 /\ walletFaults = 0
  /\ tried = <<>> /\ served = {} /\ unbilled = {}

CallAt(c, place) == spend[c].at = place
WalletFault == walletFaults < MaxWalletFaults /\ walletFaults' = walletFaults + 1
MoveTo(c, place) == spend' = [spend EXCEPT ![c].at = place]

-----------------------------------------------------------------------------
\* blockedReason() and keyLimitReached(), of the key row auth read.
Blocked == balance <= 0
KeyLimitReached == keyUsed >= KeyLimit

\* auth: the key is looked up; a disabled one is refused.
Authenticate(c) ==
  /\ CallAt(c, "idle") /\ callsMade < MaxCalls /\ keyOn
  /\ callsMade' = callsMade + 1 /\ tried' = Append(tried, <<>>)
  /\ spend' = [spend EXCEPT ![c].no = callsMade + 1, ![c].kind = "api", ![c].at = "check",
                            ![c].limited = KeyLimitReached]
  /\ UNCHANGED <<balance, ledger, keyUsed, keyOn, inflight, health, sticky, walletFaults, served, unbilled>>

\* POST /chat/completions up to the routes.
Admit(c) ==
  /\ CallAt(c, "check") /\ spend[c].kind = "api"
  /\ IF Blocked \/ spend[c].limited \/ inflight >= MaxConcurrent
     THEN spend' = [spend EXCEPT ![c] = NoCall] /\ UNCHANGED inflight
     ELSE MoveTo(c, "route") /\ inflight' = inflight + 1
  /\ UNCHANGED <<balance, ledger, keyUsed, keyOn, health, sticky, callsMade, walletFaults, tried, served, unbilled>>

\* A turn of the chat; the wallet is checked for each provider it tries.
ChatTurn(c) ==
  /\ CallAt(c, "idle") /\ callsMade < MaxCalls
  /\ callsMade' = callsMade + 1 /\ tried' = Append(tried, <<>>)
  /\ spend' = [spend EXCEPT ![c].no = callsMade + 1, ![c].kind = "chat", ![c].at = "route"]
  /\ UNCHANGED <<balance, ledger, keyUsed, keyOn, inflight, health, sticky, walletFaults, served, unbilled>>

\* Router.routes(): the healthy first, the tripped last, the chat's last
\* provider before all others unless it is tripped.
Healthy == Only(Offers, {p \in Providers : ~health[p].open})
Tripped == Only(Offers, {p \in Providers : health[p].open})
Sticking(order, p) ==
  IF p \in ToSet(Healthy) THEN <<p>> \o Only(order, Providers \ {p}) ELSE order

\* The finally of the request.
LeaveCall(c) == inflight' = IF spend[c].kind = "api" THEN inflight - 1 ELSE inflight

Routes(c) ==
  LET order == Healthy \o Tripped IN
  /\ CallAt(c, "route")
  /\ IF Offers = <<>> THEN MoveTo(c, "unavailable") /\ LeaveCall(c)
     ELSE /\ spend' = [spend EXCEPT
               ![c].at = IF spend[c].kind = "chat" THEN "check" ELSE "call",
               ![c].routes = IF spend[c].kind = "chat" THEN Sticking(order, sticky) ELSE order]
          /\ UNCHANGED inflight
  /\ UNCHANGED <<balance, ledger, keyUsed, keyOn, health, sticky, callsMade, walletFaults, tried, served, unbilled>>

CheckChat(c) ==
  /\ CallAt(c, "check") /\ spend[c].kind = "chat"
  /\ IF Blocked THEN spend' = [spend EXCEPT ![c] = NoCall] ELSE MoveTo(c, "call")
  /\ UNCHANGED <<balance, ledger, keyUsed, keyOn, inflight, health, sticky, callsMade, walletFaults, tried, served, unbilled>>

\* Router.success() and failure().
Success(p) == health' = [health EXCEPT ![p] = [fails |-> 0, open |-> FALSE]]
Failure(p) ==
  health' = [health EXCEPT ![p] = [fails |-> @.fails + 1, open |-> @.open \/ @.fails + 1 >= FailsToTrip]]

\* openUntil passes.
TripEnds(p) ==
  /\ health[p].open /\ health' = [health EXCEPT ![p].open = FALSE]
  /\ UNCHANGED <<balance, ledger, keyUsed, keyOn, inflight, sticky, spend, callsMade, walletFaults, tried, served, unbilled>>

\* A provider fails before its reply starts, in a way worth another: the
\* next one, or the answer that the service is unavailable.
\* Faulty variant, for mutation checks: the last provider is not tried.
TryNextButLast(c, place) ==
  /\ CallAt(c, "call") /\ ~spend[c].started /\ WalletFault /\ Failure(Head(spend[c].routes))
  /\ tried' = [tried EXCEPT ![spend[c].no] = Append(@, Head(spend[c].routes))]
  /\ IF Len(spend[c].routes) > 2
     THEN /\ spend' = [spend EXCEPT ![c].routes = Tail(@), ![c].at = place]
          /\ UNCHANGED inflight
     ELSE MoveTo(c, "unavailable") /\ LeaveCall(c)
  /\ UNCHANGED <<balance, ledger, keyUsed, keyOn, sticky, callsMade, served, unbilled>>

TryNext(c, place) ==
  /\ CallAt(c, "call") /\ ~spend[c].started /\ WalletFault /\ Failure(Head(spend[c].routes))
  /\ tried' = [tried EXCEPT ![spend[c].no] = Append(@, Head(spend[c].routes))]
  /\ IF Len(spend[c].routes) > 1
     THEN /\ spend' = [spend EXCEPT ![c].routes = Tail(@), ![c].at = place]
          /\ UNCHANGED inflight
     ELSE MoveTo(c, "unavailable") /\ LeaveCall(c)
  /\ UNCHANGED <<balance, ledger, keyUsed, keyOn, sticky, callsMade, served, unbilled>>

CallFails(c) == spend[c].kind = "api" /\ TryNext(c, "call")

\* The request itself is wrong, or the caller hangs up: no other is tried.
CallRefused(c) ==
  /\ CallAt(c, "call") /\ WalletFault
  /\ spend' = [spend EXCEPT ![c] = NoCall] /\ LeaveCall(c)
  /\ UNCHANGED <<balance, ledger, keyUsed, keyOn, health, sticky, callsMade, tried, served, unbilled>>

Serve(c, ends) ==
  /\ CallAt(c, "call") /\ LeaveCall(c)
  /\ served' = served \union {<<spend[c].no, Head(spend[c].routes)>>}
  /\ spend' = [spend EXCEPT ![c].at = "settle", ![c].by = Head(spend[c].routes), ![c].started = TRUE]
  /\ IF ends THEN UNCHANGED walletFaults ELSE WalletFault
  /\ UNCHANGED <<balance, ledger, keyUsed, keyOn, callsMade, tried, unbilled>>

\* The provider answers, to the end or until the reply breaks off.
CallServed(c, ends) ==
  /\ spend[c].kind = "api" /\ Serve(c, ends) /\ UNCHANGED sticky
  /\ IF ends THEN Success(Head(spend[c].routes)) ELSE UNCHANGED health

\* FailoverLLM.chatStream(): one provider's stream.  An error before the reply
\* starts leads to the next; one in the middle of it is passed on, and only a
\* reply the user stops does not count as a success.  (A turn of several calls
\* charges each like this one.)
ChatAttempt(c) ==
  /\ spend[c].kind = "chat"
  /\ \/ TryNext(c, "check")
     \/ /\ \E ends \in BOOLEAN : Serve(c, ends)
        /\ Success(Head(spend[c].routes)) /\ sticky' = Head(spend[c].routes)
     \/ Serve(c, FALSE) /\ UNCHANGED <<health, sticky>>

-----------------------------------------------------------------------------
\* Faulty variant, for mutation checks: charged at the best offer's price.
ChargeAtListPrice(c) ==
  /\ balance' = balance - Price[Offers[1]]
  /\ ledger' = Append(ledger, [call |-> spend[c].no, provider |-> Offers[1]])

\* MarketRepository.apply(): balance and ledger, in one statement.
ApplyCharge(c) ==
  /\ balance' = balance - Price[spend[c].by]
  /\ ledger' = Append(ledger, [call |-> spend[c].no, provider |-> spend[c].by])

\* chargeUsage(): an error is logged and the call stays free.
Settle(c) ==
  /\ CallAt(c, "settle")
  /\ \/ ApplyCharge(c) /\ UNCHANGED <<walletFaults, unbilled>>
        /\ MoveTo(c, IF spend[c].kind = "api" THEN "key" ELSE "more")
     \/ WalletFault /\ unbilled' = unbilled \union {spend[c].no} /\ UNCHANGED <<balance, ledger>>
        /\ IF spend[c].kind = "api" THEN spend' = [spend EXCEPT ![c] = NoCall] ELSE MoveTo(c, "more")
  /\ UNCHANGED <<keyUsed, keyOn, inflight, health, sticky, callsMade, tried, served>>

\* addKeyUsage(), an error of which is dropped.
AddKeyUsage(c) ==
  /\ CallAt(c, "key") /\ spend' = [spend EXCEPT ![c] = NoCall]
  /\ \/ keyUsed' = keyUsed + Price[spend[c].by] /\ UNCHANGED <<walletFaults, unbilled>>
     \/ WalletFault /\ unbilled' = unbilled \union {spend[c].no} /\ UNCHANGED keyUsed
  /\ UNCHANGED <<balance, ledger, keyOn, inflight, health, sticky, callsMade, tried, served>>

\* The chat turn ends; or the answer of an unavailable service is given.
EndCall(c) ==
  /\ spend[c].at \in {"more", "unavailable"} /\ spend' = [spend EXCEPT ![c] = NoCall]
  /\ UNCHANGED <<balance, ledger, keyUsed, keyOn, inflight, health, sticky, callsMade, walletFaults, tried, served, unbilled>>

\* updateKey() of the owner.
SwitchKey ==
  /\ keyOn' = ~keyOn /\ WalletFault
  /\ UNCHANGED <<balance, ledger, keyUsed, inflight, health, sticky, spend, callsMade, tried, served, unbilled>>

WalletNext ==
  \/ \E c \in Calls :
       \/ Authenticate(c) \/ Admit(c) \/ ChatTurn(c) \/ Routes(c) \/ CheckChat(c)
       \/ CallFails(c) \/ CallRefused(c) \/ ChatAttempt(c) \/ (\E ends \in BOOLEAN : CallServed(c, ends))
       \/ Settle(c) \/ AddKeyUsage(c) \/ EndCall(c)
  \/ \E p \in Providers : TripEnds(p)
  \/ SwitchKey

WalletSpec == WalletInit /\ [][WalletNext]_walletVars

-----------------------------------------------------------------------------
Charged(entries) ==
  LET sum[n \in 0 .. Len(entries)] ==
        IF n = 0 THEN 0 ELSE sum[n - 1] + Price[entries[n].provider]
  IN  sum[Len(entries)]
Under(no) == {c \in Calls : spend[c].no = no}

\* The books agree with what was served: the balance is the credit less the
\* ledger; no call is charged but to the provider that served it, and once; a
\* call that was served is charged when it is over, unless a fault took the
\* charge; the key never shows more than was charged; and the requests counted
\* as being served are those that are.
BilledAsServed ==
  /\ balance = Credit - Charged(ledger)
  /\ \A i \in DOMAIN ledger : <<ledger[i].call, ledger[i].provider>> \in served
  /\ \A i, k \in DOMAIN ledger : ledger[i] = ledger[k] => i = k
  /\ \A s \in served : \/ \E i \in DOMAIN ledger : ledger[i] = [call |-> s[1], provider |-> s[2]]
                       \/ s[1] \in unbilled \/ \E c \in Under(s[1]) : CallAt(c, "settle")
  /\ keyUsed <= Charged(ledger)
  /\ inflight = Cardinality({c \in Calls : spend[c].kind = "api" /\ spend[c].at \in {"route", "call"}})

\* A caller is told that the service is unavailable only when every provider
\* of the model was tried for it; none is tried twice for one spend, and none
\* after one has begun to answer.
EveryProviderIsTried ==
  /\ \A c \in Calls : CallAt(c, "unavailable") => ToSet(tried[spend[c].no]) = Providers
  /\ \A no \in DOMAIN tried : IsInjective(tried[no])
  /\ \A s \in served, t \in served : s[1] = t[1] => s = t /\ s[2] \notin ToSet(tried[s[1]])
=============================================================================
