------------------------------ MODULE ChannelCalls ------------------------------
(***************************************************************************)
(* Calls to a messaging app that another process hosts                     *)
(* (src/channels/core/channel_control.ts), as main.ts makes them to tell a *)
(* user something: WhatsApp first and, unless that says true, Telegram.    *)
(* Requests and replies travel over Redis, which loses what no one listens *)
(* for; the caller waits for a reply for a while only.                     *)
(***************************************************************************)
EXTENDS Naturals, FiniteSets

CONSTANTS
  Notices,          \* what users are told
  MaxChannelFaults  \* bound of the model

ASSUME ChannelAssumption == MaxChannelFaults \in Nat

Apps == {"whatsapp", "telegram"}
CallIds == Notices \X Apps

VARIABLES
  hosts,       \* the apps that run in the jobs process (snapshot() is not null)
  snapshot,    \* Redis: apps with a status
  callsHeard,   \* the jobs process is subscribed
  notice,      \* notifyLinkedApp: "new", "whatsapp", "telegram", "told", "untold"
  pending,     \* calls the API process waits for
  requests, replies,   \* on their way: calls; [call, result]
  working,     \* calls the jobs process carries out
  results,     \* what the waiting code gets: [call -> "none", "true", "false", "error"]
  channelFaults,
  sends        \* history: calls whose message was sent

channelCallVars == <<hosts, snapshot, callsHeard, notice, pending, requests, replies, working,
                     results, channelFaults, sends>>

ChannelInit ==
  /\ hosts \in SUBSET Apps /\ snapshot = {} /\ callsHeard = TRUE
  /\ notice = [n \in Notices |-> "new"] /\ pending = {}
  /\ requests = {} /\ replies = {} /\ working = {} /\ results = [c \in CallIds |-> "none"]
  /\ channelFaults = 0 /\ sends = {}

-----------------------------------------------------------------------------
\* command(): a request is published and its reply awaited.
Command(c) ==
  /\ pending' = pending \union {c}
  /\ requests' = IF callsHeard THEN requests \union {c} ELSE requests
ChannelFault == channelFaults < MaxChannelFaults /\ channelFaults' = channelFaults + 1

\* A call leaves the list, and what waited goes on.
Settle(c, with) ==
  /\ c \in pending /\ pending' = pending \ {c} /\ results' = [results EXCEPT ![c] = with]

\* notifyLinkedApp(): one app after the other.
NotifyUser(n) ==
  /\ notice[n] = "new" /\ notice' = [notice EXCEPT ![n] = "whatsapp"] /\ Command(<<n, "whatsapp">>)
  /\ UNCHANGED <<hosts, snapshot, callsHeard, replies, working, results, channelFaults, sends>>
\* Faulty variant, for mutation checks: the other app is tried at once.
NextAppAtOnce(n) ==
  /\ notice[n] = "whatsapp"
  /\ notice' = [notice EXCEPT ![n] = "telegram"] /\ Command(<<n, "telegram">>)
  /\ UNCHANGED <<hosts, snapshot, callsHeard, replies, working, results, channelFaults, sends>>

NextApp(n) ==
  /\ notice[n] = "whatsapp" /\ results[<<n, "whatsapp">>] \in {"false", "error"}
  /\ notice' = [notice EXCEPT ![n] = "telegram"] /\ Command(<<n, "telegram">>)
  /\ UNCHANGED <<hosts, snapshot, callsHeard, replies, working, results, channelFaults, sends>>

\* The notice ends.
CallTold(n) ==
  /\ notice[n] \in Apps
  /\ \/ results[<<n, notice[n]>>] = "true" /\ notice' = [notice EXCEPT ![n] = "told"]
     \/ /\ notice[n] = "telegram" /\ results[<<n, "telegram">>] \in {"false", "error"}
        /\ notice' = [notice EXCEPT ![n] = "untold"]
  /\ UNCHANGED <<hosts, snapshot, callsHeard, pending, requests, replies, working, results, channelFaults, sends>>

\* The publish fails, the timer runs out, or this process shuts down.
PublishRequestFails(c) ==
  /\ c \in requests /\ ChannelFault /\ requests' = requests \ {c} /\ Settle(c, "error")
  /\ UNCHANGED <<hosts, snapshot, callsHeard, notice, replies, working, sends>>
TimesOut(c) ==
  /\ Settle(c, "error")
  /\ UNCHANGED <<hosts, snapshot, callsHeard, notice, requests, replies, working, channelFaults, sends>>
StopHub ==
  /\ pending # {} /\ ChannelFault /\ pending' = {}
  /\ results' = [c \in CallIds |-> IF c \in pending THEN "error" ELSE results[c]]
  /\ UNCHANGED <<hosts, snapshot, callsHeard, notice, requests, replies, working, sends>>

\* onMessage() in the jobs process: only a host of the app answers.
TakeRequest(c) ==
  /\ c \in requests /\ requests' = requests \ {c}
  /\ working' = IF c[2] \in hosts THEN working \union {c} ELSE working
  /\ UNCHANGED <<hosts, snapshot, callsHeard, notice, pending, replies, results, channelFaults, sends>>

\* notifyUser() of the bridge: sent, or false without a link or a connection.
RunCall(c) ==
  /\ c \in working /\ working' = working \ {c}
  /\ \E r \in {"true", "false", "error"} :
       /\ (r = "error" => channelFaults < MaxChannelFaults)
       /\ channelFaults' = channelFaults + (IF r = "error" THEN 1 ELSE 0)
       /\ sends' = IF r = "true" THEN sends \union {c} ELSE sends
       /\ replies' = replies \union {[call |-> c, result |-> r]}
  /\ UNCHANGED <<hosts, snapshot, callsHeard, notice, pending, requests, results>>

\* onMessage() in the API process.
TakeReply(m) ==
  /\ m \in replies /\ replies' = replies \ {m}
  /\ IF m.call \in pending THEN Settle(m.call, m.result) ELSE UNCHANGED <<pending, results>>
  /\ UNCHANGED <<hosts, snapshot, callsHeard, notice, requests, working, channelFaults, sends>>
LoseReply(m) ==
  /\ m \in replies /\ ChannelFault /\ replies' = replies \ {m}
  /\ UNCHANGED <<hosts, snapshot, callsHeard, notice, pending, requests, working, results, sends>>

\* The jobs process goes and comes back; what it was doing is gone.
HostDies ==
  /\ callsHeard /\ ChannelFault /\ callsHeard' = FALSE /\ working' = {} /\ requests' = {}
  /\ UNCHANGED <<hosts, snapshot, notice, pending, replies, results, sends>>
HostStarts ==
  /\ ~callsHeard /\ callsHeard' = TRUE /\ hosts' \in SUBSET Apps
  /\ UNCHANGED <<snapshot, notice, pending, requests, replies, working, results, channelFaults, sends>>

\* publishSnapshots(), and a status that is not refreshed.
PublishSnapshots ==
  /\ callsHeard /\ snapshot # snapshot \union hosts /\ snapshot' = snapshot \union hosts
  /\ UNCHANGED <<hosts, callsHeard, notice, pending, requests, replies, working, results, channelFaults, sends>>
SnapshotExpires(a) ==
  /\ a \in snapshot /\ (a \notin hosts \/ ~callsHeard) /\ snapshot' = snapshot \ {a}
  /\ UNCHANGED <<hosts, callsHeard, notice, pending, requests, replies, working, results, channelFaults, sends>>

ChannelNext ==
  \/ \E n \in Notices : NotifyUser(n) \/ NextApp(n) \/ CallTold(n)
  \/ \E c \in CallIds : PublishRequestFails(c) \/ TimesOut(c) \/ TakeRequest(c) \/ RunCall(c)
  \/ \E m \in replies : TakeReply(m) \/ LoseReply(m)
  \/ StopHub \/ HostDies \/ HostStarts \/ PublishSnapshots \/ \E a \in Apps : SnapshotExpires(a)

ChannelSpec == ChannelInit /\ [][ChannelNext]_channelCallVars

-----------------------------------------------------------------------------
\* A user counts as told only when a message was sent to them; a call that has
\* its result waits no more; and a message goes to both apps only
\* after a call got no answer in time.
CallsAreAnswered ==
  /\ \A n \in Notices : notice[n] = "told" => \E a \in Apps : <<n, a>> \in sends
  /\ \A c \in pending : results[c] = "none"
  /\ \A n \in Notices : (\A a \in Apps : <<n, a>> \in sends) => results[<<n, "whatsapp">>] = "error"
=============================================================================
