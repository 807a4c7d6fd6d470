------------------------------- MODULE ChatBridge -------------------------------
(***************************************************************************)
(* The bridge between a messaging app and the chats of the web app         *)
(* (src/channels/core/chat_bridge.ts) with its tables of links and one-time *)
(* codes (repository/channel_link_repository.ts; whatsapp_repository.ts    *)
(* holds the same two tables for WhatsApp).  Messages of one chat of the   *)
(* app are handled one after another, each await a step; chats run side by *)
(* side, and so do the requests of the web app.                            *)
(***************************************************************************)
EXTENDS Naturals, FiniteSets, Sequences

CONSTANTS
  Chats, Users,
  BridgeSessions,   \* chats of the web app
  NumCodes,         \* one-time codes, numbered in the order they are made
  MadeFor,             \* the sessions there are at first, each with its user
  Linked,           \* and the links
  MaxMessages,      \* bounds of the model: messages in each chat
  MaxBridgeFaults

ASSUME BridgeAssumption ==
  /\ Users \intersect {"nobody", "none", "gone"} = {} /\ "none" \notin BridgeSessions
  /\ MadeFor \in [BridgeSessions -> Users \union {"none"}]
  /\ Linked \in [Chats -> [user : Users, session : BridgeSessions \union {"none"}]
                           \union {[user |-> "nobody", session |-> "none"]}]
  /\ \A c \in Chats, d \in Chats : Linked[c].user = Linked[d].user /\ Linked[c].user \in Users => c = d
  /\ MaxMessages \in [Chats -> Nat] /\ MaxBridgeFaults \in Nat /\ NumCodes \in Nat

VARIABLES
  owner,     \* each session: its user, "none" before it is made, "gone"
  link,      \* channel_links: [user, session] of each chat
  code,      \* channel_link_codes: [state, user, session]
  chatInbox,     \* queues: the messages waiting in each chat, [no, kind, code]
  seenIds,   \* numbers of the messages the bridge has seen
  sent,      \* messages sent in each chat
  handling,  \* the message each chat is at: [at, kind, code, user, session]
  web,       \* a web request to continue a session in the app: [at, user, session, chat]
  bridgeFaults,
  \* history
  handled,   \* number of the latest message handled in each chat
  linkings   \* codes taken: <<code, chat, user>>, code 0 before this model starts

bridgeVars == <<owner, link, code, chatInbox, seenIds, sent, handling, web, bridgeFaults, handled, linkings>>

NoLink == [user |-> "nobody", session |-> "none"]
Codes == 1..NumCodes
NoCode == [state |-> "none", user |-> "nobody", session |-> "none"]
Resting == [at |-> "rest", kind |-> "none", code |-> 0, user |-> "nobody", session |-> "none"]
NoWeb == [at |-> "rest", user |-> "nobody", session |-> "none", chat |-> "none"]
Kinds == {"text", "new", "unlink"}

BridgeInit ==
  /\ owner = MadeFor /\ link = Linked
  /\ code = [k \in Codes |-> NoCode] /\ sent = [c \in Chats |-> 0]
  /\ chatInbox = [c \in Chats |-> <<>>] /\ seenIds = {} /\ handling = [c \in Chats |-> Resting]
  /\ web = NoWeb /\ bridgeFaults = 0
  /\ handled = [c \in Chats |-> 0] /\ linkings = {<<0, c, Linked[c].user>> : c \in Chats}

Place(c, at) == handling' = [handling EXCEPT ![c].at = at]
Rest(c) == handling' = [handling EXCEPT ![c] = Resting]
Unchanged(rest) == UNCHANGED <<chatInbox, seenIds, sent, web, handled>> /\ UNCHANGED rest

-----------------------------------------------------------------------------
\* channel_links and channel_link_codes.
SetActiveSession(c, s) ==
  link' = IF link[c] = NoLink THEN link ELSE [link EXCEPT ![c].session = s]

LinkChat(c, u, s) ==
  link' = [d \in Chats |-> IF d = c THEN [user |-> u, session |-> s]
                           ELSE IF link[d].user = u THEN NoLink ELSE link[d]]

ConsumeCode(k) == code' = [code EXCEPT ![k].state = "used"]

Valid(s, u) == s \in BridgeSessions /\ owner[s] = u

-----------------------------------------------------------------------------
\* Faulty variant, for mutation checks: nothing is skipped.
EnqueueAll(c, m) ==
  chatInbox' = [chatInbox EXCEPT ![c] = Append(@, m)] /\ seenIds' = seenIds \union {m.no}

\* enqueue(): a message the bridge has seen is skipped.
Enqueue(c, m) ==
  IF m.no \in seenIds THEN UNCHANGED <<chatInbox, seenIds>>
  ELSE chatInbox' = [chatInbox EXCEPT ![c] = Append(@, m)] /\ seenIds' = seenIds \union {m.no}

\* A message arrives; the app may deliver one again.
Arrive(c, kind, k) ==
  /\ sent[c] < MaxMessages[c] /\ sent' = [sent EXCEPT ![c] = @ + 1]
  /\ Enqueue(c, [no |-> <<c, sent[c] + 1>>, kind |-> kind, code |-> k])
  /\ UNCHANGED <<owner, link, code, handling, web, bridgeFaults, handled, linkings>>
Redeliver(c) ==
  /\ bridgeFaults < MaxBridgeFaults /\ bridgeFaults' = bridgeFaults + 1
  /\ handled[c] > 0 /\ Enqueue(c, [no |-> <<c, handled[c]>>, kind |-> "text", code |-> 0])
  /\ UNCHANGED <<owner, link, code, sent, handling, web, handled, linkings>>

\* handle(): the next message of the chat.
Handle(c) ==
  LET m == Head(chatInbox[c]) IN
  /\ handling[c] = Resting /\ chatInbox[c] # <<>>
  /\ chatInbox' = [chatInbox EXCEPT ![c] = Tail(@)] /\ handled' = [handled EXCEPT ![c] = m.no[2]]
  /\ handling' = [handling EXCEPT ![c] = [Resting EXCEPT !.kind = m.kind, !.code = m.code,
                                            !.at = IF m.kind = "code" THEN "code" ELSE "link"]]
  /\ UNCHANGED <<owner, link, code, seenIds, sent, web, bridgeFaults, linkings>>

\* handleLinkCode().
CheckCode(c) ==
  LET k == handling[c].code IN
  /\ handling[c].at = "code"
  /\ IF code[k].state = "fresh"
     THEN /\ ConsumeCode(k) /\ linkings' = linkings \union {<<k, c, code[k].user>>}
          /\ handling' = [handling EXCEPT ![c] = [@ EXCEPT !.at = "existing", !.user = code[k].user, !.session = code[k].session]]
     ELSE Rest(c) /\ UNCHANGED <<code, linkings>>
  /\ Unchanged(<<owner, link, bridgeFaults>>)
FindExisting(c) ==
  /\ handling[c].at = "existing"
  /\ IF link[c].user # handling[c].user THEN Place(c, "relink")
     ELSE IF handling[c].session # "none" THEN Place(c, "activate") ELSE Rest(c)
  /\ Unchanged(<<owner, link, code, bridgeFaults, linkings>>)
Relink(c) ==
  /\ handling[c].at = "relink" /\ Rest(c)
  /\ LinkChat(c, handling[c].user, handling[c].session)
  /\ Unchanged(<<owner, code, bridgeFaults, linkings>>)

\* getByChat(): a chat with no link is only told how to link it.
ReadLink(c) ==
  /\ handling[c].at = "link"
  /\ IF link[c] = NoLink THEN Rest(c)
     ELSE handling' = [handling EXCEPT ![c] = [@ EXCEPT !.user = link[c].user, !.session = link[c].session,
            !.at = CASE handling[c].kind = "text" -> "ensure" [] handling[c].kind = "new" -> "create" [] OTHER -> "unlink"]]
  /\ Unchanged(<<owner, link, code, bridgeFaults, linkings>>)

\* Faulty variant, for mutation checks: the session of the link is taken as it is.
EnsureAnySession(c) ==
  /\ handling[c].at = "ensure" /\ Place(c, IF handling[c].session # "none" THEN "turn" ELSE "create")
  /\ Unchanged(<<owner, link, code, bridgeFaults, linkings>>)

\* ensureSession().
EnsureSession(c) ==
  /\ handling[c].at = "ensure"
  /\ Place(c, IF Valid(handling[c].session, handling[c].user) THEN "turn" ELSE "create")
  /\ Unchanged(<<owner, link, code, bridgeFaults, linkings>>)

\* createSession().
CreateSession(c) ==
  /\ handling[c].at = "create"
  /\ \E s \in BridgeSessions :
       /\ owner[s] = "none" /\ owner' = [owner EXCEPT ![s] = handling[c].user]
       /\ handling' = [handling EXCEPT ![c] = [@ EXCEPT !.session = s, !.at = "activate"]]
  /\ Unchanged(<<link, code, bridgeFaults, linkings>>)
Activate(c) ==
  /\ handling[c].at = "activate" /\ SetActiveSession(c, handling[c].session)
  /\ IF handling[c].kind = "text" THEN Place(c, "turn") ELSE Rest(c)
  /\ Unchanged(<<owner, code, bridgeFaults, linkings>>)

\* /unlink.
UnlinkChat(c) ==
  /\ handling[c].at = "unlink" /\ Rest(c) /\ link' = [link EXCEPT ![c] = NoLink]
  /\ Unchanged(<<owner, code, bridgeFaults, linkings>>)

\* ask(): the turn runs and the reply is sent.
AskModel(c) ==
  /\ handling[c].at = "turn" /\ Rest(c)
  /\ Unchanged(<<owner, link, code, bridgeFaults, linkings>>)

\* A step fails; the chat is told so and the next message handled.
HandleFails(c) ==
  /\ handling[c] # Resting /\ Rest(c) /\ bridgeFaults < MaxBridgeFaults /\ bridgeFaults' = bridgeFaults + 1
  /\ Unchanged(<<owner, link, code, linkings>>)

\* The process that runs the bridge dies.
BridgeDies ==
  /\ bridgeFaults < MaxBridgeFaults /\ bridgeFaults' = bridgeFaults + 1
  /\ chatInbox' = [c \in Chats |-> <<>>] /\ seenIds' = {} /\ handling' = [c \in Chats |-> Resting]
  /\ handled' = [c \in Chats |-> 0]
  /\ UNCHANGED <<owner, link, code, sent, web, linkings>>

-----------------------------------------------------------------------------
\* The web app.
WebOnly(rest) == UNCHANGED <<chatInbox, seenIds, sent, handling, bridgeFaults, handled, linkings>> /\ UNCHANGED rest

\* POST /link_code and createCode(): the user's older unused codes go.
CreateCode(u, k, s) ==
  /\ code[k].state = "none" /\ (\A j \in 1..k - 1 : code[j].state # "none") /\ (s # "none" => Valid(s, u))
  /\ code' = [j \in Codes |-> IF j = k THEN [state |-> "fresh", user |-> u, session |-> s]
                              ELSE IF code[j].user = u /\ code[j].state = "fresh" THEN [code[j] EXCEPT !.state = "retired"]
                              ELSE code[j]]
  /\ WebOnly(<<owner, link, web>>)

\* POST /continue and continueSession().
ContinueSession(u, s) ==
  /\ web = NoWeb /\ Valid(s, u)
  /\ \E c \in Chats : link[c].user = u /\ web' = [at |-> "switch", user |-> u, session |-> s, chat |-> c]
  /\ WebOnly(<<owner, link, code>>)
SwitchSession ==
  /\ web.at = "switch" /\ web' = NoWeb /\ SetActiveSession(web.chat, web.session)
  /\ WebOnly(<<owner, code>>)

\* DELETE /link and unlinkUser().
UnlinkUser(u) ==
  /\ \E c \in Chats : link[c].user = u
  /\ link' = [c \in Chats |-> IF link[c].user = u THEN NoLink ELSE link[c]]
  /\ WebOnly(<<owner, code, web>>)

\* A chat deleted on the web leaves the links and codes that name it.
DeleteWebChat(s) ==
  /\ owner[s] \in Users /\ owner' = [owner EXCEPT ![s] = "gone"]
  /\ link' = [c \in Chats |-> IF link[c].session = s THEN [link[c] EXCEPT !.session = "none"] ELSE link[c]]
  /\ code' = [k \in Codes |-> IF code[k].session = s /\ code[k].state = "fresh" THEN [code[k] EXCEPT !.state = "retired"] ELSE code[k]]
  /\ WebOnly(<<web>>)

BridgeNext ==
  \/ \E c \in Chats :
       \/ \E kind \in Kinds : Arrive(c, kind, 0)
       \/ \E k \in Codes : code[k].state # "none" /\ Arrive(c, "code", k)
       \/ Handle(c) \/ CheckCode(c) \/ FindExisting(c) \/ Relink(c) \/ ReadLink(c) \/ EnsureSession(c)
       \/ CreateSession(c) \/ Activate(c) \/ UnlinkChat(c) \/ AskModel(c) \/ HandleFails(c) \/ Redeliver(c)
  \/ \E u \in Users :
       \/ UnlinkUser(u)
       \/ \E s \in BridgeSessions : ContinueSession(u, s)
       \/ \E k \in Codes, s \in BridgeSessions \union {"none"} : CreateCode(u, k, s)
  \/ \E s \in BridgeSessions : DeleteWebChat(s)
  \/ SwitchSession \/ BridgeDies

BridgeSpec == BridgeInit /\ [][BridgeNext]_bridgeVars

-----------------------------------------------------------------------------
\* A turn asked for in a chat of the app runs only for a user whose one-time
\* code was sent in that chat, and only in that user's session, whatever the
\* web app and other chats do meanwhile; a code links one chat; a user has one
\* linked chat.
AnswersStayWithTheOwner ==
  /\ \A c \in Chats : handling[c].at = "turn" =>
       /\ owner[handling[c].session] \in {handling[c].user, "gone"}
       /\ \E l \in linkings : l[2] = c /\ l[3] = handling[c].user
  /\ \A l \in linkings, m \in linkings : l[1] = m[1] /\ l[1] # 0 => l = m
  /\ \A c \in Chats, d \in Chats : link[c].user = link[d].user /\ link[c] # NoLink => c = d

\* The messages of a chat are handled in the order they came, each once, for
\* as long as the bridge runs.
HandledOnceInOrder ==
  [][\A c \in Chats : handled'[c] \in {handled[c], 0} \/ handled'[c] > handled[c]]_bridgeVars
=============================================================================
