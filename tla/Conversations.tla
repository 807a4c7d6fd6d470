--------------------------- MODULE Conversations ---------------------------
(***************************************************************************)
(* One user's chats: the rows of their messages, the list of chats read    *)
(* page by page, pins, and the search over titles and visible texts        *)
(* (routes/session_routes.ts, repository/sessiopn_repository.ts,           *)
(* repository/message_repository.ts, repository/search_repository.ts).     *)
(*                                                                         *)
(* Several requests run side by side: turns storing messages, a title      *)
(* being set, chats being opened, pinned and deleted, and a browser that   *)
(* scrolls through the list, or through search results, meanwhile.         *)
(***************************************************************************)
EXTENDS Integers, FiniteSets, Sequences, Filters

CONSTANTS
    ChatIds,        \* ids a chat may get, ordered as the text ids are
    OldChats,       \* the chats there from the start
    OldRows,        \* the rows earlier versions left behind in one of them
    PageLimit,      \* chats per page
    MaxOffset,      \* the largest offset a search page is read from
    MaxPinned,      \* pinned chats a user may have
    MaxClock,       \* bound: instants at which something happens
    MaxWrites       \* bound: batches stored, titles set, chats pinned and unpinned

(* A row of an earlier version: one that is no message has no role. *)
OldRowTypes ==
    [role : {"none", "user", "assistant"}, content : {"null", "string", "array"},
     parts : Seq({"text", "input_file", "other"})]

ASSUME ConversationsAssumption ==
    /\ ChatIds \subseteq Nat /\ IsFiniteSet(ChatIds) /\ OldChats \subseteq ChatIds
    /\ OldRows \in Seq(OldRowTypes)
    /\ {PageLimit, MaxOffset, MaxPinned, MaxClock, MaxWrites} \subseteq Nat
    /\ PageLimit > 0

VARIABLES
    instant,        \* the database's clock
    chat,       \* chat[c]: its row and its messages' rows, or NoChat
    storing,    \* transactions open: messages on their way to a chat
    pinning,    \* pin requests that have counted and not yet set
    writes,     \* batches, titles and pins so far
    pager,      \* the browser scrolling the list
    scroll,     \* the browser scrolling search results
    kept        \* history: kept[c], what was stored in c, as it was said

conversationVars == <<instant, chat, storing, pinning, writes, pager, scroll, kept>>

(* A chat's row: not used yet, there, or deleted. An id is used once. *)
NoChat == [is |-> "unused", at |-> 0, pinned |-> FALSE, titled |-> FALSE, rows |-> <<>>, old |-> 0]
Gone == [NoChat EXCEPT !.is = "gone"]
Present == {c \in ChatIds : chat[c].is = "there"}

-----------------------------------------------------------------------------
(* Messages and their rows.                                                *)

Known == {"text", "input_file"}             \* content types that can be read back

Said(role, shape, parts) == [role |-> role, shape |-> shape, parts |-> parts]
Called(args) == [role |-> "tool_call", args |-> args]
Returned(output) == [role |-> "tool_call_output", output |-> output]

(* What a turn stores: the user's message, an answer, a call with its result. *)
Batches ==
    { <<Said("user", "string", <<"text">>)>>,
      <<Said("assistant", "parts", <<"text", "input_file">>), Called("none"), Returned("plain")>>,
      <<Called("object"), Returned("json"), Called("object"), Returned("none")>> }

(* Faulty variant, for mutation checks: plain text goes to the column as it is. *)
ToJsonbAsIs(output) ==
    CASE output = "none" -> "null"
      [] output = "json" -> "value"
      [] OTHER           -> "invalid"

(* The JSONB output column: JSON text as it is, plain text as a string.    *)
ToJsonb(output) ==
    CASE output = "none" -> "null"
      [] output = "json" -> "value"
      [] OTHER           -> "string"

(* Faulty variant, for mutation checks: a string is stored as a string. *)
InsertUnwrapped(m) ==
    CASE m.role = "tool_call" ->
            [role |-> m.role, args |-> IF m.args = "none" THEN "null" ELSE "object"]
      [] m.role = "tool_call_output" ->
            [role |-> m.role, output |-> ToJsonb(m.output)]
      [] OTHER ->
            [role |-> m.role, content |-> IF m.shape = "string" THEN "string" ELSE "array",
             parts |-> m.parts]

(* A string is wrapped into the one part that is read back; an empty one is null. *)
InsertRow(m) ==
    CASE m.role = "tool_call" ->
            [role |-> m.role, args |-> IF m.args = "none" THEN "null" ELSE "object"]
      [] m.role = "tool_call_output" ->
            [role |-> m.role, output |-> ToJsonb(m.output)]
      [] OTHER ->
            [role |-> m.role,
             content |-> IF m.shape = "string" /\ m.parts = <<>> THEN "null" ELSE "array",
             parts |-> m.parts]

(* The database takes a row whose columns are JSON. *)
Accepts(r) == r.role # "tool_call_output" \/ r.output # "invalid"

(* A notice stands in for a row that cannot be read; an unreadable part is left out. *)
Notice(role) == [role |-> role, parts |-> <<"text">>, notice |-> TRUE]

SanitizeRow(r) ==
    LET readable == Only(r.parts, Known) IN
    CASE r.role = "none" -> Notice("user")
      [] r.role = "tool_call" ->
            [role |-> r.role, args |-> IF r.args \in {"object", "text"} THEN "object" ELSE "none"]
      [] r.role = "tool_call_output" ->
            [role |-> r.role, output |-> IF r.output = "null" THEN "none" ELSE r.output]
      [] OTHER ->
            IF r.content # "array" \/ readable = <<>>
            THEN Notice(r.role)
            ELSE [role |-> r.role, parts |-> readable, notice |-> FALSE]

GetSessionMessages(c) ==
    [i \in 1 .. Len(chat[c].rows) |-> SanitizeRow(chat[c].rows[i])]

-----------------------------------------------------------------------------
(* The list of chats: latest activity first, the id breaking ties.         *)

Newer(c, d) ==
    chat[c].at > chat[d].at \/ (chat[c].at = chat[d].at /\ c > d)

(* Faulty variant, for mutation checks: the cursor is the time alone. *)
PastTheTime(after) ==
    {c \in Present : after = <<>> \/ chat[c].at < after[1]}

(* Chats past the cursor, the time and id of the last chat shown. *)
Past(after) ==
    {c \in Present : \/ after = <<>>
                     \/ chat[c].at < after[1]
                     \/ chat[c].at = after[1] /\ c < after[2]}

(* The first chats past the cursor, and the next cursor when more follow.  *)
GetUserSessionsPage(after) ==
    LET left == Past(after)
        page == {c \in left : Cardinality({d \in left : Newer(d, c)}) < PageLimit}
        last == CHOOSE c \in page : \A d \in page : c = d \/ Newer(d, c)
    IN [page |-> page,
        next |-> IF left = page THEN <<>> ELSE <<chat[last].at, last>>]

-----------------------------------------------------------------------------
(* Search: titles first, then the most matching messages, then the latest. *)

(* The user's and the assistant's readable texts; every one matches here. *)
MatchCount(c) ==
    Cardinality({i \in 1 .. Len(chat[c].rows) :
                    LET r == chat[c].rows[i] IN
                    /\ r.role \in {"user", "assistant"}
                    /\ r.content = "array"
                    /\ "text" \in {r.parts[k] : k \in 1 .. Len(r.parts)}})

(* Titles come from the database already cut to the n latest. *)
Titles(n) ==
    LET matching == {c \in Present : chat[c].titled}
    IN {c \in matching : Cardinality({d \in matching : Newer(d, c)}) < n}

SearchChats(offset) ==
    LET titles == Titles(offset + PageLimit + 1)
        hits   == titles \union {c \in Present : MatchCount(c) > 0}
        Before(c, d) ==
            IF (c \in titles) # (d \in titles) THEN c \in titles
            ELSE IF MatchCount(c) # MatchCount(d) THEN MatchCount(c) > MatchCount(d)
            ELSE Newer(c, d)
        Rank(c) == Cardinality({d \in hits : Before(d, c)})
    IN [results |-> {c \in hits : Rank(c) \in offset .. (offset + PageLimit - 1)},
        hasMore |-> Cardinality(hits) > offset + PageLimit]

-----------------------------------------------------------------------------
NoScroll == [open |-> FALSE, done |-> FALSE, shown |-> [c \in ChatIds |-> 0], quiet |-> {},
             cursor |-> <<>>, offset |-> 0]
FirstPage == [NoScroll EXCEPT !.open = TRUE, !.quiet = Present]

ConversationsInit ==
    /\ instant = 1
    /\ \E old \in OldChats, titled \in {{}, OldChats} :
          chat = [c \in ChatIds |-> IF c \in OldChats
                                    THEN [is |-> "there", at |-> 0, pinned |-> FALSE, titled |-> c \in titled,
                                          rows |-> IF c = old THEN OldRows ELSE <<>>,
                                          old |-> IF c = old THEN Len(OldRows) ELSE 0]
                                    ELSE NoChat]
    /\ storing = {} /\ pinning = {} /\ writes = 0
    /\ pager = NoScroll /\ scroll = NoScroll
    /\ kept = [c \in ChatIds |-> <<>>]

(* A chat that was written is no longer one the scrolling browser can count on. *)
Disturb(c) ==
    /\ pager' = IF pager.open THEN [pager EXCEPT !.quiet = @ \ {c}] ELSE pager
    /\ scroll' = IF scroll.open THEN [scroll EXCEPT !.quiet = {}] ELSE scroll

Counted == writes < MaxWrites /\ writes' = writes + 1

ClockTick ==
    /\ instant < MaxClock /\ instant' = instant + 1
    /\ UNCHANGED <<chat, storing, pinning, writes, pager, scroll, kept>>

NewSession(c) ==
    /\ chat[c] = NoChat
    /\ chat' = [chat EXCEPT ![c] = [NoChat EXCEPT !.is = "there", !.at = instant]]
    /\ Disturb(c)
    /\ UNCHANGED <<instant, storing, pinning, writes, kept>>

(* A turn of a chat that is there opens the transaction its messages go in;
   NOW() stays the time it was opened. *)
BeginStoring(c, batch) ==
    /\ Counted
    /\ c \in Present /\ ~ \E t \in storing : t.chat = c
    /\ storing' = storing \union {[chat |-> c, at |-> instant, batch |-> batch]}
    /\ UNCHANGED <<instant, chat, pinning, pager, scroll, kept>>

(* Faulty variant, for mutation checks: rows are written one by one, up to the
   first that is refused. *)
InsertWhatFits(t) ==
    LET c    == t.chat
        rows == [i \in 1 .. Len(t.batch) |-> InsertRow(t.batch[i])]
    IN
    /\ t \in storing /\ storing' = storing \ {t}
    /\ IF c \in Present
       THEN /\ chat' = [chat EXCEPT ![c].rows = @ \o <<rows[1]>>, ![c].at = t.at]
            /\ kept' = [kept EXCEPT ![c] = @ \o t.batch]
            /\ Disturb(c)
       ELSE UNCHANGED <<chat, kept, pager, scroll>>
    /\ UNCHANGED <<instant, pinning, writes>>

(* Every row and the chat's time go in together, or none of them: the chat may
   have been deleted meanwhile. *)
InsertMultipleMessages(t) ==
    LET c    == t.chat
        rows == [i \in 1 .. Len(t.batch) |-> InsertRow(t.batch[i])]
    IN
    /\ t \in storing /\ storing' = storing \ {t}
    /\ IF c \in Present
       THEN /\ chat' = IF \A i \in 1 .. Len(rows) : Accepts(rows[i])
                       THEN [chat EXCEPT ![c].rows = @ \o rows, ![c].at = t.at]
                       ELSE chat
            /\ kept' = [kept EXCEPT ![c] = @ \o t.batch]
            /\ Disturb(c)
       ELSE UNCHANGED <<chat, kept, pager, scroll>>
    /\ UNCHANGED <<instant, pinning, writes>>

UpdateTitle(c) ==
    /\ Counted
    /\ c \in Present
    /\ chat' = [chat EXCEPT ![c].titled = ~ @, ![c].at = instant]
    /\ Disturb(c)
    /\ UNCHANGED <<instant, storing, pinning, kept>>

(* Messages go with their chat. *)
DeleteSession(c) ==
    /\ c \in Present
    /\ chat' = [chat EXCEPT ![c] = Gone]
    /\ kept' = [kept EXCEPT ![c] = <<>>]
    /\ Disturb(c)
    /\ UNCHANGED <<instant, storing, pinning, writes>>

-----------------------------------------------------------------------------
Pinned == {c \in Present : chat[c].pinned}

(* The pins are counted, and the chat is pinned after that. *)
CountPinned(c) ==
    /\ Counted
    /\ c \in Present \ pinning
    /\ Cardinality(Pinned) < MaxPinned
    /\ pinning' = pinning \union {c}
    /\ UNCHANGED <<instant, chat, storing, pager, scroll, kept>>

(* Faulty variant, for mutation checks: pinning counts as activity. *)
SetPinnedNow(c, pinned) ==
    /\ IF pinned THEN c \in pinning /\ UNCHANGED writes ELSE c \in Pinned /\ Counted
    /\ pinning' = IF pinned THEN pinning \ {c} ELSE pinning
    /\ chat' = IF c \in Present THEN [chat EXCEPT ![c].pinned = pinned, ![c].at = instant] ELSE chat
    /\ UNCHANGED <<instant, storing, pager, scroll, kept>>

(* Pinning leaves the chat's time alone. *)
SetPinned(c, pinned) ==
    /\ IF pinned THEN c \in pinning /\ UNCHANGED writes ELSE c \in Pinned /\ Counted
    /\ pinning' = IF pinned THEN pinning \ {c} ELSE pinning
    /\ chat' = IF c \in Present THEN [chat EXCEPT ![c].pinned = pinned] ELSE chat
    /\ UNCHANGED <<instant, storing, pager, scroll, kept>>

-----------------------------------------------------------------------------
Show(s, page) == [s EXCEPT !.shown = [c \in ChatIds |-> @[c] + IF c \in page THEN 1 ELSE 0]]

(* The browser asks for a page of chats, from the cursor it was last given. *)
ReadPage ==
    LET from  == IF pager.open THEN pager ELSE FirstPage
        answer == GetUserSessionsPage(from.cursor)
    IN
    /\ ~ scroll.open /\ (pager.open => ~ pager.done)
    /\ pager' = [Show(from, answer.page) EXCEPT !.cursor = answer.next, !.done = answer.next = <<>>]
    /\ UNCHANGED <<instant, chat, storing, pinning, writes, scroll, kept>>

(* It asks for a page of search results, from where the last one ended. *)
ReadResults ==
    LET from   == IF scroll.open THEN scroll ELSE FirstPage
        offset == IF from.offset < MaxOffset THEN from.offset ELSE MaxOffset
        answer == SearchChats(offset)
    IN
    /\ ~ pager.open /\ (scroll.open => ~ scroll.done)
    /\ scroll' = [Show(from, answer.results)
                     EXCEPT !.offset = offset + Cardinality(answer.results),
                            !.done = ~ answer.hasMore]
    /\ UNCHANGED <<instant, chat, storing, pinning, writes, pager, kept>>

ConversationsNext ==
    \/ ClockTick
    \/ \E c \in ChatIds :
          \/ NewSession(c)
          \/ \E b \in Batches : BeginStoring(c, b)
          \/ UpdateTitle(c)
          \/ DeleteSession(c)
          \/ CountPinned(c)
          \/ \E pinned \in BOOLEAN : SetPinned(c, pinned)
    \/ \E t \in storing : InsertMultipleMessages(t)
    \/ ReadPage
    \/ ReadResults

ConversationsSpec == ConversationsInit /\ [][ConversationsNext]_conversationVars

-----------------------------------------------------------------------------
Messages == UNION {{b[i] : i \in 1 .. Len(b)} : b \in Batches}
StoredRows == OldRowTypes \union {InsertRow(m) : m \in Messages}
ChatRows ==
    [is : {"unused", "there", "gone"}, at : Nat, pinned : BOOLEAN, titled : BOOLEAN,
     rows : Seq(StoredRows), old : Nat]
Scrolls ==
    [open : BOOLEAN, done : BOOLEAN, shown : [ChatIds -> Nat], quiet : SUBSET ChatIds,
     cursor : {<<>>} \union (Nat \X ChatIds), offset : Nat]

(* The state's types. *)
ConversationsTypeOK ==
    /\ {instant, writes} \subseteq Nat /\ pinning \subseteq ChatIds
    /\ chat \in [ChatIds -> ChatRows]
    /\ storing \subseteq [chat : ChatIds, at : Nat, batch : Batches]
    /\ pager \in Scrolls /\ scroll \in Scrolls /\ kept \in [ChatIds -> Seq(Messages)]

(* Scrolling the list to its end shows every chat that was there when it was
   opened and that nobody wrote since exactly once, whatever else is written,
   opened, pinned and deleted meanwhile, and although chats share a time and
   times can go back (a transaction's time is that of its start). *)
PagesAreComplete ==
    pager.open =>
        \A c \in pager.quiet : pager.shown[c] <= 1 /\ (pager.done => pager.shown[c] = 1)

(* What a reader of the chat means by the messages stored in it. *)
Meaning(m) ==
    CASE m.role = "tool_call" -> m
      [] m.role = "tool_call_output" ->
            [m EXCEPT !.output = IF @ = "json" THEN "value" ELSE IF @ = "plain" THEN "string" ELSE @]
      [] OTHER -> [role |-> m.role, parts |-> m.parts, notice |-> FALSE]

(* A chat can always be loaded: what was stored comes back as it was said, in
   order and in whole batches, after whatever older versions left behind, and
   every message has something to send to a model. *)
ChatsLoadAsSaid ==
    \A c \in Present :
        LET loaded == GetSessionMessages(c) IN
        /\ SubSeq(loaded, chat[c].old + 1, Len(loaded))
              = [i \in 1 .. Len(kept[c]) |-> Meaning(kept[c][i])]
        /\ \A i \in 1 .. Len(loaded) :
              /\ loaded[i].role # "none"
              /\ loaded[i].role \notin {"tool_call", "tool_call_output"} => loaded[i].parts # <<>>

(* Scrolling through the search results to the end, with nothing written since
   the search began, shows every chat that matches, once. *)
EveryHitIsShown ==
    (scroll.open /\ scroll.done /\ scroll.quiet # {}) =>
        \A c \in Present :
            (chat[c].titled \/ MatchCount(c) > 0) => scroll.shown[c] = 1

(* A user has at most as many pinned chats as the limit says. *)
PinsKeepTheLimit == Cardinality(Pinned) <= MaxPinned
=============================================================================
