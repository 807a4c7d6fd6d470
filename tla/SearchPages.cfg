\* Three chats with titles that match, searched page by page while nothing is written.
SPECIFICATION ConversationsSpec
CONSTANTS
  ChatIds = {1, 2, 3}
  OldChats = {1, 2, 3}
  OldRows <- MCOldRows
  PageLimit = 1
  MaxOffset = 9
  MaxPinned = 1
  MaxClock = 2
  MaxWrites = 1
INVARIANT EveryHitIsShown
CHECK_DEADLOCK FALSE
