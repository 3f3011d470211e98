SPECIFICATION Spec
CONSTANTS
  Hosts = {"a"}
  Entries <- MCEntries
  Polls = {1, 2}
  MaxChanges = 2
  MaxFails = 1
  MaxOverlaps = 1
  MaxRestarts = 1
  Clients = {"w"}
  HistorySize = 1
  MaxReports = 2
  MaxTroubles = 3
  Chats = {"a", "__fleet__", "__broadcast__"}
  CentralChat = "__fleet__"
  BroadcastChat = "__broadcast__"
  Sends = {1, 2}
  MaxMessages = 2
  MaxSent = 2
  MaxChatFaults = 2
INVARIANTS
    RepeatsExplained
    ClientsUpToDate
    KeptIsAnswered
    PurgedReportsGone
PROPERTIES
    OpenIsMailed
    BriefingCatchesUp
