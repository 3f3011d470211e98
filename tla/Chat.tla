-------------------------------- MODULE Chat ---------------------------------
(***************************************************************************)
(* The operator's chats (central-backend: chatStore, centralChat,          *)
(* chatController, sendAgentMessage): threads of one user, cached in memory*)
(* and written to one file after every change, while replies of agents and *)
(* of the model are awaited.  A thread keeps its last messages only.       *)
(***************************************************************************)
EXTENDS Integers, Sequences, FiniteSets

CONSTANTS
    Chats,          \* chats of the user: agents, CentralChat and BroadcastChat
    CentralChat, BroadcastChat,
    Sends,          \* requests that may be under way
    MaxMessages,    \* chat.maxMessages
    MaxSent,        \* bound on messages
    MaxChatFaults   \* bound on failing writes, kills and clears

VARIABLES
    threads,   \* cache
    file,      \* the user's file
    pending,   \* chats marked as waiting for a reply
    send,      \* requests: pc, chat, number of the message
    sent, faults,
    cleared,   \* history: messages cleared by the user
    excused,   \* history: messages that are owed no reply
    lossy      \* history: a write failed or was cut short

chatVars == <<threads, file, pending, send, sent, faults, cleared, excused, lossy>>

NoThreads == [c \in Chats |-> <<>>]
Unloaded == [c \in {} |-> <<>>]
Unreadable == [c \in {"unreadable"} |-> <<>>]
NoSend == [pc |-> "idle", chat |-> "", no |-> 0]

ChatInit ==
    /\ threads = Unloaded /\ file = NoThreads /\ pending = {} /\ send = [s \in Sends |-> NoSend]
    /\ sent = 0 /\ faults = 0 /\ cleared = {} /\ excused = {} /\ lossy = FALSE

-----------------------------------------------------------------------------
(* The store.                                                               *)

\* load: a file that cannot be read counts as empty.
Load == IF threads # Unloaded THEN threads ELSE IF file = Unreadable THEN NoThreads ELSE file

\* persist: a failing write is logged, and the cache goes on while the file
\* stays at what an earlier write left.
Persist(data, earlier) ==
    /\ threads' = data
    /\ \/ file' = data /\ UNCHANGED <<faults, lossy>>
       \/ faults < MaxChatFaults /\ faults' = faults + 1 /\ lossy' = TRUE /\ file' \in earlier

\* Mutant of Trim: the first messages are kept.
TrimNewest(msgs) == SubSeq(msgs, 1, IF Len(msgs) > MaxMessages THEN MaxMessages ELSE Len(msgs))

Trim(msgs) == SubSeq(msgs, IF Len(msgs) > MaxMessages THEN Len(msgs) - MaxMessages + 1 ELSE 1, Len(msgs))

\* appendMessage
AppendMessage(data, c, role, no) == [data EXCEPT ![c] = Trim(Append(@, [role |-> role, no |-> no]))]

GetHistory ==
    /\ threads' = Load
    /\ UNCHANGED <<file, pending, send, sent, faults, cleared, excused, lossy>>

UserMessages(msgs) == {msgs[i].no : i \in {i \in DOMAIN msgs : msgs[i].role = "user"}}

\* Mutant of ClearChat: the file is left as it is.
ClearChatInMemory(c) ==
    /\ faults < MaxChatFaults /\ Load[c] # <<>>
    /\ threads' = [Load EXCEPT ![c] = <<>>]
    /\ faults' = faults + 1
    /\ pending' = pending \ {c}
    /\ cleared' = cleared \cup UserMessages(Load[c])
    /\ UNCHANGED <<file, send, sent, excused, lossy>>

ClearChat(c) ==
    /\ faults < MaxChatFaults /\ Load[c] # <<>>
    /\ threads' = [Load EXCEPT ![c] = <<>>]
    /\ faults' = faults + 1
    /\ \/ file' = threads' /\ UNCHANGED lossy
       \/ UNCHANGED file /\ lossy' = TRUE
    /\ pending' = pending \ {c}
    /\ cleared' = cleared \cup UserMessages(Load[c])
    /\ UNCHANGED <<send, sent, excused>>

-----------------------------------------------------------------------------
(* Messages and replies.                                                    *)

\* The operator's message in any of the three kinds of chats.
SendMessage(s, c) ==
    /\ send[s] = NoSend /\ sent < MaxSent /\ sent' = sent + 1
    /\ Persist(AppendMessage(Load, c, "user", sent'), {file})
    /\ pending' = pending \cup {c}
    /\ send' = [send EXCEPT ![s] = [pc |-> "asking", chat |-> c, no |-> sent']]
    /\ UNCHANGED <<cleared, excused>>

\* centralChat.chat: the model wants an agent, known and online, to be asked.
Route(s) ==
    /\ send[s].pc = "asking" /\ send[s].chat = CentralChat
    /\ send' = [send EXCEPT ![s].pc = "routing"]
    /\ UNCHANGED <<threads, file, pending, sent, faults, cleared, excused, lossy>>

Done(s) ==
    /\ pending' = pending \ {send[s].chat}
    /\ send' = [send EXCEPT ![s] = NoSend]

\* The reply, or the text of the error in its place.
Replied(s) == AppendMessage(Load, send[s].chat, "reply", send[s].no)

SendAgentMessage(s) ==
    /\ send[s].pc = "asking" /\ send[s].chat \notin {CentralChat, BroadcastChat}
    /\ Persist(Replied(s), {file}) /\ Done(s)
    /\ UNCHANGED <<sent, cleared, excused>>

\* One message with the replies and the errors of all agents.
BroadcastMessage(s) ==
    /\ send[s].pc = "asking" /\ send[s].chat = BroadcastChat
    /\ Persist(Replied(s), {file}) /\ Done(s)
    /\ UNCHANGED <<sent, cleared, excused>>

\* The agent's answer to a routed message is a second message, unless empty.
CentralChatMessage(s) ==
    /\ send[s].pc \in {"asking", "routing"} /\ send[s].chat = CentralChat
    /\ \/ Persist(Replied(s), {file})
       \/ /\ send[s].pc = "routing"
          /\ Persist(AppendMessage(Replied(s), CentralChat, "agent", send[s].no), {file, Replied(s)})
    /\ Done(s)
    /\ UNCHANGED <<sent, cleared, excused>>

\* Mutant of UnknownAgent: the mark stays.
UnknownAgentPending(s) ==
    /\ send[s].pc = "asking" /\ send[s].chat \notin {CentralChat, BroadcastChat}
    /\ send' = [send EXCEPT ![s] = NoSend]
    /\ excused' = excused \cup {send[s].no}
    /\ UNCHANGED <<threads, file, pending, sent, faults, cleared, lossy>>

\* The agent is not in the inventory: no reply is recorded.
UnknownAgent(s) ==
    /\ send[s].pc = "asking" /\ send[s].chat \notin {CentralChat, BroadcastChat}
    /\ Done(s)
    /\ excused' = excused \cup {send[s].no}
    /\ UNCHANGED <<threads, file, sent, faults, cleared, lossy>>

\* A restart aborts what is under way; a kill in the middle of a write leaves
\* a file that cannot be read.
ChatRestart ==
    /\ faults < MaxChatFaults /\ faults' = faults + 1
    /\ \/ UNCHANGED <<file, lossy>>
       \/ file' = Unreadable /\ lossy' = TRUE
    /\ threads' = Unloaded /\ pending' = {} /\ send' = [s \in Sends |-> NoSend]
    /\ excused' = excused \cup {send[s].no : s \in Sends}
    /\ UNCHANGED <<sent, cleared>>

ChatNext ==
    \/ GetHistory \/ ChatRestart
    \/ \E c \in Chats : ClearChat(c) \/ \E s \in Sends : SendMessage(s, c)
    \/ \E s \in Sends : SendAgentMessage(s) \/ UnknownAgent(s)
                      \/ BroadcastMessage(s) \/ Route(s) \/ CentralChatMessage(s)

-----------------------------------------------------------------------------
(* Properties.                                                              *)

\* A chat marked as waiting has a request under way, so that a client that
\* watches it sees the mark go, after unknown agents, clears and restarts
\* (chatStore.js:7-10, agentsController.js:197).
PendingIsInFlight == \A c \in pending : \E s \in Sends : send[s].chat = c /\ send[s] # NoSend

\* Every message that a thread still shows is followed by exactly one reply
\* once its request is over, although requests overlap and threads are trimmed
\* (chatStore.js:65, agentsController.js:190-204).
KeptIsAnswered ==
    \A c \in Chats : \A i \in DOMAIN Load[c] :
        LET no == Load[c][i].no
        IN  (/\ Load[c][i].role = "user" /\ no \notin excused /\ ~lossy
             /\ \A s \in Sends : send[s].no # no)
            => Cardinality({j \in DOMAIN Load[c] : j > i /\ Load[c][j] = [role |-> "reply", no |-> no]}) = 1

\* A message the user cleared is not shown again, not even after a restart,
\* unless a write failed (chatStore.js:71-76).
ClearedStaysCleared ==
    lossy \/ \A c \in Chats : \A i \in DOMAIN Load[c] : Load[c][i].role = "user" => Load[c][i].no \notin cleared
==============================================================================
