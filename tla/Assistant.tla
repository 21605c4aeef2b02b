----------------------------- MODULE Assistant ------------------------------
(***************************************************************************)
(* The assistant's conversation: ChatContext.tsx (the messages on screen), *)
(* the generation state of AppContext.tsx above the router, which outlives *)
(* the provider of a signed-in user, ChatSurface.tsx as the source of its  *)
(* clicks, and the server's chat routes with their registry of running     *)
(* generations (api/chat.py, api/generation.py).                           *)
(*                                                                         *)
(* A send is a click on «send» and everything that follows from it: the    *)
(* chat that may have to be created, the request, the task at the server,  *)
(* the reply, the confirmation card.  Requests and answers travel apart    *)
(* from what the server does with them.                                    *)
(***************************************************************************)
EXTENDS Naturals, FiniteSets

CONSTANTS
    Users, NoUser,
    Chats, NoChat,   \* chat ids, in the order of their creation
    Sends, NoSend,   \* bound: the messages the users send
    MaxLogins,       \* bound: sign-ins; the last session is not left
    MaxFaults        \* bound: requests and answers that are lost

ASSUME IdsAssumption ==
    /\ Chats \subseteq Nat \ {0} /\ NoChat = 0
    /\ Sends \subseteq Nat \ {0} /\ NoSend = 0
    /\ Users # {} /\ NoUser \notin Users
    /\ MaxLogins \in Nat \ {0} /\ MaxFaults \in Nat

VARIABLES
    user,       \* who is signed in on this browser
    logins,     \* sign-ins so far
    chatId,     \* chatId of the provider
    loaded,     \* the initial load is over
    load,       \* the await at which the initial load stands
    loadChat,   \* the chat id, and
    loadMsgs,   \* the messages, that its answers carry
    asks,       \* asks[s]: the user's message of s is on screen
    replies,    \* replies[s]: copies of the reply to s on screen
    card,       \* card[s]: the confirmation card of s
    stopping,   \* the stop button has been pressed
    gen,        \* chatGen: the send it is of,
    genStatus,  \* its status
    genResult,  \* and its result
    abortable,  \* genAbortRef: the send its controller belongs to
    stop,       \* the cancel request of the stop button
    stopChat,   \* and its chat
    request,    \* request[s]: the await at which send() and fetch of s stand
    mine,       \* mine[s]: the provider that has a chat created for s is mounted
    sender,     \* sender[s]: whose cookie the request carries
    chatOf,     \* chatOf[s]: the chat s is sent to
    answer,     \* answer[s]: the answer of the server, under way
    owner,      \* server: chats.user_id
    stored,     \* server: stored[s], the messages of s in chat_messages
    task,       \* server: task[s], the generation of s
    entry,      \* server: entry[c], the send registered for a chat
    flag,       \* server: flag[c], user_cancelled of that entry
    runs,       \* server: runs[s], how often the skill of the card ran
    faults,     \* faults so far
    early       \* ghost: a send was clicked without a finished load, or was still
                \*        creating its chat at another click or a sign-out

providerVars == <<chatId, loaded, load, loadChat, loadMsgs, asks, replies, card, stopping>>
genVars      == <<gen, genStatus, genResult, abortable>>
stopVars     == <<stop, stopChat>>
requestVars  == <<request, mine, sender, chatOf, early>>
serverVars   == <<owner, stored, task, entry, flag, runs>>
userVars     == <<user, logins>>
vars == <<userVars, providerVars, genVars, stopVars, requestVars, answer,
          serverVars, faults>>

None == [s \in Sends |-> FALSE]
Replied == {"answered", "stopped"}   \* the server has stored a reply, or the stop
Creating == {s \in Sends : request[s] \in {"creating", "created"}}

(* The ids a user's chats have, newest first: list_chats is ordered so.     *)
Latest(u) ==
    LET own == {c \in Chats : owner[c] = u}
    IN IF own = {} THEN NoChat ELSE CHOOSE c \in own : \A k \in own : k <= c

Generating == genStatus = "generating" /\ chatOf[gen] = chatId

(* What may be lost shares one budget. *)
Fault == faults < MaxFaults /\ faults' = faults + 1

(* The application boots into the restored session of some user, who has a  *)
(* chat or has none.                                                        *)
FirstUser == CHOOSE u \in Users : TRUE

Init ==
    /\ user = FirstUser /\ logins = 1
    /\ chatId = NoChat /\ loaded = FALSE
    /\ load = "chats" /\ loadChat = NoChat /\ loadMsgs = [s \in Sends |-> "none"]
    /\ asks = None /\ replies = [s \in Sends |-> 0]
    /\ card = [s \in Sends |-> "none"]
    /\ stopping = FALSE
    /\ gen = NoSend /\ genStatus = "none" /\ genResult = "none" /\ abortable = NoSend
    /\ stop = "none" /\ stopChat = NoChat
    /\ request = [s \in Sends |-> "idle"]
    /\ mine = None
    /\ sender = [s \in Sends |-> NoUser]
    /\ chatOf = [s \in Sends |-> NoChat]
    /\ answer = [s \in Sends |-> "none"]
    /\ owner \in {[c \in Chats |-> IF c = 1 THEN u ELSE NoUser] : u \in {NoUser, FirstUser}}
    /\ stored = [s \in Sends |-> "none"]
    /\ task = [s \in Sends |-> "none"]
    /\ entry = [c \in Chats |-> NoSend]
    /\ flag = [c \in Chats |-> FALSE]
    /\ runs = [s \in Sends |-> 0]
    /\ faults = 0 /\ early = FALSE

-----------------------------------------------------------------------------
(* Signing in and out: the provider lives as long as the user is signed in, *)
(* chatGen and the requests in flight stay.                                 *)

NewProvider_KeepsPending(start) ==
    /\ chatId' = NoChat /\ loaded' = FALSE
    /\ load' = start /\ loadChat' = NoChat /\ loadMsgs' = [s \in Sends |-> "none"]
    /\ asks' = None /\ replies' = [s \in Sends |-> 0]
    /\ card' = [s \in Sends |-> "none"]
    /\ stopping' = FALSE
    /\ mine' = mine

(* What the load effect resets when the user changes, and with it all that  *)
(* lives in the provider.                                                   *)
NewProvider(start) ==
    /\ chatId' = NoChat /\ loaded' = FALSE
    /\ load' = start /\ loadChat' = NoChat /\ loadMsgs' = [s \in Sends |-> "none"]
    /\ asks' = None /\ replies' = [s \in Sends |-> 0]
    /\ card' = [s \in Sends |-> "none"]
    /\ stopping' = FALSE
    /\ mine' = None

Login(u) ==
    /\ user = NoUser
    /\ user' = u /\ logins' = logins + 1
    /\ NewProvider("chats")
    /\ UNCHANGED <<genVars, stopVars, request, sender, chatOf, early, answer,
                   serverVars, faults>>

(* Signing out deletes the sessions, so that what the user has asked for    *)
(* and has not been handled is refused, unless that request itself is lost: *)
(* the application is signed out all the same.                              *)
Logout ==
    /\ user # NoUser /\ logins < MaxLogins
    /\ user' = NoUser
    /\ NewProvider("off")
    /\ early' = (early \/ Creating # {})
    /\ \/ /\ sender' = [s \in Sends |-> NoUser]
          /\ stop' = IF stop = "asked" THEN "nothing" ELSE stop
          /\ UNCHANGED faults
       \/ Fault /\ UNCHANGED <<sender, stop>>
    /\ UNCHANGED <<logins, genVars, stopChat, request, chatOf, answer, serverVars>>

-----------------------------------------------------------------------------
(* The initial load: the newest chat, then its messages *)

ListChats ==
    /\ load = "chats"
    /\ load' = "chatsBack" /\ loadChat' = Latest(user)
    /\ UNCHANGED <<userVars, chatId, loaded, loadMsgs, asks, replies, card, stopping,
                   genVars, stopVars, requestVars, answer, serverVars, faults>>

ChatsArrive ==
    /\ load = "chatsBack"
    /\ IF loadChat = NoChat
       THEN load' = "over" /\ loaded' = TRUE /\ UNCHANGED chatId
       ELSE load' = "messages" /\ chatId' = loadChat /\ UNCHANGED loaded
    /\ UNCHANGED <<userVars, loadChat, loadMsgs, asks, replies, card, stopping,
                   genVars, stopVars, requestVars, answer, serverVars, faults>>

ListMessages ==
    /\ load = "messages"
    /\ load' = "messagesBack"
    /\ loadMsgs' = [s \in Sends |-> IF chatOf[s] = loadChat THEN stored[s] ELSE "none"]
    /\ UNCHANGED <<userVars, chatId, loaded, loadChat, asks, replies, card, stopping,
                   genVars, stopVars, requestVars, answer, serverVars, faults>>

ForgetLoad == loadChat' = NoChat /\ loadMsgs' = [s \in Sends |-> "none"]

(* What has been stored replaces what is on screen. *)
MessagesArrive ==
    /\ load = "messagesBack"
    /\ load' = "over" /\ loaded' = TRUE /\ ForgetLoad
    /\ asks' = [s \in Sends |-> loadMsgs[s] # "none"]
    /\ replies' = [s \in Sends |-> IF loadMsgs[s] \in Replied THEN 1 ELSE 0]
    /\ card' = [s \in Sends |-> "none"]
    /\ UNCHANGED <<userVars, chatId, stopping,
                   genVars, stopVars, requestVars, answer, serverVars, faults>>

(* A load that fails is taken for an empty one. *)
LoadFails ==
    /\ load \in {"chats", "chatsBack", "messages", "messagesBack"} /\ Fault
    /\ load' = "failed" /\ loaded' = TRUE /\ ForgetLoad
    /\ UNCHANGED <<userVars, chatId, asks, replies, card, stopping,
                   genVars, stopVars, requestVars, answer, serverVars>>

-----------------------------------------------------------------------------
(* send() *)

(* The message goes on screen and startGeneration() makes the request, with *)
(* the cookie of whoever is signed in by now.                               *)
Start(s, c, visible) ==
    /\ asks' = [asks EXCEPT ![s] = visible]
    /\ chatOf' = [chatOf EXCEPT ![s] = c]
    /\ sender' = [sender EXCEPT ![s] = user]
    /\ request' = [request EXCEPT ![s] = "sent"]
    /\ task' = [task EXCEPT ![s] = "asked"]
    /\ gen' = s /\ genStatus' = "generating" /\ genResult' = "none" /\ abortable' = s

(* The click is ignored while any chat's generation runs.  Without a chat   *)
(* the send first has one created, and nothing keeps a second click out.    *)
SendClick(s) ==
    /\ user # NoUser /\ genStatus # "generating"
    /\ request[s] = "idle" /\ \A t \in Sends : t < s => request[t] # "idle"
    /\ mine' = [mine EXCEPT ![s] = chatId = NoChat]
    /\ early' = (early \/ load # "over" \/ Creating # {})
    /\ IF chatId = NoChat
       THEN /\ request' = [request EXCEPT ![s] = "creating"]
            /\ sender' = [sender EXCEPT ![s] = user]
            /\ UNCHANGED <<asks, chatOf, task, genVars>>
       ELSE Start(s, chatId, TRUE)
    /\ UNCHANGED <<userVars, chatId, loaded, load, loadChat, loadMsgs, replies, card,
                   stopping, stopVars, answer, owner, stored, entry, flag, runs, faults>>

(* send() gives up with an error on screen. *)
GiveUp(s) ==
    /\ request' = [request EXCEPT ![s] = "over"]
    /\ mine' = [mine EXCEPT ![s] = FALSE]
    /\ sender' = [sender EXCEPT ![s] = NoUser]

(* The server makes the chat or refuses to; *)
CreateChat(s) ==
    /\ request[s] = "creating"
    /\ IF sender[s] = NoUser
       THEN GiveUp(s) /\ UNCHANGED <<chatOf, owner>>
       ELSE /\ \E c \in Chats :
                 /\ \A k \in Chats : (k < c) = (owner[k] # NoUser)
                 /\ owner' = [owner EXCEPT ![c] = sender[s]]
                 /\ chatOf' = [chatOf EXCEPT ![s] = c]
            /\ request' = [request EXCEPT ![s] = "created"]
            /\ UNCHANGED <<mine, sender>>
    /\ UNCHANGED <<userVars, providerVars, genVars, stopVars, early,
                   answer, stored, task, entry, flag, runs, faults>>

ChatCreated_NotKept(s) ==
    /\ request[s] = "created"
    /\ Start(s, chatOf[s], mine[s])
    /\ mine' = [mine EXCEPT ![s] = FALSE]
    /\ UNCHANGED <<userVars, chatId, loaded, load, loadChat, loadMsgs, replies, card,
                   stopping, stopVars, early, answer, owner, stored, entry, flag, runs,
                   faults>>

(* its answer lets send() go on, also after its provider is gone. *)
ChatCreated(s) ==
    /\ request[s] = "created"
    /\ chatId' = IF mine[s] THEN chatOf[s] ELSE chatId
    /\ Start(s, chatOf[s], mine[s])
    /\ mine' = [mine EXCEPT ![s] = FALSE]
    /\ UNCHANGED <<userVars, loaded, load, loadChat, loadMsgs, replies, card, stopping,
                   stopVars, early, answer, owner, stored, entry, flag, runs, faults>>

CreateFails(s) ==
    /\ request[s] \in {"creating", "created"} /\ Fault
    /\ GiveUp(s)
    /\ UNCHANGED <<userVars, providerVars, genVars, stopVars, chatOf, early,
                   answer, serverVars>>

-----------------------------------------------------------------------------
(* The answer of the server: nobody waits for that of an aborted request.   *)
Answer(s, result) ==
    answer' = [answer EXCEPT ![s] = IF request[s] = "sent" THEN result ELSE @]

(* The server's send_message: one task per message, one entry per chat *)

(* The message is stored and its task registered in place of any other one  *)
(* of the chat; a chat that is not the sender's is refused.                 *)
SendArrives(s) ==
    /\ task[s] = "asked"
    /\ IF owner[chatOf[s]] = sender[s] /\ sender[s] # NoUser
       THEN /\ task' = [task EXCEPT ![s] = "running"]
            /\ stored' = [stored EXCEPT ![s] = "asked"]
            /\ entry' = [entry EXCEPT ![chatOf[s]] = s]
            /\ flag' = [flag EXCEPT ![chatOf[s]] = FALSE]
            /\ UNCHANGED answer
       ELSE /\ task' = [task EXCEPT ![s] = "over"]
            /\ Answer(s, "error")
            /\ UNCHANGED <<stored, entry, flag>>
    /\ sender' = [sender EXCEPT ![s] = NoUser]
    /\ UNCHANGED <<userVars, providerVars, genVars, stopVars, request, mine, chatOf,
                   early, owner, runs, faults>>

(* The finally clause: whatever entry the chat has by now is dropped. *)
Unregister(c) ==
    /\ entry' = [entry EXCEPT ![c] = NoSend]
    /\ flag' = [flag EXCEPT ![c] = FALSE]

(* The reply is stored and answered, or the answer asks for a confirmation  *)
(* or is an error, neither of which is stored.                              *)
TaskEnds(s, result) ==
    /\ task[s] = "running"
    /\ task' = [task EXCEPT ![s] = "over"]
    /\ Answer(s, result)
    /\ stored' = [stored EXCEPT ![s] = IF result = "reply" THEN "answered" ELSE @]
    /\ Unregister(chatOf[s])
    /\ UNCHANGED <<userVars, providerVars, genVars, stopVars, requestVars,
                   owner, runs, faults>>

(* A cancelled task ends as stopped if the entry of its chat, perhaps of a  *)
(* later message, says that the user asked for it.                          *)
TaskCancelled(s) ==
    /\ task[s] = "cancelling"
    /\ task' = [task EXCEPT ![s] = "over"]
    /\ LET byUser == flag[chatOf[s]]
       IN /\ Answer(s, IF byUser THEN "stopped" ELSE "error")
          /\ stored' = [stored EXCEPT ![s] = IF byUser THEN "stopped" ELSE @]
    /\ Unregister(chatOf[s])
    /\ UNCHANGED <<userVars, providerVars, genVars, stopVars, requestVars,
                   owner, runs, faults>>

-----------------------------------------------------------------------------
(* The answer reaches chatGen, and chatGen the screen *)

Settle_ResultForStatus(s, status, result) ==
    /\ request' = [request EXCEPT ![s] = "over"]
    /\ answer' = [answer EXCEPT ![s] = "none"]
    /\ gen' = s /\ genStatus' = result /\ genResult' = result

Settle(s, status, result) ==
    /\ request' = [request EXCEPT ![s] = "over"]
    /\ answer' = [answer EXCEPT ![s] = "none"]
    /\ gen' = s /\ genStatus' = status /\ genResult' = result

AnswerArrives(s) ==
    /\ request[s] = "sent" /\ answer[s] # "none"
    /\ Settle(s, IF answer[s] = "error" THEN "error" ELSE "done", answer[s])
    /\ UNCHANGED <<userVars, providerVars, abortable, stopVars, mine, sender, chatOf,
                   early, serverVars, faults>>

(* The connection breaks; the server works on. *)
RequestFails(s) ==
    /\ request[s] = "sent" /\ Fault
    /\ Settle(s, "error", "error")
    /\ UNCHANGED <<userVars, providerVars, abortable, stopVars, mine, sender, chatOf,
                   early, serverVars>>

Consume_Appends ==
    /\ loaded /\ genStatus \in {"done", "error"} /\ chatOf[gen] = chatId
    /\ replies' = [replies EXCEPT ![gen] =
                      IF genResult \in {"reply", "stopped"} THEN @ + 1 ELSE @]
    /\ card' = [card EXCEPT ![gen] = IF genResult = "confirm" THEN "open" ELSE @]
    /\ stopping' = FALSE
    /\ gen' = NoSend /\ genStatus' = "none" /\ genResult' = "none" /\ abortable' = NoSend
    /\ UNCHANGED <<userVars, chatId, loaded, load, loadChat, loadMsgs, asks, stopVars,
                   requestVars, answer, serverVars, faults>>

Consume_StaysStopping ==
    /\ loaded /\ genStatus \in {"done", "error"} /\ chatOf[gen] = chatId
    /\ replies' = [replies EXCEPT ![gen] =
                      IF genResult \in {"reply", "stopped"} /\ @ = 0 THEN @ + 1 ELSE @]
    /\ card' = [card EXCEPT ![gen] = IF genResult = "confirm" THEN "open" ELSE @]
    /\ gen' = NoSend /\ genStatus' = "none" /\ genResult' = "none" /\ abortable' = NoSend
    /\ UNCHANGED <<userVars, chatId, loaded, load, loadChat, loadMsgs, asks, stopVars,
                   stopping, requestVars, answer, serverVars, faults>>

(* The single consumer: once the load is over, and for the chat on screen.  *)
(* A reply that the load has brought already is not appended again.         *)
Consume ==
    /\ loaded /\ genStatus \in {"done", "error"} /\ chatOf[gen] = chatId
    /\ replies' = [replies EXCEPT ![gen] =
                      IF genResult \in {"reply", "stopped"} /\ @ = 0 THEN @ + 1 ELSE @]
    /\ card' = [card EXCEPT ![gen] = IF genResult = "confirm" THEN "open" ELSE @]
    /\ stopping' = FALSE
    /\ gen' = NoSend /\ genStatus' = "none" /\ genResult' = "none" /\ abortable' = NoSend
    /\ UNCHANGED <<userVars, chatId, loaded, load, loadChat, loadMsgs, asks, stopVars,
                   requestVars, answer, serverVars, faults>>

-----------------------------------------------------------------------------
(* The stop button: the server is asked to cancel the chat's generation,    *)
(* and the fetch is aborted only if there was nothing to cancel.            *)

StopClick ==
    /\ user # NoUser /\ Generating /\ ~stopping
    /\ stop = "none"     \* bound: one cancel request in flight
    /\ stopping' = TRUE
    /\ stop' = "asked" /\ stopChat' = chatOf[gen]
    /\ UNCHANGED <<userVars, chatId, loaded, load, loadChat, loadMsgs, asks, replies,
                   card, genVars, requestVars, answer, serverVars, faults>>

(* GenerationRegistry.cancel *)
CancelArrives ==
    /\ stop = "asked"
    /\ LET s == entry[stopChat]
       IN IF s = NoSend \/ task[s] = "over"
          THEN stop' = "nothing" /\ UNCHANGED <<task, flag>>
          ELSE /\ stop' = "cancelled"
               /\ flag' = [flag EXCEPT ![stopChat] = TRUE]
               /\ task' = [task EXCEPT ![s] = "cancelling"]
    /\ UNCHANGED <<userVars, providerVars, genVars, stopChat, requestVars, answer,
                   owner, stored, entry, runs, faults>>

CancelFails ==
    /\ stop \in {"asked", "cancelled"} /\ Fault
    /\ stop' = "nothing"
    /\ UNCHANGED <<userVars, providerVars, genVars, stopChat, requestVars, answer,
                   serverVars>>

(* Whatever request the controller belongs to by now is aborted: it ends as *)
(* stopped here; the server may notice and drop the task, or work on.       *)
StopAnswer ==
    /\ stop \in {"cancelled", "nothing"}
    /\ stop' = "none"
    /\ IF stop = "nothing" /\ abortable # NoSend /\ request[abortable] = "sent"
       THEN /\ Settle(abortable, "done", "stoppedHere")
            /\ \/ UNCHANGED task
               \/ /\ task[abortable] = "running"
                  /\ task' = [task EXCEPT ![abortable] = "cancelling"]
       ELSE UNCHANGED <<request, answer, gen, genStatus, genResult, task>>
    /\ stopChat' = NoChat
    /\ UNCHANGED <<userVars, providerVars, abortable, mine, sender, chatOf,
                   early, owner, stored, entry, flag, runs, faults>>

-----------------------------------------------------------------------------
(* The confirmation card: the click of the user is the authorization *)

(* The card goes at once, and confirm_skill runs the skill.  The request or *)
(* its answer may be lost, and is not retried.                              *)
Resolve(s, approved) ==
    /\ user # NoUser /\ card[s] = "open"
    /\ card' = [card EXCEPT ![s] = IF approved THEN "approved" ELSE "declined"]
    /\ IF approved /\ chatId # NoChat
       THEN \/ runs' = [runs EXCEPT ![s] = @ + 1] /\ UNCHANGED faults
            \/ Fault /\ UNCHANGED runs
       ELSE UNCHANGED <<runs, faults>>
    /\ UNCHANGED <<userVars, chatId, loaded, load, loadChat, loadMsgs, asks, replies,
                   stopping, genVars, stopVars, requestVars, answer, owner, stored,
                   task, entry, flag>>

-----------------------------------------------------------------------------
Next ==
    \/ \E u \in Users : Login(u)
    \/ Logout
    \/ ListChats \/ ChatsArrive \/ ListMessages \/ MessagesArrive \/ LoadFails
    \/ Consume
    \/ StopClick \/ CancelArrives \/ CancelFails \/ StopAnswer
    \/ \E s \in Sends :
         \/ SendClick(s) \/ CreateChat(s) \/ ChatCreated(s) \/ CreateFails(s)
         \/ SendArrives(s) \/ TaskCancelled(s)
         \/ \E result \in {"reply", "confirm", "error"} : TaskEnds(s, result)
         \/ AnswerArrives(s) \/ RequestFails(s)
         \/ \E approved \in BOOLEAN : Resolve(s, approved)

(* Requests arrive, tasks end, answers come back, effects run.  What the    *)
(* user does, and what fails, need not happen.                              *)
Fairness ==
    /\ WF_vars(ListChats \/ ChatsArrive \/ ListMessages \/ MessagesArrive)
    /\ WF_vars(Consume)
    /\ WF_vars(CancelArrives) /\ WF_vars(StopAnswer)
    /\ \A s \in Sends :
         /\ WF_vars(CreateChat(s)) /\ WF_vars(ChatCreated(s))
         /\ WF_vars(SendArrives(s)) /\ WF_vars(TaskCancelled(s))
         /\ WF_vars(\E result \in {"reply", "confirm", "error"} : TaskEnds(s, result))
         /\ WF_vars(AnswerArrives(s))

Spec == Init /\ [][Next]_vars /\ Fairness

-----------------------------------------------------------------------------
(* Properties *)

TypeOK ==
    /\ user \in Users \cup {NoUser} /\ logins \in 0 .. MaxLogins
    /\ chatId \in Chats \cup {NoChat} /\ loaded \in BOOLEAN
    /\ load \in {"off", "chats", "chatsBack", "messages", "messagesBack", "over", "failed"}
    /\ loadChat \in Chats \cup {NoChat}
    /\ loadMsgs \in [Sends -> {"none", "asked", "answered", "stopped"}]
    /\ asks \in [Sends -> BOOLEAN]
    /\ replies \in [Sends -> Nat]
    /\ card \in [Sends -> {"none", "open", "approved", "declined"}]
    /\ stopping \in BOOLEAN
    /\ gen \in Sends \cup {NoSend} /\ abortable \in Sends \cup {NoSend}
    /\ genStatus \in {"none", "generating", "done", "error"}
    /\ genResult \in {"none", "reply", "confirm", "error", "stopped", "stoppedHere"}
    /\ stop \in {"none", "asked", "cancelled", "nothing"}
    /\ stopChat \in Chats \cup {NoChat}
    /\ request \in [Sends -> {"idle", "creating", "created", "sent", "over"}]
    /\ mine \in [Sends -> BOOLEAN]
    /\ sender \in [Sends -> Users \cup {NoUser}]
    /\ chatOf \in [Sends -> Chats \cup {NoChat}]
    /\ answer \in [Sends -> {"none", "reply", "confirm", "error", "stopped"}]
    /\ owner \in [Chats -> Users \cup {NoUser}]
    /\ stored \in [Sends -> {"none", "asked", "answered", "stopped"}]
    /\ task \in [Sends -> {"none", "asked", "running", "cancelling", "over"}]
    /\ entry \in [Chats -> Sends \cup {NoSend}]
    /\ flag \in [Chats -> BOOLEAN]
    /\ runs \in [Sends -> Nat] /\ faults \in 0 .. MaxFaults
    /\ early \in BOOLEAN

(* What is on screen is of a chat of the user who is signed in: the request *)
(* or the reply of somebody who signed out before is never shown to the     *)
(* next one, though chatGen and the requests outlive the sign-out.          *)
OwnChatsOnly ==
    /\ chatId # NoChat => owner[chatId] = user
    /\ \A s \in Sends :
         (asks[s] \/ replies[s] > 0 \/ card[s] = "open") => owner[chatOf[s]] = user

(* No reply is on screen twice, whether the load or the consumer brought it *)
(* first.                                                                   *)
NoDoubleAppend == \A s \in Sends : replies[s] <= 1

(* A result that waits in chatGen for the user whose conversation is loaded *)
(* is one the consumer will take.  This holds as long as every send began   *)
(* after a finished load and had its chat before the next click or sign-out;*)
(* one send that did not may leave its own and an older result behind.      *)
RepliesFindTheirChat ==
    (~early /\ load = "over" /\ genStatus \in {"done", "error"}
                /\ owner[chatOf[gen]] = user)
        => chatOf[gen] = chatId

(* A side-effectful skill runs at most once for its card, and only after    *)
(* the card was approved.                                                   *)
RunsOnceByClick ==
    \A s \in Sends :
        /\ runs[s] <= 1
        /\ card[s] \in {"open", "declined"} => runs[s] = 0

(* Neither a reply nor a skill happens twice for one message. *)
OncePerSend == NoDoubleAppend /\ RunsOnceByClick

(* The stop button does not hang, and with it the reply that is being       *)
(* generated comes to an end: whatever is cancelled, aborted, lost or       *)
(* answered meanwhile, somebody resets the button.  An early send can leave *)
(* it pressed for ever, with a result that no conversation takes.           *)
StopEnds == stopping ~> (~stopping \/ early)

=============================================================================
