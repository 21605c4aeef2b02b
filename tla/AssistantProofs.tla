-------------------------- MODULE AssistantProofs ----------------------------
(***************************************************************************)
(* The assistant's conversation, proved for any number of users, chats,    *)
(* messages, sign-ins and faults: whose messages are on screen, that a     *)
(* result finds its chat, and that nothing happens twice for one message.  *)
(***************************************************************************)
EXTENDS Assistant, TLAPS

-----------------------------------------------------------------------------
(* The inductive invariant *)

Sent(s)   == task[s] # "none"
Ours(c)   == c \in Chats /\ user # NoUser /\ owner[c] = user
Newest(c) == \A k \in Chats : owner[k] = owner[c] => k <= c

(* How far a message has got: nothing is stored, answered or loaded of it   *)
(* before its request is made, and then its chat is there; a chat that is   *)
(* still being created for the mounted provider is the signed-in user's.    *)
SendHolds(s) ==
    /\ request[s] \in {"idle", "creating", "created"} => ~Sent(s)
    /\ request[s] = "sent" => Sent(s)
    /\ request[s] = "created" \/ Sent(s) => chatOf[s] \in Chats /\ owner[chatOf[s]] # NoUser
    /\ stored[s] # "none" => Sent(s)
    /\ answer[s] # "none" => request[s] = "sent"
    /\ mine[s] => \/ request[s] = "creating" /\ user # NoUser /\ sender[s] = user
                  \/ request[s] = "created" /\ Ours(chatOf[s])

(* What is on screen, or about to be, was sent to a chat of the user. *)
ShownHolds(s) ==
    /\ asks[s] \/ replies[s] > 0 \/ card[s] = "open" \/ loadMsgs[s] # "none" =>
         Sent(s) /\ Ours(chatOf[s])
    /\ replies[s] <= 1

(* A card has its one answer behind it: no second result can bring it back. *)
CardHolds(s) ==
    /\ card[s] # "none" \/ runs[s] > 0 => request[s] = "over" /\ gen # s
    /\ runs[s] <= 1
    /\ card[s] \in {"open", "declined"} => runs[s] = 0

(* The one result slot above the router *)
GenHolds ==
    /\ genStatus = "none" <=> gen = NoSend
    /\ gen # NoSend => Sent(gen)
    /\ genStatus = "generating" => request[gen] = "sent"
    /\ genStatus \in {"done", "error"} => request[gen] = "over"

(* The chats of the server, the registry and what may be cancelled in it *)
ServerHolds ==
    /\ \A c \in Chats : entry[c] # NoSend => Sent(entry[c])
    /\ stop = "asked" => stopChat \in Chats
    /\ \A c \in Chats : owner[c] # NoUser =>
         \E k \in Chats : owner[k] = owner[c] /\ Newest(k)

ProviderHolds ==
    /\ user = NoUser <=> load = "off"
    /\ user = NoUser => logins < MaxLogins
    /\ chatId # NoChat => Ours(chatId)
    /\ loadChat # NoChat => Ours(loadChat)
    /\ load \in {"messages", "messagesBack"} => chatId # NoChat
    /\ load = "over" => loadChat = NoChat

(* Without early sends a user has one chat that is in use, the newest: the  *)
(* one every load of the conversation picks.                                *)
OneChat ==
    ~early =>
        /\ \A s \in Sends : Sent(s) => Newest(chatOf[s])
        /\ chatId # NoChat => Newest(chatId)
        /\ loadChat # NoChat => Newest(loadChat)
        /\ load = "chatsBack" /\ loadChat = NoChat => \A c \in Chats : owner[c] # user
        /\ load = "over" /\ chatId = NoChat =>
             \A s \in Sends : Sent(s) => owner[chatOf[s]] # user
        /\ \A s, t \in Creating : s = t
        /\ \A s \in Creating :
             /\ mine[s] /\ load = "over" /\ chatId = NoChat
             /\ request[s] = "created" => Newest(chatOf[s])

ChatInv ==
    /\ TypeOK
    /\ \A s \in Sends : SendHolds(s) /\ ShownHolds(s) /\ CardHolds(s)
    /\ GenHolds /\ ServerHolds /\ ProviderHolds /\ OneChat

-----------------------------------------------------------------------------
(* Signing in and out *)

(* A new provider has nothing on screen and nothing on its way there. *)
LEMMA NewProviderStep ==
    ASSUME ChatInv, NEW start \in {"off", "chats"}, NewProvider(start),
           user' \in Users \cup {NoUser}, user' = NoUser <=> start = "off",
           logins' \in 0 .. MaxLogins, user' = NoUser => logins' < MaxLogins,
           early => early', early' \in BOOLEAN, Creating # {} => early',
           sender' \in [Sends -> Users \cup {NoUser}],
           stop' \in {"none", "asked", "cancelled", "nothing"}, stop' = "asked" => stop = "asked",
           faults' \in 0 .. MaxFaults,
           UNCHANGED <<genVars, stopChat, request, chatOf, answer, serverVars>>
    PROVE  ChatInv'
<1> USE DEF genVars, serverVars
<1>0. TypeOK
  BY DEF ChatInv
<1>a. /\ chatId' = NoChat /\ loadChat' = NoChat /\ load' = start
      /\ \A s \in Sends :
           /\ ~mine'[s] /\ ~asks'[s] /\ replies'[s] = 0
           /\ card'[s] = "none" /\ loadMsgs'[s] = "none"
  BY DEF NewProvider, None
<1>1. TypeOK'
  <2>1. /\ chatId' \in Chats \cup {NoChat} /\ loaded' \in BOOLEAN
        /\ load' \in {"off", "chats", "chatsBack", "messages", "messagesBack", "over", "failed"}
        /\ loadChat' \in Chats \cup {NoChat} /\ stopping' \in BOOLEAN
        /\ loadMsgs' \in [Sends -> {"none", "asked", "answered", "stopped"}]
        /\ asks' \in [Sends -> BOOLEAN] /\ mine' \in [Sends -> BOOLEAN]
        /\ replies' \in [Sends -> Nat]
        /\ card' \in [Sends -> {"none", "open", "approved", "declined"}]
    BY DEF NewProvider, None
  <2> QED BY <1>0, <2>1 DEF TypeOK
<1>2. \A s \in Sends : SendHolds(s)'
  BY <1>a DEF ChatInv, SendHolds, Sent
<1>3. \A s \in Sends : ShownHolds(s)' /\ CardHolds(s)'
  BY <1>a DEF ChatInv, ShownHolds, CardHolds
<1>4. GenHolds' /\ ServerHolds'
  BY DEF ChatInv, GenHolds, ServerHolds, Sent, Newest
<1>5. ProviderHolds'
  BY <1>a DEF ProviderHolds
<1>6. OneChat'
  <2>1. (~early') => (~early /\ Creating = {} /\ Creating' = {})
    BY DEF Creating
  <2> QED BY <1>a, <2>1 DEF ChatInv, OneChat, Sent, Newest
<1> QED BY <1>1, <1>2, <1>3, <1>4, <1>5, <1>6 DEF ChatInv

LEMMA LoginStep ==
    ASSUME ChatInv, NEW u \in Users, Login(u)
    PROVE  ChatInv'
<1>1. TypeOK
  BY DEF ChatInv
<1>2. user' # NoUser /\ user' \in Users /\ logins' \in 0 .. MaxLogins
  BY <1>1, IdsAssumption DEF Login, TypeOK, ChatInv, ProviderHolds
<1>3. Creating # {} => early
  <2> SUFFICES ASSUME NEW s \in Creating, ~early PROVE FALSE
    OBVIOUS
  <2> QED BY DEF Login, ChatInv, OneChat, ProviderHolds
<1>4. /\ stop' \in {"none", "asked", "cancelled", "nothing"} /\ early' \in BOOLEAN
      /\ sender' \in [Sends -> Users \cup {NoUser}] /\ faults' \in 0 .. MaxFaults
      /\ early' = early /\ stop' = stop /\ UNCHANGED stopChat
  BY <1>1 DEF Login, TypeOK, stopVars
<1> QED BY <1>2, <1>3, <1>4, NewProviderStep DEF Login

LEMMA LogoutStep == ASSUME ChatInv, Logout PROVE ChatInv'
<1>1. TypeOK
  BY DEF ChatInv
<1>2. user' = NoUser /\ logins' \in 0 .. MaxLogins /\ logins' < MaxLogins
  BY <1>1 DEF Logout, TypeOK
<1>3. /\ stop' \in {"none", "asked", "cancelled", "nothing"} /\ (stop' = "asked" => stop = "asked")
      /\ sender' \in [Sends -> Users \cup {NoUser}] /\ faults' \in 0 .. MaxFaults
  BY <1>1, IdsAssumption DEF Logout, Fault, TypeOK
<1>4. early' \in BOOLEAN /\ (early => early') /\ (Creating # {} => early')
  BY <1>1 DEF Logout, TypeOK
<1> QED BY <1>2, <1>3, <1>4, NewProviderStep DEF Logout

-----------------------------------------------------------------------------
(* The initial load: nothing but the provider moves *)

LEMMA ListChatsStep == ASSUME ChatInv, ListChats PROVE ChatInv'
<1> USE DEF userVars, genVars, stopVars, requestVars, serverVars
<1>0. TypeOK /\ user # NoUser /\ user \in Users
  BY DEF ListChats, ChatInv, ProviderHolds, TypeOK
<1>1. \/ loadChat' = NoChat /\ \A c \in Chats : owner[c] # user
      \/ Ours(loadChat') /\ Newest(loadChat')
  <2>1. CASE {c \in Chats : owner[c] = user} = {}
    BY <2>1 DEF ListChats, Latest
  <2>2. CASE {c \in Chats : owner[c] = user} # {}
    <3>1. PICK k \in Chats : owner[k] = user /\ Newest(k)
      BY <1>0, <2>2 DEF ChatInv, ServerHolds
    <3>2. \E j \in {c \in Chats : owner[c] = user} :
             \A i \in {c \in Chats : owner[c] = user} : i <= j
      BY <3>1 DEF Newest
    <3> QED BY <1>0, <2>2, <3>2 DEF ListChats, Latest, Ours, Newest
  <2> QED BY <2>1, <2>2
<1>2. TypeOK'
  BY <1>0, <1>1 DEF ListChats, TypeOK, Ours
<1>3. \A s \in Sends : SendHolds(s)' /\ ShownHolds(s)' /\ CardHolds(s)'
  BY DEF ListChats, ChatInv, SendHolds, ShownHolds, CardHolds, Sent, Ours
<1>4. GenHolds' /\ ServerHolds'
  BY DEF ListChats, ChatInv, GenHolds, ServerHolds, Sent, Newest
<1>5. ProviderHolds'
  BY <1>1 DEF ListChats, ChatInv, ProviderHolds, Ours
<1>6. OneChat'
  <2> SUFFICES ASSUME ~early PROVE OneChat'
    BY DEF ListChats, OneChat
  <2>1. Creating = {} /\ Creating' = {}
    BY DEF ListChats, ChatInv, OneChat, Creating
  <2> QED BY <1>1, <2>1, IdsAssumption DEF ListChats, ChatInv, OneChat, Sent, Newest, Ours
<1> QED BY <1>2, <1>3, <1>4, <1>5, <1>6 DEF ChatInv

(* An answer of the load that has arrived, or not *)
LEMMA LoadStep ==
    ASSUME ChatInv, ChatsArrive \/ ListMessages \/ MessagesArrive \/ LoadFails
    PROVE  ChatInv'
<1> USE DEF userVars, genVars, stopVars, requestVars, serverVars, ForgetLoad,
            ChatsArrive, ListMessages, MessagesArrive, LoadFails
<1>0. TypeOK /\ user # NoUser
  BY DEF ChatInv, ProviderHolds
<1>a. /\ UNCHANGED <<userVars, stopping, genVars, stopVars, requestVars, answer, serverVars>>
      /\ chatId' = chatId \/ (chatId' = loadChat /\ loadChat # NoChat)
      /\ load' \in {"messages", "messagesBack", "over", "failed"}
      /\ loadChat' = loadChat \/ loadChat' = NoChat
      /\ \A s \in Sends :
           /\ loadMsgs'[s] # "none" =>
                loadMsgs[s] # "none" \/ (stored[s] # "none" /\ chatOf[s] = loadChat)
           /\ asks'[s] => asks[s] \/ loadMsgs[s] # "none"
           /\ replies'[s] > 0 => replies[s] > 0 \/ loadMsgs[s] # "none"
           /\ replies'[s] = replies[s] \/ replies'[s] <= 1
           /\ card'[s] = card[s] \/ card'[s] = "none"
  BY <1>0 DEF Replied, TypeOK
<1>1. TypeOK'
  <2>1. /\ loadMsgs' \in [Sends -> {"none", "asked", "answered", "stopped"}]
        /\ asks' \in [Sends -> BOOLEAN] /\ replies' \in [Sends -> Nat]
        /\ card' \in [Sends -> {"none", "open", "approved", "declined"}]
    <3>1. CASE MessagesArrive
      BY <1>0, <3>1 DEF TypeOK
    <3>2. CASE ListMessages
      BY <1>0, <3>2 DEF TypeOK
    <3>3. CASE ChatsArrive \/ LoadFails
      BY <1>0, <3>3 DEF TypeOK
    <3> QED BY <3>1, <3>2, <3>3
  <2>2. loaded' \in BOOLEAN /\ faults' \in 0 .. MaxFaults
    <3>1. CASE LoadFails
      BY <1>0, <3>1, IdsAssumption DEF TypeOK, Fault
    <3>2. CASE ChatsArrive \/ ListMessages \/ MessagesArrive
      BY <1>0, <3>2 DEF TypeOK
    <3> QED BY <3>1, <3>2
  <2>3. chatId' \in Chats \cup {NoChat} /\ loadChat' \in Chats \cup {NoChat}
    BY <1>0 DEF TypeOK
  <2> QED BY <1>0, <1>a, <2>1, <2>2, <2>3 DEF TypeOK
<1>2. \A s \in Sends : SendHolds(s)' /\ CardHolds(s)'
  BY <1>a DEF ChatInv, SendHolds, CardHolds, Sent, Ours
<1>3. \A s \in Sends : ShownHolds(s)'
  <2> SUFFICES ASSUME NEW s \in Sends PROVE ShownHolds(s)'
    OBVIOUS
  <2>1. stored[s] # "none" /\ chatOf[s] = loadChat => Sent(s) /\ Ours(chatOf[s])
    BY IdsAssumption DEF ChatInv, SendHolds, ProviderHolds
  <2> QED BY <1>a, <2>1 DEF ChatInv, ShownHolds, Sent, Ours
<1>4. GenHolds' /\ ServerHolds'
  BY <1>a DEF ChatInv, GenHolds, ServerHolds, Sent, Newest
<1>5. ProviderHolds'
  BY <1>0, <1>a DEF ChatInv, ProviderHolds, Ours
<1>6. OneChat'
  <2> SUFFICES ASSUME ~early PROVE OneChat'
    BY DEF OneChat
  <2>1. Creating = {} /\ Creating' = {}
    BY <1>a DEF ChatInv, OneChat, Creating
  <2>2. chatId' # NoChat => Newest(chatId')
    BY <1>a DEF ChatInv, OneChat
  <2>3. load' = "over" /\ chatId' = NoChat =>
          \A s \in Sends : Sent(s) => owner[chatOf[s]] # user
    BY <1>a DEF ChatInv, OneChat, SendHolds, ProviderHolds
  <2> QED BY <1>a, <2>1, <2>2, <2>3 DEF ChatInv, OneChat, Sent, Newest
<1> QED BY <1>1, <1>2, <1>3, <1>4, <1>5, <1>6 DEF ChatInv

-----------------------------------------------------------------------------
(* send() *)

(* The request of s is made: to the chat on screen, or to the one created   *)
(* for it, which is on screen then if its provider is.                      *)
LEMMA StartStep ==
    ASSUME ChatInv, NEW s \in Sends, NEW c \in Chats, NEW visible \in BOOLEAN,
           Start(s, c, visible), request[s] \in {"idle", "created"},
           owner[c] # NoUser, visible => Ours(c),
           chatId' = chatId \/ (visible /\ chatId' = c),
           mine' = [mine EXCEPT ![s] = FALSE],
           early' \in BOOLEAN, early => early',
           ~early' => Newest(c) /\ chatId' = c /\ Creating \subseteq {s},
           UNCHANGED <<userVars, loaded, load, loadChat, loadMsgs, replies, card, stopping,
                       stopVars, answer, owner, stored, entry, flag, runs, faults>>
    PROVE  ChatInv'
<1> USE DEF userVars, stopVars
<1>0. TypeOK /\ ~Sent(s) /\ c # NoChat /\ s # NoSend
  BY IdsAssumption DEF ChatInv, SendHolds
<1>a. /\ asks' = [asks EXCEPT ![s] = visible] /\ chatOf' = [chatOf EXCEPT ![s] = c]
      /\ sender' = [sender EXCEPT ![s] = user] /\ request' = [request EXCEPT ![s] = "sent"]
      /\ task' = [task EXCEPT ![s] = "asked"]
      /\ gen' = s /\ genStatus' = "generating" /\ genResult' = "none" /\ abortable' = s
  BY DEF Start
<1>1. TypeOK'
  <2>1. chatId' \in Chats \cup {NoChat}
    BY <1>0 DEF TypeOK
  <2> QED BY <1>0, <1>a, <2>1 DEF TypeOK
<1>2. /\ Sent(s)'
      /\ \A t \in Sends : t # s => (Sent(t)' <=> Sent(t)) /\ chatOf'[t] = chatOf[t]
  BY <1>0, <1>a DEF Sent, TypeOK
<1>3. \A t \in Sends : SendHolds(t)'
  <2> SUFFICES ASSUME NEW t \in Sends PROVE SendHolds(t)'
    OBVIOUS
  <2>1. SendHolds(t)
    BY DEF ChatInv
  <2>2. CASE t = s
    BY <1>0, <1>a, <1>2, <2>1, <2>2 DEF SendHolds, TypeOK
  <2>3. CASE t # s
    BY <1>0, <1>a, <1>2, <2>1, <2>3 DEF SendHolds, TypeOK, Ours
  <2> QED BY <2>2, <2>3
<1>4. \A t \in Sends : ShownHolds(t)' /\ CardHolds(t)'
  <2> SUFFICES ASSUME NEW t \in Sends PROVE ShownHolds(t)' /\ CardHolds(t)'
    OBVIOUS
  <2>1. ShownHolds(t) /\ CardHolds(t)
    BY DEF ChatInv
  <2>2. CASE t = s
    BY <1>0, <1>a, <1>2, <2>1, <2>2 DEF ShownHolds, CardHolds, TypeOK, Ours
  <2>3. CASE t # s
    BY <1>0, <1>a, <1>2, <2>1, <2>3 DEF ShownHolds, CardHolds, TypeOK, Ours
  <2> QED BY <2>2, <2>3
<1>5. GenHolds'
  BY <1>0, <1>a, <1>2 DEF GenHolds, TypeOK
<1>6. ServerHolds'
  <2>1. \A d \in Chats : entry[d] # NoSend => Sent(entry[d])'
    BY <1>0, <1>2 DEF ChatInv, ServerHolds, TypeOK
  <2> QED BY <2>1 DEF ChatInv, ServerHolds, Newest
<1>7. ProviderHolds'
  BY <1>0 DEF ChatInv, ProviderHolds, Ours
<1>8. OneChat'
  <2> SUFFICES ASSUME ~early' PROVE OneChat'
    BY DEF OneChat
  <2>1. Creating' = {}
    BY <1>0, <1>a DEF Creating, TypeOK
  <2> QED BY <1>0, <1>a, <1>2, <2>1 DEF ChatInv, OneChat, Newest, TypeOK
<1> QED BY <1>1, <1>3, <1>4, <1>5, <1>6, <1>7, <1>8 DEF ChatInv

LEMMA SendClickStep ==
    ASSUME ChatInv, NEW s \in Sends, SendClick(s)
    PROVE  ChatInv'
<1> USE DEF userVars, stopVars, genVars
<1>0. /\ TypeOK /\ user # NoUser /\ request[s] = "idle" /\ ~Sent(s) /\ s # NoSend
      /\ early' = (early \/ load # "over" \/ Creating # {}) /\ early' \in BOOLEAN
  BY IdsAssumption DEF SendClick, ChatInv, SendHolds, TypeOK
<1>1. CASE chatId # NoChat
  <2>1. Start(s, chatId, TRUE) /\ mine' = [mine EXCEPT ![s] = FALSE]
    BY <1>1 DEF SendClick
  <2>2. Ours(chatId) /\ chatId \in Chats /\ owner[chatId] # NoUser
    BY <1>1 DEF ChatInv, ProviderHolds, Ours
  <2>3. ~early' => Newest(chatId) /\ Creating \subseteq {s}
    BY <1>0, <1>1 DEF ChatInv, OneChat
  <2>4. UNCHANGED <<userVars, chatId, loaded, load, loadChat, loadMsgs, replies, card, stopping,
                    stopVars, answer, owner, stored, entry, flag, runs, faults>>
    BY DEF SendClick
  <2> QED BY <1>0, <2>1, <2>2, <2>3, <2>4, StartStep
<1>2. CASE chatId = NoChat
  <2>a. /\ request' = [request EXCEPT ![s] = "creating"] /\ sender' = [sender EXCEPT ![s] = user]
        /\ mine' = [mine EXCEPT ![s] = TRUE]
        /\ UNCHANGED <<userVars, providerVars, genVars, stopVars, chatOf, answer, serverVars, faults>>
    BY <1>2 DEF SendClick, providerVars, serverVars
  <2> USE DEF providerVars, serverVars
  <2>1. TypeOK'
    BY <1>0, <2>a DEF TypeOK
  <2>2. \A t \in Sends : SendHolds(t)'
    BY <1>0, <2>a DEF ChatInv, SendHolds, Sent, Ours, TypeOK
  <2>3. \A t \in Sends : ShownHolds(t)' /\ CardHolds(t)'
    BY <1>0, <2>a DEF ChatInv, ShownHolds, CardHolds, Sent, Ours, TypeOK
  <2>4. GenHolds' /\ ServerHolds' /\ ProviderHolds'
    BY <1>0, <2>a DEF ChatInv, GenHolds, ServerHolds, ProviderHolds, Sent, Newest, Ours, TypeOK
  <2>5. OneChat'
    <3> SUFFICES ASSUME ~early' PROVE OneChat'
      BY DEF OneChat
    <3>1. Creating' = {s} /\ load = "over"
      BY <1>0, <2>a DEF Creating, TypeOK
    <3> QED BY <1>0, <1>2, <2>a, <3>1 DEF ChatInv, OneChat, Sent, Newest, TypeOK
  <2> QED BY <2>1, <2>2, <2>3, <2>4, <2>5 DEF ChatInv
<1> QED BY <1>1, <1>2

LEMMA ChatCreatedStep ==
    ASSUME ChatInv, NEW s \in Sends, ChatCreated(s)
    PROVE  ChatInv'
<1> DEFINE c == chatOf[s]
           visible == mine[s]
<1>1. c \in Chats /\ owner[c] # NoUser /\ visible \in BOOLEAN /\ (visible => Ours(c))
  BY DEF ChatCreated, ChatInv, SendHolds, TypeOK
<1>2. ~early' => Newest(c) /\ visible /\ Creating \subseteq {s}
  <2>1. s \in Creating
    BY DEF ChatCreated, Creating
  <2> QED BY <2>1 DEF ChatCreated, ChatInv, OneChat
<1>3. /\ Start(s, c, visible) /\ request[s] \in {"idle", "created"}
      /\ chatId' = IF visible THEN c ELSE chatId
      /\ mine' = [mine EXCEPT ![s] = FALSE]
      /\ early' \in BOOLEAN /\ (early => early')
      /\ UNCHANGED <<userVars, loaded, load, loadChat, loadMsgs, replies, card, stopping,
                     stopVars, answer, owner, stored, entry, flag, runs, faults>>
  BY DEF ChatCreated, ChatInv, TypeOK
<1> HIDE DEF c, visible
<1> QED BY <1>1, <1>2, <1>3, StartStep

(* send() gives up. *)
LEMMA GiveUpStep ==
    ASSUME ChatInv, NEW s \in Sends, GiveUp(s), request[s] \in {"creating", "created"},
           faults' \in 0 .. MaxFaults,
           UNCHANGED <<userVars, providerVars, genVars, stopVars, chatOf, early, answer, serverVars>>
    PROVE  ChatInv'
<1> USE DEF GiveUp, userVars, providerVars, genVars, stopVars, serverVars
<1>0. TypeOK
  BY DEF ChatInv
<1>1. TypeOK'
  BY <1>0 DEF TypeOK
<1>2. \A t \in Sends : SendHolds(t)'
  BY <1>0 DEF ChatInv, SendHolds, Sent, Ours, TypeOK
<1>3. \A t \in Sends : ShownHolds(t)' /\ CardHolds(t)'
  BY <1>0 DEF ChatInv, ShownHolds, CardHolds, Sent, Ours, TypeOK
<1>4. GenHolds'
  <2>1. gen # NoSend => gen \in Sends /\ gen # s
    BY <1>0 DEF ChatInv, GenHolds, SendHolds, TypeOK
  <2> QED BY <1>0, <2>1 DEF ChatInv, GenHolds, Sent, TypeOK
<1>5. ServerHolds' /\ ProviderHolds'
  BY DEF ChatInv, ServerHolds, ProviderHolds, Sent, Newest, Ours
<1>6. OneChat'
  <2>1. Creating' \subseteq Creating \ {s} /\ \A t \in Sends : t # s => mine'[t] = mine[t]
    BY <1>0 DEF Creating, TypeOK
  <2>2. \A t \in Creating' : request'[t] = request[t] /\ t # s /\ t \in Sends
    BY <1>0 DEF Creating, TypeOK
  <2> QED BY <2>1, <2>2 DEF ChatInv, OneChat, Sent, Newest
<1> QED BY <1>1, <1>2, <1>3, <1>4, <1>5, <1>6 DEF ChatInv

(* The server makes the chat: the newest of all, and so of its user. *)
LEMMA CreateChatStep ==
    ASSUME ChatInv, NEW s \in Sends, CreateChat(s)
    PROVE  ChatInv'
<1> USE DEF userVars, providerVars, genVars, stopVars, serverVars
<1>0. TypeOK /\ request[s] = "creating" /\ ~Sent(s) /\ SendHolds(s)
  BY DEF CreateChat, ChatInv, SendHolds
<1>1. CASE sender[s] = NoUser
  BY <1>0, <1>1, GiveUpStep DEF CreateChat, TypeOK
<1>2. CASE sender[s] # NoUser
  <2>1. PICK c \in Chats :
          /\ \A k \in Chats : (k < c) = (owner[k] # NoUser)
          /\ owner' = [owner EXCEPT ![c] = sender[s]]
          /\ chatOf' = [chatOf EXCEPT ![s] = c]
    BY <1>2 DEF CreateChat
  <2>2. /\ request' = [request EXCEPT ![s] = "created"]
        /\ UNCHANGED <<userVars, providerVars, genVars, stopVars, mine, sender, early,
                       answer, stored, task, entry, flag, runs, faults>>
    BY <1>2 DEF CreateChat
  <2>3. /\ owner[c] = NoUser /\ owner'[c] = sender[s] /\ c # NoChat
        /\ \A k \in Chats : k # c => owner'[k] = owner[k]
        /\ \A k \in Chats : owner'[k] # NoUser => k <= c
    <3>1. \A k \in Chats : k \in Nat /\ k # NoChat
      BY IdsAssumption
    <3>2. owner[c] = NoUser
      BY <2>1, <3>1
    <3> QED BY <1>0, <2>1, <3>1, <3>2 DEF TypeOK
  <2>4. \A k \in Chats : owner[k] # NoUser => (k # c /\ owner'[k] = owner[k])
    BY <2>3
  <2>5. \A k \in Chats : owner[k] # NoUser /\ owner[k] # sender[s] => (Newest(k) <=> Newest(k)')
    BY <1>0, <2>3, <2>4 DEF Newest
  <2>6. Newest(c)'
    BY <1>2, <2>3 DEF Newest
  <2>7. \A d \in Chats : Ours(d) => Ours(d)'
    BY <1>0, <2>2, <2>4, IdsAssumption DEF Ours, TypeOK
  <2>a. TypeOK'
    BY <1>0, <2>1, <2>2 DEF TypeOK
  <2>b. \A t \in Sends : SendHolds(t)'
    <3> SUFFICES ASSUME NEW t \in Sends PROVE SendHolds(t)'
      OBVIOUS
    <3>1. SendHolds(t)
      BY DEF ChatInv
    <3>2. CASE t = s
      <4>1. mine[s] => Ours(c)'
        BY <1>0, <2>2, <2>3 DEF SendHolds, Ours
      <4> QED BY <1>0, <1>2, <2>1, <2>2, <2>3, <3>1, <3>2, <4>1 DEF SendHolds, Sent, TypeOK
    <3>3. CASE t # s
      <4>1. chatOf'[t] = chatOf[t] /\ request'[t] = request[t]
        BY <1>0, <2>1, <2>2, <3>3 DEF TypeOK
      <4>2. request[t] = "created" \/ Sent(t) =>
              owner'[chatOf[t]] # NoUser /\ (Ours(chatOf[t]) => Ours(chatOf[t])')
        BY <2>4, <2>7, <3>1, <4>1 DEF SendHolds, Ours
      <4> QED BY <2>2, <3>1, <4>1, <4>2 DEF SendHolds, Sent, Ours
    <3> QED BY <3>2, <3>3
  <2>c. \A t \in Sends : ShownHolds(t)' /\ CardHolds(t)'
    <3> SUFFICES ASSUME NEW t \in Sends PROVE ShownHolds(t)' /\ CardHolds(t)'
      OBVIOUS
    <3>1. ShownHolds(t) /\ CardHolds(t)
      BY DEF ChatInv
    <3>2. Sent(t) => chatOf'[t] = chatOf[t] /\ (Ours(chatOf[t]) => Ours(chatOf[t])')
      BY <1>0, <2>1, <2>7 DEF TypeOK, Ours
    <3>3. request[t] = "over" => request'[t] = "over"
      BY <1>0, <2>2 DEF TypeOK
    <3> QED BY <2>2, <3>1, <3>2, <3>3 DEF ShownHolds, CardHolds, Sent, Ours
  <2>d. GenHolds'
    <3>1. gen # NoSend => gen \in Sends /\ gen # s
      BY <1>0 DEF ChatInv, GenHolds, TypeOK
    <3> QED BY <1>0, <2>2, <3>1 DEF ChatInv, GenHolds, Sent, TypeOK
  <2>e. ServerHolds'
    <3> SUFFICES ASSUME NEW d \in Chats, owner'[d] # NoUser
                 PROVE  \E k \in Chats : owner'[k] = owner'[d] /\ Newest(k)'
      BY <2>2 DEF ChatInv, ServerHolds, Sent
    <3>1. CASE owner'[d] = sender[s]
      BY <2>3, <2>6, <3>1
    <3>2. CASE owner'[d] # sender[s]
      <4>1. owner'[d] = owner[d]
        BY <2>3, <3>2
      <4>2. PICK k \in Chats : owner[k] = owner[d] /\ Newest(k)
        BY <4>1 DEF ChatInv, ServerHolds
      <4> QED BY <2>4, <2>5, <3>2, <4>1, <4>2
    <3> QED BY <3>1, <3>2
  <2>f. ProviderHolds'
    BY <2>2, <2>7 DEF ChatInv, ProviderHolds, Ours
  <2>g. OneChat'
    <3> SUFFICES ASSUME ~early PROVE OneChat'
      BY <2>2 DEF OneChat
    <3>1. Creating = {s} /\ Creating' = {s} /\ mine[s] /\ load = "over" /\ chatId = NoChat
      BY <1>0, <2>2 DEF ChatInv, OneChat, Creating, TypeOK
    <3>2. sender[s] = user /\ user # NoUser
      BY <1>0, <3>1 DEF SendHolds
    <3>3. ASSUME NEW t \in Sends, Sent(t)
          PROVE  Newest(chatOf[t])' /\ owner'[chatOf[t]] # user /\ chatOf'[t] = chatOf[t]
      <4>1. chatOf[t] \in Chats /\ owner[chatOf[t]] # NoUser /\ owner[chatOf[t]] # user
        BY <3>1, <3>3 DEF ChatInv, SendHolds, OneChat
      <4>2. Newest(chatOf[t]) /\ chatOf'[t] = chatOf[t]
        BY <1>0, <2>1, <3>3 DEF ChatInv, OneChat, TypeOK
      <4> QED BY <2>4, <2>5, <3>2, <4>1, <4>2 DEF Newest
    <3>4. loadChat' = NoChat
      BY <2>2, <3>1 DEF ChatInv, ProviderHolds
    <3>5. chatOf'[s] = c
      BY <1>0, <2>1 DEF TypeOK
    <3> QED BY <2>2, <2>6, <3>1, <3>2, <3>3, <3>4, <3>5 DEF OneChat, Sent, Newest
  <2> QED BY <2>a, <2>b, <2>c, <2>d, <2>e, <2>f, <2>g DEF ChatInv
<1> QED BY <1>1, <1>2

-----------------------------------------------------------------------------
(* The server: tasks start, end and are cancelled, and nothing is known of  *)
(* it on screen but an answer under way to a request that waits for it.     *)

LEMMA ServerStep ==
    ASSUME ChatInv, TypeOK',
           \A s \in Sends :
             /\ Sent(s)' <=> Sent(s)
             /\ answer'[s] # "none" => answer[s] # "none" \/ request[s] = "sent"
             /\ stored'[s] # "none" => Sent(s)
             /\ sender'[s] = sender[s] \/ Sent(s),
           \A c \in Chats : entry'[c] # NoSend => entry'[c] \in Sends /\ Sent(entry'[c]),
           stop' = "asked" => stop = "asked" /\ stopChat' = stopChat,
           UNCHANGED <<userVars, providerVars, genVars, request, mine, chatOf, early, owner, runs>>
    PROVE  ChatInv'
<1> USE DEF userVars, providerVars, genVars
<1>1. \A s \in Sends : SendHolds(s)'
  BY DEF ChatInv, SendHolds, Ours
<1>2. \A s \in Sends : ShownHolds(s)' /\ CardHolds(s)'
  BY DEF ChatInv, ShownHolds, CardHolds, Ours
<1>3. GenHolds' /\ ProviderHolds'
  BY DEF ChatInv, GenHolds, ProviderHolds, Ours, TypeOK
<1>4. ServerHolds'
  <2>1. \A c \in Chats : entry'[c] # NoSend => task'[entry'[c]] # "none"
    BY DEF Sent
  <2> QED BY <2>1 DEF ChatInv, ServerHolds, Newest, Sent
<1>5. OneChat'
  <2>1. Creating' = Creating
    BY DEF Creating
  <2> QED BY <2>1 DEF ChatInv, OneChat, Newest, Creating
<1> QED BY <1>1, <1>2, <1>3, <1>4, <1>5 DEF ChatInv

LEMMA SendArrivesStep ==
    ASSUME ChatInv, NEW s \in Sends, SendArrives(s)
    PROVE  ChatInv'
<1> USE DEF userVars, providerVars, genVars, stopVars
<1>0. TypeOK /\ Sent(s) /\ chatOf[s] \in Chats
  BY DEF SendArrives, ChatInv, SendHolds, Sent
<1>1. TypeOK'
  <2>1. /\ task' \in [Sends -> {"none", "asked", "running", "cancelling", "over"}]
        /\ stored' \in [Sends -> {"none", "asked", "answered", "stopped"}]
        /\ answer' \in [Sends -> {"none", "reply", "confirm", "error", "stopped"}]
    BY <1>0 DEF SendArrives, Answer, TypeOK
  <2>2. /\ sender' \in [Sends -> Users \cup {NoUser}]
        /\ entry' \in [Chats -> Sends \cup {NoSend}] /\ flag' \in [Chats -> BOOLEAN]
    <3>1. s \in Sends \cup {NoSend} /\ NoUser \in Users \cup {NoUser}
      OBVIOUS
    <3>2. sender' = [sender EXCEPT ![s] = NoUser]
      BY DEF SendArrives
    <3>3. entry' = entry \/ entry' = [entry EXCEPT ![chatOf[s]] = s]
      BY DEF SendArrives
    <3>4. flag' = flag \/ flag' = [flag EXCEPT ![chatOf[s]] = FALSE]
      BY DEF SendArrives
    <3> QED BY <1>0, <3>1, <3>2, <3>3, <3>4 DEF TypeOK
  <2> QED BY <1>0, <2>1, <2>2 DEF SendArrives, TypeOK
<1>2. \A t \in Sends :
        /\ Sent(t)' <=> Sent(t)
        /\ answer'[t] # "none" => answer[t] # "none" \/ request[t] = "sent"
        /\ stored'[t] # "none" => Sent(t)
        /\ sender'[t] = sender[t] \/ Sent(t)
  BY <1>0 DEF SendArrives, Answer, Sent, ChatInv, SendHolds, TypeOK
<1>3. \A c \in Chats : entry'[c] # NoSend => entry'[c] \in Sends /\ Sent(entry'[c])
  BY <1>0 DEF SendArrives, ChatInv, ServerHolds, TypeOK
<1> QED BY <1>1, <1>2, <1>3, ServerStep DEF SendArrives

LEMMA TaskEndsStep ==
    ASSUME ChatInv, NEW s \in Sends,
           \/ TaskCancelled(s)
           \/ \E result \in {"reply", "confirm", "error"} : TaskEnds(s, result)
    PROVE  ChatInv'
<1> USE DEF userVars, providerVars, genVars, stopVars, requestVars
<1>0. TypeOK /\ Sent(s)
  BY DEF TaskCancelled, TaskEnds, ChatInv, Sent
<1>a. PICK r \in {"reply", "confirm", "error", "stopped"}, x \in {"none", "asked", "answered", "stopped"} :
        /\ task' = [task EXCEPT ![s] = "over"]
        /\ Answer(s, r) /\ stored' = [stored EXCEPT ![s] = x] /\ Unregister(chatOf[s])
        /\ UNCHANGED <<userVars, providerVars, genVars, stopVars, requestVars, owner, runs, faults>>
  BY <1>0 DEF TaskCancelled, TaskEnds, TypeOK
<1>1. TypeOK'
  <2>1. /\ task' \in [Sends -> {"none", "asked", "running", "cancelling", "over"}]
        /\ stored' \in [Sends -> {"none", "asked", "answered", "stopped"}]
        /\ answer' \in [Sends -> {"none", "reply", "confirm", "error", "stopped"}]
    BY <1>0, <1>a DEF Answer, TypeOK
  <2>2. entry' \in [Chats -> Sends \cup {NoSend}] /\ flag' \in [Chats -> BOOLEAN]
    BY <1>0, <1>a DEF Unregister, TypeOK
  <2> QED BY <1>0, <1>a, <2>1, <2>2 DEF TypeOK
<1>2. \A t \in Sends :
        /\ Sent(t)' <=> Sent(t)
        /\ answer'[t] # "none" => answer[t] # "none" \/ request[t] = "sent"
        /\ stored'[t] # "none" => Sent(t)
        /\ sender'[t] = sender[t]
  BY <1>0, <1>a DEF Answer, Sent, ChatInv, SendHolds, TypeOK
<1>3. \A c \in Chats : entry'[c] # NoSend => entry'[c] \in Sends /\ Sent(entry'[c])
  BY <1>0, <1>a DEF Unregister, ChatInv, ServerHolds, TypeOK
<1> QED BY <1>1, <1>2, <1>3, <1>a, ServerStep

LEMMA CancelStep ==
    ASSUME ChatInv, CancelArrives \/ CancelFails
    PROVE  ChatInv'
<1> USE DEF userVars, providerVars, genVars, stopVars, requestVars, serverVars
<1>0. TypeOK /\ \A c \in Chats : entry[c] # NoSend => entry[c] \in Sends /\ Sent(entry[c])
  BY DEF ChatInv, ServerHolds, TypeOK
<1>1. CASE CancelArrives
  <2> DEFINE s == entry[stopChat]
  <2>1. s \in Sends \cup {NoSend} /\ (s # NoSend => Sent(s))
    BY <1>0, <1>1 DEF CancelArrives, ChatInv, ServerHolds, TypeOK
  <2>2. TypeOK'
    <3>1. /\ task' \in [Sends -> {"none", "asked", "running", "cancelling", "over"}]
          /\ flag' \in [Chats -> BOOLEAN]
          /\ stop' \in {"none", "asked", "cancelled", "nothing"}
      BY <1>0, <1>1 DEF CancelArrives, TypeOK
    <3> QED BY <1>0, <1>1, <3>1 DEF CancelArrives, TypeOK
  <2>3. \A t \in Sends : Sent(t)' <=> Sent(t)
    BY <1>0, <1>1, <2>1 DEF CancelArrives, Sent, TypeOK
  <2>4. \A t \in Sends : stored[t] # "none" => Sent(t)
    BY DEF ChatInv, SendHolds
  <2>5. stop' # "asked"
    BY <1>1 DEF CancelArrives
  <2> QED BY <1>0, <1>1, <2>2, <2>3, <2>4, <2>5, ServerStep DEF CancelArrives
<1>2. CASE CancelFails
  <2>1. TypeOK'
    BY <1>0, <1>2, IdsAssumption DEF CancelFails, Fault, TypeOK
  <2>2. \A t \in Sends : (stored[t] # "none" => Sent(t)) /\ (Sent(t)' <=> Sent(t))
    BY <1>2 DEF CancelFails, ChatInv, SendHolds, Sent
  <2>3. stop' # "asked"
    BY <1>2 DEF CancelFails
  <2> QED BY <1>0, <1>2, <2>1, <2>2, <2>3, ServerStep DEF CancelFails
<1> QED BY <1>1, <1>2

-----------------------------------------------------------------------------
(* The answer on its way to the screen *)

(* The request of s is over and its result in chatGen. *)
LEMMA SettleStep ==
    ASSUME ChatInv, NEW s \in Sends, request[s] = "sent",
           NEW status \in {"done", "error"},
           NEW result \in {"none", "reply", "confirm", "error", "stopped", "stoppedHere"},
           Settle(s, status, result),
           task' = task \/ (task' = [task EXCEPT ![s] = "cancelling"]),
           stop' \in {"none", "asked", "cancelled", "nothing"}, stop' # stop => stop' # "asked",
           stop' = stop => stopChat' = stopChat, stopChat' \in Chats \cup {NoChat},
           faults' \in 0 .. MaxFaults,
           UNCHANGED <<userVars, providerVars, abortable, mine, sender, chatOf, early,
                       owner, stored, entry, flag, runs>>
    PROVE  ChatInv'
<1> USE DEF Settle, userVars, providerVars
<1>0. TypeOK /\ Sent(s) /\ s # NoSend
  BY IdsAssumption DEF ChatInv, SendHolds
<1>1. TypeOK'
  <2>1. task' \in [Sends -> {"none", "asked", "running", "cancelling", "over"}]
    BY <1>0 DEF TypeOK
  <2> QED BY <1>0, <2>1 DEF TypeOK
<1>a. \A t \in Sends :
        /\ Sent(t)' <=> Sent(t)
        /\ request'[t] = IF t = s THEN "over" ELSE request[t]
        /\ answer'[t] = IF t = s THEN "none" ELSE answer[t]
  BY <1>0 DEF Sent, TypeOK
<1>2. \A t \in Sends : SendHolds(t)'
  BY <1>0, <1>a DEF ChatInv, SendHolds, Ours
<1>3. \A t \in Sends : ShownHolds(t)' /\ CardHolds(t)'
  BY <1>a DEF ChatInv, ShownHolds, CardHolds, Ours
<1>4. GenHolds'
  BY <1>0, <1>a DEF GenHolds
<1>5. ServerHolds' /\ ProviderHolds'
  <2>1. \A c \in Chats : entry[c] # NoSend => Sent(entry[c])'
    BY <1>0, <1>a DEF ChatInv, ServerHolds, TypeOK
  <2> QED BY <2>1 DEF ChatInv, ServerHolds, ProviderHolds, Newest, Ours
<1>6. OneChat'
  <2>1. Creating' = Creating /\ \A t \in Creating : t \in Sends /\ request'[t] = request[t]
    BY <1>a DEF Creating
  <2> QED BY <1>a, <2>1 DEF ChatInv, OneChat, Newest
<1> QED BY <1>1, <1>2, <1>3, <1>4, <1>5, <1>6 DEF ChatInv

LEMMA AnswerStep ==
    ASSUME ChatInv, NEW s \in Sends, AnswerArrives(s) \/ RequestFails(s)
    PROVE  ChatInv'
<1> USE DEF stopVars, serverVars
<1>0. TypeOK /\ answer[s] \in {"none", "reply", "confirm", "error", "stopped"} /\ stop' = stop
  BY DEF ChatInv, TypeOK, AnswerArrives, RequestFails
<1>1. CASE AnswerArrives(s)
  <2> DEFINE status == IF answer[s] = "error" THEN "error" ELSE "done"
  <2>1. Settle(s, status, answer[s]) /\ status \in {"done", "error"}
    BY <1>1 DEF AnswerArrives
  <2> HIDE DEF status
  <2> QED BY <1>0, <1>1, <2>1, SettleStep DEF AnswerArrives, TypeOK
<1>2. CASE RequestFails(s)
  <2>1. faults' \in 0 .. MaxFaults
    BY <1>0, <1>2, IdsAssumption DEF RequestFails, Fault, TypeOK
  <2> QED BY <1>0, <1>2, <2>1, SettleStep DEF RequestFails, TypeOK
<1> QED BY <1>1, <1>2

LEMMA StopAnswerStep == ASSUME ChatInv, StopAnswer PROVE ChatInv'
<1> USE DEF stopVars, serverVars
<1>0. /\ TypeOK /\ stop' = "none" /\ stopChat' = NoChat
      /\ stop' \in {"none", "asked", "cancelled", "nothing"} /\ stop # stop'
  BY DEF ChatInv, StopAnswer
<1>1. CASE stop = "nothing" /\ abortable # NoSend /\ request[abortable] = "sent"
  <2>1. /\ abortable \in Sends /\ Settle(abortable, "done", "stoppedHere")
        /\ task' = task \/ task' = [task EXCEPT ![abortable] = "cancelling"]
        /\ UNCHANGED <<userVars, providerVars, abortable, mine, sender, chatOf, early,
                       owner, stored, entry, flag, runs, faults>>
    BY <1>0, <1>1 DEF StopAnswer, TypeOK
  <2>2. faults' \in 0 .. MaxFaults
    BY <1>0, <2>1 DEF TypeOK
  <2> DEFINE s == abortable
  <2>3. /\ s \in Sends /\ request[s] = "sent" /\ Settle(s, "done", "stoppedHere")
        /\ task' = task \/ task' = [task EXCEPT ![s] = "cancelling"]
    BY <1>1, <2>1
  <2> HIDE DEF s
  <2> QED BY <1>0, <2>1, <2>2, <2>3, SettleStep
<1>2. CASE ~(stop = "nothing" /\ abortable # NoSend /\ request[abortable] = "sent")
  <2>1. UNCHANGED <<userVars, providerVars, genVars, requestVars, answer, serverVars, faults>>
    BY <1>2 DEF StopAnswer, genVars, requestVars
  <2> USE DEF userVars, providerVars, genVars, requestVars
  <2>2. TypeOK'
    BY <1>0, <2>1 DEF TypeOK
  <2>3. \A t \in Sends : (stored[t] # "none" => Sent(t)) /\ (Sent(t)' <=> Sent(t))
    BY <2>1 DEF ChatInv, SendHolds, Sent
  <2>4. \A c \in Chats : entry[c] # NoSend => entry[c] \in Sends /\ Sent(entry[c])
    BY DEF ChatInv, ServerHolds, TypeOK
  <2> QED BY <1>0, <2>1, <2>2, <2>3, <2>4, ServerStep
<1> QED BY <1>1, <1>2

LEMMA ConsumeStep == ASSUME ChatInv, Consume PROVE ChatInv'
<1> USE DEF Consume, userVars, stopVars, requestVars, serverVars
<1>0. /\ TypeOK /\ gen \in Sends /\ Sent(gen) /\ request[gen] = "over"
      /\ chatOf[gen] = chatId /\ Ours(chatOf[gen])
  <2>1. TypeOK /\ gen \in Sends /\ Sent(gen) /\ request[gen] = "over"
    BY DEF ChatInv, GenHolds, TypeOK
  <2>2. chatOf[gen] \in Chats /\ chatOf[gen] = chatId
    BY <2>1 DEF ChatInv, SendHolds
  <2> QED BY <2>1, <2>2, IdsAssumption DEF ChatInv, ProviderHolds
<1>a. /\ \A t \in Sends : t # gen => replies'[t] = replies[t] /\ card'[t] = card[t]
      /\ replies'[gen] \in {0, 1} /\ card[gen] = "none" /\ card'[gen] \in {"none", "open"}
      /\ runs[gen] = 0 /\ gen' = NoSend
  <2>1. card[gen] = "none" /\ runs[gen] = 0 /\ replies[gen] \in {0, 1}
    BY <1>0 DEF ChatInv, CardHolds, ShownHolds, TypeOK
  <2> QED BY <1>0, <2>1 DEF TypeOK
<1>1. TypeOK'
  <2>1. replies' \in [Sends -> Nat] /\ card' \in [Sends -> {"none", "open", "approved", "declined"}]
    BY <1>0 DEF TypeOK
  <2> QED BY <1>0, <2>1 DEF TypeOK
<1>2. \A t \in Sends : SendHolds(t)'
  BY DEF ChatInv, SendHolds, Sent, Ours
<1>3. \A t \in Sends : ShownHolds(t)'
  <2> SUFFICES ASSUME NEW t \in Sends PROVE ShownHolds(t)'
    OBVIOUS
  <2>1. CASE t = gen
    BY <1>0, <1>a, <2>1 DEF ShownHolds, Sent, Ours
  <2>2. CASE t # gen
    BY <1>a, <2>2 DEF ChatInv, ShownHolds, Sent, Ours
  <2> QED BY <2>1, <2>2
<1>4. \A t \in Sends : CardHolds(t)'
  <2> SUFFICES ASSUME NEW t \in Sends PROVE CardHolds(t)'
    OBVIOUS
  <2>1. t # gen'
    BY IdsAssumption DEF Consume
  <2>2. CASE t = gen
    BY <1>0, <1>a, <2>1, <2>2 DEF CardHolds
  <2>3. CASE t # gen
    BY <1>a, <2>1, <2>3 DEF ChatInv, CardHolds
  <2> QED BY <2>2, <2>3
<1>5. GenHolds'
  BY DEF GenHolds
<1>6. ServerHolds' /\ ProviderHolds'
  BY DEF ChatInv, ServerHolds, ProviderHolds, Sent, Newest, Ours
<1>7. OneChat'
  BY DEF ChatInv, OneChat, Sent, Newest, Creating
<1> QED BY <1>1, <1>2, <1>3, <1>4, <1>5, <1>6, <1>7 DEF ChatInv

-----------------------------------------------------------------------------
(* The clicks on the stop button and on a card *)

LEMMA StopClickStep == ASSUME ChatInv, StopClick PROVE ChatInv'
<1> USE DEF StopClick, userVars, genVars, requestVars, serverVars
<1>0. TypeOK /\ chatOf[gen] \in Chats
  BY DEF Generating, ChatInv, GenHolds, SendHolds, TypeOK
<1>1. TypeOK'
  BY <1>0 DEF TypeOK
<1>2. \A t \in Sends : SendHolds(t)' /\ ShownHolds(t)' /\ CardHolds(t)'
  BY DEF ChatInv, SendHolds, ShownHolds, CardHolds, Sent, Ours
<1>3. GenHolds' /\ ServerHolds' /\ ProviderHolds'
  BY <1>0 DEF ChatInv, GenHolds, ServerHolds, ProviderHolds, Sent, Newest, Ours
<1>4. OneChat'
  BY DEF ChatInv, OneChat, Sent, Newest, Creating
<1> QED BY <1>1, <1>2, <1>3, <1>4 DEF ChatInv

LEMMA ResolveStep ==
    ASSUME ChatInv, NEW s \in Sends, NEW approved \in BOOLEAN, Resolve(s, approved)
    PROVE  ChatInv'
<1> USE DEF Resolve, userVars, genVars, stopVars, requestVars
<1>0. /\ TypeOK /\ CardHolds(s) /\ card[s] = "open" /\ runs[s] = 0
  BY DEF ChatInv, CardHolds
<1>1. TypeOK'
  <2>1. runs' \in [Sends -> Nat] /\ faults' \in 0 .. MaxFaults
    BY <1>0, IdsAssumption DEF Fault, TypeOK
  <2>2. card' \in [Sends -> {"none", "open", "approved", "declined"}]
    BY <1>0 DEF TypeOK
  <2> QED BY <1>0, <2>1, <2>2 DEF TypeOK
<1>2. \A t \in Sends : SendHolds(t)'
  BY DEF ChatInv, SendHolds, Sent, Ours
<1>3. \A t \in Sends : ShownHolds(t)'
  BY <1>0 DEF ChatInv, ShownHolds, Sent, Ours, TypeOK
<1>4. \A t \in Sends : CardHolds(t)'
  <2> SUFFICES ASSUME NEW t \in Sends PROVE CardHolds(t)'
    OBVIOUS
  <2>1. CASE t = s
    <3>1. card'[s] = IF approved THEN "approved" ELSE "declined"
      BY <1>0 DEF TypeOK
    <3>2. runs'[s] \in {0, 1} /\ (~approved => runs'[s] = 0)
      BY <1>0 DEF TypeOK
    <3> QED BY <1>0, <2>1, <3>1, <3>2 DEF CardHolds
  <2>2. CASE t # s
    <3>1. card'[t] = card[t] /\ runs'[t] = runs[t]
      BY <1>0, <2>2 DEF TypeOK
    <3> QED BY <3>1 DEF ChatInv, CardHolds
  <2> QED BY <2>1, <2>2
<1>5. GenHolds' /\ ServerHolds' /\ ProviderHolds'
  BY DEF ChatInv, GenHolds, ServerHolds, ProviderHolds, Sent, Newest, Ours
<1>6. OneChat'
  BY DEF ChatInv, OneChat, Sent, Newest, Creating
<1> QED BY <1>1, <1>2, <1>3, <1>4, <1>5, <1>6 DEF ChatInv

-----------------------------------------------------------------------------
(* The theorems *)

LEMMA ChatInit_Inv == Init => ChatInv
<1> SUFFICES ASSUME Init PROVE ChatInv
  OBVIOUS
<1>1. /\ FirstUser \in Users /\ FirstUser # NoUser /\ NoSend \notin Sends /\ NoChat \notin Chats
      /\ 1 \in 0 .. MaxLogins /\ 0 \in 0 .. MaxFaults
  BY IdsAssumption DEF FirstUser
<1>2. PICK u \in {NoUser, FirstUser} : owner = [c \in Chats |-> IF c = 1 THEN u ELSE NoUser]
  BY DEF Init
<1>3. TypeOK
  <2>1. owner \in [Chats -> Users \cup {NoUser}]
    BY <1>1, <1>2
  <2>2. /\ asks \in [Sends -> BOOLEAN] /\ mine \in [Sends -> BOOLEAN]
        /\ replies \in [Sends -> Nat] /\ runs \in [Sends -> Nat]
    BY DEF Init, None
  <2>3. /\ card \in [Sends -> {"none", "open", "approved", "declined"}]
        /\ loadMsgs \in [Sends -> {"none", "asked", "answered", "stopped"}]
        /\ request \in [Sends -> {"idle", "creating", "created", "sent", "over"}]
        /\ answer \in [Sends -> {"none", "reply", "confirm", "error", "stopped"}]
        /\ stored \in [Sends -> {"none", "asked", "answered", "stopped"}]
        /\ task \in [Sends -> {"none", "asked", "running", "cancelling", "over"}]
    BY DEF Init
  <2>4. /\ sender \in [Sends -> Users \cup {NoUser}] /\ chatOf \in [Sends -> Chats \cup {NoChat}]
        /\ entry \in [Chats -> Sends \cup {NoSend}] /\ flag \in [Chats -> BOOLEAN]
    BY DEF Init
  <2> QED BY <1>1, <2>1, <2>2, <2>3, <2>4 DEF Init, TypeOK
<1>4. \A s \in Sends : SendHolds(s) /\ ShownHolds(s) /\ CardHolds(s)
  BY DEF Init, SendHolds, ShownHolds, CardHolds, Sent, None
<1>5. GenHolds /\ ProviderHolds
  BY <1>1 DEF Init, GenHolds, ProviderHolds
<1>6. ServerHolds
  <2>1. \A c \in Chats : owner[c] # NoUser => c = 1
    BY <1>2
  <2>2. \A c, k \in Chats : owner[c] # NoUser /\ owner[k] = owner[c] => k = c /\ k <= c
    BY <2>1
  <2> QED BY <2>2 DEF Init, ServerHolds, Newest
<1>7. OneChat
  BY DEF Init, OneChat, Creating, Sent
<1> QED BY <1>3, <1>4, <1>5, <1>6, <1>7 DEF ChatInv

LEMMA ChatNext_Inv == ChatInv /\ [Next]_vars => ChatInv'
<1> SUFFICES ASSUME ChatInv, [Next]_vars PROVE ChatInv'
  OBVIOUS
<1>1. CASE Logout \/ \E u \in Users : Login(u)
  BY <1>1, LoginStep, LogoutStep
<1>2. CASE ListChats \/ ChatsArrive \/ ListMessages \/ MessagesArrive \/ LoadFails
  BY <1>2, ListChatsStep, LoadStep
<1>3. CASE Consume \/ StopClick \/ CancelArrives \/ CancelFails \/ StopAnswer
  BY <1>3, ConsumeStep, StopClickStep, CancelStep, StopAnswerStep
<1>4. ASSUME NEW s \in Sends,
             \/ SendClick(s) \/ CreateChat(s) \/ ChatCreated(s) \/ CreateFails(s)
      PROVE  ChatInv'
  <2>1. CASE CreateFails(s)
    <3>1. faults' \in 0 .. MaxFaults
      BY <2>1, IdsAssumption DEF CreateFails, Fault, ChatInv, TypeOK
    <3> QED BY <2>1, <3>1, GiveUpStep DEF CreateFails
  <2> QED BY <1>4, <2>1, SendClickStep, CreateChatStep, ChatCreatedStep
<1>5. ASSUME NEW s \in Sends,
             \/ SendArrives(s) \/ TaskCancelled(s)
             \/ \E result \in {"reply", "confirm", "error"} : TaskEnds(s, result)
             \/ AnswerArrives(s) \/ RequestFails(s)
             \/ \E approved \in BOOLEAN : Resolve(s, approved)
      PROVE  ChatInv'
  BY <1>5, SendArrivesStep, TaskEndsStep, AnswerStep, ResolveStep
<1>6. CASE UNCHANGED vars
  <2> USE <1>6 DEF vars, userVars, providerVars, genVars, stopVars, requestVars, serverVars
  <2>1. TypeOK'
    BY DEF ChatInv, TypeOK
  <2>2. \A s \in Sends : (stored[s] # "none" => Sent(s)) /\ (Sent(s)' <=> Sent(s))
    BY DEF ChatInv, SendHolds, Sent
  <2>3. \A c \in Chats : entry[c] # NoSend => entry[c] \in Sends /\ Sent(entry[c])
    BY DEF ChatInv, ServerHolds, TypeOK
  <2> QED BY <2>1, <2>2, <2>3, ServerStep
<1> QED BY <1>1, <1>2, <1>3, <1>4, <1>5, <1>6 DEF Next

LEMMA ChatAlways == Spec => []ChatInv
BY ChatInit_Inv, ChatNext_Inv, PTL DEF Spec

(* The variables of the conversation and of the server keep their types. *)
THEOREM TypeCorrect == Spec => []TypeOK
<1>1. ChatInv => TypeOK
  BY DEF ChatInv
<1> QED BY <1>1, ChatAlways, PTL

(* ChatContext shows messages, replies and cards only of a chat of the user *)
(* who is signed in, though chatGen and the requests of AppContext outlive  *)
(* the user they were made for.                                             *)
THEOREM ShownIsOwn == Spec => []OwnChatsOnly
<1>1. ChatInv => OwnChatsOnly
  BY DEF ChatInv, OwnChatsOnly, ProviderHolds, ShownHolds, Ours
<1> QED BY <1>1, ChatAlways, PTL

(* A result that waits for the user whose conversation is loaded belongs to *)
(* the chat on screen, where the consumer of ChatContext takes it, unless a *)
(* send was clicked before the load was over or left while it was creating. *)
THEOREM ResultsAreTaken == Spec => []RepliesFindTheirChat
<1>1. ChatInv => RepliesFindTheirChat
  <2> SUFFICES ASSUME ChatInv, ~early, load = "over", genStatus \in {"done", "error"},
                      owner[chatOf[gen]] = user
               PROVE  chatOf[gen] = chatId
    BY DEF RepliesFindTheirChat
  <2>1. gen \in Sends /\ Sent(gen) /\ chatOf[gen] \in Chats
    BY DEF ChatInv, TypeOK, GenHolds, SendHolds
  <2>2. Newest(chatOf[gen])
    BY <2>1 DEF ChatInv, OneChat
  <2>3. chatId # NoChat
    BY <2>1 DEF ChatInv, OneChat
  <2>4. Newest(chatId) /\ Ours(chatId)
    BY <2>3 DEF ChatInv, OneChat, ProviderHolds
  <2>5. chatOf[gen] <= chatId /\ chatId <= chatOf[gen]
    BY <2>1, <2>2, <2>4 DEF Newest, Ours
  <2>6. chatOf[gen] \in Nat /\ chatId \in Nat
    BY <2>1, <2>4, IdsAssumption DEF Ours
  <2> QED BY <2>5, <2>6
<1> QED BY <1>1, ChatAlways, PTL

(* However answers, loads, cancellations and lost requests interleave, the  *)
(* consumer appends no reply twice, and the skill behind a confirmation     *)
(* card runs at most once and only after the user approved it.              *)
THEOREM NothingTwice == Spec => []OncePerSend
<1>1. ChatInv => OncePerSend
  BY DEF ChatInv, OncePerSend, NoDoubleAppend, RunsOnceByClick, ShownHolds, CardHolds
<1> QED BY <1>1, ChatAlways, PTL

=============================================================================
