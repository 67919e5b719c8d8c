------------------------------ MODULE MessageBus ------------------------------
(***************************************************************************)
(* Conversations between seats: MessageBus with the chain of command it    *)
(* broadcasts along.                                                       *)
(*                                                                         *)
(* What a message says is its place in `posts`, the messages in the order  *)
(* they were sent.  A copy that a branch makes says the same under a new   *)
(* message id, so a message is a pair of a conversation and a post, and a  *)
(* conversation holds a set of posts in the order of sending.  Group and   *)
(* direct conversations differ in their number of members only.            *)
(***************************************************************************)
EXTENDS CommandChain, Sequences

CONSTANTS
  Convs,        \* ids of conversations, chosen by a caller or at random
  Activities,
  Groups,       \* the member lists a caller may give
  Mentions,     \* the lists of mentioned seats a caller may give
  MaxPosts,     \* bound on the messages sent
  MaxTime       \* bound on the clock, in milliseconds

ASSUME BusAssumption ==
  /\ Groups \subseteq SUBSET Seats
  /\ Mentions \subseteq SUBSET Seats
  /\ MaxPosts \in Nat
  /\ MaxTime \in Nat

VARIABLES
  now,            \* Date.now()
  posts,          \* Seq(Post): what was sent, in order
  conversations,  \* [Convs -> set of at most one Conversation]
  messages        \* [Convs -> set of posts]: MessageBus.messages

vars == <<now, posts, conversations, messages>>

\* `audience` and `broadcast` record at the time of sending who was in the
\* conversation and whether it was made by a broadcast.  No action reads them.
Post == [from : Seats, mentions : SUBSET Seats, timestamp : Nat,
         audience : SUBSET Seats, broadcast : BOOLEAN]

\* A message id: the conversation it is in and the post it shows.
MessageIds == Convs \X (1..MaxPosts)

Conversation == [members : SUBSET Seats, activityId : Activities,
                 branchFrom : {{}} \cup {{m} : m \in MessageIds}]

TypeOK ==
  /\ now \in 0..MaxTime
  /\ posts \in Seq(Post) /\ Len(posts) <= MaxPosts
  /\ \A c \in Convs :
       /\ conversations[c] = {} \/ \E conv \in Conversation : conversations[c] = {conv}
       /\ messages[c] \subseteq DOMAIN posts
       /\ messages[c] # {} => conversations[c] # {}

------------------------------------------------------------------------------
Exists(c) == conversations[c] # {}

TheConversation(c) == CHOOSE conv \in conversations[c] : TRUE

Members(c) == IF Exists(c) THEN TheConversation(c).members ELSE {}

NewConversation(members, activity) ==
  [members |-> members, activityId |-> activity, branchFrom |-> {}]

NewPost(from, mentions, members, isBroadcast) ==
  [from |-> from, mentions |-> mentions, timestamp |-> now,
   audience |-> members, broadcast |-> isBroadcast]

\* messagesForSeat: what a seat sees in the conversations it is a member of.
MessagesForSeat(seat, activities) ==
  UNION {messages[c] : c \in {d \in Convs :
           /\ seat \in Members(d)
           /\ TheConversation(d).activityId \in activities}}

\* mentionsFor: the messages, of whichever conversation, that mention a seat.
MentionsFor(seat) ==
  {p \in UNION {messages[c] : c \in Convs} : seat \in posts[p].mentions}

------------------------------------------------------------------------------
Init ==
  /\ now = 0
  /\ posts = <<>>
  /\ conversations = [c \in Convs |-> {}]
  /\ messages = [c \in Convs |-> {}]

\* (slip) An existing message list is kept.
CreateGroup_KeepsMessages(c, activity, members) ==
  /\ conversations' = [conversations EXCEPT ![c] = {NewConversation(members, activity)}]
  /\ UNCHANGED <<now, posts, messages>>

\* createGroup and createDirect.  An id the caller gives may be in use: the
\* conversation is replaced and its messages are gone.
CreateGroup(c, activity, members) ==
  /\ conversations' = [conversations EXCEPT ![c] = {NewConversation(members, activity)}]
  /\ messages' = [messages EXCEPT ![c] = {}]
  /\ UNCHANGED <<now, posts>>

\* (slip) The conversation need not exist.
Send_Unchecked(c, from, mentions) ==
  /\ posts' = Append(posts, NewPost(from, mentions, Members(c), FALSE))
  /\ messages' = [messages EXCEPT ![c] = @ \cup {Len(posts) + 1}]
  /\ UNCHANGED <<now, conversations>>

\* send: refused to anyone who is not a member.  The mentioned seats are taken
\* as they are.
Send(c, from, mentions) ==
  /\ Exists(c)
  /\ from \in Members(c)
  /\ posts' = Append(posts, NewPost(from, mentions, Members(c), FALSE))
  /\ messages' = [messages EXCEPT ![c] = @ \cup {Len(posts) + 1}]
  /\ UNCHANGED <<now, conversations>>

\* broadcast: a new group of the sender and everyone below, and one message.
Broadcast(c, from, activity) ==
  /\ ~Exists(c)
  /\ LET members == {from} \cup Descendants(from)
     IN  /\ conversations' =
              [conversations EXCEPT ![c] = {NewConversation(members, activity)}]
         /\ posts' = Append(posts, NewPost(from, {}, members, TRUE))
         /\ messages' = [messages EXCEPT ![c] = {Len(posts) + 1}]
  /\ UNCHANGED now

\* The posts a branch from post p of conversation c takes over.
\* (slip) Strictly earlier ones.
Inherited_Before(c, p) == {q \in messages[c] : posts[q].timestamp < posts[p].timestamp}

Inherited(c, p) == {q \in messages[c] : posts[q].timestamp <= posts[p].timestamp}

\* branch: a new conversation of the same members, with copies of the messages
\* whose timestamp is not later than that of the message branched from.
Branch(new, c, p) ==
  /\ ~Exists(new)
  /\ p \in messages[c]
  /\ conversations' = [conversations EXCEPT ![new] =
       {[members    |-> Members(c),
         activityId |-> TheConversation(c).activityId,
         branchFrom |-> {<<c, p>>}]}]
  /\ messages' = [messages EXCEPT ![new] = Inherited(c, p)]
  /\ UNCHANGED <<now, posts>>

\* Time passes; several messages may be sent within one millisecond.
Tick ==
  /\ now < MaxTime
  /\ now' = now + 1
  /\ UNCHANGED <<posts, conversations, messages>>

Next ==
  \/ \E c \in Convs, activity \in Activities, members \in Groups :
       CreateGroup(c, activity, members)
  \/ \E c \in Convs, from \in Seats, mentions \in Mentions :
       Len(posts) < MaxPosts /\ Send(c, from, mentions)
  \/ \E c \in Convs, from \in Seats, activity \in Activities :
       Len(posts) < MaxPosts /\ Broadcast(c, from, activity)
  \/ \E new, c \in Convs, p \in DOMAIN posts : Branch(new, c, p)
  \/ Tick

Spec == Init /\ [][Next]_vars

------------------------------------------------------------------------------
\* Whoever is in a conversation was among those its messages were sent to, and
\* everyone they were sent to is in it.
HeldWhereSent == \A c \in Convs : \A p \in messages[c] : Members(c) = posts[p].audience

\* A query hands a message to those it was sent to, or those it mentions:
\* mentionsFor does not ask for membership.
ReadersAreAddressed ==
  \A s \in Seats : \A p \in MessagesForSeat(s, Activities) \cup MentionsFor(s) :
    s \in posts[p].audience \cup posts[p].mentions

\* Neither branching, nor a branch of a branch, nor an id that is used again
\* carries a message to another circle.
MessagesStayInTheirCircle == HeldWhereSent /\ ReadersAreAddressed

\* A broadcast is addressed to exactly the seats that have its sender above
\* them, and to its sender.
BroadcastCoversSubtree ==
  \A p \in DOMAIN posts :
    posts[p].broadcast =>
      posts[p].audience = {posts[p].from} \cup {s \in Seats : posts[p].from \in Ancestors(s)}

\* A new branch holds the message it was made from and all that came before it
\* in its conversation.
BranchInheritsContext ==
  [][\A c, new \in Convs, p \in DOMAIN posts :
       conversations[new] = {} /\ Branch(new, c, p) =>
         {q \in messages[c] : q <= p} \subseteq messages'[new]]_vars

\* What is said in one conversation is not written into another: a step adds
\* messages to one conversation at most.
ConversationsDoNotMix ==
  [][\A c, d \in Convs :
       ~(messages'[c] \subseteq messages[c]) /\ ~(messages'[d] \subseteq messages[d])
         => c = d]_vars
==============================================================================
