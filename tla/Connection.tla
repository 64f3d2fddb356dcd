----------------------------- MODULE Connection -----------------------------
(***************************************************************************)
(* connection/connection.cc: the multiplexer of one node, the connections  *)
(* its threads open, and the messages that come from them and from other   *)
(* nodes.  The channels of transactions are linked to a worker's           *)
(* connection and unlinked again as in scheduler.cc:144-190.               *)
(***************************************************************************)
EXTENDS Integers, Sequences, FiniteSets, SequencesExt

CONSTANTS
  Conn,          \* channel names of Connection objects
  Linkable,      \* channels of transactions
  Worker,        \* the connection each of them is linked to
  Remote,        \* other nodes
  Mail,          \* channels each sender sends its messages to, in order
  Asks,          \* bound: calls of NewConnection for a name
  NULL

Channel == Conn \cup Linkable
Sender == Conn \cup Remote

ASSUME ConnectionAssumption ==
  /\ Worker \in [Linkable -> Conn]
  /\ Mail \in [Sender -> Seq(Channel)]
  /\ Conn \cap Linkable = {} /\ Conn \cap Remote = {}
  /\ IsFiniteSet(Sender)
  /\ Asks \in Nat /\ NULL \notin Conn

VARIABLES
  inproc_out_,              \* channel -> connection at the other end of the socket
  undelivered_messages_,
  pipe,                     \* what a sender sent and the multiplexer did not receive yet
  inbox,                    \* socket_in_ of each connection
  open,                     \* connections NewConnection has returned
  linked_channels_,
  new_connection_mutex_,    \* who is inside NewConnection
  new_connection_channel_,
  new_connection_,
  asked,                    \* calls of NewConnection so far
  sent,                     \* messages each sender has sent
  received                  \* history: what each connection got, in order

callVars == <<open, new_connection_mutex_, asked>>
newVars == <<new_connection_channel_, new_connection_>>
clientVars == <<linked_channels_, sent, received>>
vars == <<inproc_out_, undelivered_messages_, pipe, inbox, callVars, newVars, clientVars>>

Init ==
  /\ inproc_out_ = [ch \in {} |-> NULL]
  /\ undelivered_messages_ = [ch \in Channel |-> <<>>]
  /\ pipe = [s \in Sender |-> <<>>] /\ inbox = [c \in Conn |-> <<>>]
  /\ open = {} /\ linked_channels_ = [c \in Conn |-> {}]
  /\ new_connection_mutex_ = NULL /\ new_connection_channel_ = NULL /\ new_connection_ = NULL
  /\ asked = [c \in Conn |-> 0]
  /\ sent = [s \in Sender |-> 0] /\ received = [c \in Conn |-> <<>>]

-----------------------------------------------------------------------------
(* NewConnection(c): posts the name and waits until it is gone.            *)
Ask(c) ==
  /\ new_connection_mutex_ = NULL /\ asked[c] < Asks
  /\ new_connection_mutex_' = c /\ asked' = [asked EXCEPT ![c] = @ + 1]
  /\ new_connection_channel_' = c
  /\ UNCHANGED <<inproc_out_, undelivered_messages_, pipe, inbox, open, new_connection_, clientVars>>

Return(c) ==
  /\ new_connection_mutex_ = c /\ new_connection_channel_ = NULL
  /\ open' = IF new_connection_ = NULL THEN open ELSE open \cup {new_connection_}
  /\ new_connection_' = NULL /\ new_connection_mutex_' = NULL
  /\ UNCHANGED <<inproc_out_, undelivered_messages_, pipe, inbox, asked, new_connection_channel_, clientVars>>

(* Send, LinkChannel and UnlinkChannel of an open connection all go        *)
(* through one socket.                                                     *)
Put(s, type, channel) ==
  pipe' = [pipe EXCEPT ![s] = Append(@, [type |-> type, channel |-> channel, from |-> s,
                                         number |-> IF type = "message" THEN sent[s] + 1 ELSE 0])]

Send(s) ==
  /\ s \in Remote \cup open /\ sent[s] < Len(Mail[s])
  /\ Put(s, "message", Mail[s][sent[s] + 1])
  /\ sent' = [sent EXCEPT ![s] = @ + 1]
  /\ UNCHANGED <<inproc_out_, undelivered_messages_, inbox, callVars, newVars, linked_channels_, received>>

GotOn(channel) == {i \in DOMAIN received[Worker[channel]] : received[Worker[channel]][i].channel = channel}
SentTo(channel) == UNION {{<<s, i>> : i \in {j \in DOMAIN Mail[s] : Mail[s][j] = channel}} : s \in Sender}

LinkChannel(channel) ==
  LET c == Worker[channel] IN
  /\ c \in open /\ channel \notin linked_channels_[c] /\ GotOn(channel) = {}
  /\ Put(c, "link", channel)
  /\ linked_channels_' = [linked_channels_ EXCEPT ![c] = @ \cup {channel}]
  /\ UNCHANGED <<inproc_out_, undelivered_messages_, inbox, callVars, newVars, sent, received>>

(* A transaction is done with when every remote read has come.             *)
UnlinkChannel(channel) ==
  LET c == Worker[channel] IN
  /\ channel \in linked_channels_[c] /\ Cardinality(GotOn(channel)) = Cardinality(SentTo(channel))
  /\ Put(c, "unlink", channel)
  /\ linked_channels_' = [linked_channels_ EXCEPT ![c] = @ \ {channel}]
  /\ UNCHANGED <<inproc_out_, undelivered_messages_, inbox, callVars, newVars, sent, received>>

GetMessage(c) ==
  /\ c \in open /\ inbox[c] # <<>>
  /\ received' = [received EXCEPT ![c] = Append(@, Head(inbox[c]))]
  /\ inbox' = [inbox EXCEPT ![c] = Tail(@)]
  /\ UNCHANGED <<inproc_out_, undelivered_messages_, pipe, callVars, newVars, linked_channels_, sent>>

-----------------------------------------------------------------------------
(* The multiplexer's main loop.  Register a channel, and forward what came *)
(* for it before.  (The variants forget to, and hand it over backwards.)   *)
Register_Only(channel, c) ==
  /\ inproc_out_' = [ch \in DOMAIN inproc_out_ \cup {channel} |-> IF ch = channel THEN c ELSE inproc_out_[ch]]
  /\ UNCHANGED <<inbox, undelivered_messages_>>

Register_Backwards(channel, c) ==
  /\ inproc_out_' = [ch \in DOMAIN inproc_out_ \cup {channel} |-> IF ch = channel THEN c ELSE inproc_out_[ch]]
  /\ inbox' = [inbox EXCEPT ![c] = @ \o Reverse(undelivered_messages_[channel])]
  /\ undelivered_messages_' = [undelivered_messages_ EXCEPT ![channel] = <<>>]

Register(channel, c) ==
  /\ inproc_out_' = [ch \in DOMAIN inproc_out_ \cup {channel} |-> IF ch = channel THEN c ELSE inproc_out_[ch]]
  /\ inbox' = [inbox EXCEPT ![c] = @ \o undelivered_messages_[channel]]
  /\ undelivered_messages_' = [undelivered_messages_ EXCEPT ![channel] = <<>>]

(* Variant of Free that does not look whether the name is in use.          *)
Free_Always(channel) == TRUE
Free(channel) == channel \notin DOMAIN inproc_out_

ServeNewConnection ==
  /\ new_connection_channel_ # NULL /\ new_connection_channel_' = NULL
  /\ IF Free(new_connection_channel_)
     THEN /\ Register(new_connection_channel_, new_connection_channel_)
          /\ new_connection_' = new_connection_channel_
     ELSE new_connection_' = NULL /\ UNCHANGED <<inproc_out_, inbox, undelivered_messages_>>
  /\ UNCHANGED <<pipe, callVars, clientVars>>

(* Send(message) to a local channel.                                       *)
Deliver(m) ==
  /\ IF m.channel \in DOMAIN inproc_out_
     THEN /\ inbox' = [inbox EXCEPT ![inproc_out_[m.channel]] = Append(@, m)]
          /\ UNCHANGED undelivered_messages_
     ELSE /\ undelivered_messages_' = [undelivered_messages_ EXCEPT ![m.channel] = Append(@, m)]
          /\ UNCHANGED inbox
  /\ UNCHANGED inproc_out_

Link(m) ==
  IF m.from \in DOMAIN inproc_out_ /\ Free(m.channel) THEN Register(m.channel, inproc_out_[m.from])
  ELSE UNCHANGED <<inproc_out_, inbox, undelivered_messages_>>

Unlink(m) ==
  /\ inproc_out_' = [ch \in DOMAIN inproc_out_ \ {m.channel} |-> inproc_out_[ch]]
  /\ UNCHANGED <<inbox, undelivered_messages_>>

(* The next message of a remote node or of a local connection.             *)
Forward(s) ==
  /\ pipe[s] # <<>> /\ pipe' = [pipe EXCEPT ![s] = Tail(@)]
  /\ LET m == Head(pipe[s]) IN
     \/ m.type = "message" /\ Deliver(m)
     \/ m.type = "link" /\ Link(m)
     \/ m.type = "unlink" /\ Unlink(m)
  /\ UNCHANGED <<callVars, newVars, clientVars>>

Run == ServeNewConnection \/ \E s \in Sender : Forward(s)

Next ==
  \/ \E c \in Conn : Ask(c) \/ Return(c) \/ GetMessage(c)
  \/ \E s \in Sender : Send(s)
  \/ \E channel \in Linkable : LinkChannel(channel) \/ UnlinkChannel(channel)
  \/ Run

(* Every thread runs on: a caller asks until it has its connection, every  *)
(* message is sent and read, and the multiplexer serves all its sockets.   *)
Fairness ==
  /\ \A c \in Conn : WF_vars(Ask(c)) /\ WF_vars(Return(c)) /\ WF_vars(GetMessage(c))
  /\ \A s \in Sender : WF_vars(Send(s)) /\ WF_vars(Forward(s))
  /\ \A channel \in Linkable : WF_vars(LinkChannel(channel))
  /\ WF_vars(ServeNewConnection)

Spec == Init /\ [][Next]_vars
FairSpec == Spec /\ Fairness

-----------------------------------------------------------------------------
Message ==
  [type : {"message", "link", "unlink"}, channel : Channel, from : Sender, number : Nat]

ConnectionTypeOK ==
  /\ DOMAIN inproc_out_ \subseteq Channel /\ \A ch \in DOMAIN inproc_out_ : inproc_out_[ch] \in Conn
  /\ undelivered_messages_ \in [Channel -> Seq(Message)]
  /\ pipe \in [Sender -> Seq(Message)] /\ inbox \in [Conn -> Seq(Message)]
  /\ open \subseteq Conn /\ linked_channels_ \in [Conn -> SUBSET Linkable]
  /\ {new_connection_mutex_, new_connection_channel_, new_connection_} \subseteq Conn \cup {NULL}

(* A caller of NewConnection gets the connection it asked for, if any, and *)
(* a name is given out once: what is open, or on its way to the caller, is *)
(* what the multiplexer knows, and it reaches that connection.             *)
Handshake ==
  /\ new_connection_ # NULL =>
       new_connection_ = new_connection_mutex_ /\ new_connection_ \notin open
  /\ Conn \cap DOMAIN inproc_out_ = open \cup ({new_connection_} \ {NULL})
  /\ \A ch \in DOMAIN inproc_out_ : inproc_out_[ch] = IF ch \in Conn THEN ch ELSE Worker[ch]

(* connection.h:100-102: messages are kept aside only while nobody listens *)
(* on their channel.                                                       *)
NothingStranded ==
  \A ch \in DOMAIN inproc_out_ : undelivered_messages_[ch] = <<>>

Owner(ch) == IF ch \in Conn THEN ch ELSE Worker[ch]

(* What s sent to ch is somewhere on this way, the oldest in front.        *)
Way(s, ch) == received[Owner(ch)] \o inbox[Owner(ch)] \o undelivered_messages_[ch] \o pipe[s]

Belongs(m, s, ch) == m.type = "message" /\ m.from = s /\ m.channel = ch
Numbers(q, s, ch) == {q[i].number : i \in {j \in DOMAIN q : Belongs(q[j], s, ch)}}
Ascending(q, s, ch) ==
  \A i, j \in DOMAIN q :
    i < j /\ Belongs(q[i], s, ch) /\ Belongs(q[j], s, ch) => q[i].number < q[j].number

(* What one sender sent to one channel arrives complete and in order, also *)
(* when part of it was kept aside before the channel was linked, and only  *)
(* at the connection the channel belongs to.                               *)
InOrder ==
  \A s \in Sender : \A ch \in Channel :
    /\ Ascending(Way(s, ch), s, ch)
    /\ Numbers(Way(s, ch), s, ch) = {i \in 1..sent[s] : Mail[s][i] = ch}
    /\ \A c \in Conn \ {Owner(ch)} : Numbers(received[c] \o inbox[c], s, ch) = {}

(* In the end every message has reached its transaction's worker: a read   *)
(* result that overtakes the link request is not lost.                     *)
AllReceived ==
  \A s \in Sender : \A i \in DOMAIN Mail[s] :
    <>(\E j \in DOMAIN received[Owner(Mail[s][i])] :
         received[Owner(Mail[s][i])][j].from = s /\ received[Owner(Mail[s][i])][j].number = i)
=============================================================================
