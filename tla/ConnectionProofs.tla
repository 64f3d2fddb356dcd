-------------------------- MODULE ConnectionProofs --------------------------
(***************************************************************************)
(* Theorems about Connection, for all names, channels, nodes and messages. *)
(***************************************************************************)
EXTENDS Connection, FiniteSetTheorems, SequenceTheorems, TLAPS

(* ConnectionTypeOK, with the variable it leaves out.                      *)
Types == ConnectionTypeOK /\ sent \in [Sender -> Nat]

(* A name that has been posted is the name of the caller that is inside    *)
(* NewConnection, and it has no answer yet.                                *)
Posted ==
  new_connection_channel_ # NULL =>
    new_connection_mutex_ = new_connection_channel_ /\ new_connection_ = NULL

(* Requests to link and unlink are about channels of transactions, and     *)
(* come from the connection the channel belongs to.                        *)
Request(m) == m.type # "message" => m.channel \in Linkable /\ m.from = Worker[m.channel]

Requests == \A s \in Sender : \A i \in 1..Len(pipe[s]) : Request(pipe[s][i])

ConnectionInv == Types /\ Posted /\ Requests /\ Handshake /\ NothingStranded

-----------------------------------------------------------------------------
LEMMA Names == NULL \notin Conn /\ Conn \cap Linkable = {} /\ Worker \in [Linkable -> Conn]
BY ConnectionAssumption

LEMMA InitInv == Init => ConnectionInv
<1> SUFFICES ASSUME Init PROVE ConnectionInv
  OBVIOUS
<1> USE DEF Init
<1>1. ConnectionTypeOK
  <2>1. DOMAIN inproc_out_ = {}
    OBVIOUS
  <2>2. <<>> \in Seq(Message)
    BY EmptySeq
  <2>3. /\ undelivered_messages_ \in [Channel -> Seq(Message)]
        /\ pipe \in [Sender -> Seq(Message)] /\ inbox \in [Conn -> Seq(Message)]
    BY <2>2
  <2>4. open \subseteq Conn /\ linked_channels_ \in [Conn -> SUBSET Linkable]
    OBVIOUS
  <2>5. QED
    BY <2>1, <2>3, <2>4 DEF ConnectionTypeOK
<1>2. sent \in [Sender -> Nat]
  OBVIOUS
<1>3. Posted
  BY DEF Posted
<1>4. Requests
  <2>1. \A s \in Sender : Len(pipe[s]) = 0
    BY EmptySeq
  <2>2. QED
    BY <2>1 DEF Requests
<1>5. Handshake /\ NothingStranded
  BY DEF Handshake, NothingStranded
<1>6. QED
  BY <1>1, <1>2, <1>3, <1>4, <1>5 DEF ConnectionInv, Types

-----------------------------------------------------------------------------
(***************************************************************************)
(* The clients.                                                            *)
(***************************************************************************)

LEMMA AskPreserves ==
  ASSUME ConnectionInv, NEW c \in Conn, Ask(c)
  PROVE  ConnectionInv'
<1> USE DEF Ask, ConnectionInv, clientVars
<1>1. new_connection_channel_ = NULL /\ new_connection_ = NULL
  BY Names DEF Posted, Handshake, Types, ConnectionTypeOK
<1>2. Types'
  BY DEF Types, ConnectionTypeOK
<1>3. Posted' /\ Requests'
  BY <1>1 DEF Posted, Requests
<1>4. Handshake' /\ NothingStranded'
  BY <1>1 DEF Handshake, NothingStranded
<1>5. QED
  BY <1>2, <1>3, <1>4

LEMMA ReturnPreserves ==
  ASSUME ConnectionInv, NEW c \in Conn, Return(c)
  PROVE  ConnectionInv'
<1> USE DEF Return, ConnectionInv, clientVars
<1>1. Types'
  BY DEF Types, ConnectionTypeOK
<1>2. Posted' /\ Requests'
  BY DEF Posted, Requests
<1>3. open' = open \cup ({new_connection_} \ {NULL})
  OBVIOUS
<1>4. Handshake' /\ NothingStranded'
  BY <1>3 DEF Handshake, NothingStranded
<1>5. QED
  BY <1>1, <1>2, <1>4

(* Putting a message of the right kind into a pipe.                        *)
LEMMA PutPreserves ==
  ASSUME ConnectionInv, NEW s \in Sender, NEW type \in {"message", "link", "unlink"},
         NEW channel \in Channel, type # "message" => channel \in Linkable /\ s = Worker[channel],
         Put(s, type, channel)
  PROVE  pipe' \in [Sender -> Seq(Message)] /\ Requests'
<1> DEFINE m == [type |-> type, channel |-> channel, from |-> s,
                 number |-> IF type = "message" THEN sent[s] + 1 ELSE 0]
<1>1. m \in Message
  BY DEF Message, ConnectionInv, Types
<1>2. Request(m)
  BY DEF Request
<1>3. pipe \in [Sender -> Seq(Message)] /\ pipe' = [pipe EXCEPT ![s] = Append(@, m)]
  BY DEF Put, ConnectionInv, Types, ConnectionTypeOK
<1> HIDE DEF m
<1>4. pipe' \in [Sender -> Seq(Message)]
  BY <1>1, <1>3, AppendProperties
<1>5. SUFFICES ASSUME NEW r \in Sender, NEW i \in 1..Len(pipe'[r])
               PROVE  Request(pipe'[r][i])
  BY <1>4 DEF Requests
<1>6. CASE r # s
  BY <1>3, <1>6 DEF ConnectionInv, Requests
<1>7. CASE r = s
  <2>1. /\ pipe'[r] = Append(pipe[s], m) /\ Len(pipe'[r]) = Len(pipe[s]) + 1
        /\ Len(pipe[s]) \in Nat
        /\ \A j \in 1..Len(pipe[s]) : pipe'[r][j] = pipe[s][j]
        /\ pipe'[r][Len(pipe[s]) + 1] = m
    BY <1>1, <1>3, <1>7, AppendProperties, LenProperties
  <2>2. CASE i = Len(pipe[s]) + 1
    BY <1>2, <2>1, <2>2
  <2>3. CASE i \in 1..Len(pipe[s])
    BY <2>1, <2>3 DEF ConnectionInv, Requests
  <2>4. QED
    BY <2>1, <2>2, <2>3
<1>8. QED
  BY <1>6, <1>7

LEMMA SendPreserves ==
  ASSUME ConnectionInv, NEW s \in Sender, Send(s)
  PROVE  ConnectionInv'
<1>1. Mail[s][sent[s] + 1] \in Channel
  <2>1. Mail[s] \in Seq(Channel) /\ sent[s] \in Nat
    BY ConnectionAssumption DEF ConnectionInv, Types
  <2>2. sent[s] + 1 \in 1..Len(Mail[s])
    BY <2>1, LenProperties DEF Send
  <2>3. QED
    BY <2>1, <2>2, ElementOfSeq
<1>2. pipe' \in [Sender -> Seq(Message)] /\ Requests'
  BY <1>1, PutPreserves DEF Send
<1>3. Types'
  <2>1. sent' \in [Sender -> Nat]
    BY DEF Send, ConnectionInv, Types
  <2>2. ConnectionTypeOK'
    BY <1>2 DEF Send, ConnectionInv, Types, ConnectionTypeOK, callVars, newVars
  <2>3. QED
    BY <2>1, <2>2 DEF Types
<1>4. Posted' /\ Handshake' /\ NothingStranded'
  BY DEF Send, ConnectionInv, Posted, Handshake, NothingStranded, callVars, newVars
<1>5. QED
  BY <1>2, <1>3, <1>4 DEF ConnectionInv

LEMMA LinkChannelPreserves ==
  ASSUME ConnectionInv, NEW channel \in Linkable, LinkChannel(channel)
  PROVE  ConnectionInv'
<1>1. Worker[channel] \in Sender /\ Worker[channel] \in Conn /\ channel \in Channel
  BY Names DEF Sender, Channel
<1>2. pipe' \in [Sender -> Seq(Message)] /\ Requests'
  BY <1>1, PutPreserves DEF LinkChannel
<1>3. Types'
  BY <1>1, <1>2 DEF LinkChannel, ConnectionInv, Types, ConnectionTypeOK, callVars, newVars
<1>4. Posted' /\ Handshake' /\ NothingStranded'
  BY DEF LinkChannel, ConnectionInv, Posted, Handshake, NothingStranded, callVars, newVars
<1>5. QED
  BY <1>2, <1>3, <1>4 DEF ConnectionInv

LEMMA UnlinkChannelPreserves ==
  ASSUME ConnectionInv, NEW channel \in Linkable, UnlinkChannel(channel)
  PROVE  ConnectionInv'
<1>1. Worker[channel] \in Sender /\ Worker[channel] \in Conn /\ channel \in Channel
  BY Names DEF Sender, Channel
<1>2. pipe' \in [Sender -> Seq(Message)] /\ Requests'
  BY <1>1, PutPreserves DEF UnlinkChannel
<1>3. Types'
  BY <1>1, <1>2 DEF UnlinkChannel, ConnectionInv, Types, ConnectionTypeOK, callVars, newVars
<1>4. Posted' /\ Handshake' /\ NothingStranded'
  BY DEF UnlinkChannel, ConnectionInv, Posted, Handshake, NothingStranded, callVars, newVars
<1>5. QED
  BY <1>2, <1>3, <1>4 DEF ConnectionInv

LEMMA GetMessagePreserves ==
  ASSUME ConnectionInv, NEW c \in Conn, GetMessage(c)
  PROVE  ConnectionInv'
<1>1. inbox' \in [Conn -> Seq(Message)]
  <2>1. inbox[c] \in Seq(Message) /\ inbox[c] # <<>>
    BY DEF GetMessage, ConnectionInv, Types, ConnectionTypeOK
  <2>2. Tail(inbox[c]) \in Seq(Message)
    BY <2>1, HeadTailProperties
  <2>3. QED
    BY <2>2 DEF GetMessage, ConnectionInv, Types, ConnectionTypeOK
<1>2. Types'
  BY <1>1 DEF GetMessage, ConnectionInv, Types, ConnectionTypeOK, callVars, newVars
<1>3. Posted' /\ Requests' /\ Handshake' /\ NothingStranded'
  BY DEF GetMessage, ConnectionInv, Posted, Requests, Handshake, NothingStranded, callVars, newVars
<1>4. QED
  BY <1>2, <1>3 DEF ConnectionInv

-----------------------------------------------------------------------------
(***************************************************************************)
(* The multiplexer.                                                        *)
(***************************************************************************)

(* Registering a channel that nobody has.                                  *)
LEMMA RegisterProperties ==
  ASSUME ConnectionInv, NEW channel \in Channel, NEW c \in Conn, Register(channel, c)
  PROVE  /\ DOMAIN inproc_out_' = DOMAIN inproc_out_ \cup {channel}
         /\ \A ch \in DOMAIN inproc_out_ \ {channel} : inproc_out_'[ch] = inproc_out_[ch]
         /\ inproc_out_'[channel] = c
         /\ inbox' \in [Conn -> Seq(Message)]
         /\ undelivered_messages_' \in [Channel -> Seq(Message)]
         /\ NothingStranded'
<1> USE DEF Register
<1>1. inbox \in [Conn -> Seq(Message)] /\ undelivered_messages_ \in [Channel -> Seq(Message)]
  BY DEF ConnectionInv, Types, ConnectionTypeOK
<1>2. inbox[c] \o undelivered_messages_[channel] \in Seq(Message)
  BY <1>1, ConcatProperties
<1>3. inbox' \in [Conn -> Seq(Message)]
  BY <1>1, <1>2
<1>4. undelivered_messages_' \in [Channel -> Seq(Message)]
  BY <1>1, EmptySeq
<1>5. DOMAIN inproc_out_' = DOMAIN inproc_out_ \cup {channel}
  OBVIOUS
<1>6. NothingStranded'
  <2> SUFFICES ASSUME NEW ch \in DOMAIN inproc_out_'
               PROVE  undelivered_messages_'[ch] = <<>>
    BY DEF NothingStranded
  <2>1. ch \in Channel
    BY <1>5 DEF ConnectionInv, Types, ConnectionTypeOK
  <2>2. QED
    BY <1>1, <1>5, <2>1 DEF ConnectionInv, NothingStranded
<1>7. QED
  BY <1>3, <1>4, <1>5, <1>6

LEMMA ServePreserves ==
  ASSUME ConnectionInv, ServeNewConnection
  PROVE  ConnectionInv'
<1> DEFINE c == new_connection_channel_
<1>1. /\ c \in Conn /\ c \in Channel /\ new_connection_mutex_ = c /\ new_connection_ = NULL
      /\ Conn \cap DOMAIN inproc_out_ = open
  BY Names DEF ServeNewConnection, ConnectionInv, Types, ConnectionTypeOK, Posted, Handshake, Channel
<1>2. Requests'
  BY DEF ServeNewConnection, ConnectionInv, Requests
<1>3. CASE Free(c)
  <2>1. Register(c, c) /\ new_connection_' = c /\ new_connection_channel_' = NULL
    BY <1>3 DEF ServeNewConnection
  <2>2. /\ DOMAIN inproc_out_' = DOMAIN inproc_out_ \cup {c}
        /\ \A ch \in DOMAIN inproc_out_ \ {c} : inproc_out_'[ch] = inproc_out_[ch]
        /\ inproc_out_'[c] = c
        /\ inbox' \in [Conn -> Seq(Message)]
        /\ undelivered_messages_' \in [Channel -> Seq(Message)]
        /\ NothingStranded'
    BY <1>1, <2>1, RegisterProperties
  <2> HIDE DEF c
  <2>3. Types'
    BY <1>1, <2>1, <2>2 DEF ServeNewConnection, ConnectionInv, Types, ConnectionTypeOK, callVars, clientVars
  <2>4. Posted'
    BY <2>1 DEF Posted
  <2>5. new_connection_' \notin open'
    BY <1>1, <1>3, <2>1 DEF Free, ServeNewConnection, callVars
  <2>6. Conn \cap DOMAIN inproc_out_' = open' \cup ({new_connection_'} \ {NULL})
    BY <1>1, <2>1, <2>2, Names DEF ServeNewConnection, callVars
  <2>7. \A ch \in DOMAIN inproc_out_' : inproc_out_'[ch] = IF ch \in Conn THEN ch ELSE Worker[ch]
    BY <1>1, <2>2 DEF ConnectionInv, Handshake
  <2>8. Handshake'
    BY <1>1, <2>1, <2>5, <2>6, <2>7 DEF Handshake, ServeNewConnection, callVars
  <2>9. QED
    BY <1>2, <2>2, <2>3, <2>4, <2>8 DEF ConnectionInv
<1>4. CASE ~ Free(c)
  <2>1. /\ new_connection_' = NULL /\ new_connection_channel_' = NULL
        /\ UNCHANGED <<inproc_out_, inbox, undelivered_messages_, pipe, callVars, clientVars>>
    BY <1>4 DEF ServeNewConnection
  <2>2. Types'
    BY <2>1 DEF ConnectionInv, Types, ConnectionTypeOK, callVars, clientVars
  <2>3. Posted' /\ NothingStranded' /\ Handshake'
    BY <1>1, <2>1 DEF ConnectionInv, Posted, NothingStranded, Handshake, callVars
  <2>4. QED
    BY <1>2, <2>2, <2>3 DEF ConnectionInv
<1>5. QED
  BY <1>3, <1>4

(* What a step of the multiplexer does with a message once it has received *)
(* it, without the pipe.                                                   *)
Kept ==
  /\ inbox' \in [Conn -> Seq(Message)]
  /\ undelivered_messages_' \in [Channel -> Seq(Message)]
  /\ DOMAIN inproc_out_' \subseteq Channel
  /\ Conn \cap DOMAIN inproc_out_' = Conn \cap DOMAIN inproc_out_
  /\ \A ch \in DOMAIN inproc_out_' : inproc_out_'[ch] = IF ch \in Conn THEN ch ELSE Worker[ch]
  /\ NothingStranded'

LEMMA DeliverKeeps ==
  ASSUME ConnectionInv, NEW m \in Message, Deliver(m)
  PROVE  Kept
<1>1. /\ inbox \in [Conn -> Seq(Message)] /\ undelivered_messages_ \in [Channel -> Seq(Message)]
      /\ DOMAIN inproc_out_ \subseteq Channel
      /\ \A ch \in DOMAIN inproc_out_ : inproc_out_[ch] \in Conn
      /\ m.channel \in Channel /\ inproc_out_' = inproc_out_
      /\ \A ch \in DOMAIN inproc_out_ : inproc_out_[ch] = IF ch \in Conn THEN ch ELSE Worker[ch]
  BY DEF ConnectionInv, Types, ConnectionTypeOK, Message, Deliver, Handshake
<1>2. CASE m.channel \in DOMAIN inproc_out_
  <2>1. /\ inbox' = [inbox EXCEPT ![inproc_out_[m.channel]] = Append(@, m)]
        /\ undelivered_messages_' = undelivered_messages_
    BY <1>2 DEF Deliver
  <2>2. inbox' \in [Conn -> Seq(Message)]
    BY <1>1, <1>2, <2>1, AppendProperties
  <2>3. NothingStranded'
    BY <1>1, <2>1 DEF ConnectionInv, NothingStranded
  <2>4. QED
    BY <1>1, <2>1, <2>2, <2>3 DEF Kept
<1>3. CASE m.channel \notin DOMAIN inproc_out_
  <2>1. /\ undelivered_messages_' = [undelivered_messages_ EXCEPT ![m.channel] = Append(@, m)]
        /\ inbox' = inbox
    BY <1>3 DEF Deliver
  <2>2. undelivered_messages_' \in [Channel -> Seq(Message)]
    BY <1>1, <2>1, AppendProperties
  <2>3. NothingStranded'
    BY <1>1, <1>3, <2>1 DEF ConnectionInv, NothingStranded
  <2>4. QED
    BY <1>1, <2>1, <2>2, <2>3 DEF Kept
<1>4. QED
  BY <1>2, <1>3

LEMMA LinkKeeps ==
  ASSUME ConnectionInv, NEW m \in Message, m.type = "link", Request(m), Link(m)
  PROVE  Kept
<1>1. /\ m.channel \in Linkable /\ m.channel \in Channel /\ m.channel \notin Conn
      /\ m.from = Worker[m.channel] /\ m.from \in Conn
  BY Names DEF Request, Message, Channel
<1>2. /\ inbox \in [Conn -> Seq(Message)] /\ undelivered_messages_ \in [Channel -> Seq(Message)]
      /\ DOMAIN inproc_out_ \subseteq Channel /\ NothingStranded
      /\ \A ch \in DOMAIN inproc_out_ : inproc_out_[ch] = IF ch \in Conn THEN ch ELSE Worker[ch]
  BY DEF ConnectionInv, Types, ConnectionTypeOK, Handshake
<1>3. CASE m.from \in DOMAIN inproc_out_ /\ Free(m.channel)
  <2>1. inproc_out_[m.from] = m.from
    BY <1>1, <1>2, <1>3
  <2>2. Register(m.channel, m.from)
    BY <1>3, <2>1 DEF Link
  <2>3. /\ DOMAIN inproc_out_' = DOMAIN inproc_out_ \cup {m.channel}
        /\ \A ch \in DOMAIN inproc_out_ \ {m.channel} : inproc_out_'[ch] = inproc_out_[ch]
        /\ inproc_out_'[m.channel] = m.from
        /\ inbox' \in [Conn -> Seq(Message)]
        /\ undelivered_messages_' \in [Channel -> Seq(Message)]
        /\ NothingStranded'
    BY <1>1, <2>2, RegisterProperties
  <2>4. QED
    BY <1>1, <1>2, <2>3 DEF Kept
<1>4. CASE ~ (m.from \in DOMAIN inproc_out_ /\ Free(m.channel))
  <2>1. UNCHANGED <<inproc_out_, inbox, undelivered_messages_>>
    BY <1>4 DEF Link
  <2>2. QED
    BY <1>2, <2>1 DEF Kept, NothingStranded
<1>5. QED
  BY <1>3, <1>4

LEMMA UnlinkKeeps ==
  ASSUME ConnectionInv, NEW m \in Message, m.type = "unlink", Request(m), Unlink(m)
  PROVE  Kept
<1>1. m.channel \notin Conn
  BY Names DEF Request
<1>2. /\ DOMAIN inproc_out_' = DOMAIN inproc_out_ \ {m.channel}
      /\ \A ch \in DOMAIN inproc_out_' : inproc_out_'[ch] = inproc_out_[ch]
      /\ inbox' = inbox /\ undelivered_messages_' = undelivered_messages_
  BY DEF Unlink
<1>3. NothingStranded'
  BY <1>2 DEF ConnectionInv, NothingStranded
<1>4. QED
  BY <1>1, <1>2, <1>3 DEF Kept, ConnectionInv, Types, ConnectionTypeOK, Handshake

LEMMA ForwardPreserves ==
  ASSUME ConnectionInv, NEW s \in Sender, Forward(s)
  PROVE  ConnectionInv'
<1> DEFINE m == Head(pipe[s])
<1>1. pipe[s] \in Seq(Message) /\ pipe[s] # <<>>
  BY DEF Forward, ConnectionInv, Types, ConnectionTypeOK
<1>2. /\ m \in Message /\ m = pipe[s][1] /\ Tail(pipe[s]) \in Seq(Message)
      /\ Len(pipe[s]) \in Nat /\ Len(pipe[s]) >= 1
      /\ Len(Tail(pipe[s])) = Len(pipe[s]) - 1
      /\ \A i \in 1..Len(Tail(pipe[s])) : Tail(pipe[s])[i] = pipe[s][i + 1]
  BY <1>1, HeadTailProperties, LenProperties, EmptySeq
<1>3. Request(m)
  BY <1>2 DEF ConnectionInv, Requests
<1>4. pipe' = [pipe EXCEPT ![s] = Tail(@)] /\ UNCHANGED <<callVars, newVars, clientVars>>
  BY DEF Forward
<1>5. Kept
  <2>1. CASE m.type = "message" /\ Deliver(m)
    BY <1>2, <2>1, DeliverKeeps
  <2>2. CASE m.type = "link" /\ Link(m)
    BY <1>2, <1>3, <2>2, LinkKeeps
  <2>3. CASE m.type = "unlink" /\ Unlink(m)
    BY <1>2, <1>3, <2>3, UnlinkKeeps
  <2>4. QED
    BY <2>1, <2>2, <2>3 DEF Forward
<1> HIDE DEF m
<1>6. pipe \in [Sender -> Seq(Message)] /\ pipe' \in [Sender -> Seq(Message)]
  BY <1>2, <1>4 DEF ConnectionInv, Types, ConnectionTypeOK
<1>7. Requests'
  <2> SUFFICES ASSUME NEW r \in Sender, NEW i \in 1..Len(pipe'[r])
               PROVE  Request(pipe'[r][i])
    BY DEF Requests
  <2>1. CASE r # s
    BY <1>4, <1>6, <2>1 DEF ConnectionInv, Requests
  <2>2. CASE r = s
    <3>1. pipe'[r] = Tail(pipe[s])
      BY <1>4, <1>6, <2>2
    <3>2. i + 1 \in 1..Len(pipe[s]) /\ pipe'[r][i] = pipe[s][i + 1]
      BY <1>2, <3>1
    <3>3. QED
      BY <3>2 DEF ConnectionInv, Requests
  <2>3. QED
    BY <2>1, <2>2
<1>8. Types'
  <2>1. \A ch \in DOMAIN inproc_out_' : inproc_out_'[ch] \in Conn
    BY <1>5, Names DEF Kept, Channel
  <2>2. QED
    BY <1>4, <1>5, <1>6, <2>1 DEF Kept, ConnectionInv, Types, ConnectionTypeOK, callVars, newVars, clientVars
<1>9. Posted' /\ Handshake' /\ NothingStranded'
  BY <1>4, <1>5 DEF Kept, ConnectionInv, Posted, Handshake, callVars, newVars
<1>10. QED
  BY <1>7, <1>8, <1>9 DEF ConnectionInv

-----------------------------------------------------------------------------
LEMMA NextPreserves == ConnectionInv /\ [Next]_vars => ConnectionInv'
<1> SUFFICES ASSUME ConnectionInv, [Next]_vars PROVE ConnectionInv'
  OBVIOUS
<1>1. ASSUME NEW c \in Conn, Ask(c) \/ Return(c) \/ GetMessage(c) PROVE ConnectionInv'
  BY <1>1, AskPreserves, ReturnPreserves, GetMessagePreserves
<1>2. ASSUME NEW s \in Sender, Send(s) PROVE ConnectionInv'
  BY <1>2, SendPreserves
<1>3. ASSUME NEW channel \in Linkable, LinkChannel(channel) \/ UnlinkChannel(channel)
      PROVE  ConnectionInv'
  BY <1>3, LinkChannelPreserves, UnlinkChannelPreserves
<1>4. CASE Run
  BY <1>4, ServePreserves, ForwardPreserves DEF Run
<1>5. CASE UNCHANGED vars
  BY <1>5 DEF vars, callVars, newVars, clientVars, ConnectionInv, Types, ConnectionTypeOK,
              Posted, Requests, Handshake, NothingStranded
<1>6. QED
  BY <1>1, <1>2, <1>3, <1>4, <1>5 DEF Next

LEMMA Invariance == Spec => []ConnectionInv
BY InitInv, NextPreserves, PTL DEF Spec

(* Every name is given out once, to the caller that asked for it, and      *)
(* every channel the multiplexer knows leads to the connection it belongs  *)
(* to (connection.cc:97-161 and 188-214).                                  *)
THEOREM HandshakeCorrect == Spec => []Handshake
<1>1. ConnectionInv => Handshake
  BY DEF ConnectionInv
<1>2. QED
  BY <1>1, Invariance, PTL

(* No message is kept aside for a channel that somebody listens on         *)
(* (connection.h:100-102).                                                 *)
THEOREM NobodyWaitsForKept == Spec => []NothingStranded
<1>1. ConnectionInv => NothingStranded
  BY DEF ConnectionInv
<1>2. QED
  BY <1>1, Invariance, PTL

-----------------------------------------------------------------------------
(***************************************************************************)
(* What is in a sequence of messages, of those that one sender sent to one *)
(* channel: their numbers, and whether they ascend.  A sequence that is    *)
(* put together or taken apart has those of its parts.                     *)
(***************************************************************************)

Before(A, B) == \A x \in A, y \in B : x < y

Number(m, s, ch) == IF Belongs(m, s, ch) THEN {m.number} ELSE {}

LEMMA BeforeParts ==
  ASSUME NEW A, NEW B, NEW C
  PROVE  /\ Before(A \cup B, C) <=> Before(A, C) /\ Before(B, C)
         /\ Before(C, A \cup B) <=> Before(C, A) /\ Before(C, B)
         /\ Before({}, C) /\ Before(C, {})
BY DEF Before

LEMMA NumbersByIndex ==
  ASSUME NEW q \in Seq(Message), NEW s, NEW ch
  PROVE  /\ \A i \in 1..Len(q) : Belongs(q[i], s, ch) => q[i].number \in Numbers(q, s, ch)
         /\ \A x \in Numbers(q, s, ch) : \E i \in 1..Len(q) : Belongs(q[i], s, ch) /\ x = q[i].number
         /\ Ascending(q, s, ch) <=>
              \A i, j \in 1..Len(q) :
                i < j /\ Belongs(q[i], s, ch) /\ Belongs(q[j], s, ch) => q[i].number < q[j].number
<1>1. DOMAIN q = 1..Len(q)
  BY LenProperties
<1> QED
  BY <1>1 DEF Numbers, Ascending

LEMMA NumbersOfConcat ==
  ASSUME NEW p \in Seq(Message), NEW q \in Seq(Message), NEW s, NEW ch
  PROVE  /\ Numbers(p \o q, s, ch) = Numbers(p, s, ch) \cup Numbers(q, s, ch)
         /\ Ascending(p \o q, s, ch) <=>
              /\ Ascending(p, s, ch) /\ Ascending(q, s, ch)
              /\ Before(Numbers(p, s, ch), Numbers(q, s, ch))
<1> DEFINE r == p \o q
<1>1. /\ r \in Seq(Message) /\ Len(r) = Len(p) + Len(q)
      /\ \A i \in 1..(Len(p) + Len(q)) : r[i] = IF i <= Len(p) THEN p[i] ELSE q[i - Len(p)]
      /\ Len(p) \in Nat /\ Len(q) \in Nat
  BY ConcatProperties, LenProperties
<1> HIDE DEF r
<1>2. /\ \A i \in 1..Len(p) : i \in 1..Len(r) /\ r[i] = p[i]
      /\ \A i \in 1..Len(q) : i + Len(p) \in 1..Len(r) /\ i + Len(p) > Len(p) /\ r[i + Len(p)] = q[i]
  <2>1. \A i \in 1..Len(p) : i \in 1..Len(r) /\ r[i] = p[i]
    BY <1>1
  <2>2. ASSUME NEW i \in 1..Len(q)
        PROVE  i + Len(p) \in 1..Len(r) /\ i + Len(p) > Len(p) /\ r[i + Len(p)] = q[i]
    <3>1. i + Len(p) \in 1..(Len(p) + Len(q)) /\ ~ (i + Len(p) <= Len(p)) /\ (i + Len(p)) - Len(p) = i
      BY <1>1
    <3> QED
      BY <1>1, <3>1
  <2> QED
    BY <2>1, <2>2
<1>3. \A i \in 1..Len(r) :
        \/ i \in 1..Len(p) /\ r[i] = p[i]
        \/ i > Len(p) /\ i - Len(p) \in 1..Len(q) /\ r[i] = q[i - Len(p)]
  BY <1>1
<1>4. Numbers(r, s, ch) = Numbers(p, s, ch) \cup Numbers(q, s, ch)
  <2>1. ASSUME NEW x \in Numbers(r, s, ch)
        PROVE  x \in Numbers(p, s, ch) \cup Numbers(q, s, ch)
    <3>1. PICK i \in 1..Len(r) : Belongs(r[i], s, ch) /\ x = r[i].number
      BY <1>1, NumbersByIndex
    <3> QED
      BY <1>3, <3>1, NumbersByIndex
  <2>2. ASSUME NEW x \in Numbers(p, s, ch)
        PROVE  x \in Numbers(r, s, ch)
    <3>1. PICK i \in 1..Len(p) : Belongs(p[i], s, ch) /\ x = p[i].number
      BY NumbersByIndex
    <3> QED
      BY <1>1, <1>2, <3>1, NumbersByIndex
  <2>3. ASSUME NEW x \in Numbers(q, s, ch)
        PROVE  x \in Numbers(r, s, ch)
    <3>1. PICK i \in 1..Len(q) : Belongs(q[i], s, ch) /\ x = q[i].number
      BY NumbersByIndex
    <3>2. i + Len(p) \in 1..Len(r) /\ r[i + Len(p)] = q[i]
      BY <1>2
    <3> QED
      BY <1>1, <3>1, <3>2, NumbersByIndex
  <2> QED
    BY <2>1, <2>2, <2>3
<1>5. ASSUME Ascending(r, s, ch)
      PROVE  Ascending(p, s, ch) /\ Ascending(q, s, ch) /\ Before(Numbers(p, s, ch), Numbers(q, s, ch))
  <2>1. \A i, j \in 1..Len(r) :
          i < j /\ Belongs(r[i], s, ch) /\ Belongs(r[j], s, ch) => r[i].number < r[j].number
    BY <1>1, <1>5, NumbersByIndex
  <2>2. Ascending(p, s, ch)
    BY <1>2, <2>1, NumbersByIndex
  <2>3. Ascending(q, s, ch)
    <3> SUFFICES ASSUME NEW i \in 1..Len(q), NEW j \in 1..Len(q),
                        i < j, Belongs(q[i], s, ch), Belongs(q[j], s, ch)
                 PROVE  q[i].number < q[j].number
      BY NumbersByIndex
    <3>1. i + Len(p) < j + Len(p)
      BY <1>1
    <3> QED
      BY <1>2, <2>1, <3>1
  <2>4. ASSUME NEW x \in Numbers(p, s, ch), NEW y \in Numbers(q, s, ch)
        PROVE  x < y
    <3>1. PICK i \in 1..Len(p) : Belongs(p[i], s, ch) /\ x = p[i].number
      BY NumbersByIndex
    <3>2. PICK j \in 1..Len(q) : Belongs(q[j], s, ch) /\ y = q[j].number
      BY NumbersByIndex
    <3>3. i < j + Len(p)
      BY <1>1
    <3> QED
      BY <1>2, <2>1, <3>1, <3>2, <3>3
  <2> QED
    BY <2>2, <2>3, <2>4 DEF Before
<1>6. ASSUME Ascending(p, s, ch), Ascending(q, s, ch), Before(Numbers(p, s, ch), Numbers(q, s, ch))
      PROVE  Ascending(r, s, ch)
  <2> SUFFICES ASSUME NEW i \in 1..Len(r), NEW j \in 1..Len(r),
                      i < j, Belongs(r[i], s, ch), Belongs(r[j], s, ch)
               PROVE  r[i].number < r[j].number
    BY <1>1, NumbersByIndex
  <2>1. CASE j \in 1..Len(p)
    <3>1. i \in 1..Len(p) /\ r[i] = p[i] /\ r[j] = p[j]
      BY <1>1, <1>2, <2>1
    <3> QED
      BY <1>6, <2>1, <3>1, NumbersByIndex
  <2>2. CASE i \in 1..Len(p) /\ j \notin 1..Len(p)
    <3>1. r[i].number \in Numbers(p, s, ch)
      BY <1>2, <2>2, NumbersByIndex
    <3>2. r[j].number \in Numbers(q, s, ch)
      BY <1>3, <2>2, NumbersByIndex
    <3> QED
      BY <1>6, <3>1, <3>2 DEF Before
  <2>3. CASE i \notin 1..Len(p) /\ j \notin 1..Len(p)
    <3>1. /\ i - Len(p) \in 1..Len(q) /\ r[i] = q[i - Len(p)]
          /\ j - Len(p) \in 1..Len(q) /\ r[j] = q[j - Len(p)]
      BY <1>3, <2>3
    <3>2. i - Len(p) < j - Len(p)
      BY <1>1
    <3>3. Belongs(q[i - Len(p)], s, ch) /\ Belongs(q[j - Len(p)], s, ch)
      BY <3>1
    <3>4. \A k, l \in 1..Len(q) : k < l /\ Belongs(q[k], s, ch) /\ Belongs(q[l], s, ch) =>
            q[k].number < q[l].number
      BY <1>6, NumbersByIndex
    <3>5. q[i - Len(p)].number < q[j - Len(p)].number
      BY <3>1, <3>2, <3>3, <3>4
    <3> QED
      BY <3>1, <3>5
  <2> QED
    BY <2>1, <2>2, <2>3
<1> QED
  BY <1>4, <1>5, <1>6 DEF r

LEMMA AscendingConcat ==
  ASSUME NEW p \in Seq(Message), NEW q \in Seq(Message), NEW s, NEW ch,
         Ascending(p, s, ch), Ascending(q, s, ch), Before(Numbers(p, s, ch), Numbers(q, s, ch))
  PROVE  /\ p \o q \in Seq(Message) /\ Ascending(p \o q, s, ch)
         /\ Numbers(p \o q, s, ch) = Numbers(p, s, ch) \cup Numbers(q, s, ch)
BY NumbersOfConcat, ConcatProperties

LEMMA NumbersOfOne ==
  ASSUME NEW m \in Message, NEW s, NEW ch
  PROVE  /\ <<m>> \in Seq(Message)
         /\ Numbers(<<m>>, s, ch) = Number(m, s, ch) /\ Ascending(<<m>>, s, ch)
<1> DEFINE one == <<m>>
<1>1. one \in Seq(Message) /\ Len(one) = 1 /\ one[1] = m
  OBVIOUS
<1> HIDE DEF one
<1>2. 1 \in 1..Len(one) /\ \A i \in 1..Len(one) : i = 1
  BY <1>1
<1>3. Ascending(one, s, ch)
  <2> SUFFICES \A i, j \in 1..Len(one) : ~ (i < j)
    BY <1>1, NumbersByIndex
  <2> QED
    BY <1>2
<1>4. \A x \in Numbers(one, s, ch) : Belongs(m, s, ch) /\ x = m.number
  BY <1>1, <1>2, NumbersByIndex
<1>5. Belongs(m, s, ch) => m.number \in Numbers(one, s, ch)
  BY <1>1, <1>2, NumbersByIndex
<1>6. Numbers(one, s, ch) = Number(m, s, ch)
  BY <1>4, <1>5 DEF Number
<1> QED
  BY <1>1, <1>3, <1>6 DEF one

LEMMA NumbersOfNone ==
  ASSUME NEW s, NEW ch
  PROVE  Numbers(<<>>, s, ch) = {} /\ Ascending(<<>>, s, ch) /\ <<>> \in Seq(Message)
BY DEF Numbers, Ascending

LEMMA NumbersOfAppend ==
  ASSUME NEW q \in Seq(Message), NEW m \in Message, NEW s, NEW ch
  PROVE  /\ Numbers(Append(q, m), s, ch) = Numbers(q, s, ch) \cup Number(m, s, ch)
         /\ Ascending(Append(q, m), s, ch) <=>
              Ascending(q, s, ch) /\ Before(Numbers(q, s, ch), Number(m, s, ch))
<1> DEFINE one == <<m>>
<1>1. one \in Seq(Message) /\ Numbers(one, s, ch) = Number(m, s, ch) /\ Ascending(one, s, ch)
  BY NumbersOfOne
<1>2. Append(q, m) = q \o one
  BY AppendIsConcat
<1> HIDE DEF one
<1>3. /\ Numbers(q \o one, s, ch) = Numbers(q, s, ch) \cup Number(m, s, ch)
      /\ Ascending(q \o one, s, ch) <=>
           Ascending(q, s, ch) /\ Before(Numbers(q, s, ch), Number(m, s, ch))
  BY <1>1, NumbersOfConcat
<1> QED
  BY <1>2, <1>3

LEMMA NumbersOfTail ==
  ASSUME NEW q \in Seq(Message), q # <<>>, NEW s, NEW ch
  PROVE  /\ Head(q) \in Message /\ Tail(q) \in Seq(Message)
         /\ Numbers(q, s, ch) = Number(Head(q), s, ch) \cup Numbers(Tail(q), s, ch)
         /\ Ascending(q, s, ch) <=>
              /\ Ascending(Tail(q), s, ch)
              /\ Before(Number(Head(q), s, ch), Numbers(Tail(q), s, ch))
<1> DEFINE h == Head(q)
           t == Tail(q)
<1>1. /\ h \in Message /\ t \in Seq(Message) /\ Len(t) = Len(q) - 1
      /\ \A i \in 1..Len(t) : t[i] = q[i + 1]
      /\ h = q[1] /\ Len(q) \in Nat /\ Len(q) # 0
  BY HeadTailProperties, LenProperties, EmptySeq
<1>2. q = <<h>> \o t
  <2>1. <<h>> \in Seq(Message) /\ Len(<<h>>) = 1 /\ <<h>>[1] = h
    BY <1>1
  <2> DEFINE r == <<h>> \o t
  <2>2. /\ r \in Seq(Message) /\ Len(r) = Len(q)
        /\ \A i \in 1..Len(q) : r[i] = IF i <= 1 THEN h ELSE t[i - 1]
    BY <1>1, <2>1, ConcatProperties, LenProperties
  <2> HIDE DEF r, h, t
  <2>3. \A i \in 1..Len(q) : r[i] = q[i]
    BY <1>1, <2>2
  <2>4. r = q
    BY <2>2, <2>3, SeqEqual
  <2> QED
    BY <2>4 DEF r
<1> DEFINE one == <<h>>
<1> HIDE DEF h, t
<1>3. one \in Seq(Message) /\ Numbers(one, s, ch) = Number(h, s, ch) /\ Ascending(one, s, ch)
  BY <1>1, NumbersOfOne
<1>4. q = one \o t
  BY <1>2
<1> HIDE DEF one
<1>5. /\ Numbers(one \o t, s, ch) = Number(h, s, ch) \cup Numbers(t, s, ch)
      /\ Ascending(one \o t, s, ch) <=>
           Ascending(t, s, ch) /\ Before(Number(h, s, ch), Numbers(t, s, ch))
  BY <1>1, <1>3, NumbersOfConcat
<1> QED
  BY <1>1, <1>4, <1>5 DEF h, t

-----------------------------------------------------------------------------
(***************************************************************************)
(* Where the messages are.  Along its way, what one sender sent to one     *)
(* channel lies in four places, in this order; nothing of it is in the     *)
(* pipe of another sender, kept aside for another channel or with another  *)
(* connection.                                                             *)
(***************************************************************************)

SentNumbers(s, ch) == {i \in 1..sent[s] : Mail[s][i] = ch}

Chain(a, b, k, d, s, ch) ==
  /\ Ascending(a, s, ch) /\ Ascending(b, s, ch) /\ Ascending(k, s, ch) /\ Ascending(d, s, ch)
  /\ Before(Numbers(a, s, ch), Numbers(b, s, ch)) /\ Before(Numbers(a, s, ch), Numbers(k, s, ch))
  /\ Before(Numbers(a, s, ch), Numbers(d, s, ch)) /\ Before(Numbers(b, s, ch), Numbers(k, s, ch))
  /\ Before(Numbers(b, s, ch), Numbers(d, s, ch)) /\ Before(Numbers(k, s, ch), Numbers(d, s, ch))

Union(a, b, k, d, s, ch) ==
  Numbers(a, s, ch) \cup Numbers(b, s, ch) \cup Numbers(k, s, ch) \cup Numbers(d, s, ch)

Sequel(s, ch) ==
  LET a == received[Owner(ch)]
      b == inbox[Owner(ch)]
      k == undelivered_messages_[ch]
      d == pipe[s]
  IN
  Chain(a, b, k, d, s, ch) /\ Union(a, b, k, d, s, ch) = SentNumbers(s, ch)

OrderInv ==
  /\ received \in [Conn -> Seq(Message)]
  /\ \A r, s \in Sender, ch \in Channel : r # s => Numbers(pipe[r], s, ch) = {}
  /\ \A k, ch \in Channel, s \in Sender : k # ch => Numbers(undelivered_messages_[k], s, ch) = {}
  /\ \A c \in Conn, ch \in Channel, s \in Sender :
       c # Owner(ch) => Numbers(received[c], s, ch) = {} /\ Numbers(inbox[c], s, ch) = {}
  /\ \A s \in Sender, ch \in Channel : Sequel(s, ch)

LEMMA Owners == ASSUME NEW ch \in Channel PROVE Owner(ch) \in Conn
BY ConnectionAssumption DEF Owner, Channel

LEMMA Queues ==
  ASSUME ConnectionInv
  PROVE  /\ undelivered_messages_ \in [Channel -> Seq(Message)]
         /\ pipe \in [Sender -> Seq(Message)] /\ inbox \in [Conn -> Seq(Message)]
         /\ sent \in [Sender -> Nat]
BY DEF ConnectionInv, Types, ConnectionTypeOK

LEMMA OrderMeansInOrder == ConnectionInv /\ OrderInv => InOrder
<1> SUFFICES ASSUME ConnectionInv, OrderInv, NEW s \in Sender, NEW ch \in Channel
             PROVE  /\ Ascending(Way(s, ch), s, ch)
                    /\ Numbers(Way(s, ch), s, ch) = SentNumbers(s, ch)
                    /\ \A c \in Conn \ {Owner(ch)} : Numbers(received[c] \o inbox[c], s, ch) = {}
  BY DEF InOrder, SentNumbers
<1> DEFINE a == received[Owner(ch)]
           b == inbox[Owner(ch)]
           k == undelivered_messages_[ch]
           d == pipe[s]
<1>1. a \in Seq(Message) /\ b \in Seq(Message) /\ k \in Seq(Message) /\ d \in Seq(Message)
  BY Owners, Queues DEF OrderInv
<1>2. Sequel(s, ch) /\ Way(s, ch) = ((a \o b) \o k) \o d
  BY DEF OrderInv, Way
<1>3. /\ Ascending(a, s, ch) /\ Ascending(b, s, ch) /\ Ascending(k, s, ch) /\ Ascending(d, s, ch)
      /\ Before(Numbers(a, s, ch), Numbers(b, s, ch)) /\ Before(Numbers(a, s, ch), Numbers(k, s, ch))
      /\ Before(Numbers(a, s, ch), Numbers(d, s, ch)) /\ Before(Numbers(b, s, ch), Numbers(k, s, ch))
      /\ Before(Numbers(b, s, ch), Numbers(d, s, ch)) /\ Before(Numbers(k, s, ch), Numbers(d, s, ch))
      /\ Numbers(a, s, ch) \cup Numbers(b, s, ch) \cup Numbers(k, s, ch) \cup Numbers(d, s, ch)
           = SentNumbers(s, ch)
  BY <1>2 DEF Sequel, Chain, Union
<1> HIDE DEF a, b, k, d
<1> DEFINE ab == a \o b
           abk == ab \o k
<1>4. /\ ab \in Seq(Message) /\ Ascending(ab, s, ch)
      /\ Numbers(ab, s, ch) = Numbers(a, s, ch) \cup Numbers(b, s, ch)
  BY <1>1, <1>3, NumbersOfConcat, ConcatProperties
<1> HIDE DEF ab
<1>5. /\ abk \in Seq(Message) /\ Ascending(abk, s, ch)
      /\ Numbers(abk, s, ch) = Numbers(ab, s, ch) \cup Numbers(k, s, ch)
  <2>1. Before(Numbers(a, s, ch) \cup Numbers(b, s, ch), Numbers(k, s, ch))
    BY <1>3, BeforeParts
  <2>2. Before(Numbers(ab, s, ch), Numbers(k, s, ch))
    BY <1>4, <2>1
  <2>3. ab \in Seq(Message) /\ k \in Seq(Message)
    BY <1>1, <1>4
  <2>4. Ascending(ab, s, ch) /\ Ascending(k, s, ch)
    BY <1>3, <1>4
  <2> QED
    BY <2>2, <2>3, <2>4, AscendingConcat
<1> HIDE DEF abk
<1>6. /\ Ascending(abk \o d, s, ch)
      /\ Numbers(abk \o d, s, ch) = Numbers(abk, s, ch) \cup Numbers(d, s, ch)
  <2>1. Before(Numbers(a, s, ch) \cup Numbers(b, s, ch), Numbers(d, s, ch))
    BY <1>3, BeforeParts
  <2>2. Before((Numbers(a, s, ch) \cup Numbers(b, s, ch)) \cup Numbers(k, s, ch), Numbers(d, s, ch))
    BY <1>3, <2>1, BeforeParts
  <2>3. Before(Numbers(abk, s, ch), Numbers(d, s, ch))
    BY <1>4, <1>5, <2>2
  <2>4. abk \in Seq(Message) /\ d \in Seq(Message)
    BY <1>1, <1>5
  <2>5. Ascending(abk, s, ch) /\ Ascending(d, s, ch)
    BY <1>3, <1>5
  <2> QED
    BY <2>3, <2>4, <2>5, AscendingConcat
<1>7. ASSUME NEW c \in Conn \ {Owner(ch)}
      PROVE  Numbers(received[c] \o inbox[c], s, ch) = {}
  <2>1. received[c] \in Seq(Message) /\ inbox[c] \in Seq(Message)
    BY Queues DEF OrderInv
  <2>2. Numbers(received[c], s, ch) = {} /\ Numbers(inbox[c], s, ch) = {}
    BY DEF OrderInv
  <2> QED
    BY <2>1, <2>2, NumbersOfConcat
<1> QED
  BY <1>2, <1>3, <1>4, <1>5, <1>6, <1>7 DEF ab, abk

LEMMA OrderInit == Init => OrderInv
<1> SUFFICES ASSUME Init PROVE OrderInv
  OBVIOUS
<1>1. /\ \A c \in Conn : received[c] = <<>> /\ inbox[c] = <<>>
      /\ \A ch \in Channel : undelivered_messages_[ch] = <<>>
      /\ \A s \in Sender : pipe[s] = <<>> /\ sent[s] = 0
  BY DEF Init
<1>2. received \in [Conn -> Seq(Message)]
  BY EmptySeq DEF Init
<1>3. ASSUME NEW s \in Sender, NEW ch \in Channel PROVE Sequel(s, ch)
  <2>1. SentNumbers(s, ch) = {}
    BY <1>1 DEF SentNumbers
  <2>2. Owner(ch) \in Conn
    BY Owners
  <2> QED
    BY <1>1, <2>1, <2>2, NumbersOfNone DEF Sequel, Chain, Union, Before
<1> QED
  BY <1>1, <1>2, <1>3, NumbersOfNone DEF OrderInv

-----------------------------------------------------------------------------
(* What the steps do to the four places: a message is added behind         *)
(* everything, ...                                                         *)
LEMMA ChainSend ==
  ASSUME NEW a \in Seq(Message), NEW b \in Seq(Message), NEW k \in Seq(Message),
         NEW d \in Seq(Message), NEW s, NEW ch, Chain(a, b, k, d, s, ch),
         NEW m \in Message, Before(Union(a, b, k, d, s, ch), Number(m, s, ch))
  PROVE  /\ Chain(a, b, k, Append(d, m), s, ch)
         /\ Union(a, b, k, Append(d, m), s, ch) = Union(a, b, k, d, s, ch) \cup Number(m, s, ch)
<1> DEFINE e == Append(d, m)
<1>1. /\ Numbers(e, s, ch) = Numbers(d, s, ch) \cup Number(m, s, ch)
      /\ Ascending(e, s, ch) <=> Ascending(d, s, ch) /\ Before(Numbers(d, s, ch), Number(m, s, ch))
  BY NumbersOfAppend
<1> HIDE DEF e
<1>2. Union(a, b, k, e, s, ch) = Union(a, b, k, d, s, ch) \cup Number(m, s, ch)
  BY <1>1 DEF Union
<1>3. Chain(a, b, k, e, s, ch)
  BY <1>1 DEF Chain, Union, Before
<1> QED
  BY <1>2, <1>3 DEF e

(* ... the first of the inbox is received, ...                             *)
LEMMA ChainGet ==
  ASSUME NEW a \in Seq(Message), NEW b \in Seq(Message), NEW k \in Seq(Message),
         NEW d \in Seq(Message), NEW s, NEW ch, Chain(a, b, k, d, s, ch), b # <<>>
  PROVE  /\ Chain(Append(a, Head(b)), Tail(b), k, d, s, ch)
         /\ Union(Append(a, Head(b)), Tail(b), k, d, s, ch) = Union(a, b, k, d, s, ch)
<1> DEFINE h == Head(b)
           t == Tail(b)
           e == Append(a, h)
<1>1. /\ h \in Message /\ Numbers(b, s, ch) = Number(h, s, ch) \cup Numbers(t, s, ch)
      /\ Ascending(t, s, ch) /\ Before(Number(h, s, ch), Numbers(t, s, ch))
  BY NumbersOfTail DEF Chain
<1> HIDE DEF h, t
<1>2. /\ Numbers(e, s, ch) = Numbers(a, s, ch) \cup Number(h, s, ch)
      /\ Ascending(e, s, ch) <=> Ascending(a, s, ch) /\ Before(Numbers(a, s, ch), Number(h, s, ch))
  BY <1>1, NumbersOfAppend
<1> HIDE DEF e
<1>3. Union(e, t, k, d, s, ch) = Union(a, b, k, d, s, ch)
  BY <1>1, <1>2 DEF Union
<1>4. Chain(e, t, k, d, s, ch)
  BY <1>1, <1>2 DEF Chain, Before
<1> QED
  BY <1>3, <1>4 DEF h, t, e

(* ... what was kept aside goes to the inbox, ...                          *)
LEMMA ChainRegister ==
  ASSUME NEW a \in Seq(Message), NEW b \in Seq(Message), NEW k \in Seq(Message),
         NEW d \in Seq(Message), NEW s, NEW ch, Chain(a, b, k, d, s, ch)
  PROVE  /\ Chain(a, b \o k, <<>>, d, s, ch)
         /\ Union(a, b \o k, <<>>, d, s, ch) = Union(a, b, k, d, s, ch)
<1> DEFINE e == b \o k
           none == <<>>
<1>1. Numbers(e, s, ch) = Numbers(b, s, ch) \cup Numbers(k, s, ch) /\ Ascending(e, s, ch)
  BY AscendingConcat DEF Chain
<1>2. Numbers(none, s, ch) = {} /\ Ascending(none, s, ch)
  BY NumbersOfNone
<1> HIDE DEF e, none
<1>3. Union(a, e, none, d, s, ch) = Union(a, b, k, d, s, ch)
  BY <1>1, <1>2 DEF Union
<1>4. Chain(a, e, none, d, s, ch)
  BY <1>1, <1>2 DEF Chain, Before
<1> QED
  BY <1>3, <1>4 DEF e, none

(* ... and the first of the pipe is kept aside, or goes to the inbox if    *)
(* nothing is.                                                             *)
LEMMA ChainKeep ==
  ASSUME NEW a \in Seq(Message), NEW b \in Seq(Message), NEW k \in Seq(Message),
         NEW d \in Seq(Message), NEW s, NEW ch, Chain(a, b, k, d, s, ch), d # <<>>
  PROVE  /\ Chain(a, b, Append(k, Head(d)), Tail(d), s, ch)
         /\ Union(a, b, Append(k, Head(d)), Tail(d), s, ch) = Union(a, b, k, d, s, ch)
<1> DEFINE h == Head(d)
           t == Tail(d)
           e == Append(k, h)
<1>1. /\ h \in Message /\ Numbers(d, s, ch) = Number(h, s, ch) \cup Numbers(t, s, ch)
      /\ Ascending(t, s, ch) /\ Before(Number(h, s, ch), Numbers(t, s, ch))
  BY NumbersOfTail DEF Chain
<1> HIDE DEF h, t
<1>2. /\ Numbers(e, s, ch) = Numbers(k, s, ch) \cup Number(h, s, ch)
      /\ Ascending(e, s, ch) <=> Ascending(k, s, ch) /\ Before(Numbers(k, s, ch), Number(h, s, ch))
  BY <1>1, NumbersOfAppend
<1> HIDE DEF e
<1>3. Union(a, b, e, t, s, ch) = Union(a, b, k, d, s, ch)
  BY <1>1, <1>2 DEF Union
<1>4. Chain(a, b, e, t, s, ch)
  BY <1>1, <1>2 DEF Chain, Before
<1> QED
  BY <1>3, <1>4 DEF h, t, e

LEMMA ChainDeliver ==
  ASSUME NEW a \in Seq(Message), NEW b \in Seq(Message),
         NEW d \in Seq(Message), NEW s, NEW ch, Chain(a, b, <<>>, d, s, ch), d # <<>>
  PROVE  /\ Chain(a, Append(b, Head(d)), <<>>, Tail(d), s, ch)
         /\ Union(a, Append(b, Head(d)), <<>>, Tail(d), s, ch) = Union(a, b, <<>>, d, s, ch)
<1> DEFINE h == Head(d)
           t == Tail(d)
           e == Append(b, h)
           none == <<>>
<1>1. /\ h \in Message /\ Numbers(d, s, ch) = Number(h, s, ch) \cup Numbers(t, s, ch)
      /\ Ascending(t, s, ch) /\ Before(Number(h, s, ch), Numbers(t, s, ch))
  BY NumbersOfTail DEF Chain
<1>0. Numbers(none, s, ch) = {} /\ Ascending(none, s, ch) /\ Chain(a, b, none, d, s, ch)
  BY NumbersOfNone
<1> HIDE DEF h, t, none
<1>2. /\ Numbers(e, s, ch) = Numbers(b, s, ch) \cup Number(h, s, ch)
      /\ Ascending(e, s, ch) <=> Ascending(b, s, ch) /\ Before(Numbers(b, s, ch), Number(h, s, ch))
  BY <1>1, NumbersOfAppend
<1> HIDE DEF e
<1>3. Union(a, e, none, t, s, ch) = Union(a, b, none, d, s, ch)
  BY <1>0, <1>1, <1>2 DEF Union
<1>4. Chain(a, e, none, t, s, ch)
  BY <1>0, <1>1, <1>2 DEF Chain, Before
<1> QED
  BY <1>3, <1>4 DEF h, t, e, none

(* Only the numbers matter.                                                *)
Alike(q, r, s, ch) ==
  Numbers(r, s, ch) = Numbers(q, s, ch) /\ (Ascending(r, s, ch) <=> Ascending(q, s, ch))

LEMMA ChainAlike ==
  ASSUME NEW a, NEW b, NEW k, NEW d, NEW aa, NEW bb, NEW kk, NEW dd, NEW s, NEW ch,
         Chain(a, b, k, d, s, ch),
         Alike(a, aa, s, ch), Alike(b, bb, s, ch), Alike(k, kk, s, ch), Alike(d, dd, s, ch)
  PROVE  /\ Chain(aa, bb, kk, dd, s, ch)
         /\ Union(aa, bb, kk, dd, s, ch) = Union(a, b, k, d, s, ch)
BY DEF Alike, Chain, Union

LEMMA AlikeConcat ==
  ASSUME NEW p \in Seq(Message), NEW q \in Seq(Message), NEW s, NEW ch, Numbers(q, s, ch) = {}
  PROVE  Alike(p, p \o q, s, ch)
<1>1. Ascending(q, s, ch)
  BY NumbersByIndex
<1>2. Before(Numbers(p, s, ch), Numbers(q, s, ch))
  BY BeforeParts
<1>3. /\ Numbers(p \o q, s, ch) = Numbers(p, s, ch) \cup Numbers(q, s, ch)
      /\ Ascending(p \o q, s, ch) <=>
           /\ Ascending(p, s, ch) /\ Ascending(q, s, ch)
           /\ Before(Numbers(p, s, ch), Numbers(q, s, ch))
  BY NumbersOfConcat
<1> QED
  BY <1>1, <1>2, <1>3 DEF Alike

LEMMA AlikeAppend ==
  ASSUME NEW q \in Seq(Message), NEW m \in Message, NEW s, NEW ch, Number(m, s, ch) = {}
  PROVE  Alike(q, Append(q, m), s, ch)
<1>1. /\ Numbers(Append(q, m), s, ch) = Numbers(q, s, ch) \cup Number(m, s, ch)
      /\ Ascending(Append(q, m), s, ch) <=>
           Ascending(q, s, ch) /\ Before(Numbers(q, s, ch), Number(m, s, ch))
  BY NumbersOfAppend
<1>2. Before(Numbers(q, s, ch), Number(m, s, ch))
  BY BeforeParts
<1> QED
  BY <1>1, <1>2 DEF Alike

LEMMA AlikeTail ==
  ASSUME NEW q \in Seq(Message), q # <<>>, NEW s, NEW ch, Number(Head(q), s, ch) = {}
  PROVE  Alike(q, Tail(q), s, ch)
<1>1. /\ Numbers(q, s, ch) = Number(Head(q), s, ch) \cup Numbers(Tail(q), s, ch)
      /\ Ascending(q, s, ch) <=>
           /\ Ascending(Tail(q), s, ch)
           /\ Before(Number(Head(q), s, ch), Numbers(Tail(q), s, ch))
  BY NumbersOfTail
<1>2. Before(Number(Head(q), s, ch), Numbers(Tail(q), s, ch))
  BY BeforeParts
<1> QED
  BY <1>1, <1>2 DEF Alike

-----------------------------------------------------------------------------
(* A sender puts its next message, or a request, behind all it has sent.   *)
LEMMA OrderPut ==
  ASSUME ConnectionInv, OrderInv, NEW s \in Sender, NEW m \in Message,
         m.type = "message" =>
           m.from = s /\ m.number = sent[s] + 1 /\ m.channel = Mail[s][sent[s] + 1],
         pipe' = [pipe EXCEPT ![s] = Append(@, m)],
         sent' = IF m.type = "message" THEN [sent EXCEPT ![s] = @ + 1] ELSE sent,
         UNCHANGED <<undelivered_messages_, inbox, received>>
  PROVE  OrderInv'
<1>1. /\ pipe \in [Sender -> Seq(Message)] /\ inbox \in [Conn -> Seq(Message)]
      /\ undelivered_messages_ \in [Channel -> Seq(Message)] /\ received \in [Conn -> Seq(Message)]
      /\ sent \in [Sender -> Nat]
  BY Queues DEF OrderInv
<1>2. pipe'[s] = Append(pipe[s], m) /\ \A r \in Sender \ {s} : pipe'[r] = pipe[r]
  BY <1>1
<1>3. ASSUME NEW r \in Sender, NEW ch \in Channel, r # s
      PROVE  Number(m, r, ch) = {} /\ SentNumbers(r, ch)' = SentNumbers(r, ch)
  <2>1. Number(m, r, ch) = {}
    BY <1>3 DEF Number, Belongs
  <2>2. sent'[r] = sent[r]
    BY <1>1, <1>3
  <2> QED
    BY <2>1, <2>2 DEF SentNumbers
<1>4. ASSUME NEW ch \in Channel
      PROVE  /\ SentNumbers(s, ch)' = SentNumbers(s, ch) \cup Number(m, s, ch)
             /\ Before(SentNumbers(s, ch), Number(m, s, ch))
  <2>1. CASE m.type # "message"
    <3>1. Number(m, s, ch) = {} /\ sent' = sent
      BY <2>1 DEF Number, Belongs
    <3> QED
      BY <3>1 DEF SentNumbers, Before
  <2>2. CASE m.type = "message"
    <3>1. sent'[s] = sent[s] + 1 /\ sent[s] \in Nat /\ m.number = sent[s] + 1
      BY <1>1, <2>2
    <3>2. 1..sent'[s] = 1..sent[s] \cup {m.number}
      BY <3>1
    <3>3. Belongs(m, s, ch) <=> Mail[s][m.number] = ch
      BY <2>2, <3>1 DEF Belongs
    <3>4. SentNumbers(s, ch)' = SentNumbers(s, ch) \cup Number(m, s, ch)
      BY <3>2, <3>3 DEF SentNumbers, Number
    <3>5. Before(SentNumbers(s, ch), Number(m, s, ch))
      BY <3>1 DEF SentNumbers, Number, Before
    <3> QED
      BY <3>4, <3>5
  <2> QED
    BY <2>1, <2>2
<1>5. ASSUME NEW r \in Sender, NEW q \in Sender, NEW ch \in Channel, r # q
      PROVE  Numbers(pipe'[r], q, ch) = {}
  <2>1. Numbers(pipe[r], q, ch) = {}
    BY <1>5 DEF OrderInv
  <2>2. CASE r # s
    BY <1>2, <2>1, <2>2
  <2>3. CASE r = s
    <3>1. Number(m, q, ch) = {} /\ pipe[r] \in Seq(Message) /\ pipe'[r] = Append(pipe[r], m)
      BY <1>1, <1>2, <1>3, <1>5, <2>3
    <3> QED
      BY <2>1, <3>1, NumbersOfAppend
  <2> QED
    BY <2>2, <2>3
<1>6. ASSUME NEW r \in Sender, NEW ch \in Channel
      PROVE  Sequel(r, ch)'
  <2>0. Owner(ch) \in Conn
    BY Owners
  <2>1. Sequel(r, ch)
    BY DEF OrderInv
  <2>2. CASE r # s
    <3>1. pipe'[r] = pipe[r] /\ SentNumbers(r, ch)' = SentNumbers(r, ch)
      BY <1>2, <1>3, <2>2
    <3> QED
      BY <2>1, <3>1 DEF Sequel
  <2>3. CASE r = s
    <3> DEFINE a == received[Owner(ch)]
               b == inbox[Owner(ch)]
               k == undelivered_messages_[ch]
               d == pipe[s]
    <3>1. a \in Seq(Message) /\ b \in Seq(Message) /\ k \in Seq(Message) /\ d \in Seq(Message)
      BY <1>1, <2>0
    <3>2. Chain(a, b, k, d, s, ch) /\ Union(a, b, k, d, s, ch) = SentNumbers(s, ch)
      BY <2>1, <2>3 DEF Sequel
    <3>3. Sequel(s, ch)' <=>
            /\ Chain(a, b, k, Append(d, m), s, ch)
            /\ Union(a, b, k, Append(d, m), s, ch) = SentNumbers(s, ch)'
      BY <1>2 DEF Sequel
    <3> HIDE DEF a, b, k, d
    <3>4. Before(Union(a, b, k, d, s, ch), Number(m, s, ch))
      BY <1>4, <3>2
    <3>5. /\ Chain(a, b, k, Append(d, m), s, ch)
          /\ Union(a, b, k, Append(d, m), s, ch) = Union(a, b, k, d, s, ch) \cup Number(m, s, ch)
      BY <3>1, <3>2, <3>4, ChainSend
    <3>6. Union(a, b, k, Append(d, m), s, ch) = SentNumbers(s, ch)'
      BY <1>4, <3>2, <3>5
    <3> QED
      BY <2>3, <3>3, <3>5, <3>6
  <2> QED
    BY <2>2, <2>3
<1> QED
  BY <1>5, <1>6 DEF OrderInv

LEMMA OrderGet ==
  ASSUME ConnectionInv, OrderInv, NEW c \in Conn, GetMessage(c)
  PROVE  OrderInv'
<1>1. /\ pipe \in [Sender -> Seq(Message)] /\ inbox \in [Conn -> Seq(Message)]
      /\ undelivered_messages_ \in [Channel -> Seq(Message)] /\ received \in [Conn -> Seq(Message)]
  BY Queues DEF OrderInv
<1>2. /\ inbox[c] # <<>> /\ sent' = sent /\ pipe' = pipe
      /\ undelivered_messages_' = undelivered_messages_
      /\ received' = [received EXCEPT ![c] = Append(@, Head(inbox[c]))]
      /\ inbox' = [inbox EXCEPT ![c] = Tail(@)]
  BY DEF GetMessage
<1>3. /\ received'[c] = Append(received[c], Head(inbox[c])) /\ inbox'[c] = Tail(inbox[c])
      /\ \A d \in Conn \ {c} : received'[d] = received[d] /\ inbox'[d] = inbox[d]
      /\ received[c] \in Seq(Message) /\ inbox[c] \in Seq(Message)
  BY <1>1, <1>2
<1>4. Head(inbox[c]) \in Message
  BY <1>2, <1>3, HeadTailProperties
<1>5. received' \in [Conn -> Seq(Message)]
  <2>1. Append(received[c], Head(inbox[c])) \in Seq(Message)
    BY <1>3, <1>4, AppendProperties
  <2> QED
    BY <1>1, <1>2, <2>1
<1>6. ASSUME NEW s \in Sender, NEW ch \in Channel
      PROVE  Sequel(s, ch)'
  <2>1. Owner(ch) \in Conn /\ Sequel(s, ch)
    BY Owners DEF OrderInv
  <2>2. CASE Owner(ch) # c
    <3>1. received'[Owner(ch)] = received[Owner(ch)] /\ inbox'[Owner(ch)] = inbox[Owner(ch)]
      BY <1>3, <2>1, <2>2
    <3> QED
      BY <1>2, <2>1, <3>1 DEF Sequel, SentNumbers
  <2>3. CASE Owner(ch) = c
    <3> DEFINE a == received[c]
               b == inbox[c]
               k == undelivered_messages_[ch]
               d == pipe[s]
    <3>1. a \in Seq(Message) /\ b \in Seq(Message) /\ k \in Seq(Message) /\ d \in Seq(Message)
      BY <1>1, <1>3
    <3>2. Chain(a, b, k, d, s, ch) /\ Union(a, b, k, d, s, ch) = SentNumbers(s, ch)
      BY <2>1, <2>3 DEF Sequel
    <3>3. Sequel(s, ch)' <=>
            /\ Chain(Append(a, Head(b)), Tail(b), k, d, s, ch)
            /\ Union(Append(a, Head(b)), Tail(b), k, d, s, ch) = SentNumbers(s, ch)
      BY <1>2, <1>3, <2>3 DEF Sequel, SentNumbers
    <3>4. b # <<>>
      BY <1>2
    <3> HIDE DEF a, b, k, d
    <3>5. /\ Chain(Append(a, Head(b)), Tail(b), k, d, s, ch)
          /\ Union(Append(a, Head(b)), Tail(b), k, d, s, ch) = Union(a, b, k, d, s, ch)
      BY <3>1, <3>2, <3>4, ChainGet
    <3> QED
      BY <3>2, <3>3, <3>5
  <2> QED
    BY <2>2, <2>3
<1>7. ASSUME NEW e \in Conn, NEW ch \in Channel, NEW s \in Sender, e # Owner(ch)
      PROVE  Numbers(received'[e], s, ch) = {} /\ Numbers(inbox'[e], s, ch) = {}
  <2>1. Numbers(received[e], s, ch) = {} /\ Numbers(inbox[e], s, ch) = {}
    BY <1>7 DEF OrderInv
  <2>2. CASE e # c
    BY <1>3, <2>1, <2>2
  <2>3. CASE e = c
    <3>1. Numbers(inbox[c], s, ch) = Number(Head(inbox[c]), s, ch) \cup Numbers(Tail(inbox[c]), s, ch)
      BY <1>2, <1>3, NumbersOfTail
    <3>2. Number(Head(inbox[c]), s, ch) = {} /\ Numbers(Tail(inbox[c]), s, ch) = {}
      BY <2>1, <2>3, <3>1
    <3>3. Numbers(Append(received[c], Head(inbox[c])), s, ch) = {}
      BY <1>3, <1>4, <2>1, <2>3, <3>2, NumbersOfAppend
    <3> QED
      BY <1>3, <2>3, <3>2, <3>3
  <2> QED
    BY <2>2, <2>3
<1> QED
  BY <1>2, <1>5, <1>6, <1>7 DEF OrderInv

(* A step that leaves the clients alone, and every pipe with the numbers   *)
(* it had.                                                                 *)
PipesAlike ==
  /\ received' = received /\ sent' = sent
  /\ \A r, s \in Sender, ch \in Channel : Alike(pipe[r], pipe'[r], s, ch)

LEMMA OrderStill ==
  ASSUME ConnectionInv, OrderInv, PipesAlike, UNCHANGED <<inbox, undelivered_messages_>>
  PROVE  OrderInv'
<1>1. received' = received /\ sent' = sent /\ inbox' = inbox /\ undelivered_messages_' = undelivered_messages_
  BY DEF PipesAlike
<1>2. ASSUME NEW r \in Sender, NEW s \in Sender, NEW ch \in Channel, r # s
      PROVE  Numbers(pipe'[r], s, ch) = {}
  <2>1. Alike(pipe[r], pipe'[r], s, ch) /\ Numbers(pipe[r], s, ch) = {}
    BY <1>2 DEF PipesAlike, OrderInv
  <2> QED
    BY <2>1 DEF Alike
<1>3. ASSUME NEW s \in Sender, NEW ch \in Channel
      PROVE  Sequel(s, ch)'
  <2>1. Alike(pipe[s], pipe'[s], s, ch) /\ Sequel(s, ch)
    BY DEF PipesAlike, OrderInv
  <2> DEFINE a == received[Owner(ch)]
             b == inbox[Owner(ch)]
             k == undelivered_messages_[ch]
             d == pipe[s]
             e == pipe'[s]
  <2>2. Chain(a, b, k, d, s, ch) /\ Union(a, b, k, d, s, ch) = SentNumbers(s, ch)
    BY <2>1 DEF Sequel
  <2>3. Sequel(s, ch)' <=> Chain(a, b, k, e, s, ch) /\ Union(a, b, k, e, s, ch) = SentNumbers(s, ch)
    BY <1>1 DEF Sequel, SentNumbers
  <2>4. Alike(d, e, s, ch) /\ Alike(a, a, s, ch) /\ Alike(b, b, s, ch) /\ Alike(k, k, s, ch)
    BY <2>1 DEF Alike
  <2> HIDE DEF a, b, k, d, e
  <2>5. Chain(a, b, k, e, s, ch) /\ Union(a, b, k, e, s, ch) = Union(a, b, k, d, s, ch)
    BY <2>2, <2>4, ChainAlike
  <2> QED
    BY <2>2, <2>3, <2>5
<1> QED
  BY <1>1, <1>2, <1>3 DEF OrderInv

(* What was kept aside for a channel goes to the connection it belongs to. *)
LEMMA OrderRegister ==
  ASSUME ConnectionInv, OrderInv, PipesAlike,
         NEW channel \in Channel, Register(channel, Owner(channel))
  PROVE  OrderInv'
<1> DEFINE c == Owner(channel)
           kept == undelivered_messages_[channel]
<1>0. c \in Conn
  BY Owners
<1>1. /\ pipe \in [Sender -> Seq(Message)] /\ inbox \in [Conn -> Seq(Message)]
      /\ undelivered_messages_ \in [Channel -> Seq(Message)] /\ received \in [Conn -> Seq(Message)]
      /\ received' = received /\ sent' = sent
  BY Queues DEF OrderInv, PipesAlike
<1>2. /\ inbox'[c] = inbox[c] \o kept /\ \A e \in Conn \ {c} : inbox'[e] = inbox[e]
      /\ undelivered_messages_'[channel] = <<>>
      /\ \A k \in Channel \ {channel} : undelivered_messages_'[k] = undelivered_messages_[k]
      /\ kept \in Seq(Message)
  BY <1>0, <1>1 DEF Register
<1>3. \A ch \in Channel, s \in Sender : ch # channel => Numbers(kept, s, ch) = {}
  BY DEF OrderInv
<1>4. \A ch \in Channel : ch = channel => Owner(ch) = c
  OBVIOUS
<1> HIDE DEF c, kept
<1>5. ASSUME NEW r \in Sender, NEW s \in Sender, NEW ch \in Channel, r # s
      PROVE  Numbers(pipe'[r], s, ch) = {}
  <2>1. Alike(pipe[r], pipe'[r], s, ch) /\ Numbers(pipe[r], s, ch) = {}
    BY <1>5 DEF PipesAlike, OrderInv
  <2> QED
    BY <2>1 DEF Alike
<1>6. ASSUME NEW k \in Channel, NEW ch \in Channel, NEW s \in Sender, k # ch
      PROVE  Numbers(undelivered_messages_'[k], s, ch) = {}
  <2>1. CASE k = channel
    BY <1>2, <2>1, NumbersOfNone
  <2>2. CASE k # channel
    BY <1>2, <1>6, <2>2 DEF OrderInv
  <2> QED
    BY <2>1, <2>2
<1>7. ASSUME NEW e \in Conn, NEW ch \in Channel, NEW s \in Sender, e # Owner(ch)
      PROVE  Numbers(received'[e], s, ch) = {} /\ Numbers(inbox'[e], s, ch) = {}
  <2>1. Numbers(received[e], s, ch) = {} /\ Numbers(inbox[e], s, ch) = {}
    BY <1>7 DEF OrderInv
  <2>2. CASE e # c
    BY <1>1, <1>2, <2>1, <2>2
  <2>3. CASE e = c
    <3>1. Numbers(kept, s, ch) = {}
      BY <1>3, <1>4, <1>7, <2>3
    <3>2. Numbers(inbox[c] \o kept, s, ch) = Numbers(inbox[c], s, ch) \cup Numbers(kept, s, ch)
      BY <1>0, <1>1, <1>2, NumbersOfConcat
    <3> QED
      BY <1>1, <1>2, <2>1, <2>3, <3>1, <3>2
  <2> QED
    BY <2>2, <2>3
<1>8. ASSUME NEW s \in Sender, NEW ch \in Channel
      PROVE  Sequel(s, ch)'
  <2> DEFINE a == received[Owner(ch)]
             b == inbox[Owner(ch)]
             k == undelivered_messages_[ch]
             d == pipe[s]
             bb == inbox'[Owner(ch)]
             kk == undelivered_messages_'[ch]
             dd == pipe'[s]
             none == <<>>
             b_k == b \o k
  <2>0. Owner(ch) \in Conn
    BY Owners
  <2>1. a \in Seq(Message) /\ b \in Seq(Message) /\ k \in Seq(Message) /\ d \in Seq(Message)
    BY <1>1, <2>0
  <2>2. Chain(a, b, k, d, s, ch) /\ Union(a, b, k, d, s, ch) = SentNumbers(s, ch)
    BY DEF OrderInv, Sequel
  <2>3. Alike(d, dd, s, ch)
    BY DEF PipesAlike
  <2>4. Sequel(s, ch)' <=> Chain(a, bb, kk, dd, s, ch) /\ Union(a, bb, kk, dd, s, ch) = SentNumbers(s, ch)
    BY <1>1 DEF Sequel, SentNumbers
  <2>5. ch = channel => bb = b_k /\ kk = none
    BY <1>2, <1>4 DEF kept
  <2>6. ch # channel => kk = k /\ (bb = b \/ bb = b \o kept)
    BY <1>2, <2>0
  <2>7. Chain(a, b_k, none, d, s, ch) /\ Union(a, b_k, none, d, s, ch) = Union(a, b, k, d, s, ch)
    <3> HIDE DEF a, b, k, d
    <3> QED
      BY <2>1, <2>2, ChainRegister
  <2> HIDE DEF a, b, k, d, bb, kk, dd, none, b_k
  <2>8. \A q : Alike(q, q, s, ch)
    BY DEF Alike
  <2>9. CASE ch = channel
    <3>1. Chain(a, b_k, none, dd, s, ch) /\ Union(a, b_k, none, dd, s, ch) = Union(a, b_k, none, d, s, ch)
      BY <2>3, <2>7, <2>8, ChainAlike
    <3> QED
      BY <2>2, <2>4, <2>5, <2>7, <2>9, <3>1
  <2>10. CASE ch # channel
    <3>1. Alike(b, bb, s, ch) /\ kk = k
      <4>1. Numbers(kept, s, ch) = {}
        BY <1>3, <2>10
      <4>2. Alike(b, b \o kept, s, ch)
        BY <1>2, <2>1, <4>1, AlikeConcat
      <4> QED
        BY <2>6, <2>8, <2>10, <4>2
    <3>2. Chain(a, bb, k, dd, s, ch) /\ Union(a, bb, k, dd, s, ch) = Union(a, b, k, d, s, ch)
      BY <2>2, <2>3, <2>8, <3>1, ChainAlike
    <3> QED
      BY <2>2, <2>4, <3>1, <3>2
  <2> QED
    BY <2>9, <2>10
<1> QED
  BY <1>1, <1>5, <1>6, <1>7, <1>8 DEF OrderInv

(* The first message of a sender's pipe is kept aside for its channel, or  *)
(* goes to the connection the channel belongs to.                          *)
LEMMA OrderDeliver ==
  ASSUME ConnectionInv, OrderInv, NEW s \in Sender, pipe[s] # <<>>,
         Head(pipe[s]).channel \in Channel, Deliver(Head(pipe[s])),
         pipe' = [pipe EXCEPT ![s] = Tail(@)], UNCHANGED <<received, sent>>
  PROVE  OrderInv'
<1> DEFINE m == Head(pipe[s])
           to == m.channel
           c == Owner(to)
<1>1. /\ pipe \in [Sender -> Seq(Message)] /\ inbox \in [Conn -> Seq(Message)]
      /\ undelivered_messages_ \in [Channel -> Seq(Message)] /\ received \in [Conn -> Seq(Message)]
      /\ received' = received /\ sent' = sent /\ to \in Channel /\ c \in Conn
  BY Queues, Owners DEF OrderInv
<1>2. /\ pipe'[s] = Tail(pipe[s]) /\ pipe[s] \in Seq(Message) /\ pipe[s] # <<>>
      /\ \A r \in Sender \ {s} : pipe'[r] = pipe[r]
  BY <1>1
<1>3. m \in Message
  BY <1>2, HeadTailProperties
<1>4. to \in DOMAIN inproc_out_ => inproc_out_[to] = c /\ undelivered_messages_[to] = <<>>
  BY DEF ConnectionInv, Handshake, NothingStranded, Owner
<1>5. \/ /\ undelivered_messages_[to] = <<>> /\ undelivered_messages_' = undelivered_messages_
         /\ inbox'[c] = Append(inbox[c], m) /\ \A e \in Conn \ {c} : inbox'[e] = inbox[e]
      \/ /\ inbox' = inbox /\ undelivered_messages_'[to] = Append(undelivered_messages_[to], m)
         /\ \A k \in Channel \ {to} : undelivered_messages_'[k] = undelivered_messages_[k]
  <2>1. CASE to \in DOMAIN inproc_out_
    <3>1. inbox' = [inbox EXCEPT ![c] = Append(@, m)] /\ undelivered_messages_' = undelivered_messages_
      BY <1>4, <2>1 DEF Deliver
    <3> HIDE DEF c, to, m
    <3> QED
      BY <1>1, <1>4, <2>1, <3>1
  <2>2. CASE to \notin DOMAIN inproc_out_
    <3>1. /\ undelivered_messages_' = [undelivered_messages_ EXCEPT ![to] = Append(@, m)]
          /\ inbox' = inbox
      BY <2>2 DEF Deliver
    <3> HIDE DEF c, to, m
    <3> QED
      BY <1>1, <3>1
  <2> QED
    BY <2>1, <2>2
<1>6. ASSUME NEW r \in Sender, NEW ch \in Channel, r # s \/ ch # to
      PROVE  Number(m, r, ch) = {}
  <2>1. CASE ch # to
    BY <2>1 DEF Number, Belongs
  <2>2. CASE r # s
    <3>1. Numbers(pipe[s], r, ch) = Number(m, r, ch) \cup Numbers(Tail(pipe[s]), r, ch)
      BY <1>2, NumbersOfTail
    <3>2. Numbers(pipe[s], r, ch) = {}
      BY <2>2 DEF OrderInv
    <3> QED
      BY <3>1, <3>2
  <2> QED
    BY <1>6, <2>1, <2>2
<1>7. \A ch \in Channel : ch = to => Owner(ch) = c
  OBVIOUS
<1>8. m = Head(pipe[s])
  OBVIOUS
<1> HIDE DEF m, to, c
<1>9. ASSUME NEW r \in Sender, NEW ch \in Channel, r # s \/ ch # to
      PROVE  Alike(pipe[r], pipe'[r], r, ch)
  <2>1. CASE r # s
    BY <1>2, <2>1 DEF Alike
  <2>2. CASE r = s
    BY <1>2, <1>6, <1>8, <1>9, <2>2, AlikeTail
  <2> QED
    BY <2>1, <2>2
<1>10. ASSUME NEW r \in Sender, NEW q \in Sender, NEW ch \in Channel, r # q
       PROVE  Numbers(pipe'[r], q, ch) = {}
  <2>1. Numbers(pipe[r], q, ch) = {}
    BY <1>10 DEF OrderInv
  <2>2. CASE r # s
    BY <1>2, <2>1, <2>2
  <2>3. CASE r = s
    <3>1. Numbers(pipe[s], q, ch) = Number(m, q, ch) \cup Numbers(Tail(pipe[s]), q, ch)
      BY <1>2, <1>8, NumbersOfTail
    <3> QED
      BY <1>2, <2>1, <2>3, <3>1
  <2> QED
    BY <2>2, <2>3
<1>11. ASSUME NEW k \in Channel, NEW ch \in Channel, NEW r \in Sender, k # ch
       PROVE  Numbers(undelivered_messages_'[k], r, ch) = {}
  <2>1. Numbers(undelivered_messages_[k], r, ch) = {} /\ undelivered_messages_[k] \in Seq(Message)
    BY <1>1, <1>11 DEF OrderInv
  <2>2. \/ undelivered_messages_'[k] = undelivered_messages_[k]
        \/ k = to /\ undelivered_messages_'[k] = Append(undelivered_messages_[k], m)
    BY <1>5
  <2>3. CASE undelivered_messages_'[k] = undelivered_messages_[k]
    BY <2>1, <2>3
  <2>4. CASE k = to /\ undelivered_messages_'[k] = Append(undelivered_messages_[k], m)
    <3>1. Number(m, r, ch) = {}
      BY <1>6, <1>11, <2>4
    <3> QED
      BY <1>3, <2>1, <2>4, <3>1, NumbersOfAppend
  <2> QED
    BY <2>2, <2>3, <2>4
<1>12. ASSUME NEW e \in Conn, NEW ch \in Channel, NEW r \in Sender, e # Owner(ch)
       PROVE  Numbers(received'[e], r, ch) = {} /\ Numbers(inbox'[e], r, ch) = {}
  <2>1. /\ Numbers(received[e], r, ch) = {} /\ Numbers(inbox[e], r, ch) = {}
        /\ inbox[e] \in Seq(Message)
    BY <1>1, <1>12 DEF OrderInv
  <2>2. inbox'[e] = inbox[e] \/ (e = c /\ inbox'[e] = Append(inbox[e], m))
    BY <1>5
  <2>3. CASE inbox'[e] = inbox[e]
    BY <1>1, <2>1, <2>3
  <2>4. CASE e = c /\ inbox'[e] = Append(inbox[e], m)
    <3>1. Number(m, r, ch) = {}
      BY <1>6, <1>7, <1>12, <2>4
    <3>2. Numbers(Append(inbox[e], m), r, ch) = Numbers(inbox[e], r, ch) \cup Number(m, r, ch)
      BY <1>3, <2>1, NumbersOfAppend, ZenonT(30)
    <3>3. Numbers(inbox'[e], r, ch) = {}
      BY <2>1, <2>4, <3>1, <3>2
    <3>4. received'[e] = received[e]
      BY <1>1
    <3> QED
      BY <2>1, <3>3, <3>4
  <2> QED
    BY <2>2, <2>3, <2>4
<1>13. ASSUME NEW r \in Sender, NEW ch \in Channel
       PROVE  Sequel(r, ch)'
  <2> DEFINE a == received[Owner(ch)]
             b == inbox[Owner(ch)]
             k == undelivered_messages_[ch]
             d == pipe[r]
             bb == inbox'[Owner(ch)]
             kk == undelivered_messages_'[ch]
             dd == pipe'[r]
             none == <<>>
  <2>0. Owner(ch) \in Conn
    BY Owners
  <2>1. a \in Seq(Message) /\ b \in Seq(Message) /\ k \in Seq(Message) /\ d \in Seq(Message)
    BY <1>1, <2>0
  <2>2. Chain(a, b, k, d, r, ch) /\ Union(a, b, k, d, r, ch) = SentNumbers(r, ch)
    BY DEF OrderInv, Sequel
  <2>3. Sequel(r, ch)' <=> Chain(a, bb, kk, dd, r, ch) /\ Union(a, bb, kk, dd, r, ch) = SentNumbers(r, ch)
    BY <1>1 DEF Sequel, SentNumbers
  <2>4. /\ bb = b \/ bb = Append(b, m)
        /\ kk = k \/ kk = Append(k, m)
    BY <1>5, <2>0
  <2>5. ch = to => \/ k = none /\ kk = none /\ bb = Append(b, m)
                   \/ bb = b /\ kk = Append(k, m)
    BY <1>5, <1>7
  <2>6. r = s => d # <<>> /\ dd = Tail(d) /\ m = Head(d)
    BY <1>2, <1>8
  <2>7. r # s \/ ch # to => Alike(d, dd, r, ch)
    BY <1>9
  <2> HIDE DEF a, b, k, d, bb, kk, dd
  <2>8. CASE r = s /\ ch = to /\ k = none /\ kk = none /\ bb = Append(b, m)
    <3>1. Chain(a, b, <<>>, d, r, ch) /\ Union(a, b, <<>>, d, r, ch) = SentNumbers(r, ch)
      BY <2>2, <2>8
    <3>2. /\ Chain(a, Append(b, Head(d)), <<>>, Tail(d), r, ch)
          /\ Union(a, Append(b, Head(d)), <<>>, Tail(d), r, ch) = Union(a, b, <<>>, d, r, ch)
      BY <2>1, <2>6, <2>8, <3>1, ChainDeliver
    <3>3. bb = Append(b, Head(d)) /\ kk = <<>> /\ dd = Tail(d)
      BY <2>6, <2>8
    <3> QED
      BY <2>3, <3>1, <3>2, <3>3
  <2>9. CASE r = s /\ ch = to /\ bb = b /\ kk = Append(k, m)
    <3>1. /\ Chain(a, b, Append(k, Head(d)), Tail(d), r, ch)
          /\ Union(a, b, Append(k, Head(d)), Tail(d), r, ch) = Union(a, b, k, d, r, ch)
      BY <2>1, <2>2, <2>6, <2>9, ChainKeep
    <3>2. bb = b /\ kk = Append(k, Head(d)) /\ dd = Tail(d)
      BY <2>6, <2>9
    <3> QED
      BY <2>2, <2>3, <3>1, <3>2
  <2>10. CASE r # s \/ ch # to
    <3>1. Number(m, r, ch) = {} /\ Alike(d, dd, r, ch)
      BY <1>6, <2>7, <2>10
    <3>2. Alike(a, a, r, ch) /\ Alike(b, b, r, ch) /\ Alike(k, k, r, ch)
      BY DEF Alike
    <3>3. Alike(b, Append(b, m), r, ch) /\ Alike(k, Append(k, m), r, ch)
      BY <1>3, <2>1, <3>1, AlikeAppend
    <3>4. Alike(b, bb, r, ch) /\ Alike(k, kk, r, ch)
      BY <2>4, <3>2, <3>3
    <3>5. Chain(a, bb, kk, dd, r, ch) /\ Union(a, bb, kk, dd, r, ch) = Union(a, b, k, d, r, ch)
      BY <2>2, <3>1, <3>2, <3>4, ChainAlike
    <3> QED
      BY <2>2, <2>3, <3>5
  <2> QED
    BY <2>5, <2>8, <2>9, <2>10
<1> QED
  BY <1>1, <1>10, <1>11, <1>12, <1>13 DEF OrderInv

(* The multiplexer's step with the first message of a pipe.                *)
LEMMA OrderForward ==
  ASSUME ConnectionInv, OrderInv, NEW s \in Sender, Forward(s)
  PROVE  OrderInv'
<1> DEFINE m == Head(pipe[s])
<1>1. /\ pipe[s] # <<>> /\ pipe' = [pipe EXCEPT ![s] = Tail(@)]
      /\ received' = received /\ sent' = sent
      /\ pipe \in [Sender -> Seq(Message)] /\ pipe[s] \in Seq(Message)
  BY Queues DEF Forward, clientVars
<1>2. m \in Message /\ m.channel \in Channel /\ Request(m)
  <2>1. m \in Message /\ m = pipe[s][1] /\ Len(pipe[s]) \in Nat /\ Len(pipe[s]) # 0
    BY <1>1, HeadTailProperties, LenProperties, EmptySeq
  <2>2. Request(m)
    BY <2>1 DEF ConnectionInv, Requests
  <2> QED
    BY <2>1, <2>2 DEF Message
<1>3. CASE m.type = "message" /\ Deliver(m)
  BY <1>1, <1>2, <1>3, OrderDeliver
<1>4. ASSUME m.type # "message"
      PROVE  PipesAlike
  <2>1. ASSUME NEW r \in Sender, NEW q \in Sender, NEW ch \in Channel
        PROVE  Alike(pipe[r], pipe'[r], q, ch)
    <3>1. CASE r # s
      BY <1>1, <3>1 DEF Alike
    <3>2. CASE r = s
      <4>1. Number(m, q, ch) = {}
        BY <1>4 DEF Number, Belongs
      <4>2. Alike(pipe[s], Tail(pipe[s]), q, ch)
        BY <1>1, <4>1, AlikeTail
      <4>3. pipe'[r] = Tail(pipe[s])
        BY <1>1, <3>2
      <4> QED
        BY <3>2, <4>2, <4>3
    <3> QED
      BY <3>1, <3>2
  <2> QED
    BY <1>1, <2>1 DEF PipesAlike
<1>5. CASE m.type = "link" /\ Link(m)
  <2>1. PipesAlike /\ m.channel \in Linkable /\ m.from = Worker[m.channel] /\ m.from \in Conn
    BY <1>2, <1>4, <1>5, Names DEF Request
  <2>2. m.channel \notin Conn /\ Owner(m.channel) = m.from
    BY <2>1, Names DEF Owner
  <2>3. CASE m.from \in DOMAIN inproc_out_ /\ Free(m.channel)
    <3>1. inproc_out_[m.from] = m.from
      BY <2>1, <2>3 DEF ConnectionInv, Handshake
    <3>2. Register(m.channel, Owner(m.channel))
      BY <1>5, <2>2, <2>3, <3>1 DEF Link
    <3> QED
      BY <1>2, <2>1, <3>2, OrderRegister
  <2>4. CASE ~ (m.from \in DOMAIN inproc_out_ /\ Free(m.channel))
    BY <1>5, <2>1, <2>4, OrderStill DEF Link
  <2> QED
    BY <2>3, <2>4
<1>6. CASE m.type = "unlink" /\ Unlink(m)
  BY <1>4, <1>6, OrderStill DEF Unlink
<1> QED
  BY <1>3, <1>5, <1>6 DEF Forward

LEMMA OrderServe ==
  ASSUME ConnectionInv, OrderInv, ServeNewConnection
  PROVE  OrderInv'
<1> DEFINE c == new_connection_channel_
<1>1. c \in Conn /\ c \in Channel /\ Owner(c) = c
  BY Names DEF ServeNewConnection, ConnectionInv, Types, ConnectionTypeOK, Channel, Owner
<1>2. PipesAlike
  BY DEF ServeNewConnection, clientVars, PipesAlike, Alike
<1>3. CASE Free(c)
  <2>1. Register(c, Owner(c))
    BY <1>1, <1>3 DEF ServeNewConnection
  <2> QED
    BY <1>1, <1>2, <2>1, OrderRegister
<1>4. CASE ~ Free(c)
  BY <1>2, <1>4, OrderStill DEF ServeNewConnection
<1> QED
  BY <1>3, <1>4

LEMMA OrderRequest ==
  ASSUME ConnectionInv, OrderInv, NEW channel \in Linkable,
         LinkChannel(channel) \/ UnlinkChannel(channel)
  PROVE  OrderInv'
<1>1. PICK type \in {"link", "unlink"} :
        /\ Put(Worker[channel], type, channel)
        /\ UNCHANGED <<undelivered_messages_, inbox, received, sent>>
  BY DEF LinkChannel, UnlinkChannel
<1> DEFINE m == [type |-> type, channel |-> channel, from |-> Worker[channel], number |-> 0]
<1>2. Worker[channel] \in Sender /\ channel \in Channel
  BY Names DEF Sender, Channel
<1>3. m \in Message /\ m.type # "message"
  BY <1>2 DEF Message
<1>4. pipe' = [pipe EXCEPT ![Worker[channel]] = Append(@, m)]
  BY <1>1 DEF Put
<1> HIDE DEF m
<1> QED
  BY <1>1, <1>2, <1>3, <1>4, OrderPut

LEMMA OrderSend ==
  ASSUME ConnectionInv, OrderInv, NEW s \in Sender, Send(s)
  PROVE  OrderInv'
<1> DEFINE m == [type |-> "message", channel |-> Mail[s][sent[s] + 1], from |-> s,
                 number |-> sent[s] + 1]
<1>1. m.channel \in Channel /\ sent[s] \in Nat
  <2>1. Mail[s] \in Seq(Channel) /\ sent[s] \in Nat
    BY ConnectionAssumption DEF ConnectionInv, Types
  <2>2. sent[s] + 1 \in 1..Len(Mail[s])
    BY <2>1, LenProperties DEF Send
  <2> QED
    BY <2>1, <2>2, ElementOfSeq
<1>2. m \in Message
  BY <1>1 DEF Message
<1>3. m.type = "message" /\ m.from = s /\ m.number = sent[s] + 1 /\ m.channel = Mail[s][sent[s] + 1]
  OBVIOUS
<1>4. /\ pipe' = [pipe EXCEPT ![s] = Append(@, m)] /\ sent' = [sent EXCEPT ![s] = @ + 1]
      /\ UNCHANGED <<undelivered_messages_, inbox, received>>
  BY DEF Send, Put
<1> HIDE DEF m
<1> QED
  BY <1>2, <1>3, <1>4, OrderPut

LEMMA OrderUnchanged ==
  ASSUME ConnectionInv, OrderInv,
         UNCHANGED <<pipe, inbox, undelivered_messages_, received, sent>>
  PROVE  OrderInv'
BY OrderStill DEF PipesAlike, Alike

LEMMA OrderPreserved == ConnectionInv /\ OrderInv /\ [Next]_vars => OrderInv'
<1> SUFFICES ASSUME ConnectionInv, OrderInv, [Next]_vars PROVE OrderInv'
  OBVIOUS
<1>1. ASSUME NEW c \in Conn, Ask(c) \/ Return(c) PROVE OrderInv'
  BY <1>1, OrderUnchanged DEF Ask, Return, clientVars
<1>2. ASSUME NEW c \in Conn, GetMessage(c) PROVE OrderInv'
  BY <1>2, OrderGet
<1>3. ASSUME NEW s \in Sender, Send(s) PROVE OrderInv'
  BY <1>3, OrderSend
<1>4. ASSUME NEW channel \in Linkable, LinkChannel(channel) \/ UnlinkChannel(channel)
      PROVE  OrderInv'
  BY <1>4, OrderRequest
<1>5. CASE Run
  BY <1>5, OrderServe, OrderForward DEF Run
<1>6. CASE UNCHANGED vars
  BY <1>6, OrderUnchanged DEF vars, clientVars
<1> QED
  BY <1>1, <1>2, <1>3, <1>4, <1>5, <1>6 DEF Next

(* What one sender sent to one channel reaches the connection the channel  *)
(* belongs to complete and in order, and no other, however sending,        *)
(* linking and unlinking interleave (connection.cc:97-161, 188-216 and     *)
(* 232-251).                                                               *)
THEOREM MessagesInOrder == Spec => []InOrder
<1>1. Init => ConnectionInv /\ OrderInv
  BY InitInv, OrderInit
<1>2. ConnectionInv /\ OrderInv /\ [Next]_vars => (ConnectionInv /\ OrderInv)'
  BY NextPreserves, OrderPreserved
<1>3. ConnectionInv /\ OrderInv => InOrder
  BY OrderMeansInOrder
<1> QED
  BY <1>1, <1>2, <1>3, PTL DEF Spec

-----------------------------------------------------------------------------
(***************************************************************************)
(* Requests to link and unlink.  Those for one channel come in turns, the  *)
(* first one fits what the multiplexer knows, and the last one what the    *)
(* connection knows.                                                       *)
(***************************************************************************)

About(q, ch) == {i \in 1..Len(q) : q[i].type # "message" /\ q[i].channel = ch}

InTurns(q, ch) ==
  \A i, j \in About(q, ch) :
    i < j /\ (\A k \in About(q, ch) : k <= i \/ j <= k) => q[i].type # q[j].type

FirstFits(q, ch, known) ==
  \A i \in About(q, ch) :
    (\A k \in About(q, ch) : i <= k) => (q[i].type = "unlink" <=> known)

LastFits(q, ch, linked) ==
  About(q, ch) # {} =>
    \E i \in About(q, ch) :
      (\A k \in About(q, ch) : k <= i) /\ (q[i].type = "link" <=> linked)

NoneFits(q, ch, known, linked) == About(q, ch) = {} => (known <=> linked)

Fits(q, ch, known, linked) ==
  /\ InTurns(q, ch) /\ FirstFits(q, ch, known)
  /\ LastFits(q, ch, linked) /\ NoneFits(q, ch, known, linked)

Known(ch) == ch \in DOMAIN inproc_out_
Linked(ch) == ch \in linked_channels_[Worker[ch]]

(* Every message in a pipe is its sender's own, and only open connections  *)
(* put something there or link a channel.                                  *)
Signed ==
  /\ \A s \in Sender : \A i \in 1..Len(pipe[s]) : pipe[s][i].from = s
  /\ \A c \in Conn : pipe[c] # <<>> => c \in open
  /\ \A ch \in Linkable : Linked(ch) => Worker[ch] \in open

LinkInv ==
  /\ Signed
  /\ \A ch \in Linkable : Fits(pipe[Worker[ch]], ch, Known(ch), Linked(ch))

(* A link request finds its connection known and the channel free, an      *)
(* unlink request finds the channel linked: none is dropped silently.      *)
RequestsApply ==
  \A s \in Sender : pipe[s] # <<>> =>
    LET m == Head(pipe[s]) IN
    /\ m.type = "link" => m.from \in DOMAIN inproc_out_ /\ Free(m.channel)
    /\ m.type = "unlink" => m.channel \in DOMAIN inproc_out_

(* As long as a worker has a channel linked, what comes on it is forwarded *)
(* to the worker, or the request to do so is on its way.                   *)
LinksComing ==
  \A ch \in Linkable : Linked(ch) =>
    \/ Known(ch)
    \/ \E i \in DOMAIN pipe[Worker[ch]] :
         pipe[Worker[ch]][i].type = "link" /\ pipe[Worker[ch]][i].channel = ch

LEMMA NoRequest ==
  ASSUME NEW ch, NEW linked \in BOOLEAN
  PROVE  Fits(<<>>, ch, linked, linked)
<1>1. About(<<>>, ch) = {}
  BY DEF About
<1>2. QED
  BY <1>1 DEF Fits, InTurns, FirstFits, LastFits, NoneFits

(* A sequence with the same requests for the channel fits as well.         *)
LEMMA AppendOther ==
  ASSUME NEW q \in Seq(Message), NEW m \in Message, NEW ch, NEW known, NEW linked,
         ~ (m.type # "message" /\ m.channel = ch), Fits(q, ch, known, linked)
  PROVE  Fits(Append(q, m), ch, known, linked)
<1> DEFINE r == Append(q, m)
<1>1. /\ Len(q) \in Nat /\ Len(r) = Len(q) + 1 /\ r[Len(q) + 1] = m
      /\ \A i \in 1..Len(q) : r[i] = q[i]
  BY AppendProperties, LenProperties
<1> HIDE DEF r
<1>2. About(r, ch) = About(q, ch)
  BY <1>1 DEF About
<1>3. \A i \in About(q, ch) : r[i] = q[i]
  BY <1>1 DEF About
<1>4. InTurns(r, ch) /\ FirstFits(r, ch, known)
  BY <1>2, <1>3 DEF Fits, InTurns, FirstFits
<1>5. LastFits(r, ch, linked) /\ NoneFits(r, ch, known, linked)
  BY <1>2, <1>3 DEF Fits, LastFits, NoneFits
<1>6. QED
  BY <1>4, <1>5 DEF Fits, r

(* A request that changes what the connection knows.                       *)
LEMMA AppendRequest ==
  ASSUME NEW q \in Seq(Message), NEW m \in Message, NEW ch,
         NEW known \in BOOLEAN, NEW linked \in BOOLEAN,
         m.channel = ch, m.type = (IF linked THEN "unlink" ELSE "link"),
         Fits(q, ch, known, linked)
  PROVE  Fits(Append(q, m), ch, known, ~ linked)
<1> DEFINE r == Append(q, m)
           n == Len(q) + 1
<1>1. /\ Len(q) \in Nat /\ Len(r) = n /\ r[n] = m /\ \A i \in 1..Len(q) : r[i] = q[i]
  BY AppendProperties, LenProperties
<1> HIDE DEF r
<1>2. About(r, ch) = About(q, ch) \cup {n} /\ \A i \in About(q, ch) : i \in Nat /\ i < n /\ r[i] = q[i]
  <2>1. \A i \in About(q, ch) : i \in Nat /\ i < n /\ r[i] = q[i]
    BY <1>1 DEF About
  <2>2. n \in About(r, ch)
    BY <1>1 DEF About
  <2>3. \A i \in 1..Len(q) : i \in About(r, ch) <=> i \in About(q, ch)
    BY <1>1 DEF About
  <2>4. About(r, ch) \subseteq 1..n /\ About(q, ch) \subseteq 1..Len(q)
    BY <1>1 DEF About
  <2>5. QED
    BY <1>1, <2>1, <2>2, <2>3, <2>4
<1> HIDE DEF n
<1>3. n \in Nat
  BY <1>1 DEF n
<1>4. InTurns(r, ch)
  <2> SUFFICES ASSUME NEW i \in About(r, ch), NEW j \in About(r, ch), i < j,
                      \A k \in About(r, ch) : k <= i \/ j <= k
               PROVE  r[i].type # r[j].type
    BY DEF InTurns
  <2>1. CASE j # n
    <3>1. i \in About(q, ch) /\ j \in About(q, ch)
      BY <1>2, <1>3, <2>1
    <3>2. q[i].type # q[j].type
      BY <1>2, <3>1 DEF Fits, InTurns
    <3>3. QED
      BY <1>2, <3>1, <3>2
  <2>2. CASE j = n
    <3>1. i \in About(q, ch) /\ \A k \in About(q, ch) : k <= i
      BY <1>2, <1>3, <2>2
    <3>2. PICK l \in About(q, ch) :
            (\A k \in About(q, ch) : k <= l) /\ (q[l].type = "link" <=> linked)
      BY <3>1 DEF Fits, LastFits
    <3>3. l = i
      BY <1>2, <3>1, <3>2
    <3>4. r[i].type = "link" <=> linked
      BY <1>2, <3>1, <3>2, <3>3
    <3>5. r[j].type = "link" <=> ~ linked
      BY <1>1, <2>2
    <3>6. QED
      BY <3>4, <3>5
  <2>3. QED
    BY <2>1, <2>2
<1>5. FirstFits(r, ch, known)
  <2> SUFFICES ASSUME NEW i \in About(r, ch), \A k \in About(r, ch) : i <= k
               PROVE  r[i].type = "unlink" <=> known
    BY DEF FirstFits
  <2>1. CASE i # n
    <3>1. i \in About(q, ch) /\ \A k \in About(q, ch) : i <= k
      BY <1>2, <2>1
    <3>2. QED
      BY <1>2, <3>1 DEF Fits, FirstFits
  <2>2. CASE i = n
    <3>1. About(q, ch) = {}
      <4>1. ASSUME NEW k \in About(q, ch) PROVE FALSE
        <5>1. k \in Nat /\ k < n /\ k \in About(r, ch)
          BY <1>2
        <5>2. n <= k
          BY <2>2, <5>1
        <5>3. QED
          BY <1>3, <5>1, <5>2
      <4>2. QED
        BY <4>1
    <3>2. known <=> linked
      BY <3>1 DEF Fits, NoneFits
    <3>3. r[i].type = "unlink" <=> linked
      BY <1>1, <2>2
    <3>4. QED
      BY <3>2, <3>3
  <2>3. QED
    BY <2>1, <2>2
<1>6. LastFits(r, ch, ~ linked)
  <2>1. n \in About(r, ch) /\ \A k \in About(r, ch) : k <= n
    BY <1>2, <1>3
  <2>2. r[n].type = "link" <=> ~ linked
    BY <1>1
  <2>3. QED
    BY <2>1, <2>2 DEF LastFits
<1>7. NoneFits(r, ch, known, ~ linked)
  BY <1>2 DEF NoneFits
<1>8. QED
  BY <1>4, <1>5, <1>6, <1>7 DEF Fits, r

(* The first message goes: the others move up by one.                      *)
LEMMA TailAbout ==
  ASSUME NEW q \in Seq(Message), q # <<>>, NEW ch
  PROVE  LET r == Tail(q) IN
         /\ Head(q) = q[1] /\ Head(q) \in Message /\ 1 \in 1..Len(q)
         /\ About(q, ch) \subseteq Nat /\ About(r, ch) \subseteq Nat
         /\ \A i \in Nat : i \in About(r, ch) <=> i # 0 /\ i + 1 \in About(q, ch)
         /\ \A i \in About(q, ch) : i # 1 => (i - 1) \in About(r, ch)
         /\ \A i \in About(r, ch) : r[i] = q[i + 1] /\ i >= 1
         /\ \A i \in About(q, ch) : i >= 1
<1> DEFINE r == Tail(q)
<1>1. /\ Len(q) \in Nat /\ Len(q) >= 1 /\ Len(r) = Len(q) - 1
      /\ \A i \in 1..Len(r) : r[i] = q[i + 1]
      /\ Head(q) = q[1] /\ Head(q) \in Message
  BY HeadTailProperties, LenProperties, EmptySeq
<1> HIDE DEF r
<1>0. 1 \in 1..Len(q)
  BY <1>1
<1>2. About(q, ch) \subseteq Nat /\ About(r, ch) \subseteq Nat
  BY DEF About
<1>3. \A i \in Nat : i \in About(r, ch) <=> i # 0 /\ i + 1 \in About(q, ch)
  <2> SUFFICES ASSUME NEW i \in Nat
               PROVE  i \in About(r, ch) <=> i # 0 /\ i + 1 \in About(q, ch)
    OBVIOUS
  <2>1. i \in 1..Len(r) <=> i # 0 /\ i + 1 \in 1..Len(q)
    BY <1>1
  <2>2. i \in 1..Len(r) => r[i] = q[i + 1]
    BY <1>1
  <2>3. QED
    BY <2>1, <2>2 DEF About
<1>4. \A i \in About(r, ch) : r[i] = q[i + 1] /\ i >= 1
  BY <1>1 DEF About
<1>5. \A i \in About(q, ch) : i >= 1
  BY DEF About
<1>6. \A i \in About(q, ch) : i # 1 => (i - 1) \in About(r, ch)
  <2> SUFFICES ASSUME NEW i \in About(q, ch), i # 1 PROVE (i - 1) \in About(r, ch)
    OBVIOUS
  <2>1. i \in Nat /\ i - 1 \in Nat /\ i - 1 # 0 /\ (i - 1) + 1 = i
    BY <1>2, <1>5
  <2>2. QED
    BY <1>3, <2>1
<1>7. QED
  BY <1>0, <1>1, <1>2, <1>3, <1>4, <1>5, <1>6, Zenon DEF r

LEMMA TailFits ==
  ASSUME NEW q \in Seq(Message), q # <<>>, NEW ch, NEW known \in BOOLEAN,
         NEW linked \in BOOLEAN, NEW now \in BOOLEAN, Fits(q, ch, known, linked),
         IF 1 \in About(q, ch) THEN now = (q[1].type = "link") ELSE now = known
  PROVE  Fits(Tail(q), ch, now, linked)
<1> DEFINE r == Tail(q)
           A == About(q, ch)
           B == About(r, ch)
<1>1. /\ A \subseteq Nat /\ B \subseteq Nat
      /\ \A i \in B : i >= 1 /\ i + 1 \in A /\ r[i] = q[i + 1]
      /\ \A i \in A : i >= 1 /\ (i # 1 => (i - 1) \in B)
  BY TailAbout
<1>2. /\ \A i, j \in A : i < j /\ (\A k \in A : k <= i \/ j <= k) => q[i].type # q[j].type
      /\ \A i \in A : (\A k \in A : i <= k) => (q[i].type = "unlink" <=> known)
      /\ A # {} => \E i \in A : (\A k \in A : k <= i) /\ (q[i].type = "link" <=> linked)
      /\ A = {} => (known <=> linked)
  BY DEF Fits, InTurns, FirstFits, LastFits, NoneFits
<1>3. \A i \in A : q[i].type \in {"link", "unlink"}
  <2> SUFFICES ASSUME NEW i \in A PROVE q[i].type \in {"link", "unlink"}
    OBVIOUS
  <2>1. i \in 1..Len(q) /\ q[i].type # "message"
    BY DEF About
  <2>2. q[i] \in Message
    BY <2>1, ElementOfSeq
  <2>3. QED
    BY <2>1, <2>2 DEF Message
<1> HIDE DEF A, B, r
<1>4. ASSUME NEW i \in B, NEW j \in B, i < j, \A k \in B : k <= i \/ j <= k
      PROVE  r[i].type # r[j].type
  <2>1. i + 1 \in A /\ j + 1 \in A /\ i + 1 < j + 1 /\ i \in Nat /\ j \in Nat
    BY <1>1, <1>4
  <2>2. ASSUME NEW k \in A PROVE k <= i + 1 \/ j + 1 <= k
    <3>1. CASE k = 1
      BY <1>1, <2>1, <3>1
    <3>2. CASE k # 1
      <4>1. k \in Nat /\ k - 1 \in B
        BY <1>1, <3>2
      <4>2. k - 1 <= i \/ j <= k - 1
        BY <1>4, <4>1
      <4>3. QED
        BY <2>1, <4>1, <4>2
    <3>3. QED
      BY <3>1, <3>2
  <2>3. q[i + 1].type # q[j + 1].type
    BY <1>2, <2>1, <2>2
  <2>4. QED
    BY <1>1, <2>3
<1>5. ASSUME NEW i \in B, \A k \in B : i <= k
      PROVE  r[i].type = "unlink" <=> now
  <2>1. i \in Nat /\ i >= 1 /\ i + 1 \in A /\ r[i] = q[i + 1]
    BY <1>1
  <2>2. \A k \in A : k = 1 \/ i + 1 <= k
    <3> SUFFICES ASSUME NEW k \in A, k # 1 PROVE i + 1 <= k
      OBVIOUS
    <3>1. k \in Nat /\ k - 1 \in B
      BY <1>1
    <3>2. i <= k - 1
      BY <1>5, <3>1
    <3>3. QED
      BY <2>1, <3>1, <3>2
  <2>3. CASE 1 \in A
    <3>1. \A k \in A : k <= 1 \/ i + 1 <= k
      BY <2>2
    <3>2. q[1].type # q[i + 1].type
      BY <1>2, <2>1, <2>3, <3>1
    <3>3. now = (q[1].type = "link")
      BY <2>3 DEF A
    <3>4. QED
      BY <1>3, <2>1, <2>3, <3>2, <3>3
  <2>4. CASE 1 \notin A
    <3>1. \A k \in A : i + 1 <= k
      BY <2>2, <2>4
    <3>2. QED
      BY <1>2, <2>1, <2>4, <3>1 DEF A
  <2>5. QED
    BY <2>3, <2>4
<1>6. ASSUME B # {}
      PROVE  \E i \in B : (\A k \in B : k <= i) /\ (r[i].type = "link" <=> linked)
  <2>1. PICK b \in B : TRUE
    BY <1>6
  <2>2. b \in Nat /\ b >= 1 /\ b + 1 \in A
    BY <1>1
  <2>3. PICK l \in A : (\A k \in A : k <= l) /\ (q[l].type = "link" <=> linked)
    BY <1>2, <2>2
  <2>4. l \in Nat /\ l # 1
    BY <1>1, <2>2, <2>3
  <2>5. l - 1 \in B /\ l - 1 \in Nat /\ (l - 1) + 1 = l
    BY <1>1, <2>4
  <2>6. \A k \in B : k <= l - 1
    <3> SUFFICES ASSUME NEW k \in B PROVE k <= l - 1
      OBVIOUS
    <3>1. k \in Nat /\ k + 1 <= l
      BY <1>1, <2>3
    <3>2. QED
      BY <2>4, <3>1
  <2>7. r[l - 1] = q[l]
    BY <1>1, <2>5
  <2>8. QED
    BY <2>3, <2>5, <2>6, <2>7
<1>7. ASSUME B = {} PROVE now <=> linked
  <2>1. \A i \in A : i = 1
    BY <1>1, <1>7
  <2>2. CASE 1 \in A
    <3>1. q[1].type = "link" <=> linked
      BY <1>2, <2>1, <2>2
    <3>2. QED
      BY <2>2, <3>1 DEF A
  <2>3. CASE 1 \notin A
    <3>1. A = {}
      BY <2>1, <2>3
    <3>2. QED
      BY <1>2, <2>3, <3>1 DEF A
  <2>4. QED
    BY <2>2, <2>3
<1>8. InTurns(r, ch) /\ FirstFits(r, ch, now)
  BY <1>4, <1>5 DEF InTurns, FirstFits, B
<1>9. LastFits(r, ch, linked) /\ NoneFits(r, ch, now, linked)
  BY <1>6, <1>7 DEF LastFits, NoneFits, B
<1>10. QED
  BY <1>8, <1>9 DEF Fits, r

LEMMA LinkInit == Init => LinkInv
<1> SUFFICES ASSUME Init PROVE LinkInv
  OBVIOUS
<1>1. \A s \in Sender : pipe[s] = <<>>
  BY DEF Init
<1>2. Signed
  <2>1. \A ch \in Linkable : ~ Linked(ch)
    BY Names DEF Linked, Init
  <2>2. QED
    BY <1>1, <2>1 DEF Signed, Sender
<1>3. ASSUME NEW ch \in Linkable
      PROVE  Fits(pipe[Worker[ch]], ch, Known(ch), Linked(ch))
  <2>1. pipe[Worker[ch]] = <<>>
    BY <1>1, Names DEF Sender
  <2>2. Known(ch) = FALSE /\ Linked(ch) = FALSE
    BY Names DEF Known, Linked, Init
  <2>3. QED
    BY <2>1, <2>2, NoRequest
<1>4. QED
  BY <1>2, <1>3 DEF LinkInv

(* Steps that touch neither the pipes nor what is known of channels.       *)
LEMMA LinksKept ==
  ASSUME LinkInv, UNCHANGED <<pipe, linked_channels_>>, open \subseteq open',
         \A ch \in Linkable : Known(ch)' = Known(ch)
  PROVE  LinkInv'
<1>1. \A ch \in Linkable : Linked(ch)' = Linked(ch)
  BY DEF Linked
<1>2. Signed'
  BY <1>1 DEF LinkInv, Signed
<1>3. QED
  BY <1>1, <1>2 DEF LinkInv

(* What a client puts into its pipe: a message, or the request that its    *)
(* set of linked channels calls for.                                       *)
LEMMA PutKeepsLinks ==
  ASSUME ConnectionInv, LinkInv, NEW s \in Sender, NEW m \in Message,
         m.from = s, s \in Remote \cup open, UNCHANGED <<inproc_out_, open>>,
         pipe' = [pipe EXCEPT ![s] = Append(@, m)],
         \A ch \in Linkable :
           IF m.type # "message" /\ m.channel = ch
           THEN /\ Worker[ch] = s /\ m.type = (IF Linked(ch) THEN "unlink" ELSE "link")
                /\ Linked(ch)' = (~ Linked(ch))
           ELSE Linked(ch)' = Linked(ch)
  PROVE  LinkInv'
<1>1. /\ pipe \in [Sender -> Seq(Message)] /\ pipe[s] \in Seq(Message)
      /\ pipe'[s] = Append(pipe[s], m) /\ \A r \in Sender \ {s} : pipe'[r] = pipe[r]
  BY DEF ConnectionInv, Types, ConnectionTypeOK
<1>2. Signed'
  <2>1. ASSUME NEW r \in Sender, NEW i \in 1..Len(pipe'[r]) PROVE pipe'[r][i].from = r
    <3>1. CASE r # s
      BY <1>1, <3>1 DEF LinkInv, Signed
    <3>2. CASE r = s
      <4>1. /\ Len(pipe'[s]) = Len(pipe[s]) + 1 /\ pipe'[s][Len(pipe[s]) + 1] = m
            /\ Len(pipe[s]) \in Nat /\ \A j \in 1..Len(pipe[s]) : pipe'[s][j] = pipe[s][j]
        BY <1>1, AppendProperties, LenProperties
      <4>2. CASE i = Len(pipe[s]) + 1
        BY <3>2, <4>1, <4>2
      <4>3. CASE i \in 1..Len(pipe[s])
        BY <3>2, <4>1, <4>3 DEF LinkInv, Signed
      <4>4. QED
        BY <3>2, <4>1, <4>2, <4>3
    <3>3. QED
      BY <3>1, <3>2
  <2>2. ASSUME NEW c \in Conn, pipe'[c] # <<>> PROVE c \in open'
    <3>1. CASE c = s
      BY <3>1, ConnectionAssumption
    <3>2. CASE c # s
      BY <1>1, <2>2, <3>2 DEF LinkInv, Signed, Sender
    <3>3. QED
      BY <3>1, <3>2
  <2>3. ASSUME NEW ch \in Linkable, Linked(ch)' PROVE Worker[ch] \in open'
    <3>1. CASE Linked(ch)
      BY <3>1 DEF LinkInv, Signed
    <3>2. CASE ~ Linked(ch)
      <4>1. Worker[ch] = s /\ Worker[ch] \in Conn
        BY <2>3, <3>2, Names
      <4>2. QED
        BY <4>1, ConnectionAssumption
    <3>3. QED
      BY <3>1, <3>2
  <2>4. QED
    BY <2>1, <2>2, <2>3 DEF Signed
<1>3. ASSUME NEW ch \in Linkable
      PROVE  Fits(pipe'[Worker[ch]], ch, Known(ch)', Linked(ch)')
  <2> DEFINE q == pipe[Worker[ch]]
  <2>1. /\ Fits(q, ch, Known(ch), Linked(ch)) /\ Known(ch)' = Known(ch)
        /\ Known(ch) \in BOOLEAN /\ Linked(ch) \in BOOLEAN /\ Worker[ch] \in Sender
    BY Names DEF LinkInv, Known, Linked, Sender
  <2>2. CASE m.type # "message" /\ m.channel = ch
    <3>1. Worker[ch] = s /\ Linked(ch)' = (~ Linked(ch))
          /\ m.type = (IF Linked(ch) THEN "unlink" ELSE "link")
      BY <2>2
    <3>2. q \in Seq(Message) /\ pipe'[Worker[ch]] = Append(q, m)
      BY <1>1, <3>1
    <3> HIDE DEF q
    <3>3. Fits(Append(q, m), ch, Known(ch), ~ Linked(ch))
      BY <2>1, <2>2, <3>1, <3>2, AppendRequest
    <3>4. QED
      BY <2>1, <3>1, <3>2, <3>3
  <2>3. CASE ~ (m.type # "message" /\ m.channel = ch)
    <3>1. Linked(ch)' = Linked(ch)
      BY <2>3
    <3>2. CASE Worker[ch] = s
      <4>1. q \in Seq(Message) /\ pipe'[Worker[ch]] = Append(q, m)
        BY <1>1, <3>2
      <4> HIDE DEF q
      <4>2. Fits(Append(q, m), ch, Known(ch), Linked(ch))
        BY <2>1, <2>3, <4>1, AppendOther
      <4>3. QED
        BY <2>1, <3>1, <4>1, <4>2
    <3>3. CASE Worker[ch] # s
      BY <1>1, <2>1, <3>1, <3>3
    <3>4. QED
      BY <3>2, <3>3
  <2>4. QED
    BY <2>2, <2>3
<1>4. QED
  BY <1>2, <1>3 DEF LinkInv

LEMMA SendKeepsLinks ==
  ASSUME ConnectionInv, LinkInv, NEW s \in Sender, Send(s)
  PROVE  LinkInv'
<1> DEFINE m == [type |-> "message", channel |-> Mail[s][sent[s] + 1], from |-> s,
                 number |-> sent[s] + 1]
<1>1. Mail[s][sent[s] + 1] \in Channel /\ sent[s] \in Nat
  <2>1. Mail[s] \in Seq(Channel) /\ sent[s] \in Nat
    BY ConnectionAssumption DEF ConnectionInv, Types
  <2>2. sent[s] + 1 \in 1..Len(Mail[s])
    BY <2>1, LenProperties DEF Send
  <2>3. QED
    BY <2>1, <2>2, ElementOfSeq
<1>2. m \in Message /\ m.type = "message" /\ m.from = s
  BY <1>1 DEF Message
<1>3. /\ pipe' = [pipe EXCEPT ![s] = Append(@, m)] /\ s \in Remote \cup open
      /\ UNCHANGED <<inproc_out_, open, linked_channels_>>
  BY DEF Send, Put, callVars
<1>4. \A ch \in Linkable : Linked(ch)' = Linked(ch)
  BY <1>3 DEF Linked
<1> HIDE DEF m
<1>5. QED
  BY <1>2, <1>3, <1>4, PutKeepsLinks

LEMMA RequestKeepsLinks ==
  ASSUME ConnectionInv, LinkInv, NEW channel \in Linkable,
         LinkChannel(channel) \/ UnlinkChannel(channel)
  PROVE  LinkInv'
<1> DEFINE c == Worker[channel]
           type == IF Linked(channel) THEN "unlink" ELSE "link"
           m == [type |-> type, channel |-> channel, from |-> c, number |-> 0]
<1>1. c \in Conn /\ c \in Sender /\ channel \in Channel
  BY Names DEF Sender, Channel
<1>2. type \in {"link", "unlink"}
  OBVIOUS
<1>3. /\ Put(c, type, channel) /\ UNCHANGED <<inproc_out_, open>> /\ c \in open
      /\ linked_channels_' = [linked_channels_ EXCEPT ![c] =
           IF Linked(channel) THEN @ \ {channel} ELSE @ \cup {channel}]
  <2>1. CASE LinkChannel(channel)
    <3>1. ~ Linked(channel)
      BY <2>1 DEF LinkChannel, Linked
    <3>2. QED
      BY <2>1, <3>1 DEF LinkChannel, callVars
  <2>2. CASE UnlinkChannel(channel)
    <3>1. Linked(channel)
      BY <2>2 DEF UnlinkChannel, Linked
    <3>2. c \in open
      BY <1>1, <3>1 DEF LinkInv, Signed
    <3>3. QED
      BY <2>2, <3>1, <3>2 DEF UnlinkChannel, callVars
  <2>3. QED
    BY <2>1, <2>2
<1>4. linked_channels_ \in [Conn -> SUBSET Linkable]
  BY DEF ConnectionInv, Types, ConnectionTypeOK
<1>5. \A ch \in Linkable : Linked(ch)' = IF ch = channel THEN ~ Linked(ch) ELSE Linked(ch)
  <2> SUFFICES ASSUME NEW ch \in Linkable
               PROVE  Linked(ch)' = IF ch = channel THEN ~ Linked(ch) ELSE Linked(ch)
    OBVIOUS
  <2>1. CASE ch = channel
    BY <1>1, <1>3, <1>4, <2>1 DEF Linked
  <2>2. CASE ch # channel
    BY <1>1, <1>3, <1>4, <2>2, Names DEF Linked
  <2>3. QED
    BY <2>1, <2>2
<1>6. pipe' = [pipe EXCEPT ![c] = Append(@, m)]
  BY <1>2, <1>3 DEF Put
<1>7. m \in Message /\ m.type = type /\ m.channel = channel /\ m.from = c /\ m.type # "message"
  BY <1>1, <1>2 DEF Message
<1> HIDE DEF m
<1>8. QED
  BY <1>1, <1>3, <1>5, <1>6, <1>7, PutKeepsLinks

(* The multiplexer takes the first message of a pipe.  What it knows of a  *)
(* channel changes with the requests for it only.                          *)
LEMMA ForwardKeepsLinks ==
  ASSUME ConnectionInv, LinkInv, NEW s \in Sender, pipe[s] # <<>>,
         pipe' = [pipe EXCEPT ![s] = Tail(@)], UNCHANGED <<open, linked_channels_>>,
         \A ch \in Linkable :
           IF Head(pipe[s]).type # "message" /\ Head(pipe[s]).channel = ch
           THEN Known(ch)' = (Head(pipe[s]).type = "link")
           ELSE Known(ch)' = Known(ch)
  PROVE  LinkInv'
<1>1. /\ pipe \in [Sender -> Seq(Message)] /\ pipe[s] \in Seq(Message)
      /\ pipe'[s] = Tail(pipe[s]) /\ \A r \in Sender \ {s} : pipe'[r] = pipe[r]
  BY DEF ConnectionInv, Types, ConnectionTypeOK
<1>2. \A ch \in Linkable : Linked(ch)' = Linked(ch)
  BY DEF Linked
<1>3. Signed'
  <2>1. ASSUME NEW r \in Sender, NEW i \in 1..Len(pipe'[r]) PROVE pipe'[r][i].from = r
    <3>1. CASE r # s
      BY <1>1, <3>1 DEF LinkInv, Signed
    <3>2. CASE r = s
      <4>1. i + 1 \in 1..Len(pipe[s]) /\ pipe'[s][i] = pipe[s][i + 1]
        BY <1>1, <3>2, HeadTailProperties, LenProperties
      <4>2. QED
        BY <3>2, <4>1 DEF LinkInv, Signed
    <3>3. QED
      BY <3>1, <3>2
  <2>2. ASSUME NEW c \in Conn, pipe'[c] # <<>> PROVE c \in open'
    <3>1. pipe[c] # <<>>
      BY <1>1, <2>2 DEF Sender
    <3>2. QED
      BY <3>1 DEF LinkInv, Signed
  <2>3. QED
    BY <1>2, <2>1, <2>2 DEF LinkInv, Signed
<1>4. ASSUME NEW ch \in Linkable
      PROVE  Fits(pipe'[Worker[ch]], ch, Known(ch)', Linked(ch)')
  <2> DEFINE q == pipe[Worker[ch]]
  <2>1. /\ Fits(q, ch, Known(ch), Linked(ch)) /\ Linked(ch)' = Linked(ch)
        /\ Known(ch) \in BOOLEAN /\ Known(ch)' \in BOOLEAN /\ Linked(ch) \in BOOLEAN
        /\ Worker[ch] \in Sender
    BY <1>2, Names DEF LinkInv, Known, Linked, Sender
  <2>2. CASE Worker[ch] = s
    <3>1. q \in Seq(Message) /\ q # <<>> /\ pipe'[Worker[ch]] = Tail(q) /\ q = pipe[s]
      BY <1>1, <2>2
    <3> HIDE DEF q
    <3>2. Head(q) = q[1] /\ 1 \in 1..Len(q)
      BY <3>1, TailAbout
    <3>3. 1 \in About(q, ch) <=> q[1].type # "message" /\ q[1].channel = ch
      BY <3>2 DEF About
    <3>4. IF 1 \in About(q, ch) THEN Known(ch)' = (q[1].type = "link") ELSE Known(ch)' = Known(ch)
      BY <3>1, <3>2, <3>3
    <3>5. Fits(Tail(q), ch, Known(ch)', Linked(ch))
      BY <2>1, <3>1, <3>4, TailFits
    <3>6. QED
      BY <2>1, <3>1, <3>5
  <2>3. CASE Worker[ch] # s
    <3>1. Head(pipe[s]) = pipe[s][1] /\ 1 \in 1..Len(pipe[s])
      BY <1>1, TailAbout
    <3>2. Request(pipe[s][1]) /\ pipe[s][1].from = s
      BY <3>1 DEF ConnectionInv, Requests, LinkInv, Signed
    <3>3. ~ (Head(pipe[s]).type # "message" /\ Head(pipe[s]).channel = ch)
      BY <2>3, <3>1, <3>2 DEF Request
    <3>4. Known(ch)' = Known(ch)
      BY <3>3
    <3>5. QED
      BY <1>1, <2>1, <2>3, <3>4
  <2>4. QED
    BY <2>2, <2>3
<1>5. QED
  BY <1>3, <1>4 DEF LinkInv

(* What the invariant says of the request that is next.                    *)
LEMMA HeadFits ==
  ASSUME ConnectionInv, LinkInv, NEW s \in Sender, pipe[s] # <<>>
  PROVE  LET m == Head(pipe[s]) IN
         /\ m \in Message /\ Request(m)
         /\ m.type = "link" => m.from \in DOMAIN inproc_out_ /\ Free(m.channel)
         /\ m.type = "unlink" => m.channel \in DOMAIN inproc_out_
<1> DEFINE q == pipe[s]
           m == Head(pipe[s])
<1>1. pipe[s] \in Seq(Message)
  BY DEF ConnectionInv, Types, ConnectionTypeOK
<1>2. m = q[1] /\ m \in Message /\ 1 \in 1..Len(q)
  BY <1>1, TailAbout
<1>3. Request(m) /\ m.from = s
  BY <1>2 DEF ConnectionInv, Requests, LinkInv, Signed
<1>4. ASSUME m.type # "message"
      PROVE  /\ m.channel \in Linkable /\ s = Worker[m.channel] /\ s \in DOMAIN inproc_out_
             /\ m.type = "unlink" <=> Known(m.channel)
  <2>1. m.channel \in Linkable /\ s = Worker[m.channel] /\ s \in Conn
    BY <1>3, <1>4, Names DEF Request
  <2>2. s \in DOMAIN inproc_out_
    BY <2>1 DEF LinkInv, Signed, ConnectionInv, Handshake
  <2>3. FirstFits(q, m.channel, Known(m.channel))
    BY <2>1 DEF LinkInv, Fits
  <2>4. 1 \in About(q, m.channel) /\ \A k \in About(q, m.channel) : 1 <= k
    BY <1>2, <1>4 DEF About
  <2>5. q[1].type = "unlink" <=> Known(m.channel)
    BY <2>3, <2>4 DEF FirstFits
  <2>6. QED
    BY <1>2, <2>1, <2>2, <2>5
<1> HIDE DEF m
<1>5. m.type = "link" => m.from \in DOMAIN inproc_out_ /\ Free(m.channel)
  BY <1>3, <1>4 DEF Free, Known
<1>6. m.type = "unlink" => m.channel \in DOMAIN inproc_out_
  BY <1>4 DEF Known
<1>7. QED
  BY <1>2, <1>3, <1>5, <1>6 DEF m

LEMMA ForwardLinks ==
  ASSUME ConnectionInv, LinkInv, NEW s \in Sender, Forward(s)
  PROVE  LinkInv'
<1> DEFINE m == Head(pipe[s])
<1>1. /\ pipe[s] # <<>> /\ pipe' = [pipe EXCEPT ![s] = Tail(@)]
      /\ UNCHANGED <<open, linked_channels_>>
  BY DEF Forward, callVars, clientVars
<1>2. /\ m \in Message /\ Request(m)
      /\ m.type = "link" => m.from \in DOMAIN inproc_out_ /\ Free(m.channel)
  BY <1>1, HeadFits
<1>3. \/ m.type = "message" /\ Deliver(m)
      \/ m.type = "link" /\ Link(m)
      \/ m.type = "unlink" /\ Unlink(m)
  BY DEF Forward
<1> HIDE DEF m
<1>4. ASSUME NEW ch \in Linkable
      PROVE  IF m.type # "message" /\ m.channel = ch
             THEN Known(ch)' = (m.type = "link") ELSE Known(ch)' = Known(ch)
  <2>1. CASE m.type = "message" /\ Deliver(m)
    BY <2>1 DEF Deliver, Known
  <2>2. CASE m.type = "link" /\ Link(m)
    <3>1. DOMAIN inproc_out_' = DOMAIN inproc_out_ \cup {m.channel}
      BY <1>2, <2>2 DEF Link, Register
    <3>2. QED
      BY <2>2, <3>1 DEF Known
  <2>3. CASE m.type = "unlink" /\ Unlink(m)
    <3>1. DOMAIN inproc_out_' = DOMAIN inproc_out_ \ {m.channel}
      BY <2>3 DEF Unlink
    <3>2. QED
      BY <2>3, <3>1 DEF Known
  <2>4. QED
    BY <1>3, <2>1, <2>2, <2>3
<1>5. QED
  BY <1>1, <1>4, ForwardKeepsLinks DEF m

LEMMA ServeKeepsLinks ==
  ASSUME ConnectionInv, LinkInv, ServeNewConnection
  PROVE  LinkInv'
<1>1. new_connection_channel_ \in Conn /\ UNCHANGED <<pipe, open, linked_channels_>>
  BY DEF ServeNewConnection, ConnectionInv, Types, ConnectionTypeOK, callVars, clientVars
<1>2. \/ DOMAIN inproc_out_' = DOMAIN inproc_out_ \cup {new_connection_channel_}
      \/ inproc_out_' = inproc_out_
  BY DEF ServeNewConnection, Register
<1>3. \A ch \in Linkable : Known(ch)' = Known(ch)
  BY <1>1, <1>2, Names DEF Known
<1>4. QED
  BY <1>1, <1>3, LinksKept

LEMMA LinksPreserved == ConnectionInv /\ LinkInv /\ [Next]_vars => LinkInv'
<1> SUFFICES ASSUME ConnectionInv, LinkInv, [Next]_vars PROVE LinkInv'
  OBVIOUS
<1>1. ASSUME NEW c \in Conn, Ask(c) \/ Return(c) \/ GetMessage(c) PROVE LinkInv'
  <2>1. UNCHANGED <<inproc_out_, pipe, linked_channels_>> /\ open \subseteq open'
    BY <1>1 DEF Ask, Return, GetMessage, clientVars, callVars
  <2>2. QED
    BY <2>1, LinksKept DEF Known
<1>2. ASSUME NEW s \in Sender, Send(s) PROVE LinkInv'
  BY <1>2, SendKeepsLinks
<1>3. ASSUME NEW channel \in Linkable, LinkChannel(channel) \/ UnlinkChannel(channel)
      PROVE  LinkInv'
  BY <1>3, RequestKeepsLinks
<1>4. CASE Run
  BY <1>4, ServeKeepsLinks, ForwardLinks DEF Run
<1>5. CASE UNCHANGED vars
  BY <1>5, LinksKept DEF vars, callVars, clientVars, Known
<1>6. QED
  BY <1>1, <1>2, <1>3, <1>4, <1>5 DEF Next

LEMMA LinksCome == ConnectionInv /\ LinkInv => LinksComing
<1> SUFFICES ASSUME ConnectionInv, LinkInv, NEW ch \in Linkable, Linked(ch), ~ Known(ch)
             PROVE  \E i \in DOMAIN pipe[Worker[ch]] :
                      pipe[Worker[ch]][i].type = "link" /\ pipe[Worker[ch]][i].channel = ch
  BY DEF LinksComing
<1> DEFINE q == pipe[Worker[ch]]
<1>1. Fits(q, ch, Known(ch), Linked(ch))
  BY DEF LinkInv
<1>2. About(q, ch) # {}
  BY <1>1 DEF Fits, NoneFits
<1>3. PICK i \in About(q, ch) : q[i].type = "link" <=> Linked(ch)
  BY <1>1, <1>2 DEF Fits, LastFits
<1>4. q \in Seq(Message)
  BY Names DEF ConnectionInv, Types, ConnectionTypeOK, Sender
<1>5. i \in DOMAIN q /\ q[i].channel = ch
  BY <1>4, LenProperties DEF About
<1>6. QED
  BY <1>3, <1>5

(* The safety half of AllReceived: however requests, messages and the      *)
(* opening of connections interleave, the multiplexer never drops a        *)
(* request to link or unlink (connection.cc:188-216: it checks the former, *)
(* and need not check the latter, as its TODO asks), and a worker that     *)
(* waits for reads is known to the multiplexer or about to be.             *)
THEOREM RequestsAreHeard == Spec => [](RequestsApply /\ LinksComing)
<1>1. Init => ConnectionInv /\ LinkInv
  BY InitInv, LinkInit
<1>2. ConnectionInv /\ LinkInv /\ [Next]_vars => (ConnectionInv /\ LinkInv)'
  BY NextPreserves, LinksPreserved
<1>3. ConnectionInv /\ LinkInv => RequestsApply
  BY HeadFits DEF RequestsApply
<1>4. ConnectionInv /\ LinkInv => LinksComing
  BY LinksCome
<1>5. QED
  BY <1>1, <1>2, <1>3, <1>4, PTL DEF Spec

-----------------------------------------------------------------------------
(***************************************************************************)
(* Nothing is left behind.  A channel that its worker does not have linked *)
(* has either never been, and all that came for it is kept aside, or its   *)
(* worker has got everything there ever is for it.                         *)
(***************************************************************************)

Letter == {m \in Message : m.type = "message"}

Letters ==
  /\ received \in [Conn -> Seq(Letter)] /\ inbox \in [Conn -> Seq(Letter)]
  /\ undelivered_messages_ \in [Channel -> Seq(Letter)]
  /\ \A s \in Sender : sent[s] <= Len(Mail[s])

Addressed(s, ch) == {i \in DOMAIN Mail[s] : Mail[s][i] = ch}

Got(s, ch) == Numbers(received[Worker[ch]], s, ch)

Complete(ch) == \A s \in Sender : Got(s, ch) = Addressed(s, ch)

(* Not linked, nor about to be, nor has anything come through.             *)
Untouched(ch) ==
  /\ ~ Known(ch) /\ About(pipe[Worker[ch]], ch) = {}
  /\ \A s \in Sender : Numbers(inbox[Worker[ch]], s, ch) = {} /\ Got(s, ch) = {}

Served(ch) == Linked(ch) \/ Complete(ch) \/ Untouched(ch)

ServedInv == Letters /\ \A ch \in Linkable : Served(ch)

WayInv == ConnectionInv /\ OrderInv /\ LinkInv

(* No message for the channel is in any pipe, kept aside or in the inbox,  *)
(* and none is yet to be sent.                                             *)
Done(ch) ==
  /\ Complete(ch)
  /\ \A s \in Sender :
       /\ Numbers(inbox[Worker[ch]], s, ch) = {}
       /\ Numbers(undelivered_messages_[ch], s, ch) = {}
       /\ \A r \in Sender : Numbers(pipe[r], s, ch) = {}

NothingOrphaned == \A ch \in Linkable : Linked(ch) \/ Untouched(ch) \/ Done(ch)

LEMMA WorkersOwn ==
  ASSUME NEW ch \in Linkable
  PROVE  /\ Worker[ch] \in Conn /\ Worker[ch] \in Sender /\ ch \in Channel /\ ch \notin Conn
         /\ Owner(ch) = Worker[ch]
BY Names DEF Sender, Channel, Owner

LEMMA SentAddressed ==
  ASSUME Letters, ConnectionInv, NEW s \in Sender, NEW ch
  PROVE  SentNumbers(s, ch) \subseteq Addressed(s, ch)
<1>1. Mail[s] \in Seq(Channel) /\ sent[s] \in Nat /\ sent[s] <= Len(Mail[s])
  BY ConnectionAssumption DEF Letters, ConnectionInv, Types
<1>2. DOMAIN Mail[s] = 1..Len(Mail[s]) /\ Len(Mail[s]) \in Nat
  BY <1>1, LenProperties
<1>3. QED
  BY <1>1, <1>2 DEF SentNumbers, Addressed

LEMMA GotSent ==
  ASSUME OrderInv, NEW s \in Sender, NEW ch \in Linkable
  PROVE  /\ Got(s, ch) \subseteq SentNumbers(s, ch)
         /\ Numbers(inbox[Worker[ch]], s, ch) \subseteq SentNumbers(s, ch)
         /\ Numbers(undelivered_messages_[ch], s, ch) \subseteq SentNumbers(s, ch)
         /\ Numbers(pipe[s], s, ch) \subseteq SentNumbers(s, ch)
BY WorkersOwn DEF OrderInv, Sequel, Union, Got

GotOnlySent == \A s \in Sender, ch \in Linkable : Got(s, ch) \subseteq SentNumbers(s, ch)

LEMMA GotSentNext == OrderInv' => GotOnlySent'
<1>1. OrderInv => GotOnlySent
  BY GotSent DEF GotOnlySent
<1>2. QED
  BY <1>1, PTL

(* Where all has been got, nothing is left on the way.                     *)
LEMMA CompleteIsDone ==
  ASSUME WayInv, Letters, NEW ch \in Linkable, Complete(ch)
  PROVE  Done(ch)
<1>1. ASSUME NEW s \in Sender
      PROVE  /\ Numbers(inbox[Worker[ch]], s, ch) = {}
             /\ Numbers(undelivered_messages_[ch], s, ch) = {}
             /\ Numbers(pipe[s], s, ch) = {}
  <2> DEFINE A == Got(s, ch)
             B == Numbers(inbox[Worker[ch]], s, ch)
             K == Numbers(undelivered_messages_[ch], s, ch)
             D == Numbers(pipe[s], s, ch)
  <2>1. B \subseteq SentNumbers(s, ch) /\ K \subseteq SentNumbers(s, ch) /\ D \subseteq SentNumbers(s, ch)
    BY GotSent DEF WayInv
  <2>2. SentNumbers(s, ch) \subseteq A /\ SentNumbers(s, ch) \subseteq Int
    BY SentAddressed DEF Complete, WayInv, SentNumbers
  <2>3. Before(A, B) /\ Before(A, K) /\ Before(A, D)
    BY WorkersOwn DEF WayInv, OrderInv, Sequel, Chain, Got
  <2> HIDE DEF A, B, K, D
  <2>4. ASSUME NEW T \in SUBSET SentNumbers(s, ch), Before(A, T) PROVE T = {}
    <3>1. ASSUME NEW x \in T PROVE FALSE
      <4>1. x \in Int /\ x \in A
        BY <2>2
      <4>2. x < x
        BY <2>4, <4>1 DEF Before
      <4>3. QED
        BY <4>1, <4>2
    <3>2. QED
      BY <3>1
  <2>5. B = {} /\ K = {} /\ D = {}
    BY <2>1, <2>3, <2>4
  <2>6. QED
    BY <2>5 DEF B, K, D
<1>2. ASSUME NEW s \in Sender, NEW r \in Sender
      PROVE  Numbers(pipe[r], s, ch) = {}
  BY <1>1, WorkersOwn DEF WayInv, OrderInv
<1>3. QED
  BY <1>1, <1>2 DEF Done

LEMMA AddressedNumbers ==
  ASSUME NEW s \in Sender, NEW ch
  PROVE  Addressed(s, ch) \subseteq Int
<1>1. Mail[s] \in Seq(Channel)
  BY ConnectionAssumption
<1> DEFINE q == Mail[s]
<1> HIDE DEF q
<1>2. DOMAIN q = 1..Len(q) /\ Len(q) \in Nat
  BY <1>1, LenProperties DEF q
<1>3. QED
  BY <1>2 DEF Addressed, q

(* The senders are finitely many, and so is what they have for a channel.  *)
LEMMA MailFinite ==
  ASSUME NEW ch
  PROVE  IsFiniteSet(SentTo(ch))
<1> DEFINE Of(s) == {<<s, i>> : i \in Addressed(s, ch)}
           f == [s \in Sender |-> Of(s)]
           All == {Of(s) : s \in Sender}
<1>1. IsFiniteSet(All)
  <2>1. f \in Surjection(Sender, All)
    BY DEF Surjection
  <2> HIDE DEF f, All
  <2>2. IsFiniteSet(Sender)
    BY ConnectionAssumption
  <2>3. QED
    BY <2>1, <2>2, FS_Surjection
<1>2. ASSUME NEW s \in Sender PROVE IsFiniteSet(Of(s))
  <2> DEFINE D == Addressed(s, ch)
             g == [i \in D |-> <<s, i>>]
             T == Of(s)
  <2>1. IsFiniteSet(D)
    <3>1. Mail[s] \in Seq(Channel)
      BY ConnectionAssumption
    <3>2. DOMAIN Mail[s] = 1..Len(Mail[s]) /\ Len(Mail[s]) \in Nat
      BY <3>1, LenProperties
    <3>3. IsFiniteSet(1..Len(Mail[s])) /\ D \in SUBSET (1..Len(Mail[s]))
      BY <3>2, FS_Interval, 1 \in Int DEF Addressed
    <3> HIDE DEF D
    <3>4. QED
      BY <3>3, FS_Subset
  <2>2. g \in Surjection(D, T)
    BY DEF Surjection
  <2> HIDE DEF g, T, D
  <2>3. IsFiniteSet(T)
    BY <2>1, <2>2, FS_Surjection
  <2>4. QED
    BY <2>3 DEF T
<1>3. \A T \in All : IsFiniteSet(T)
  BY <1>2
<1>4. SentTo(ch) = UNION All
  BY DEF SentTo, Addressed
<1> HIDE DEF All
<1>5. QED
  BY <1>1, <1>3, <1>4, FS_UNION

(* As many messages as there are, none twice: all of them.                 *)
LEMMA AsManyIsAll ==
  ASSUME WayInv, Letters, NEW ch \in Linkable,
         Cardinality(GotOn(ch)) = Cardinality(SentTo(ch))
  PROVE  Complete(ch)
<1> DEFINE q == received[Worker[ch]]
           G == GotOn(ch)
           T == SentTo(ch)
           f == [i \in G |-> <<q[i].from, q[i].number>>]
<1>1. q \in Seq(Letter) /\ q \in Seq(Message) /\ DOMAIN q = 1..Len(q) /\ Len(q) \in Nat
  BY WorkersOwn, LenProperties DEF WayInv, OrderInv, Letters
<1>2. ASSUME NEW i \in G
      PROVE  /\ i \in 1..Len(q) /\ q[i].from \in Sender /\ Belongs(q[i], q[i].from, ch)
             /\ q[i].number \in Numbers(q, q[i].from, ch)
             /\ q[i].number \in Addressed(q[i].from, ch)
  <2>1. i \in 1..Len(q) /\ q[i].channel = ch
    BY <1>1 DEF GotOn
  <2>2. q[i] \in Letter
    <3> HIDE DEF q
    <3>1. QED
      BY <1>1, <2>1, ElementOfSeq
  <2>3. q[i].from \in Sender /\ Belongs(q[i], q[i].from, ch)
    BY <2>1, <2>2 DEF Letter, Message, Belongs
  <2>4. q[i].number \in Numbers(q, q[i].from, ch)
    BY <1>1, <2>1, <2>3 DEF Numbers
  <2>5. Numbers(q, q[i].from, ch) \subseteq Addressed(q[i].from, ch)
    BY <2>3, GotSent, SentAddressed DEF WayInv, Got
  <2>6. QED
    BY <2>1, <2>3, <2>4, <2>5
<1>3. \A s \in Sender : Ascending(q, s, ch)
  BY WorkersOwn DEF WayInv, OrderInv, Sequel, Chain
<1>4. f \in [G -> T]
  <2>1. \A i \in G : <<q[i].from, q[i].number>> \in T
    BY <1>2 DEF SentTo, Addressed
  <2>2. QED
    BY <2>1
<1>5. ASSUME NEW i \in G, NEW j \in G, f[i] = f[j] PROVE i = j
  <2>1. q[i].from = q[j].from /\ q[i].number = q[j].number
    BY <1>5
  <2>2. q[i].number \in Int /\ i \in Int /\ j \in Int
    <3>1. q[i].number \in Addressed(q[i].from, ch) /\ q[i].from \in Sender
      BY <1>2
    <3> HIDE DEF q
    <3>2. q[i].number \in Int
      BY <3>1, AddressedNumbers
    <3>3. i \in Int /\ j \in Int
      BY <1>1, <1>2
    <3>4. QED
      BY <3>2, <3>3
  <2>3. Belongs(q[i], q[i].from, ch) /\ Belongs(q[j], q[i].from, ch)
        /\ i \in DOMAIN q /\ j \in DOMAIN q /\ Ascending(q, q[i].from, ch)
    BY <1>1, <1>2, <1>3, <2>1
  <2> HIDE DEF q
  <2>4. /\ i < j => q[i].number < q[j].number
        /\ j < i => q[j].number < q[i].number
    BY <2>3 DEF Ascending
  <2>5. QED
    BY <2>1, <2>2, <2>4
<1>6. f \in Injection(G, T)
  BY <1>4, <1>5 DEF Injection, IsInjective
<1>7. f \in Surjection(G, T)
  <2>1. IsFiniteSet(T) /\ Cardinality(G) = Cardinality(T)
    BY MailFinite
  <2> HIDE DEF f, G, T
  <2>2. QED
    BY <1>6, <2>1, FS_Injection
<1>8. ASSUME NEW s \in Sender PROVE Got(s, ch) = Addressed(s, ch)
  <2>1. Got(s, ch) \subseteq Addressed(s, ch)
    BY GotSent, SentAddressed DEF WayInv
  <2>2. ASSUME NEW n \in Addressed(s, ch) PROVE n \in Got(s, ch)
    <3>1. <<s, n>> \in T
      BY DEF SentTo, Addressed
    <3>2. PICK i \in G : f[i] = <<s, n>>
      BY <1>7, <3>1 DEF Surjection
    <3>3. q[i].from = s /\ q[i].number = n
      BY <3>2
    <3>4. QED
      BY <1>2, <3>3 DEF Got
  <2>3. QED
    BY <2>1, <2>2
<1>9. QED
  BY <1>8 DEF Complete

-----------------------------------------------------------------------------
LEMMA ServedInit == Init => ServedInv
<1> SUFFICES ASSUME Init PROVE ServedInv
  OBVIOUS
<1>1. /\ received \in [Conn -> Seq(Letter)] /\ inbox \in [Conn -> Seq(Letter)]
      /\ undelivered_messages_ \in [Channel -> Seq(Letter)]
  BY EmptySeq DEF Init
<1>2. \A s \in Sender : sent[s] <= Len(Mail[s])
  <2> SUFFICES ASSUME NEW s \in Sender PROVE sent[s] <= Len(Mail[s])
    OBVIOUS
  <2>1. Mail[s] \in Seq(Channel) /\ sent[s] = 0
    BY ConnectionAssumption DEF Init
  <2>2. QED
    BY <2>1, LenProperties
<1>3. ASSUME NEW ch \in Linkable PROVE Untouched(ch)
  <2>1. /\ ~ Known(ch) /\ pipe[Worker[ch]] = <<>> /\ inbox[Worker[ch]] = <<>>
        /\ received[Worker[ch]] = <<>>
    BY WorkersOwn DEF Init, Known
  <2>2. About(<<>>, ch) = {}
    BY DEF About
  <2>3. QED
    BY <2>1, <2>2, NumbersOfNone DEF Untouched, Got
<1>4. QED
  BY <1>1, <1>2, <1>3 DEF ServedInv, Letters, Served

LEMMA LettersAreMessages ==
  ASSUME Letters
  PROVE  /\ received \in [Conn -> Seq(Message)] /\ inbox \in [Conn -> Seq(Message)]
         /\ undelivered_messages_ \in [Channel -> Seq(Message)] /\ Letter \subseteq Message
<1>1. Letter \subseteq Message
  BY DEF Letter
<1>2. Seq(Letter) \subseteq Seq(Message)
  <2>1. ASSUME NEW q \in Seq(Letter) PROVE q \in Seq(Message)
    <3>1. Len(q) \in Nat /\ q \in [1..Len(q) -> Letter]
      BY LenProperties
    <3>2. q \in [1..Len(q) -> Message]
      BY <1>1, <3>1
    <3>3. QED
      BY <3>1, <3>2
  <2>2. QED
    BY <2>1
<1>3. QED
  BY <1>1, <1>2 DEF Letters

(* Steps that do not touch what the channel knows.                         *)
LEMMA StillServed ==
  ASSUME NEW ch \in Linkable, Served(ch), Linked(ch)' = Linked(ch), Known(ch)' = Known(ch),
         UNCHANGED received, About(pipe[Worker[ch]], ch)' = About(pipe[Worker[ch]], ch),
         \A s \in Sender :
           Numbers(inbox[Worker[ch]], s, ch) = {} => Numbers(inbox'[Worker[ch]], s, ch) = {}
  PROVE  Served(ch)'
<1>1. \A s \in Sender : Got(s, ch)' = Got(s, ch)
  BY DEF Got, Numbers, Belongs
<1>2. Complete(ch) => Complete(ch)'
  BY <1>1 DEF Complete, Addressed
<1>3. Untouched(ch) => Untouched(ch)'
  BY <1>1 DEF Untouched
<1>4. QED
  BY <1>2, <1>3 DEF Served

LEMMA GetMessageServed ==
  ASSUME WayInv, WayInv', ServedInv, NEW c \in Conn, GetMessage(c)
  PROVE  ServedInv'
<1> DEFINE h == Head(inbox[c])
<1>1. /\ received' = [received EXCEPT ![c] = Append(@, h)]
      /\ inbox' = [inbox EXCEPT ![c] = Tail(@)] /\ inbox[c] # <<>>
      /\ UNCHANGED <<inproc_out_, undelivered_messages_, pipe, linked_channels_, sent>>
  BY DEF GetMessage
<1>2. /\ Letters /\ inbox[c] \in Seq(Letter) /\ received[c] \in Seq(Letter)
      /\ inbox[c] \in Seq(Message) /\ received[c] \in Seq(Message)
  BY LettersAreMessages DEF ServedInv, Letters
<1>3. h \in Letter /\ h \in Message /\ Tail(inbox[c]) \in Seq(Letter) /\ Append(received[c], h) \in Seq(Letter)
  BY <1>1, <1>2, HeadTailProperties, AppendProperties DEF Letter
<1>4. Letters'
  BY <1>1, <1>2, <1>3 DEF Letters
<1>5. ASSUME NEW ch \in Linkable, NEW s \in Sender
      PROVE  /\ Got(s, ch) \subseteq Got(s, ch)'
             /\ Numbers(inbox[Worker[ch]], s, ch) = {} =>
                  Got(s, ch)' = Got(s, ch) /\ Numbers(inbox'[Worker[ch]], s, ch) = {}
  <2>1. CASE Worker[ch] # c
    BY <1>1, <2>1, WorkersOwn, LettersAreMessages, <1>2 DEF Got
  <2>2. CASE Worker[ch] = c
    <3>1. inbox'[c] = Tail(inbox[c]) /\ received'[c] = Append(received[c], h)
      BY <1>1, LettersAreMessages, <1>2
    <3>2. Numbers(inbox[c], s, ch) = Number(h, s, ch) \cup Numbers(Tail(inbox[c]), s, ch)
      BY <1>1, <1>2, NumbersOfTail
    <3> HIDE DEF h
    <3>3. Numbers(Append(received[c], h), s, ch) = Numbers(received[c], s, ch) \cup Number(h, s, ch)
      BY <1>2, <1>3, NumbersOfAppend
    <3>4. QED
      BY <2>2, <3>1, <3>2, <3>3 DEF Got
  <2>3. QED
    BY <2>1, <2>2
<1>6. ASSUME NEW ch \in Linkable PROVE Served(ch)'
  <2>1. Served(ch) /\ Linked(ch)' = Linked(ch) /\ Known(ch)' = Known(ch)
    BY <1>1 DEF ServedInv, Linked, Known
  <2>2. CASE Complete(ch)
    <3>1. ASSUME NEW s \in Sender PROVE Got(s, ch)' = Addressed(s, ch)
      <4>1. Got(s, ch)' \subseteq SentNumbers(s, ch)'
        BY GotSentNext DEF WayInv, GotOnlySent
      <4>2. SentNumbers(s, ch)' = SentNumbers(s, ch)
        BY <1>1 DEF SentNumbers
      <4>3. SentNumbers(s, ch) \subseteq Addressed(s, ch)
        BY <1>2, SentAddressed DEF WayInv
      <4>4. Addressed(s, ch) \subseteq Got(s, ch)'
        BY <1>5, <2>2 DEF Complete
      <4>5. QED
        BY <4>1, <4>2, <4>3, <4>4
    <3>2. QED
      BY <3>1 DEF Served, Complete, Addressed
  <2>3. CASE Untouched(ch)
    <3>1. Untouched(ch)'
      BY <1>1, <1>5, <2>1, <2>3 DEF Untouched
    <3>2. QED
      BY <3>1 DEF Served
  <2>4. QED
    BY <2>1, <2>2, <2>3 DEF Served
<1>7. QED
  BY <1>4, <1>6 DEF ServedInv

(* Clients that put something into their pipe.                             *)
LEMMA AboutAppend ==
  ASSUME NEW q \in Seq(Message), NEW m \in Message, NEW ch,
         ~ (m.type # "message" /\ m.channel = ch)
  PROVE  About(Append(q, m), ch) = About(q, ch)
<1> DEFINE r == Append(q, m)
<1>1. /\ Len(q) \in Nat /\ Len(r) = Len(q) + 1 /\ r[Len(q) + 1] = m
      /\ \A i \in 1..Len(q) : r[i] = q[i]
  BY AppendProperties, LenProperties
<1> HIDE DEF r
<1>2. QED
  BY <1>1 DEF About, r

LEMMA PutServed ==
  ASSUME WayInv, ServedInv, NEW s \in Sender, NEW m \in Message, NEW ch \in Linkable,
         ~ (m.type # "message" /\ m.channel = ch), Linked(ch)' = Linked(ch),
         pipe' = [pipe EXCEPT ![s] = Append(@, m)], UNCHANGED <<inproc_out_, inbox, received>>
  PROVE  Served(ch)'
<1>1. pipe \in [Sender -> Seq(Message)] /\ Worker[ch] \in Sender
  BY WorkersOwn DEF WayInv, ConnectionInv, Types, ConnectionTypeOK
<1>2. About(pipe[Worker[ch]], ch)' = About(pipe[Worker[ch]], ch)
  <2> SUFFICES About(pipe'[Worker[ch]], ch) = About(pipe[Worker[ch]], ch)
    BY DEF About
  <2>1. CASE Worker[ch] = s
    <3>1. pipe'[s] = Append(pipe[s], m)
      BY <1>1
    <3>2. QED
      BY <1>1, <2>1, <3>1, AboutAppend
  <2>2. CASE Worker[ch] # s
    BY <1>1, <2>2
  <2>3. QED
    BY <2>1, <2>2
<1>3. Served(ch) /\ Known(ch)' = Known(ch)
  BY DEF ServedInv, Known
<1>4. QED
  BY <1>2, <1>3, StillServed

LEMMA SendServed ==
  ASSUME WayInv, ServedInv, NEW s \in Sender, Send(s)
  PROVE  ServedInv'
<1> DEFINE m == [type |-> "message", channel |-> Mail[s][sent[s] + 1], from |-> s,
                 number |-> sent[s] + 1]
<1>0. Mail[s] \in Seq(Channel) /\ sent \in [Sender -> Nat] /\ sent[s] < Len(Mail[s])
  BY ConnectionAssumption DEF WayInv, ConnectionInv, Types, Send
<1>1. Mail[s][sent[s] + 1] \in Channel /\ sent[s] \in Nat /\ Len(Mail[s]) \in Nat
  <2>1. sent[s] + 1 \in 1..Len(Mail[s])
    BY <1>0, LenProperties
  <2>2. QED
    BY <1>0, <2>1, ElementOfSeq, LenProperties
<1>2. m \in Message /\ m.type = "message"
  BY <1>1 DEF Message
<1>3. /\ pipe' = [pipe EXCEPT ![s] = Append(@, m)] /\ sent' = [sent EXCEPT ![s] = @ + 1]
      /\ UNCHANGED <<inproc_out_, undelivered_messages_, inbox, received, linked_channels_>>
  BY DEF Send, Put
<1>4. \A ch \in Linkable : Linked(ch)' = Linked(ch)
  BY <1>3 DEF Linked
<1> HIDE DEF m
<1>5. \A ch \in Linkable : Served(ch)'
  BY <1>2, <1>3, <1>4, PutServed
<1>6. \A r \in Sender : sent'[r] <= Len(Mail[r])
  BY <1>0, <1>1, <1>3 DEF ServedInv, Letters
<1>7. Letters'
  BY <1>3, <1>6 DEF ServedInv, Letters
<1>8. QED
  BY <1>5, <1>7 DEF ServedInv

(* A worker unlinks a channel when it has got as many messages as there    *)
(* are for it.                                                             *)
LEMMA RequestServed ==
  ASSUME WayInv, ServedInv, NEW channel \in Linkable,
         LinkChannel(channel) \/ UnlinkChannel(channel)
  PROVE  ServedInv'
<1> DEFINE c == Worker[channel]
<1>1. PICK type \in {"link", "unlink"} :
        /\ Put(c, type, channel)
        /\ UNCHANGED <<inproc_out_, undelivered_messages_, inbox, received, sent>>
        /\ linked_channels_' = [linked_channels_ EXCEPT ![c] =
             IF type = "link" THEN @ \cup {channel} ELSE @ \ {channel}]
        /\ type = "unlink" => Cardinality(GotOn(channel)) = Cardinality(SentTo(channel))
  <2>1. CASE LinkChannel(channel)
    BY <2>1 DEF LinkChannel
  <2>2. CASE UnlinkChannel(channel)
    BY <2>2 DEF UnlinkChannel
  <2>3. QED
    BY <2>1, <2>2
<1> DEFINE m == [type |-> type, channel |-> channel, from |-> c, number |-> 0]
<1>2. m \in Message /\ m.channel = channel
  BY WorkersOwn DEF Message
<1>3. pipe' = [pipe EXCEPT ![c] = Append(@, m)]
  BY <1>1 DEF Put
<1> HIDE DEF m
<1>4. linked_channels_ \in [Conn -> SUBSET Linkable] /\ c \in Conn /\ c \in Sender
  BY WorkersOwn DEF WayInv, ConnectionInv, Types, ConnectionTypeOK
<1>5. ASSUME NEW ch \in Linkable, ch # channel PROVE Served(ch)'
  <2>1. Linked(ch)' = Linked(ch)
    BY <1>1, <1>4, <1>5, WorkersOwn DEF Linked
  <2>2. QED
    BY <1>1, <1>2, <1>3, <1>4, <1>5, <2>1, PutServed
<1>6. Served(channel)'
  <2>1. CASE type = "link"
    <3>1. Linked(channel)'
      BY <1>1, <1>4, <2>1 DEF Linked
    <3>2. QED
      BY <3>1 DEF Served
  <2>2. CASE type = "unlink"
    <3>1. Complete(channel)
      BY <1>1, <2>2, AsManyIsAll DEF ServedInv
    <3>2. Complete(channel)'
      BY <1>1, <3>1 DEF Complete, Got, Addressed
    <3>3. QED
      BY <3>2 DEF Served
  <2>3. QED
    BY <2>1, <2>2
<1>7. Letters'
  BY <1>1 DEF ServedInv, Letters
<1>8. QED
  BY <1>5, <1>6, <1>7 DEF ServedInv

-----------------------------------------------------------------------------
(* What the multiplexer adds to an inbox.                                  *)
LEMMA AddedToInbox ==
  ASSUME Letters, NEW c \in Conn, NEW q \in Seq(Letter), NEW ch \in Linkable,
         inbox' = [inbox EXCEPT ![c] = @ \o q], NEW s, Numbers(q, s, ch) = {},
         Numbers(inbox[Worker[ch]], s, ch) = {}
  PROVE  Numbers(inbox'[Worker[ch]], s, ch) = {}
<1>1. inbox \in [Conn -> Seq(Message)] /\ q \in Seq(Message) /\ Worker[ch] \in Conn
  BY LettersAreMessages, WorkersOwn
<1>2. CASE Worker[ch] = c
  <2>1. inbox'[c] = inbox[c] \o q
    BY <1>1
  <2>2. Numbers(inbox[c] \o q, s, ch) = Numbers(inbox[c], s, ch) \cup Numbers(q, s, ch)
    <3>1. inbox[c] \in Seq(Message)
      BY <1>1
    <3>2. \A a, b \in Seq(Message) : Numbers(a \o b, s, ch) = Numbers(a, s, ch) \cup Numbers(b, s, ch)
      BY NumbersOfConcat
    <3>3. QED
      BY <1>1, <3>1, <3>2
  <2>3. QED
    BY <1>2, <2>1, <2>2
<1>3. CASE Worker[ch] # c
  <2>1. inbox'[Worker[ch]] = inbox[Worker[ch]]
    BY <1>1, <1>3
  <2>2. QED
    BY <2>1
<1>4. QED
  BY <1>2, <1>3

LEMMA RegisterServed ==
  ASSUME WayInv, Letters, NEW k \in Channel, NEW c \in Conn, Register(k, c),
         UNCHANGED <<received, sent>>
  PROVE  /\ Letters'
         /\ \A ch \in Linkable : ch # k => Known(ch)' = Known(ch)
         /\ \A ch \in Linkable, s \in Sender :
              ch # k /\ Numbers(inbox[Worker[ch]], s, ch) = {} =>
                Numbers(inbox'[Worker[ch]], s, ch) = {}
<1> DEFINE q == undelivered_messages_[k]
<1>1. q \in Seq(Letter) /\ inbox' = [inbox EXCEPT ![c] = @ \o q]
  BY DEF Letters, Register
<1>2. Letters'
  <2>1. inbox[c] \in Seq(Letter) /\ inbox[c] \o q \in Seq(Letter)
    BY <1>1, ConcatProperties DEF Letters
  <2>2. inbox' \in [Conn -> Seq(Letter)]
    BY <1>1, <2>1 DEF Letters
  <2>3. undelivered_messages_' \in [Channel -> Seq(Letter)]
    BY EmptySeq DEF Letters, Register
  <2>4. QED
    BY <2>2, <2>3 DEF Letters
<1>3. ASSUME NEW ch \in Linkable, ch # k PROVE Known(ch)' = Known(ch)
  BY <1>3 DEF Register, Known
<1>4. ASSUME NEW ch \in Linkable, NEW s \in Sender, ch # k,
             Numbers(inbox[Worker[ch]], s, ch) = {}
      PROVE  Numbers(inbox'[Worker[ch]], s, ch) = {}
  <2>1. Numbers(q, s, ch) = {}
    BY <1>4, WorkersOwn DEF WayInv, OrderInv
  <2> HIDE DEF q
  <2>2. QED
    BY <1>1, <1>4, <2>1, AddedToInbox
<1>5. QED
  BY <1>2, <1>3, <1>4

LEMMA ServeServed ==
  ASSUME WayInv, ServedInv, ServeNewConnection
  PROVE  ServedInv'
<1> DEFINE c == new_connection_channel_
<1>1. c \in Conn /\ c \in Channel /\ UNCHANGED <<pipe, linked_channels_, received, sent>>
  BY DEF ServeNewConnection, WayInv, ConnectionInv, Types, ConnectionTypeOK, Channel, clientVars
<1>2. Letters /\ \A ch \in Linkable : Served(ch) /\ ch # c
  BY <1>1, WorkersOwn DEF ServedInv
<1>3. /\ Letters' /\ \A ch \in Linkable : Known(ch)' = Known(ch)
      /\ \A ch \in Linkable, s \in Sender :
           Numbers(inbox[Worker[ch]], s, ch) = {} => Numbers(inbox'[Worker[ch]], s, ch) = {}
  <2>1. CASE Free(c)
    <3>1. Register(c, c)
      BY <2>1 DEF ServeNewConnection
    <3>2. QED
      BY <1>1, <1>2, <3>1, RegisterServed
  <2>2. CASE ~ Free(c)
    <3>1. UNCHANGED <<inproc_out_, inbox, undelivered_messages_>>
      BY <2>2 DEF ServeNewConnection
    <3>2. QED
      BY <1>1, <1>2, <3>1 DEF Letters, Known
  <2>3. QED
    BY <2>1, <2>2
<1>4. \A ch \in Linkable : Linked(ch)' = Linked(ch) /\ About(pipe[Worker[ch]], ch)' = About(pipe[Worker[ch]], ch)
  BY <1>1 DEF Linked, About
<1>5. \A ch \in Linkable : Served(ch)'
  BY <1>1, <1>2, <1>3, <1>4, StillServed
<1>6. QED
  BY <1>3, <1>5 DEF ServedInv

LEMMA DeliverServed ==
  ASSUME WayInv, Letters, NEW m \in Letter, Deliver(m), UNCHANGED <<received, sent>>
  PROVE  /\ Letters'
         /\ \A ch \in Linkable, s \in Sender :
              ~ Known(ch) /\ Numbers(inbox[Worker[ch]], s, ch) = {} =>
                Numbers(inbox'[Worker[ch]], s, ch) = {}
<1>1. m \in Message /\ m.channel \in Channel
  BY DEF Letter, Message
<1>2. CASE m.channel \in DOMAIN inproc_out_
  <2> DEFINE c == inproc_out_[m.channel]
             one == <<m>>
  <2>1. c \in Conn
    BY <1>2 DEF WayInv, ConnectionInv, Types, ConnectionTypeOK
  <2>2. /\ inbox' = [inbox EXCEPT ![c] = Append(@, m)] /\ inbox[c] \in Seq(Letter)
        /\ undelivered_messages_' = undelivered_messages_
    BY <1>2, <2>1 DEF Deliver, Letters
  <2>3. Append(inbox[c], m) \in Seq(Letter)
    BY <2>2, AppendProperties
  <2>4. Letters'
    BY <2>1, <2>2, <2>3 DEF Letters
  <2> HIDE DEF c
  <2>5. ASSUME NEW ch \in Linkable, NEW s \in Sender, ~ Known(ch),
               Numbers(inbox[Worker[ch]], s, ch) = {}
        PROVE  Numbers(inbox'[Worker[ch]], s, ch) = {}
    <3>1. Number(m, s, ch) = {}
      BY <1>2, <2>5 DEF Number, Belongs, Known
    <3>2. inbox \in [Conn -> Seq(Message)] /\ Worker[ch] \in Conn
      BY LettersAreMessages, WorkersOwn
    <3>3. CASE Worker[ch] = c
      <4>1. inbox'[c] = Append(inbox[c], m) /\ inbox[c] \in Seq(Message)
        BY <2>1, <2>2, <3>2
      <4>2. Numbers(Append(inbox[c], m), s, ch) = Numbers(inbox[c], s, ch) \cup Number(m, s, ch)
        BY <1>1, <4>1, NumbersOfAppend
      <4>3. QED
        BY <2>5, <3>1, <3>3, <4>1, <4>2
    <3>4. CASE Worker[ch] # c
      BY <2>2, <2>5, <3>2, <3>4
    <3>5. QED
      BY <3>3, <3>4
  <2>6. QED
    BY <2>4, <2>5
<1>3. CASE m.channel \notin DOMAIN inproc_out_
  <2>1. /\ undelivered_messages_' = [undelivered_messages_ EXCEPT ![m.channel] = Append(@, m)]
        /\ inbox' = inbox /\ undelivered_messages_[m.channel] \in Seq(Letter)
    BY <1>1, <1>3 DEF Deliver, Letters
  <2>2. Append(undelivered_messages_[m.channel], m) \in Seq(Letter)
    BY <2>1, AppendProperties
  <2>3. Letters'
    BY <2>1, <2>2 DEF Letters
  <2>4. QED
    BY <2>1, <2>3
<1>4. QED
  BY <1>2, <1>3
(* The multiplexer takes the first message of a pipe.  If that is a        *)
(* request, it is about a channel that has been linked.                    *)
LEMMA TailUntouched ==
  ASSUME NEW q \in Seq(Message), q # <<>>, NEW ch, About(q, ch) = {}
  PROVE  About(Tail(q), ch) = {} /\ ~ (Head(q).type # "message" /\ Head(q).channel = ch)
<1>1. \A i \in About(Tail(q), ch) : i \in Nat /\ i + 1 \in About(q, ch)
  BY TailAbout
<1>2. Head(q) = q[1] /\ 1 \in 1..Len(q)
  BY TailAbout
<1>3. QED
  BY <1>1, <1>2 DEF About

LEMMA ForwardServed ==
  ASSUME WayInv, ServedInv, NEW s \in Sender, Forward(s)
  PROVE  ServedInv'
<1> DEFINE m == Head(pipe[s])
<1>1. /\ pipe[s] # <<>> /\ pipe' = [pipe EXCEPT ![s] = Tail(@)]
      /\ UNCHANGED <<linked_channels_, received, sent>>
  BY DEF Forward, clientVars
<1>2. pipe \in [Sender -> Seq(Message)] /\ pipe[s] \in Seq(Message) /\ Letters
  BY DEF WayInv, ConnectionInv, Types, ConnectionTypeOK, ServedInv
<1>3. /\ m \in Message /\ Request(m)
      /\ m.type = "link" => m.from \in DOMAIN inproc_out_ /\ Free(m.channel)
  BY <1>1, HeadFits DEF WayInv
<1>4. \/ m.type = "message" /\ Deliver(m)
      \/ m.type = "link" /\ Link(m)
      \/ m.type = "unlink" /\ Unlink(m)
  BY DEF Forward
<1>5. ASSUME NEW ch \in Linkable, About(pipe[Worker[ch]], ch) = {}
      PROVE  /\ About(pipe'[Worker[ch]], ch) = {}
             /\ ~ (m.type # "message" /\ m.channel = ch)
  <2>1. CASE Worker[ch] = s
    <3>1. pipe'[s] = Tail(pipe[s])
      BY <1>1, <1>2
    <3>2. QED
      BY <1>1, <1>2, <1>5, <2>1, <3>1, TailUntouched
  <2>2. CASE Worker[ch] # s
    <3>1. pipe'[Worker[ch]] = pipe[Worker[ch]]
      BY <1>1, <1>2, <2>2, WorkersOwn
    <3>2. m = pipe[s][1] /\ 1 \in 1..Len(pipe[s])
      BY <1>1, <1>2, TailAbout
    <3>3. m.from = s
      BY <3>2 DEF WayInv, LinkInv, Signed
    <3> HIDE DEF m
    <3>4. QED
      BY <1>3, <1>5, <2>2, <3>1, <3>3 DEF Request
  <2>3. QED
    BY <2>1, <2>2
<1> HIDE DEF m
<1>6. /\ Letters'
      /\ \A ch \in Linkable, r \in Sender :
           /\ ~ (m.type # "message" /\ m.channel = ch) /\ ~ Known(ch)
           /\ Numbers(inbox[Worker[ch]], r, ch) = {}
           => ~ Known(ch)' /\ Numbers(inbox'[Worker[ch]], r, ch) = {}
  <2>1. CASE m.type = "message" /\ Deliver(m)
    <3>1. m \in Letter
      BY <1>3, <2>1 DEF Letter
    <3>2. \A ch \in Linkable : Known(ch)' = Known(ch)
      BY <2>1 DEF Deliver, Known
    <3>3. QED
      BY <1>1, <1>2, <2>1, <3>1, <3>2, DeliverServed
  <2>2. CASE m.type = "link" /\ Link(m)
    <3> DEFINE c == inproc_out_[m.from]
    <3>1. Register(m.channel, c) /\ m.channel \in Channel
      BY <1>3, <2>2 DEF Link, Message
    <3>2. c \in Conn
      BY <1>3, <2>2 DEF WayInv, ConnectionInv, Types, ConnectionTypeOK
    <3> HIDE DEF c
    <3>3. QED
      BY <1>1, <1>2, <2>2, <3>1, <3>2, RegisterServed
  <2>3. CASE m.type = "unlink" /\ Unlink(m)
    <3>1. UNCHANGED <<inbox, undelivered_messages_>>
      BY <2>3 DEF Unlink
    <3>2. \A ch \in Linkable : Known(ch)' => Known(ch)
      BY <2>3 DEF Unlink, Known
    <3>3. Letters'
      BY <1>1, <1>2, <3>1 DEF Letters
    <3>4. QED
      BY <3>1, <3>2, <3>3
  <2>4. QED
    BY <1>4, <2>1, <2>2, <2>3
<1>7. ASSUME NEW ch \in Linkable PROVE Served(ch)'
  <2>1. Linked(ch)' = Linked(ch) /\ \A r \in Sender : Got(r, ch)' = Got(r, ch)
    BY <1>1 DEF Linked, Got, Numbers, Belongs
  <2>2. CASE Linked(ch)
    BY <2>1, <2>2 DEF Served
  <2>3. CASE Complete(ch)
    <3>1. Complete(ch)'
      BY <2>1, <2>3 DEF Complete, Addressed
    <3>2. QED
      BY <3>1 DEF Served
  <2>4. CASE Untouched(ch)
    <3>1. About(pipe[Worker[ch]], ch)' = {} /\ ~ Known(ch)'
          /\ ~ (m.type # "message" /\ m.channel = ch)
      <4>1. About(pipe[Worker[ch]], ch) = {} /\ ~ Known(ch)
        BY <2>4 DEF Untouched
      <4>2. About(pipe'[Worker[ch]], ch) = {} /\ ~ (m.type # "message" /\ m.channel = ch)
        BY <1>5, <4>1
      <4>3. Sender # {} /\ s \in Sender /\ Numbers(inbox[Worker[ch]], s, ch) = {}
        BY <2>4 DEF Untouched
      <4>4. ~ Known(ch)'
        BY <1>6, <4>1, <4>2, <4>3
      <4>5. QED
        BY <4>2, <4>4
    <3>2. Untouched(ch)'
      BY <1>6, <2>1, <2>4, <3>1 DEF Untouched
    <3>3. QED
      BY <3>2 DEF Served
  <2>5. QED
    BY <1>2, <2>2, <2>3, <2>4 DEF Served, ServedInv
<1>8. QED
  BY <1>6, <1>7 DEF ServedInv

LEMMA StepServed == WayInv /\ WayInv' /\ ServedInv /\ [Next]_vars => ServedInv'
<1> SUFFICES ASSUME WayInv, WayInv', ServedInv, [Next]_vars PROVE ServedInv'
  OBVIOUS
<1>1. ASSUME UNCHANGED <<inproc_out_, undelivered_messages_, pipe, inbox, clientVars>>
      PROVE  ServedInv'
  <2>1. Letters /\ Letters'
    BY <1>1 DEF ServedInv, Letters, clientVars
  <2>2. ASSUME NEW ch \in Linkable PROVE Served(ch)'
    <3>1. Served(ch) /\ Linked(ch)' = Linked(ch) /\ Known(ch)' = Known(ch)
          /\ About(pipe[Worker[ch]], ch)' = About(pipe[Worker[ch]], ch)
      BY <1>1 DEF ServedInv, Linked, Known, About, clientVars
    <3>2. QED
      BY <1>1, <3>1, StillServed DEF clientVars
  <2>3. QED
    BY <2>1, <2>2 DEF ServedInv
<1>2. ASSUME NEW c \in Conn, Ask(c) \/ Return(c) \/ GetMessage(c) PROVE ServedInv'
  BY <1>1, <1>2, GetMessageServed DEF Ask, Return
<1>3. ASSUME NEW s \in Sender, Send(s) PROVE ServedInv'
  BY <1>3, SendServed
<1>4. ASSUME NEW channel \in Linkable, LinkChannel(channel) \/ UnlinkChannel(channel)
      PROVE  ServedInv'
  BY <1>4, RequestServed
<1>5. CASE Run
  BY <1>5, ServeServed, ForwardServed DEF Run
<1>6. CASE UNCHANGED vars
  BY <1>1, <1>6 DEF vars
<1>7. QED
  BY <1>2, <1>3, <1>4, <1>5, <1>6 DEF Next

(* What comes for a transaction's channel is never orphaned: while its     *)
(* worker does not have the channel linked, either it never had, and what  *)
(* comes is kept aside for it, or every message there ever is for the      *)
(* channel has been got and none is on its way.  So unlinking has nothing  *)
(* to put back into undelivered_messages_, what the TODO at                *)
(* connection.cc:212 asks, as long as a channel is linked once.            *)
THEOREM NoMessageOrphaned == Spec => []NothingOrphaned
<1>1. Init => WayInv /\ ServedInv
  BY InitInv, OrderInit, LinkInit, ServedInit DEF WayInv
<1>2. WayInv /\ [Next]_vars => WayInv'
  BY NextPreserves, OrderPreserved, LinksPreserved DEF WayInv
<1>3. WayInv /\ ServedInv => NothingOrphaned
  BY CompleteIsDone DEF ServedInv, Served, NothingOrphaned
<1>4. QED
  BY <1>1, <1>2, <1>3, StepServed, PTL DEF Spec
=============================================================================
