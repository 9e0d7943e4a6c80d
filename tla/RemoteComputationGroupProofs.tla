-------------------- MODULE RemoteComputationGroupProofs --------------------
(***************************************************************************)
(* For any number of heads and of calls: every call between heads is       *)
(* executed once and in order, its on_result function is called once       *)
(* afterwards, and a head that sees no work outstanding may rely on it.    *)
(*                                                                         *)
(* First the inductive invariant, and what its steps need to know about    *)
(* queues and channels: which calls and results are under way, that none   *)
(* is there twice or out of order and that none is lost, and how many      *)
(* pings there are.  Then one lemma for each step of a head, and the       *)
(* theorems that follow.                                                   *)
(***************************************************************************)
EXTENDS RemoteComputationGroup, SequenceTheorems, FiniteSetTheorems,
        FunctionTheorems, TLAPS

From(m) == IF m.answer THEN m.call[2] ELSE m.call[1]
To(m) == IF m.answer THEN m.call[1] ELSE m.call[2]

(* m is on its way from head i to head j, or waits there. *)
ItemOK(i, j, m) ==
  /\ m \in Message /\ From(m) = i /\ To(m) = j
  /\ m.call \in scheduled
  /\ m.answer => AnswerRequired(m.call) /\ i # j

(* A call that was not executed, a result that was not given. *)
Open(m) ==
  /\ results[m.call] = <<>>
  /\ executions[m.call] = IF m.answer THEN 1 ELSE 0

ChannelsOK ==
  \A i, j \in Nodes : \A n \in DOMAIN channel[i][j] :
    channel[i][j][n] # Ping =>
      ItemOK(i, j, channel[i][j][n]) /\ Open(channel[i][j][n])

TasksOK ==
  \A j \in Nodes : \A n \in DOMAIN tasks[j] :
    /\ ItemOK(tasks[j][n][1], j, tasks[j][n][2])
    /\ n > 1 \/ pc[j] # "deliver" => Open(tasks[j][n][2])

DeliveringOK ==
  \A j \in Nodes : pc[j] = "deliver" =>
    /\ tasks[j] # <<>>
    /\ tasks[j][1][1] = j
    /\ AnswerRequired(tasks[j][1][2].call)
    /\ executions[tasks[j][1][2].call] = 1
    /\ results[tasks[j][1][2].call] = <<>>

(* Of two calls of one head to another, or of their results, x is the      *)
(* earlier one.                                                            *)
Before(x, y) ==
  From(x) = From(y) /\ To(x) = To(y) /\ x.answer = y.answer =>
    x.call[3] < y.call[3]

ChannelOrder ==
  \A i, j \in Nodes : \A m, n \in DOMAIN channel[i][j] :
    m < n /\ channel[i][j][m] # Ping /\ channel[i][j][n] # Ping =>
      Before(channel[i][j][m], channel[i][j][n])

TaskOrder ==
  \A j \in Nodes : \A m, n \in DOMAIN tasks[j] :
    m < n => Before(tasks[j][m][2], tasks[j][n][2])

PathOrder ==
  \A i, j \in Nodes : \A m \in DOMAIN tasks[j], n \in DOMAIN channel[i][j] :
    channel[i][j][n] # Ping => Before(tasks[j][m][2], channel[i][j][n])

(* A call that was not executed has not been lost. *)
IsWaiting(c) ==
  \/ \E n \in DOMAIN tasks[c[2]] : tasks[c[2]][n] = <<c[1], Call(c)>>
  \/ c[1] # c[2] /\ \E n \in DOMAIN channel[c[1]][c[2]] : channel[c[1]][c[2]][n] = Call(c)
NothingLost == \A c \in scheduled : executions[c] = 0 => IsWaiting(c)

CallsOK ==
  /\ \A c \in scheduled :
       /\ c[4] = IF c[1] = c[2] THEN LocalAnswers ELSE remoteAnswers
       /\ \A k \in 1 .. c[3] - 1 : <<c[1], c[2], k, c[4]>> \in scheduled
  /\ \A c \in Calls :
       /\ executions[c] \in {0, 1}
       /\ c \notin scheduled => executions[c] = 0 /\ results[c] = <<>>

CountOK ==
  ~remoteAnswers => \A i \in Nodes :
    /\ numWaitingForReply[i] = Cardinality(Unexecuted(i)) + Cardinality(Pings(i))
    /\ Cardinality(Unexecuted(i)) + Cardinality(Pings(i)) <= Cardinality(RemoteCalls(i))

OrderOK == ChannelOrder /\ TaskOrder /\ PathOrder

IInv ==
  /\ RCGTypeOK /\ ChannelsOK /\ TasksOK /\ DeliveringOK /\ OrderOK
  /\ NothingLost /\ CallsOK /\ CountOK /\ CallsInOrder

-----------------------------------------------------------------------------
(* Calls and messages                                                      *)

(* A call is a tuple of caller, callee, number and kind.                    *)
LEMMA CallFacts ==
  ASSUME NEW c \in Calls
  PROVE  /\ c = <<c[1], c[2], c[3], c[4]>> /\ c # <<>>
         /\ c[1] \in Nodes /\ c[2] \in Nodes /\ c[3] \in Nat \ {0}
         /\ c[4] \in BOOLEAN
         /\ (c[1] # c[2] /\ c[4] = FALSE) => c[3] \in 1 .. CallsToOther
         /\ c[1] = c[2] => c[4] = LocalAnswers
         /\ \A k \in 1 .. c[3] - 1 : <<c[1], c[2], k, c[4]>> \in Calls
<1>1. /\ CallsToOther \in Nat /\ AnsweredCalls \in Nat /\ CallsToSelf \in Nat
      /\ LocalAnswers \in BOOLEAN
  BY RCGAssumption
<1>2. CASE c \in LocalCalls
  <2>1. PICK i \in Nodes, k \in 1 .. CallsToSelf : c = <<i, i, k, LocalAnswers>>
    BY <1>2 DEF LocalCalls
  <2>2. c[1] = i /\ c[2] = i /\ c[3] = k /\ c[4] = LocalAnswers /\ c # <<>>
    BY <2>1
  <2>3. \A l \in 1 .. k - 1 : l \in 1 .. CallsToSelf
    BY <1>1
  <2>4. \A l \in 1 .. k - 1 : <<i, i, l, LocalAnswers>> \in LocalCalls
    BY <2>3 DEF LocalCalls
  <2> QED BY <1>1, <2>1, <2>2, <2>4 DEF Calls
<1>3. CASE c \in PingedCalls
  <2>1. c = <<c[1], c[2], c[3], c[4]>>
    BY <1>3 DEF PingedCalls
  <2>2. /\ c[1] \in Nodes /\ c[2] \in Nodes /\ c[3] \in 1 .. CallsToOther
        /\ c[4] = FALSE /\ c[1] # c[2]
    BY <1>3 DEF PingedCalls
  <2>3. \A l \in 1 .. c[3] - 1 : l \in 1 .. CallsToOther
    BY <1>1, <2>2
  <2>4. \A l \in 1 .. c[3] - 1 : <<c[1], c[2], l, c[4]>> \in PingedCalls
    BY <2>2, <2>3 DEF PingedCalls
  <2>5. c # <<>>
    BY <2>1
  <2>6. c[3] \in Nat \ {0}
    BY <1>1, <2>2
  <2>7. c[4] \in BOOLEAN
    BY <2>2
  <2>8. (c[1] # c[2] /\ c[4] = FALSE) => c[3] \in 1 .. CallsToOther
    BY <2>2
  <2> QED BY <2>1, <2>2, <2>4, <2>5, <2>6, <2>7, <2>8 DEF Calls
<1>4. CASE c \in AnswerCalls
  <2>1. c = <<c[1], c[2], c[3], c[4]>>
    BY <1>4 DEF AnswerCalls
  <2>2. /\ c[1] \in Nodes /\ c[2] \in Nodes /\ c[3] \in 1 .. AnsweredCalls
        /\ c[4] = TRUE /\ c[1] # c[2]
    BY <1>4 DEF AnswerCalls
  <2>3. \A l \in 1 .. c[3] - 1 : l \in 1 .. AnsweredCalls
    BY <1>1, <2>2
  <2>4. \A l \in 1 .. c[3] - 1 : <<c[1], c[2], l, c[4]>> \in AnswerCalls
    BY <2>2, <2>3 DEF AnswerCalls
  <2>5. c # <<>>
    BY <2>1
  <2>6. c[3] \in Nat \ {0}
    BY <1>1, <2>2
  <2>7. c[4] \in BOOLEAN
    BY <2>2
  <2>8. (c[1] # c[2] /\ c[4] = FALSE) => c[3] \in 1 .. CallsToOther
    BY <2>2
  <2> QED BY <2>1, <2>2, <2>4, <2>5, <2>6, <2>7, <2>8 DEF Calls
<1> QED BY <1>2, <1>3, <1>4 DEF Calls

(* The parts of a call determine it.                                        *)
LEMMA SameCall ==
  ASSUME NEW c \in Calls, NEW d \in Calls,
         c[1] = d[1], c[2] = d[2], c[3] = d[3], c[4] = d[4]
  PROVE  c = d
BY CallFacts

(* Messages are calls and results, and not pings.                           *)
LEMMA MessageFacts ==
  /\ \A m \in Message : /\ m # Ping /\ m.call \in Calls /\ m.answer \in BOOLEAN
                        /\ ~m.answer => m = Call(m.call)
                        /\ m.answer => m = Result(m.call)
  /\ \A c \in Calls : /\ Call(c) \in Message /\ Result(c) \in Message
                      /\ Call(c).call = c /\ Result(c).call = c
                      /\ ~Call(c).answer /\ Result(c).answer
                      /\ From(Call(c)) = c[1] /\ To(Call(c)) = c[2]
                      /\ From(Result(c)) = c[2] /\ To(Result(c)) = c[1]
<1>1. \A m \in Message : m.call \in Calls /\ m.answer \in BOOLEAN
                         /\ m = [call |-> m.call, answer |-> m.answer]
  BY DEF Message
<1>2. ASSUME NEW m \in Message, m = Ping PROVE FALSE
  <2>1. m.call = <<>>
    BY <1>2 DEF Ping
  <2> QED BY <1>1, <2>1, CallFacts
<1>3. \A c \in Calls : Call(c) \in Message /\ Result(c) \in Message
  BY DEF Call, Result, Message
<1> QED BY <1>1, <1>2, <1>3 DEF Call, Result, From, To

-----------------------------------------------------------------------------
(* Queues and channels                                                     *)

(* What stands where after an element was appended.                         *)
LEMMA AppendAt ==
  ASSUME NEW S, NEW s \in Seq(S), NEW e \in S
  PROVE  /\ Append(s, e) \in Seq(S)
         /\ Len(s) \in Nat /\ DOMAIN s = 1 .. Len(s)
         /\ DOMAIN Append(s, e) = 1 .. Len(s) + 1
         /\ \A n \in DOMAIN s : Append(s, e)[n] = s[n]
         /\ Append(s, e)[Len(s) + 1] = e
BY AppendProperties, LenProperties

(* What stands where after the first element was taken.                     *)
LEMMA TailAt ==
  ASSUME NEW S, NEW s \in Seq(S), s # <<>>
  PROVE  /\ Tail(s) \in Seq(S) /\ Head(s) = s[1] /\ s[1] \in S
         /\ Len(s) \in Nat \ {0} /\ DOMAIN s = 1 .. Len(s)
         /\ DOMAIN Tail(s) = 1 .. Len(s) - 1
         /\ \A n \in DOMAIN Tail(s) : n + 1 \in DOMAIN s /\ Tail(s)[n] = s[n + 1]
<1>1. Len(s) \in Nat /\ DOMAIN s = 1 .. Len(s)
  BY LenProperties
<1>2. Len(s) # 0
  BY <1>1, EmptySeq
<1>3. /\ Tail(s) \in Seq(S) /\ Head(s) = s[1]
      /\ Len(Tail(s)) = Len(s) - 1
      /\ \A n \in 1 .. Len(Tail(s)) : Tail(s)[n] = s[n + 1]
  BY HeadTailProperties
<1>4. s[1] \in S
  BY <1>1, <1>2, ElementOfSeq
<1>5. DOMAIN Tail(s) = 1 .. Len(s) - 1
  BY <1>3, LenProperties
<1> QED BY <1>1, <1>2, <1>3, <1>4, <1>5

Packet == Message \union {Ping}

(* The types of channels and tasks.                                         *)
LEMMA QueueTypes ==
  ASSUME RCGTypeOK, NEW i \in Nodes, NEW j \in Nodes
  PROVE  /\ channel \in [Nodes -> [Nodes -> Seq(Packet)]]
         /\ channel[i][j] \in Seq(Packet)
         /\ tasks \in [Nodes -> Seq(Nodes \X Message)]
         /\ tasks[j] \in Seq(Nodes \X Message)
<1>1. /\ channel \in [Nodes -> [Nodes -> Seq(Message \union {Ping})]]
      /\ tasks \in [Nodes -> Seq(Nodes \X Message)]
  BY DEF RCGTypeOK
<1> QED BY <1>1 DEF Packet

Sends(i, j, m) == channel' = [channel EXCEPT ![i][j] = Append(@, m)]
Takes(i, j) == channel' = [channel EXCEPT ![i][j] = Tail(@)]

(* A message was sent.                                                      *)
LEMMA ChannelAppend ==
  ASSUME RCGTypeOK, NEW i \in Nodes, NEW j \in Nodes, NEW m \in Packet,
         Sends(i, j, m)
  PROVE  /\ channel' \in [Nodes -> [Nodes -> Seq(Packet)]]
         /\ \A k, l \in Nodes : k # i \/ l # j => channel'[k][l] = channel[k][l]
         /\ channel'[i][j] = Append(channel[i][j], m)
         /\ Len(channel[i][j]) \in Nat
         /\ DOMAIN channel[i][j] = 1 .. Len(channel[i][j])
         /\ DOMAIN channel'[i][j] = 1 .. Len(channel[i][j]) + 1
         /\ \A n \in DOMAIN channel[i][j] : channel'[i][j][n] = channel[i][j][n]
         /\ channel'[i][j][Len(channel[i][j]) + 1] = m
<1>1. /\ channel \in [Nodes -> [Nodes -> Seq(Packet)]]
      /\ channel[i][j] \in Seq(Packet)
  BY QueueTypes
<1> DEFINE s == Append(channel[i][j], m)
<1>2. s \in Seq(Packet)
  BY <1>1, AppendAt
<1>3. channel' = [channel EXCEPT ![i][j] = s]
  BY DEF Sends
<1> HIDE DEF s
<1>4. /\ channel' \in [Nodes -> [Nodes -> Seq(Packet)]]
      /\ \A k, l \in Nodes : k # i \/ l # j => channel'[k][l] = channel[k][l]
      /\ channel'[i][j] = s
  BY <1>1, <1>2, <1>3
<1> QED BY <1>1, <1>4, AppendAt DEF s

(* Nothing under way is lost when another message is sent.                  *)
LEMMA ChannelGrows ==
  ASSUME RCGTypeOK, NEW i \in Nodes, NEW j \in Nodes, NEW m \in Packet, Sends(i, j, m),
         NEW k \in Nodes, NEW l \in Nodes
  PROVE  \A n \in DOMAIN channel[k][l] :
           n \in DOMAIN channel'[k][l] /\ channel'[k][l][n] = channel[k][l][n]
<1>1. CASE k # i \/ l # j
  <2>1. channel'[k][l] = channel[k][l]
    BY <1>1, ChannelAppend
  <2> QED BY <2>1
<1>2. CASE k = i /\ l = j
  <2>1. /\ Len(channel[i][j]) \in Nat
        /\ DOMAIN channel[i][j] = 1 .. Len(channel[i][j])
        /\ DOMAIN channel'[i][j] = 1 .. Len(channel[i][j]) + 1
    BY ChannelAppend
  <2>2. \A n \in DOMAIN channel[i][j] : channel'[i][j][n] = channel[i][j][n]
    BY ChannelAppend
  <2>3. \A n \in DOMAIN channel[i][j] : n \in DOMAIN channel'[i][j]
    BY <2>1
  <2> QED BY <1>2, <2>2, <2>3
<1> QED BY <1>1, <1>2

(* A message was received.                                                  *)
LEMMA ChannelTail ==
  ASSUME RCGTypeOK, NEW i \in Nodes, NEW j \in Nodes, channel[i][j] # <<>>,
         Takes(i, j)
  PROVE  /\ channel' \in [Nodes -> [Nodes -> Seq(Packet)]]
         /\ \A k, l \in Nodes : k # i \/ l # j => channel'[k][l] = channel[k][l]
         /\ Len(channel[i][j]) \in Nat \ {0}
         /\ DOMAIN channel[i][j] = 1 .. Len(channel[i][j])
         /\ DOMAIN channel'[i][j] = 1 .. Len(channel[i][j]) - 1
         /\ Head(channel[i][j]) = channel[i][j][1] /\ channel[i][j][1] \in Packet
         /\ \A n \in DOMAIN channel'[i][j] :
              n + 1 \in DOMAIN channel[i][j]
              /\ channel'[i][j][n] = channel[i][j][n + 1]
<1>1. /\ channel \in [Nodes -> [Nodes -> Seq(Packet)]]
      /\ channel[i][j] \in Seq(Packet)
  BY QueueTypes
<1> DEFINE s == Tail(channel[i][j])
<1>2. s \in Seq(Packet)
  BY <1>1, TailAt
<1>3. channel' = [channel EXCEPT ![i][j] = s]
  BY DEF Takes
<1> HIDE DEF s
<1>4. /\ channel' \in [Nodes -> [Nodes -> Seq(Packet)]]
      /\ \A k, l \in Nodes : k # i \/ l # j => channel'[k][l] = channel[k][l]
      /\ channel'[i][j] = s
  BY <1>1, <1>2, <1>3
<1> QED BY <1>1, <1>4, TailAt DEF s

(* A task was put behind the others.                                        *)
LEMMA TasksAppend ==
  ASSUME RCGTypeOK, NEW j \in Nodes, NEW t \in Nodes \X Message,
         tasks' = [tasks EXCEPT ![j] = Append(@, t)]
  PROVE  /\ tasks' \in [Nodes -> Seq(Nodes \X Message)]
         /\ \A k \in Nodes : k # j => tasks'[k] = tasks[k]
         /\ Len(tasks[j]) \in Nat /\ DOMAIN tasks[j] = 1 .. Len(tasks[j])
         /\ DOMAIN tasks'[j] = 1 .. Len(tasks[j]) + 1
         /\ \A n \in DOMAIN tasks[j] : tasks'[j][n] = tasks[j][n]
         /\ tasks'[j][Len(tasks[j]) + 1] = t
<1>1. /\ tasks \in [Nodes -> Seq(Nodes \X Message)]
      /\ tasks[j] \in Seq(Nodes \X Message)
  BY QueueTypes
<1>2. Append(tasks[j], t) \in Seq(Nodes \X Message)
  BY <1>1, AppendAt
<1>3. /\ tasks' \in [Nodes -> Seq(Nodes \X Message)]
      /\ \A k \in Nodes : k # j => tasks'[k] = tasks[k]
      /\ tasks'[j] = Append(tasks[j], t)
  BY <1>1, <1>2
<1> QED BY <1>1, <1>3, AppendAt

(* In all queues, it is the only change.                                    *)
LEMMA TasksGrow ==
  ASSUME RCGTypeOK, NEW j \in Nodes, NEW t \in Nodes \X Message,
         tasks' = [tasks EXCEPT ![j] = Append(@, t)]
  PROVE  /\ \A l \in Nodes : \A n \in DOMAIN tasks'[l] :
              \/ n \in DOMAIN tasks[l] /\ tasks'[l][n] = tasks[l][n]
              \/ l = j /\ tasks'[l][n] = t
         /\ \A l \in Nodes : \A n \in DOMAIN tasks[l] :
              n \in DOMAIN tasks'[l] /\ tasks'[l][n] = tasks[l][n]
<1> DEFINE len == Len(tasks[j])
           new == tasks'
<1>1. /\ \A k \in Nodes : k # j => new[k] = tasks[k]
      /\ len \in Nat /\ DOMAIN tasks[j] = 1 .. len
      /\ DOMAIN new[j] = 1 .. len + 1
      /\ \A n \in DOMAIN tasks[j] : new[j][n] = tasks[j][n]
      /\ new[j][len + 1] = t
  BY TasksAppend
<1> HIDE DEF len, new
<1>2. ASSUME NEW l \in Nodes, NEW n \in DOMAIN new[l]
      PROVE  \/ n \in DOMAIN tasks[l] /\ new[l][n] = tasks[l][n]
             \/ l = j /\ new[l][n] = t
  <2>1. CASE l # j
    BY <1>1, <1>2, <2>1
  <2>2. CASE l = j
    <3>1. n \in DOMAIN tasks[j] \/ n = len + 1
      BY <1>1, <1>2, <2>2
    <3> QED BY <1>1, <2>2, <3>1
  <2> QED BY <2>1, <2>2
<1>3. ASSUME NEW l \in Nodes, NEW n \in DOMAIN tasks[l]
      PROVE  n \in DOMAIN new[l] /\ new[l][n] = tasks[l][n]
  <2>1. CASE l # j
    BY <1>1, <1>3, <2>1
  <2>2. CASE l = j
    <3>1. n \in DOMAIN new[j]
      BY <1>1, <1>3, <2>2
    <3> QED BY <1>1, <1>3, <2>2, <3>1
  <2> QED BY <2>1, <2>2
<1> QED BY <1>2, <1>3 DEF new

(* The first task was taken.                                                *)
LEMMA TasksTail ==
  ASSUME RCGTypeOK, NEW j \in Nodes, tasks[j] # <<>>, PopFront(j)
  PROVE  /\ tasks' \in [Nodes -> Seq(Nodes \X Message)]
         /\ \A k \in Nodes : k # j => tasks'[k] = tasks[k]
         /\ DOMAIN tasks[j] = 1 .. Len(tasks[j]) /\ Len(tasks[j]) \in Nat \ {0}
         /\ DOMAIN tasks'[j] = 1 .. Len(tasks[j]) - 1
         /\ \A n \in DOMAIN tasks'[j] :
              n + 1 \in DOMAIN tasks[j] /\ tasks'[j][n] = tasks[j][n + 1]
<1>1. /\ tasks \in [Nodes -> Seq(Nodes \X Message)]
      /\ tasks[j] \in Seq(Nodes \X Message)
  BY QueueTypes
<1>2. Tail(tasks[j]) \in Seq(Nodes \X Message)
  BY <1>1, TailAt
<1>3. /\ tasks' \in [Nodes -> Seq(Nodes \X Message)]
      /\ \A k \in Nodes : k # j => tasks'[k] = tasks[k]
      /\ tasks'[j] = Tail(tasks[j])
  BY <1>1, <1>2 DEF PopFront
<1> QED BY <1>1, <1>3, TailAt

(* The first task of a head.                                                *)
LEMMA FirstTask ==
  ASSUME RCGTypeOK, NEW j \in Nodes, tasks[j] # <<>>
  PROVE  /\ 1 \in DOMAIN tasks[j] /\ Head(tasks[j]) = tasks[j][1]
         /\ tasks[j][1][1] \in Nodes /\ tasks[j][1][2] \in Message
         /\ DOMAIN tasks[j] \subseteq Nat \ {0}
<1>1. tasks[j] \in Seq(Nodes \X Message)
  BY QueueTypes
<1> QED BY <1>1, TailAt

-----------------------------------------------------------------------------
(* The order of calls and of results                                       *)

(* All tasks were there before. *)
NoNewTasks ==
  \A l \in Nodes : \A a \in DOMAIN tasks'[l] :
    \E b \in DOMAIN tasks[l] : tasks[l][b] = tasks'[l][a]

(* A message that is sent comes after those that are under way.             *)
LEMMA SendKeepsOrder ==
  ASSUME RCGTypeOK, OrderOK, NEW i \in Nodes, NEW j \in Nodes, NEW m \in Packet,
         Sends(i, j, m),
         NoNewTasks, TaskOrder',
         m # Ping =>
           /\ \A n \in DOMAIN channel[i][j] :
                channel[i][j][n] # Ping => Before(channel[i][j][n], m)
           /\ \A n \in DOMAIN tasks[j] : Before(tasks[j][n][2], m)
  PROVE  OrderOK'
<1> DEFINE len == Len(channel[i][j])
<1>1. /\ \A k, l \in Nodes : k # i \/ l # j => channel'[k][l] = channel[k][l]
      /\ len \in Nat
      /\ DOMAIN channel[i][j] = 1 .. len
      /\ DOMAIN channel'[i][j] = 1 .. len + 1
      /\ \A n \in DOMAIN channel[i][j] : channel'[i][j][n] = channel[i][j][n]
      /\ channel'[i][j][len + 1] = m
  BY ChannelAppend
<1> HIDE DEF len
<1>2. \A n \in DOMAIN channel'[i][j] : n \in DOMAIN channel[i][j] \/ n = len + 1
  BY <1>1
<1>3. ChannelOrder'
  <2>1. ASSUME NEW a \in DOMAIN channel'[i][j], NEW b \in DOMAIN channel'[i][j],
               a < b, channel'[i][j][a] # Ping, channel'[i][j][b] # Ping
        PROVE  Before(channel'[i][j][a], channel'[i][j][b])
    <3>1. a \in DOMAIN channel[i][j]
      BY <1>1, <2>1
    <3>2. CASE b = len + 1
      BY <1>1, <2>1, <3>1, <3>2
    <3>3. CASE b \in DOMAIN channel[i][j]
      BY <1>1, <2>1, <3>1, <3>3 DEF OrderOK, ChannelOrder
    <3> QED BY <1>2, <3>2, <3>3
  <2>2. ASSUME NEW k \in Nodes, NEW l \in Nodes, k # i \/ l # j
        PROVE  \A a, b \in DOMAIN channel'[k][l] :
                 a < b /\ channel'[k][l][a] # Ping /\ channel'[k][l][b] # Ping =>
                   Before(channel'[k][l][a], channel'[k][l][b])
    BY <1>1, <2>2 DEF OrderOK, ChannelOrder
  <2> QED BY <2>1, <2>2 DEF ChannelOrder
<1>4. PathOrder'
  <2>1. ASSUME NEW a \in DOMAIN tasks[j], NEW b \in DOMAIN channel'[i][j],
               channel'[i][j][b] # Ping
        PROVE  Before(tasks[j][a][2], channel'[i][j][b])
    BY <1>1, <1>2, <2>1 DEF OrderOK, PathOrder
  <2>2. ASSUME NEW k \in Nodes, NEW l \in Nodes, k # i \/ l # j
        PROVE  \A a \in DOMAIN tasks[l], b \in DOMAIN channel'[k][l] :
                 channel'[k][l][b] # Ping => Before(tasks[l][a][2], channel'[k][l][b])
    BY <1>1, <2>2 DEF OrderOK, PathOrder
  <2>3. ASSUME NEW k \in Nodes, NEW l \in Nodes, NEW a \in DOMAIN tasks'[l],
               NEW b \in DOMAIN channel'[k][l], channel'[k][l][b] # Ping
        PROVE  Before(tasks'[l][a][2], channel'[k][l][b])
    <3>1. PICK d \in DOMAIN tasks[l] : tasks[l][d] = tasks'[l][a]
      BY <2>3 DEF NoNewTasks
    <3>2. Before(tasks[l][d][2], channel'[k][l][b])
      BY <2>1, <2>2, <2>3
    <3> QED BY <3>1, <3>2
  <2> QED BY <2>3 DEF PathOrder
<1> QED BY <1>3, <1>4 DEF OrderOK

(* A call of a head to itself comes after its others.                       *)
LEMMA EnqueueKeepsOrder ==
  ASSUME RCGTypeOK, ChannelsOK, OrderOK, NEW i \in Nodes, NEW m \in Message,
         From(m) = i,
         tasks' = [tasks EXCEPT ![i] = Append(@, <<i, m>>)], channel' = channel,
         \A n \in DOMAIN tasks[i] : Before(tasks[i][n][2], m)
  PROVE  OrderOK'
<1> DEFINE len == Len(tasks[i])
<1>1. /\ \A k \in Nodes : k # i => tasks'[k] = tasks[k]
      /\ len \in Nat /\ DOMAIN tasks[i] = 1 .. len
      /\ DOMAIN tasks'[i] = 1 .. len + 1
      /\ \A n \in DOMAIN tasks[i] : tasks'[i][n] = tasks[i][n]
      /\ tasks'[i][len + 1] = <<i, m>>
  <2>1. <<i, m>> \in Nodes \X Message
    OBVIOUS
  <2> QED BY <2>1, TasksAppend
<1> HIDE DEF len
<1>2. \A n \in DOMAIN tasks'[i] : n \in DOMAIN tasks[i] \/ n = len + 1
  BY <1>1
<1>3. tasks'[i][len + 1][2] = m
  BY <1>1
<1>4. TaskOrder'
  <2>1. ASSUME NEW a \in DOMAIN tasks'[i], NEW b \in DOMAIN tasks'[i], a < b
        PROVE  Before(tasks'[i][a][2], tasks'[i][b][2])
    <3>1. a \in DOMAIN tasks[i]
      BY <1>1, <2>1
    <3>2. CASE b = len + 1
      BY <1>1, <1>3, <2>1, <3>1, <3>2
    <3>3. CASE b \in DOMAIN tasks[i]
      BY <1>1, <2>1, <3>1, <3>3 DEF OrderOK, TaskOrder
    <3> QED BY <1>2, <3>2, <3>3
  <2> QED BY <1>1, <2>1 DEF OrderOK, TaskOrder
<1>5. ASSUME NEW k \in Nodes, NEW n \in DOMAIN channel[k][i], channel[k][i][n] # Ping
      PROVE  Before(m, channel[k][i][n])
  <2>1. From(channel[k][i][n]) = k
    BY <1>5 DEF ChannelsOK, ItemOK
  <2>2. k # i
    BY <1>5 DEF RCGTypeOK
  <2> QED BY <2>1, <2>2 DEF Before
<1>6. PathOrder'
  <2>1. ASSUME NEW k \in Nodes, NEW a \in DOMAIN tasks'[i],
               NEW b \in DOMAIN channel[k][i], channel[k][i][b] # Ping
        PROVE  Before(tasks'[i][a][2], channel[k][i][b])
    BY <1>1, <1>2, <1>3, <1>5, <2>1 DEF OrderOK, PathOrder
  <2> QED BY <1>1, <2>1 DEF OrderOK, PathOrder
<1> QED BY <1>4, <1>6 DEF OrderOK, ChannelOrder

(* The tasks keep their order when the first is taken.                      *)
LEMMA PopKeepsOrder ==
  ASSUME RCGTypeOK, OrderOK, NEW i \in Nodes, tasks[i] # <<>>, PopFront(i)
  PROVE  NoNewTasks /\ TaskOrder' /\ (channel' = channel => OrderOK')
<1>1. /\ \A k \in Nodes : k # i => tasks'[k] = tasks[k]
      /\ DOMAIN tasks[i] = 1 .. Len(tasks[i]) /\ Len(tasks[i]) \in Nat \ {0}
      /\ DOMAIN tasks'[i] = 1 .. Len(tasks[i]) - 1
      /\ \A n \in DOMAIN tasks'[i] :
           n + 1 \in DOMAIN tasks[i] /\ tasks'[i][n] = tasks[i][n + 1]
  BY TasksTail
<1>2. TaskOrder'
  <2>1. ASSUME NEW a \in DOMAIN tasks'[i], NEW b \in DOMAIN tasks'[i], a < b
        PROVE  Before(tasks'[i][a][2], tasks'[i][b][2])
    <3>1. a + 1 \in DOMAIN tasks[i] /\ b + 1 \in DOMAIN tasks[i] /\ a + 1 < b + 1
      BY <1>1, <2>1
    <3> QED BY <1>1, <3>1 DEF OrderOK, TaskOrder
  <2> QED BY <1>1, <2>1 DEF OrderOK, TaskOrder
<1>3. NoNewTasks
  BY <1>1 DEF NoNewTasks
<1>4. ASSUME channel' = channel PROVE PathOrder'
  <2>1. ASSUME NEW k \in Nodes, NEW l \in Nodes, NEW a \in DOMAIN tasks'[l],
               NEW b \in DOMAIN channel[k][l], channel[k][l][b] # Ping
        PROVE  Before(tasks'[l][a][2], channel[k][l][b])
    <3>1. PICK d \in DOMAIN tasks[l] : tasks[l][d] = tasks'[l][a]
      BY <1>3 DEF NoNewTasks
    <3>2. Before(tasks[l][d][2], channel[k][l][b])
      BY <2>1 DEF OrderOK, PathOrder
    <3> QED BY <3>1, <3>2
  <2> QED BY <1>4, <2>1 DEF PathOrder
<1> QED BY <1>2, <1>3, <1>4 DEF OrderOK, ChannelOrder

(* A ping that is received changes no order, ...                            *)
LEMMA PingKeepsOrder ==
  ASSUME RCGTypeOK, OrderOK, NEW i \in Nodes, NEW j \in Nodes,
         channel[j][i] # <<>>,
         Takes(j, i), tasks' = tasks
  PROVE  OrderOK'
<1>1. /\ \A k, l \in Nodes : k # j \/ l # i => channel'[k][l] = channel[k][l]
      /\ DOMAIN channel'[j][i] \subseteq Nat
      /\ \A n \in DOMAIN channel'[j][i] :
           n + 1 \in DOMAIN channel[j][i] /\ channel'[j][i][n] = channel[j][i][n + 1]
  <2>1. /\ DOMAIN channel'[j][i] = 1 .. Len(channel[j][i]) - 1
    BY ChannelTail
  <2>2. DOMAIN channel'[j][i] \subseteq Nat
    BY <2>1
  <2>3. \A k, l \in Nodes : k # j \/ l # i => channel'[k][l] = channel[k][l]
    BY ChannelTail
  <2>4. \A n \in DOMAIN channel'[j][i] :
          n + 1 \in DOMAIN channel[j][i] /\ channel'[j][i][n] = channel[j][i][n + 1]
    BY ChannelTail
  <2> QED BY <2>1, <2>2, <2>3, <2>4
<1>2. ChannelOrder'
  <2>1. ASSUME NEW a \in DOMAIN channel'[j][i], NEW b \in DOMAIN channel'[j][i],
               a < b, channel'[j][i][a] # Ping, channel'[j][i][b] # Ping
        PROVE  Before(channel'[j][i][a], channel'[j][i][b])
    <3>1. a + 1 \in DOMAIN channel[j][i] /\ b + 1 \in DOMAIN channel[j][i]
          /\ a + 1 < b + 1
      BY <1>1, <2>1
    <3> QED BY <1>1, <2>1, <3>1 DEF OrderOK, ChannelOrder
  <2>2. ASSUME NEW k \in Nodes, NEW l \in Nodes, k # j \/ l # i
        PROVE  \A a, b \in DOMAIN channel'[k][l] :
                 a < b /\ channel'[k][l][a] # Ping /\ channel'[k][l][b] # Ping =>
                   Before(channel'[k][l][a], channel'[k][l][b])
    BY <1>1, <2>2 DEF OrderOK, ChannelOrder
  <2> QED BY <2>1, <2>2 DEF ChannelOrder
<1>3. PathOrder'
  <2>1. ASSUME NEW a \in DOMAIN tasks[i], NEW b \in DOMAIN channel'[j][i],
               channel'[j][i][b] # Ping
        PROVE  Before(tasks[i][a][2], channel'[j][i][b])
    BY <1>1, <2>1 DEF OrderOK, PathOrder
  <2>2. ASSUME NEW k \in Nodes, NEW l \in Nodes, k # j \/ l # i
        PROVE  \A a \in DOMAIN tasks[l], b \in DOMAIN channel'[k][l] :
                 channel'[k][l][b] # Ping => Before(tasks[l][a][2], channel'[k][l][b])
    BY <1>1, <2>2 DEF OrderOK, PathOrder
  <2> QED BY <2>1, <2>2 DEF PathOrder
<1> QED BY <1>2, <1>3 DEF OrderOK, TaskOrder

(* ... and a message that becomes a task comes after the tasks of its       *)
(* origin and before what is still in the channel.                          *)
LEMMA ReceiveKeepsOrder ==
  ASSUME RCGTypeOK, ChannelsOK, OrderOK, NEW i \in Nodes, NEW j \in Nodes,
         channel[j][i] # <<>>, channel[j][i][1] # Ping,
         Takes(j, i),
         tasks' = [tasks EXCEPT ![i] = Append(@, <<j, channel[j][i][1]>>)]
  PROVE  OrderOK'
<1> DEFINE m == channel[j][i][1]
           len == Len(tasks[i])
<1>1. /\ \A k, l \in Nodes : k # j \/ l # i => channel'[k][l] = channel[k][l]
      /\ DOMAIN channel'[j][i] \subseteq Nat \ {0}
      /\ 1 \in DOMAIN channel[j][i] /\ m \in Packet
      /\ \A n \in DOMAIN channel'[j][i] :
           n + 1 \in DOMAIN channel[j][i] /\ channel'[j][i][n] = channel[j][i][n + 1]
  <2>1. /\ DOMAIN channel[j][i] = 1 .. Len(channel[j][i])
        /\ DOMAIN channel'[j][i] = 1 .. Len(channel[j][i]) - 1
        /\ Len(channel[j][i]) \in Nat \ {0} /\ m \in Packet
    BY ChannelTail
  <2>2. DOMAIN channel'[j][i] \subseteq Nat \ {0} /\ 1 \in DOMAIN channel[j][i]
    BY <2>1
  <2>3. \A k, l \in Nodes : k # j \/ l # i => channel'[k][l] = channel[k][l]
    BY ChannelTail
  <2>4. \A n \in DOMAIN channel'[j][i] :
          n + 1 \in DOMAIN channel[j][i] /\ channel'[j][i][n] = channel[j][i][n + 1]
    BY ChannelTail
  <2> QED BY <2>1, <2>2, <2>3, <2>4
<1>2. <<j, m>> \in Nodes \X Message /\ From(m) = j
  BY <1>1 DEF Packet, ChannelsOK, ItemOK
<1>3. /\ \A k \in Nodes : k # i => tasks'[k] = tasks[k]
      /\ len \in Nat /\ DOMAIN tasks[i] = 1 .. len
      /\ DOMAIN tasks'[i] = 1 .. len + 1
      /\ \A n \in DOMAIN tasks[i] : tasks'[i][n] = tasks[i][n]
      /\ tasks'[i][len + 1] = <<j, m>>
  BY <1>2, TasksAppend
<1>4. \A n \in DOMAIN tasks[i] : Before(tasks[i][n][2], m)
  BY <1>1 DEF OrderOK, PathOrder
<1>5. ASSUME NEW b \in DOMAIN channel'[j][i], channel'[j][i][b] # Ping
      PROVE  Before(m, channel'[j][i][b])
  <2>1. b + 1 \in DOMAIN channel[j][i] /\ 1 < b + 1
        /\ channel'[j][i][b] = channel[j][i][b + 1]
    BY <1>1, <1>5
  <2> QED BY <1>1, <1>5, <2>1 DEF OrderOK, ChannelOrder
<1>6. ASSUME NEW k \in Nodes, k # j, NEW b \in DOMAIN channel[k][i],
             channel[k][i][b] # Ping
      PROVE  Before(m, channel[k][i][b])
  <2>1. From(channel[k][i][b]) = k
    BY <1>6 DEF ChannelsOK, ItemOK
  <2> QED BY <1>2, <1>6, <2>1 DEF Before
<1> HIDE DEF m, len
<1>7. ChannelOrder'
  <2>1. ASSUME NEW a \in DOMAIN channel'[j][i], NEW b \in DOMAIN channel'[j][i],
               a < b, channel'[j][i][a] # Ping, channel'[j][i][b] # Ping
        PROVE  Before(channel'[j][i][a], channel'[j][i][b])
    <3>1. a + 1 \in DOMAIN channel[j][i] /\ b + 1 \in DOMAIN channel[j][i]
          /\ a + 1 < b + 1
      BY <1>1, <2>1
    <3> QED BY <1>1, <2>1, <3>1 DEF OrderOK, ChannelOrder
  <2>2. ASSUME NEW k \in Nodes, NEW l \in Nodes, k # j \/ l # i
        PROVE  \A a, b \in DOMAIN channel'[k][l] :
                 a < b /\ channel'[k][l][a] # Ping /\ channel'[k][l][b] # Ping =>
                   Before(channel'[k][l][a], channel'[k][l][b])
    BY <1>1, <2>2 DEF OrderOK, ChannelOrder
  <2> QED BY <2>1, <2>2 DEF ChannelOrder
<1>8. \A n \in DOMAIN tasks'[i] : n \in DOMAIN tasks[i] \/ n = len + 1
  BY <1>3
<1>9. tasks'[i][len + 1][2] = m
  BY <1>3
<1>10. TaskOrder'
  <2>1. ASSUME NEW a \in DOMAIN tasks'[i], NEW b \in DOMAIN tasks'[i], a < b
        PROVE  Before(tasks'[i][a][2], tasks'[i][b][2])
    <3>1. a \in DOMAIN tasks[i]
      BY <1>3, <2>1
    <3>2. CASE b = len + 1
      BY <1>3, <1>4, <1>9, <2>1, <3>1, <3>2
    <3>3. CASE b \in DOMAIN tasks[i]
      BY <1>3, <2>1, <3>1, <3>3 DEF OrderOK, TaskOrder
    <3> QED BY <1>8, <3>2, <3>3
  <2> QED BY <1>3, <2>1 DEF OrderOK, TaskOrder
<1>11. PathOrder'
  <2>1. ASSUME NEW a \in DOMAIN tasks'[i], NEW b \in DOMAIN channel'[j][i],
               channel'[j][i][b] # Ping
        PROVE  Before(tasks'[i][a][2], channel'[j][i][b])
    <3>1. CASE a = len + 1
      BY <1>5, <1>9, <2>1, <3>1
    <3>2. CASE a \in DOMAIN tasks[i]
      <4>1. /\ b + 1 \in DOMAIN channel[j][i]
            /\ channel'[j][i][b] = channel[j][i][b + 1]
        BY <1>1, <2>1
      <4>2. Before(tasks[i][a][2], channel[j][i][b + 1])
        BY <2>1, <3>2, <4>1 DEF OrderOK, PathOrder
      <4> QED BY <1>3, <3>2, <4>1, <4>2
    <3> QED BY <1>8, <3>1, <3>2
  <2>2. ASSUME NEW k \in Nodes, k # j, NEW a \in DOMAIN tasks'[i],
               NEW b \in DOMAIN channel'[k][i], channel'[k][i][b] # Ping
        PROVE  Before(tasks'[i][a][2], channel'[k][i][b])
    <3>1. channel'[k][i] = channel[k][i]
      BY <1>1, <2>2
    <3>2. CASE a = len + 1
      BY <1>6, <1>9, <2>2, <3>1, <3>2
    <3>3. CASE a \in DOMAIN tasks[i]
      BY <1>3, <2>2, <3>1, <3>3 DEF OrderOK, PathOrder
    <3> QED BY <1>8, <3>2, <3>3
  <2>3. ASSUME NEW k \in Nodes, NEW l \in Nodes, l # i
        PROVE  \A a \in DOMAIN tasks'[l], b \in DOMAIN channel'[k][l] :
                 channel'[k][l][b] # Ping => Before(tasks'[l][a][2], channel'[k][l][b])
    BY <1>1, <1>3, <2>3 DEF OrderOK, PathOrder
  <2> QED BY <2>1, <2>2, <2>3 DEF PathOrder
<1> QED BY <1>7, <1>10, <1>11 DEF OrderOK

(* No other task and no message is about the call of the first task.        *)
LEMMA FirstTaskIsAlone ==
  ASSUME RCGTypeOK, ChannelsOK, TasksOK, DeliveringOK, OrderOK,
         NEW i \in Nodes, tasks[i] # <<>>
  PROVE  /\ \A k, l \in Nodes : \A n \in DOMAIN channel[k][l] :
              channel[k][l][n] # Ping =>
                channel[k][l][n].call # tasks[i][1][2].call
         /\ \A l \in Nodes : \A n \in DOMAIN tasks[l] :
              l # i \/ n # 1 => tasks[l][n][2].call # tasks[i][1][2].call
<1> DEFINE m == tasks[i][1][2]
<1>1. 1 \in DOMAIN tasks[i] /\ \A l \in Nodes : DOMAIN tasks[l] \subseteq Nat \ {0}
  <2>1. \A l \in Nodes : DOMAIN tasks[l] = 1 .. Len(tasks[l]) /\ Len(tasks[l]) \in Nat
    BY QueueTypes, LenProperties
  <2> QED BY <2>1, FirstTask
<1>2. m \in Message /\ To(m) = i /\ From(m) = tasks[i][1][1]
      /\ (m.answer => m.call[1] # m.call[2])
  BY <1>1, MessageFacts DEF TasksOK, ItemOK, From, To
<1>3. Open(m) \/ (pc[i] = "deliver" /\ m.call[1] = m.call[2] /\ ~m.answer)
  BY <1>1, <1>2 DEF TasksOK, DeliveringOK, From, To
<1> HIDE DEF m
<1>4. ASSUME NEW x \in Message, To(x) = i, From(x) = From(m), x.answer = m.answer,
             Before(m, x), x.call = m.call
      PROVE  FALSE
  <2>1. m.call[3] < m.call[3]
    BY <1>2, <1>4 DEF Before
  <2>2. m.call[3] \in Nat
    BY <1>2, MessageFacts, CallFacts
  <2> QED BY <2>1, <2>2
<1>5. ASSUME NEW x \in Message, x.call = m.call, Open(x) \/ (~x.answer /\ To(x) = From(x)),
             x.answer => x.call[1] # x.call[2]
      PROVE  x.answer = m.answer \/ (Open(m) /\ ~Open(x))
  BY <1>2, <1>3, <1>5, MessageFacts DEF Open, From, To
<1>6. ASSUME NEW k \in Nodes, NEW l \in Nodes, NEW n \in DOMAIN channel[k][l],
             channel[k][l][n] # Ping, channel[k][l][n].call = m.call
      PROVE  FALSE
  <2> DEFINE x == channel[k][l][n]
  <2>1. ItemOK(k, l, x) /\ Open(x)
    BY <1>6 DEF ChannelsOK
  <2>2. x \in Message /\ (x.answer => x.call[1] # x.call[2])
    BY <2>1, MessageFacts DEF ItemOK, From, To
  <2>3. x.answer = m.answer
    BY <1>5, <1>6, <2>1, <2>2
  <2>4. From(x) = From(m) /\ To(x) = i
    BY <1>2, <1>6, <2>3 DEF From, To
  <2>5. l = i
    BY <2>1, <2>4 DEF ItemOK
  <2>6. Before(m, x)
    BY <1>1, <1>6, <2>5 DEF OrderOK, PathOrder, m
  <2> HIDE DEF x
  <2> QED BY <1>4, <1>6, <2>2, <2>3, <2>4, <2>6 DEF x
<1>7. ASSUME NEW l \in Nodes, NEW n \in DOMAIN tasks[l], l # i \/ n # 1,
             tasks[l][n][2].call = m.call
      PROVE  FALSE
  <2> DEFINE x == tasks[l][n][2]
  <2>1. ItemOK(tasks[l][n][1], l, x)
    BY <1>7 DEF TasksOK
  <2>2. x \in Message /\ (x.answer => x.call[1] # x.call[2])
    BY <2>1, MessageFacts DEF ItemOK, From, To
  <2>3. CASE x.answer = m.answer
    <3>1. From(x) = From(m) /\ To(x) = i
      BY <1>2, <1>7, <2>3 DEF From, To
    <3>2. l = i /\ 1 < n
      BY <1>1, <1>7, <2>1, <3>1 DEF ItemOK
    <3>3. Before(m, x)
      BY <1>1, <1>7, <3>2 DEF OrderOK, TaskOrder, m
    <3> HIDE DEF x
    <3> QED BY <1>4, <1>7, <2>2, <2>3, <3>1, <3>3 DEF x
  <2>4. CASE x.answer # m.answer
    <3>1. Open(x) \/ (n = 1 /\ pc[l] = "deliver")
      BY <1>1, <1>7 DEF TasksOK
    <3>2. CASE Open(x)
      BY <1>5, <1>7, <2>2, <2>4, <3>2
    <3>3. CASE n = 1 /\ pc[l] = "deliver"
      <4>1. tasks[l][1][1] = l
        BY <3>3 DEF DeliveringOK
      <4>2. From(x) = l /\ To(x) = l
        BY <2>1, <3>3, <4>1 DEF ItemOK
      <4>3. x.call[1] = l /\ x.call[2] = l
        BY <2>2, <4>2, MessageFacts DEF From, To
      <4>4. To(m) = l
        BY <1>7, <4>3 DEF To
      <4> QED BY <1>2, <1>7, <3>3, <4>4
    <3> QED BY <3>1, <3>2, <3>3
  <2> QED BY <2>3, <2>4
<1> QED BY <1>6, <1>7 DEF m

-----------------------------------------------------------------------------
(* What is known about the messages and tasks                              *)

(* The messages in the channels. *)
InTransit ==
  {x \in Message : \E k, l \in Nodes : \E n \in DOMAIN channel[k][l] : channel[k][l][n] = x}

(* A message that is sent is as the others.                                 *)
LEMMA SendKeepsChannels ==
  ASSUME RCGTypeOK, ChannelsOK, NEW i \in Nodes, NEW j \in Nodes, NEW m \in Packet,
         Sends(i, j, m),
         scheduled \subseteq scheduled',
         \A x \in InTransit : Open(x) => Open(x)',
         m # Ping => ItemOK(i, j, m)' /\ Open(m)'
  PROVE  ChannelsOK'
<1>1. /\ \A k, l \in Nodes : k # i \/ l # j => channel'[k][l] = channel[k][l]
      /\ DOMAIN channel[i][j] = 1 .. Len(channel[i][j])
      /\ Len(channel[i][j]) \in Nat
      /\ DOMAIN channel'[i][j] = 1 .. Len(channel[i][j]) + 1
      /\ \A n \in DOMAIN channel[i][j] : channel'[i][j][n] = channel[i][j][n]
      /\ channel'[i][j][Len(channel[i][j]) + 1] = m
  BY ChannelAppend
<1>2. ASSUME NEW k \in Nodes, NEW l \in Nodes, NEW n \in DOMAIN channel[k][l],
             NEW x, x = channel[k][l][n], x # Ping
      PROVE  ItemOK(k, l, x)' /\ Open(x)'
  <2>1. ItemOK(k, l, x) /\ Open(x)
    BY <1>2 DEF ChannelsOK
  <2>2. x \in InTransit
    BY <1>2, <2>1 DEF ItemOK, InTransit
  <2> QED BY <2>1, <2>2 DEF ItemOK
<1>3. ASSUME NEW k \in Nodes, NEW l \in Nodes, NEW n \in DOMAIN channel'[k][l],
             NEW x, x = channel'[k][l][n], x # Ping
      PROVE  ItemOK(k, l, x)' /\ Open(x)'
  <2>1. CASE n \in DOMAIN channel[k][l]
    <3>1. channel'[k][l][n] = channel[k][l][n]
      BY <1>1, <2>1
    <3> QED BY <1>2, <1>3, <2>1, <3>1
  <2>2. CASE n \notin DOMAIN channel[k][l]
    <3>1. k = i /\ l = j /\ n = Len(channel[i][j]) + 1
      BY <1>1, <1>3, <2>2
    <3>2. x = m
      BY <1>1, <1>3, <3>1
    <3> QED BY <1>3, <3>1, <3>2
  <2> QED BY <2>1, <2>2
<1> QED BY <1>3 DEF ChannelsOK

(* Nothing new in the channels.                                             *)
LEMMA OldChannelsOK ==
  ASSUME RCGTypeOK, ChannelsOK, scheduled \subseteq scheduled',
         \A x \in InTransit : Open(x) => Open(x)',
         \A k, l \in Nodes : \A n \in DOMAIN channel'[k][l] :
           \E a \in DOMAIN channel[k][l] : channel[k][l][a] = channel'[k][l][n]
  PROVE  ChannelsOK'
<1>1. ASSUME NEW k \in Nodes, NEW l \in Nodes, NEW n \in DOMAIN channel'[k][l],
             NEW x, x = channel'[k][l][n], x # Ping
      PROVE  ItemOK(k, l, x)' /\ Open(x)'
  <2>1. PICK a \in DOMAIN channel[k][l] : channel[k][l][a] = x
    BY <1>1
  <2>2. ItemOK(k, l, x) /\ Open(x)
    BY <1>1, <2>1 DEF ChannelsOK
  <2>3. x \in InTransit
    BY <2>1, <2>2 DEF ItemOK, InTransit
  <2> QED BY <2>2, <2>3 DEF ItemOK
<1> QED BY <1>1 DEF ChannelsOK

(* The call of the first task was executed or its result given, and the     *)
(* task was taken.                                                          *)
LEMMA PopKeepsTasks ==
  ASSUME RCGTypeOK, ChannelsOK, TasksOK, DeliveringOK, OrderOK,
         NEW i \in Nodes, tasks[i] # <<>>, PopFront(i), Goto(i, "app"),
         scheduled' = scheduled,
         \A c \in Calls : c # tasks[i][1][2].call =>
           executions'[c] = executions[c] /\ results'[c] = results[c]
  PROVE  TasksOK' /\ DeliveringOK' /\ \A x \in InTransit : Open(x) => Open(x)'
<1>1. /\ \A k \in Nodes : k # i => tasks'[k] = tasks[k]
      /\ DOMAIN tasks[i] = 1 .. Len(tasks[i]) /\ Len(tasks[i]) \in Nat \ {0}
      /\ DOMAIN tasks'[i] = 1 .. Len(tasks[i]) - 1
      /\ \A n \in DOMAIN tasks'[i] :
           n + 1 \in DOMAIN tasks[i] /\ tasks'[i][n] = tasks[i][n + 1]
  BY TasksTail
<1>2. pc'[i] = "app" /\ \A k \in Nodes : k # i => pc'[k] = pc[k]
  BY DEF Goto, RCGTypeOK
<1> DEFINE c0 == tasks[i][1][2].call
<1>3. \A x \in Message : Open(x) /\ x.call # c0 => Open(x)'
  BY MessageFacts DEF Open
<1>4. \A x \in InTransit : x # Ping /\ x.call # c0
  BY MessageFacts, FirstTaskIsAlone DEF InTransit
<1>5. \A l \in Nodes : \A n \in DOMAIN tasks[l] :
        l # i \/ n # 1 => tasks[l][n][2].call # c0
  BY FirstTaskIsAlone
<1>6. \A l \in Nodes : \A n \in DOMAIN tasks[l] :
        /\ tasks[l][n][2] \in Message
        /\ ItemOK(tasks[l][n][1], l, tasks[l][n][2])
        /\ n > 1 \/ pc[l] # "deliver" => Open(tasks[l][n][2])
  BY DEF TasksOK, ItemOK
<1> HIDE DEF c0
<1>7. ASSUME NEW l \in Nodes, NEW n \in DOMAIN tasks'[l], NEW o, NEW x,
             o = tasks'[l][n][1], x = tasks'[l][n][2]
      PROVE  ItemOK(o, l, x)' /\ (n > 1 \/ pc'[l] # "deliver" => Open(x)')
  <2>1. CASE l # i
    BY <1>1, <1>2, <1>3, <1>5, <1>6, <1>7, <2>1 DEF ItemOK
  <2>2. CASE l = i
    <3>1. /\ n + 1 \in DOMAIN tasks[i] /\ n + 1 > 1 /\ n + 1 # 1
          /\ x = tasks[i][n + 1][2] /\ o = tasks[i][n + 1][1]
      BY <1>1, <1>7, <2>2
    <3>2. ItemOK(o, i, x) /\ Open(x) /\ x \in Message /\ x.call # c0
      BY <1>5, <1>6, <3>1
    <3> QED BY <1>3, <2>2, <3>2 DEF ItemOK
  <2> QED BY <2>1, <2>2
<1>8. TasksOK'
  BY <1>7 DEF TasksOK
<1>9. ASSUME NEW l \in Nodes, pc'[l] = "deliver"
      PROVE  /\ l # i /\ tasks'[l] = tasks[l] /\ pc[l] = "deliver"
             /\ executions'[tasks[l][1][2].call] = executions[tasks[l][1][2].call]
             /\ results'[tasks[l][1][2].call] = results[tasks[l][1][2].call]
  <2>1. l # i /\ tasks'[l] = tasks[l] /\ pc[l] = "deliver"
    BY <1>1, <1>2, <1>9
  <2>2. tasks[l] # <<>>
    BY <2>1 DEF DeliveringOK
  <2>3. 1 \in DOMAIN tasks[l]
    BY <2>2, FirstTask
  <2>4. tasks[l][1][2].call # c0 /\ tasks[l][1][2].call \in Calls
    BY <1>5, <1>6, <2>1, <2>3, MessageFacts
  <2> QED BY <2>1, <2>4 DEF c0
<1>10. DeliveringOK'
  <2>1. ASSUME NEW l \in Nodes, pc'[l] = "deliver"
        PROVE  /\ tasks'[l] # <<>>
               /\ tasks'[l][1][1] = l
               /\ AnswerRequired(tasks'[l][1][2].call)
               /\ executions'[tasks'[l][1][2].call] = 1
               /\ results'[tasks'[l][1][2].call] = <<>>
    <3>1. /\ tasks'[l] = tasks[l] /\ pc[l] = "deliver"
          /\ executions'[tasks[l][1][2].call] = executions[tasks[l][1][2].call]
          /\ results'[tasks[l][1][2].call] = results[tasks[l][1][2].call]
      BY <1>9, <2>1
    <3>2. /\ tasks[l] # <<>>
          /\ tasks[l][1][1] = l
          /\ AnswerRequired(tasks[l][1][2].call)
          /\ executions[tasks[l][1][2].call] = 1
          /\ results[tasks[l][1][2].call] = <<>>
      BY <3>1 DEF DeliveringOK
    <3> QED BY <3>1, <3>2
  <2> QED BY <2>1 DEF DeliveringOK, AnswerRequired
<1>11. \A x \in InTransit : x \in Message
  BY DEF InTransit
<1>12. \A x \in InTransit : Open(x) => Open(x)'
  BY <1>3, <1>4, <1>11
<1> QED BY <1>8, <1>10, <1>12

(* Calls that wait go on waiting while things are added.                    *)
LEMMA WaitingStays ==
  ASSUME NEW c \in Calls, IsWaiting(c),
         \A n \in DOMAIN tasks[c[2]] :
           n \in DOMAIN tasks'[c[2]] /\ tasks'[c[2]][n] = tasks[c[2]][n],
         \A n \in DOMAIN channel[c[1]][c[2]] :
           /\ n \in DOMAIN channel'[c[1]][c[2]]
           /\ channel'[c[1]][c[2]][n] = channel[c[1]][c[2]][n]
  PROVE  IsWaiting(c)'
BY DEF IsWaiting

-----------------------------------------------------------------------------
(* Where a call stands among the others                                    *)

(* A new call comes after all its caller made to the same head.             *)
LEMMA NewCallIsLast ==
  ASSUME CallsOK, NEW i \in Nodes, NEW j \in Nodes, NEW c \in Calls,
         c \notin scheduled, c[1] # c[2] => c[4] = remoteAnswers,
         NEW x, ItemOK(i, j, x)
  PROVE  Before(x, Call(c))
<1>1. Call(c).call = c /\ ~Call(c).answer /\ From(Call(c)) = c[1] /\ To(Call(c)) = c[2]
  BY MessageFacts
<1>2. SUFFICES ASSUME From(x) = c[1], To(x) = c[2], ~x.answer, ~(x.call[3] < c[3])
               PROVE  FALSE
  <2>1. x.answer \in BOOLEAN
    BY MessageFacts DEF ItemOK
  <2> QED BY <1>1, <2>1, <1>2 DEF Before
<1> DEFINE d == x.call
<1>3. d \in Calls /\ d \in scheduled
  BY MessageFacts DEF ItemOK
<1>4. d[1] = c[1] /\ d[2] = c[2]
  BY <1>2 DEF From, To
<1> HIDE DEF d
<1>5. d[4] = c[4]
  <2>1. d[4] = IF d[1] = d[2] THEN LocalAnswers ELSE remoteAnswers
    BY <1>3 DEF CallsOK
  <2>2. c[1] = c[2] => c[4] = LocalAnswers
    BY CallFacts
  <2> QED BY <1>4, <2>1, <2>2
<1>6. CASE d[3] = c[3]
  <2>1. d = c
    BY <1>3, <1>4, <1>5, <1>6, SameCall
  <2> QED BY <1>3, <2>1
<1>7. CASE d[3] # c[3]
  <2>1. c[3] \in Nat \ {0} /\ d[3] \in Nat \ {0}
    BY <1>3, CallFacts
  <2>2. c[3] \in 1 .. d[3] - 1
    BY <1>2, <1>7, <2>1 DEF d
  <2>3. <<d[1], d[2], c[3], d[4]>> \in scheduled
    BY <1>3, <2>2 DEF CallsOK
  <2>4. c = <<c[1], c[2], c[3], c[4]>>
    BY CallFacts
  <2> QED BY <1>4, <1>5, <2>3, <2>4
<1> QED BY <1>6, <1>7

(* The result of a call that is executed comes after those of earlier ones. *)
LEMMA NewResultIsLast ==
  ASSUME CallsOK, CallsInOrder, NEW i \in Nodes, NEW j \in Nodes, NEW c \in scheduled,
         c \in Calls, executions[c] = 0, NEW x, ItemOK(i, j, x), x.answer => Open(x)
  PROVE  Before(x, Result(c))
<1>1. /\ Result(c).call = c /\ Result(c).answer
      /\ From(Result(c)) = c[2] /\ To(Result(c)) = c[1]
  BY MessageFacts
<1>2. SUFFICES ASSUME From(x) = c[2], To(x) = c[1], x.answer = TRUE, ~(x.call[3] < c[3])
               PROVE  FALSE
  <2>1. x.answer \in BOOLEAN
    BY MessageFacts DEF ItemOK
  <2> QED BY <1>1, <2>1, <1>2 DEF Before
<1> DEFINE d == x.call
<1>3. d \in Calls /\ d \in scheduled /\ executions[d] = 1
  BY <1>2, MessageFacts DEF ItemOK, Open
<1>4. d[1] = c[1] /\ d[2] = c[2]
  BY <1>2 DEF From, To
<1> HIDE DEF d
<1>5. d[4] = c[4]
  BY <1>3, <1>4 DEF CallsOK
<1>6. CASE d[3] = c[3]
  <2>1. d = c
    BY <1>3, <1>4, <1>5, <1>6, SameCall
  <2> QED BY <1>3, <2>1
<1>7. CASE d[3] # c[3]
  <2>1. c[3] \in Nat \ {0} /\ d[3] \in Nat \ {0}
    BY <1>3, CallFacts
  <2>2. c[3] \in 1 .. d[3] - 1
    BY <1>2, <1>7, <2>1 DEF d
  <2>3. executions[<<d[1], d[2], c[3], d[4]>>] > 0
    BY <1>3, <2>2 DEF CallsInOrder
  <2>4. c = <<c[1], c[2], c[3], c[4]>>
    BY CallFacts
  <2>5. executions[c] > 0
    BY <1>4, <1>5, <2>3, <2>4
  <2> QED BY <2>5
<1> QED BY <1>6, <1>7

(* A call at the front of a queue was not executed, and all before it were. *)
LEMMA FirstCallIsNext ==
  ASSUME RCGTypeOK, ChannelsOK, TasksOK, OrderOK, NothingLost, CallsOK,
         NEW i \in Nodes, tasks[i] # <<>>, pc[i] = "execute",
         NEW c, c = tasks[i][1][2].call, ~tasks[i][1][2].answer
  PROVE  /\ c \in Calls /\ c \in scheduled /\ c[2] = i /\ c[1] = tasks[i][1][1]
         /\ executions[c] = 0 /\ results[c] = <<>>
         /\ \A k \in 1 .. c[3] - 1 : executions[<<c[1], c[2], k, c[4]>>] > 0
<1> DEFINE m == tasks[i][1][2]
<1>1. 1 \in DOMAIN tasks[i] /\ DOMAIN tasks[i] \subseteq Nat \ {0}
  BY FirstTask
<1>2. ItemOK(tasks[i][1][1], i, m) /\ Open(m)
  BY <1>1 DEF TasksOK
<1>3. /\ c \in Calls /\ c \in scheduled /\ c[2] = i /\ c[1] = tasks[i][1][1]
      /\ executions[c] = 0 /\ results[c] = <<>>
  BY <1>2, MessageFacts DEF ItemOK, Open, From, To
<1>4. m = Call(c)
  BY <1>2, MessageFacts DEF ItemOK
<1> HIDE DEF m
<1>5. ASSUME NEW k \in 1 .. c[3] - 1, NEW d, d = <<c[1], c[2], k, c[4]>>, executions[d] = 0
      PROVE  FALSE
  <2>1. d \in scheduled /\ d \in Calls
    BY <1>3, <1>5, CallFacts DEF CallsOK
  <2>2. d[1] = c[1] /\ d[2] = i /\ d[3] = k
    BY <1>3, <1>5
  <2>3. c[3] \in Nat /\ k \in Nat /\ k < c[3]
    <3>1. c[3] \in Nat \ {0}
      BY <1>3, CallFacts
    <3> QED BY <1>5, <3>1
  <2>4. IsWaiting(d)
    BY <1>5, <2>1 DEF NothingLost
  <2>5. ~Before(Call(c), Call(d))
    BY <1>3, <2>1, <2>2, <2>3, MessageFacts DEF Before
  <2>6. CASE \E n \in DOMAIN tasks[d[2]] : tasks[d[2]][n] = <<d[1], Call(d)>>
    <3>1. PICK n \in DOMAIN tasks[i] : tasks[i][n] = <<d[1], Call(d)>>
      BY <2>2, <2>6
    <3>2. tasks[i][n][2] = Call(d)
      BY <3>1
    <3>3. n # 1
      <4>1. Call(c).call = c /\ Call(d).call = d
        BY <1>3, <2>1, MessageFacts
      <4>2. c # d
        BY <2>2, <2>3
      <4> QED BY <1>4, <3>2, <4>1, <4>2 DEF m
    <3>4. 1 < n
      BY <1>1, <3>3
    <3>5. Before(tasks[i][1][2], tasks[i][n][2])
      BY <1>1, <3>4 DEF OrderOK, TaskOrder
    <3> QED BY <1>4, <2>5, <3>2, <3>5 DEF m
  <2>7. CASE \E n \in DOMAIN channel[d[1]][d[2]] : channel[d[1]][d[2]][n] = Call(d)
    <3>1. PICK n \in DOMAIN channel[c[1]][i] : channel[c[1]][i][n] = Call(d)
      BY <2>2, <2>7
    <3>2. c[1] \in Nodes /\ Call(d) # Ping
      BY <1>3, <2>1, MessageFacts, CallFacts
    <3>3. Before(tasks[i][1][2], channel[c[1]][i][n])
      BY <1>1, <3>1, <3>2 DEF OrderOK, PathOrder
    <3> QED BY <1>4, <2>5, <3>1, <3>3 DEF m
  <2> QED BY <2>4, <2>6, <2>7 DEF IsWaiting
<1>6. \A k \in 1 .. c[3] - 1 : executions[<<c[1], c[2], k, c[4]>>] > 0
  <2>1. ASSUME NEW k \in 1 .. c[3] - 1
        PROVE  executions[<<c[1], c[2], k, c[4]>>] > 0
    <3>1. <<c[1], c[2], k, c[4]>> \in Calls
      BY <1>3, CallFacts
    <3>2. executions[<<c[1], c[2], k, c[4]>>] \in Nat
      BY <3>1 DEF RCGTypeOK
    <3> QED BY <1>5, <3>2
  <2> QED BY <2>1
<1> QED BY <1>3, <1>6

(* A call was executed.                                                     *)
LEMMA ExecutionInOrder ==
  ASSUME RCGTypeOK, CallsOK, CallsInOrder, NEW c \in Calls, c \in scheduled,
         executions[c] = 0,
         \A k \in 1 .. c[3] - 1 : executions[<<c[1], c[2], k, c[4]>>] > 0,
         executions' = [executions EXCEPT ![c] = @ + 1], results' = results,
         scheduled' = scheduled, remoteAnswers' = remoteAnswers
  PROVE  /\ executions' \in [Calls -> Nat] /\ executions'[c] = 1
         /\ \A d \in Calls : d # c => executions'[d] = executions[d]
         /\ CallsOK' /\ CallsInOrder'
<1>1. executions \in [Calls -> Nat]
  BY DEF RCGTypeOK
<1>2. /\ executions' \in [Calls -> Nat] /\ executions'[c] = 1
      /\ \A d \in Calls : d # c => executions'[d] = executions[d]
  BY <1>1
<1>3. CallsOK'
  <2>1. \A d \in Calls : /\ executions'[d] \in {0, 1}
                         /\ d \notin scheduled => executions'[d] = 0 /\ results[d] = <<>>
    BY <1>2 DEF CallsOK
  <2>2. \A d \in scheduled :
       /\ d[4] = IF d[1] = d[2] THEN LocalAnswers ELSE remoteAnswers
       /\ \A k \in 1 .. d[3] - 1 : <<d[1], d[2], k, d[4]>> \in scheduled
    BY DEF CallsOK
  <2> QED BY <2>1, <2>2 DEF CallsOK
<1>4. ASSUME NEW d \in Calls, executions'[d] > 0, NEW k \in 1 .. d[3] - 1
      PROVE  executions'[<<d[1], d[2], k, d[4]>>] > 0
  <2>1. executions[<<d[1], d[2], k, d[4]>>] > 0
    <3>1. CASE d = c
      BY <1>4, <3>1
    <3>2. CASE d # c
      BY <1>2, <1>4, <3>2 DEF CallsInOrder
    <3> QED BY <3>1, <3>2
  <2>2. <<d[1], d[2], k, d[4]>> \in Calls
    BY <1>4, CallFacts
  <2> QED BY <1>2, <2>1, <2>2
<1> QED BY <1>2, <1>3, <1>4 DEF CallsInOrder

-----------------------------------------------------------------------------
(* How many pings and calls there are                                      *)

PingsIn(ch, k) ==
  {p \in UNION {{l} \X DOMAIN ch[l][k] : l \in Nodes} : ch[p[1]][k][p[2]] = Ping}

(* Where the pings are.                                                     *)
LEMMA PingAt ==
  ASSUME NEW ch, NEW k
  PROVE  /\ \A l \in Nodes : \A n :
              <<l, n>> \in PingsIn(ch, k) <=> n \in DOMAIN ch[l][k] /\ ch[l][k][n] = Ping
         /\ \A p \in PingsIn(ch, k) : p[1] \in Nodes /\ p = <<p[1], p[2]>>
<1>1. ASSUME NEW p \in PingsIn(ch, k)
      PROVE  /\ p[1] \in Nodes /\ p = <<p[1], p[2]>>
             /\ p[2] \in DOMAIN ch[p[1]][k] /\ ch[p[1]][k][p[2]] = Ping
  <2>1. PICK l \in Nodes : p \in {l} \X DOMAIN ch[l][k]
    BY <1>1 DEF PingsIn
  <2>2. PICK n \in DOMAIN ch[l][k] : p = <<l, n>>
    BY <2>1
  <2>3. p[1] = l /\ p[2] = n
    BY <2>2
  <2>4. ch[p[1]][k][p[2]] = Ping
    BY <1>1 DEF PingsIn
  <2> QED BY <2>2, <2>3, <2>4
<1>2. ASSUME NEW l \in Nodes, NEW n, <<l, n>> \in PingsIn(ch, k)
      PROVE  n \in DOMAIN ch[l][k] /\ ch[l][k][n] = Ping
  <2>1. <<l, n>>[1] = l /\ <<l, n>>[2] = n
    OBVIOUS
  <2> DEFINE p == <<l, n>>
  <2>2. p \in PingsIn(ch, k) /\ p[1] = l /\ p[2] = n
    BY <1>2, <2>1
  <2> HIDE DEF p
  <2> QED BY <1>1, <2>2
<1>3. ASSUME NEW l \in Nodes, NEW n \in DOMAIN ch[l][k], NEW p, p = <<l, n>>,
             ch[l][k][n] = Ping
      PROVE  p \in PingsIn(ch, k)
  <2>1. p \in {l} \X DOMAIN ch[l][k]
    BY <1>3
  <2>2. p[1] = l /\ p[2] = n
    BY <1>3
  <2> QED BY <1>3, <2>1, <2>2 DEF PingsIn
<1> QED BY <1>1, <1>2, <1>3

(* Pings at the same places are the same pings.                             *)
LEMMA SamePings ==
  ASSUME NEW ch, NEW dh, NEW k,
         \A l \in Nodes : \A n :
           n \in DOMAIN ch[l][k] /\ ch[l][k][n] = Ping <=>
             n \in DOMAIN dh[l][k] /\ dh[l][k][n] = Ping
  PROVE  PingsIn(ch, k) = PingsIn(dh, k)
<1>1. ASSUME NEW p \in PingsIn(ch, k) PROVE p \in PingsIn(dh, k)
  <2>1. p[1] \in Nodes /\ p = <<p[1], p[2]>>
    BY PingAt
  <2>2. <<p[1], p[2]>> \in PingsIn(ch, k)
    BY <2>1
  <2>3. <<p[1], p[2]>> \in PingsIn(dh, k)
    BY <2>1, <2>2, PingAt
  <2> QED BY <2>1, <2>3
<1>2. ASSUME NEW p \in PingsIn(dh, k) PROVE p \in PingsIn(ch, k)
  <2>1. p[1] \in Nodes /\ p = <<p[1], p[2]>>
    BY PingAt
  <2>2. <<p[1], p[2]>> \in PingsIn(dh, k)
    BY <2>1
  <2>3. <<p[1], p[2]>> \in PingsIn(ch, k)
    BY <2>1, <2>2, PingAt
  <2> QED BY <2>1, <2>3
<1> QED BY <1>1, <1>2

(* They are finitely many.                                                  *)
LEMMA PingsFinite ==
  ASSUME NEW ch \in [Nodes -> [Nodes -> Seq(Packet)]], NEW k \in Nodes
  PROVE  IsFiniteSet(PingsIn(ch, k)) /\ Cardinality(PingsIn(ch, k)) \in Nat
<1> DEFINE D(l) == {l} \X DOMAIN ch[l][k]
           f == [l \in Nodes |-> D(l)]
           T == {D(l) : l \in Nodes}
<1>1. IsFiniteSet(Nodes)
  BY RCGAssumption
<1>2. f \in Surjection(Nodes, T)
  BY DEF Surjection
<1>3. IsFiniteSet(T)
  BY <1>1, <1>2, FS_Surjection
<1>4. ASSUME NEW l \in Nodes PROVE IsFiniteSet(D(l))
  <2>1. DOMAIN ch[l][k] = 1 .. Len(ch[l][k]) /\ Len(ch[l][k]) \in Nat
    BY LenProperties
  <2>2. IsFiniteSet(DOMAIN ch[l][k])
    BY <2>1, FS_Interval
  <2>3. IsFiniteSet({l})
    BY FS_Singleton
  <2> QED BY <2>2, <2>3, FS_Product
<1>5. IsFiniteSet(UNION T)
  BY <1>3, <1>4, FS_UNION
<1>6. PingsIn(ch, k) \in SUBSET UNION T
  BY DEF PingsIn
<1>7. IsFiniteSet(PingsIn(ch, k))
  BY <1>5, <1>6, FS_Subset
<1> QED BY <1>7, FS_CardinalityType

(* A message is sent: a ping is one more, anything else changes nothing.    *)
LEMMA PingsOfSend ==
  ASSUME RCGTypeOK, NEW i \in Nodes, NEW j \in Nodes, NEW m \in Packet,
         Sends(i, j, m)
  PROVE  /\ \A k \in Nodes : k # j \/ m # Ping => Pings(k)' = Pings(k)
         /\ m = Ping => Cardinality(Pings(j))' = Cardinality(Pings(j)) + 1
<1> DEFINE len == Len(channel[i][j])
<1>1. /\ \A k, l \in Nodes : k # i \/ l # j => channel'[k][l] = channel[k][l]
      /\ len \in Nat
      /\ DOMAIN channel[i][j] = 1 .. len
      /\ DOMAIN channel'[i][j] = 1 .. len + 1
      /\ \A n \in DOMAIN channel[i][j] : channel'[i][j][n] = channel[i][j][n]
      /\ channel'[i][j][len + 1] = m
  BY ChannelAppend
<1> HIDE DEF len
<1>2. \A k \in Nodes : Pings(k) = PingsIn(channel, k) /\ Pings(k)' = PingsIn(channel', k)
  BY DEF Pings, PingsIn
<1>3. ASSUME NEW k \in Nodes, k # j PROVE PingsIn(channel', k) = PingsIn(channel, k)
  <2>1. \A l \in Nodes : channel'[l][k] = channel[l][k]
    BY <1>1, <1>3
  <2> QED BY <2>1, SamePings
<1>4. \A n : n \in DOMAIN channel'[i][j] <=> n \in DOMAIN channel[i][j] \/ n = len + 1
  BY <1>1
<1>5. ASSUME NEW l \in Nodes, NEW n
      PROVE  n \in DOMAIN channel'[l][j] /\ channel'[l][j][n] = Ping <=>
               \/ n \in DOMAIN channel[l][j] /\ channel[l][j][n] = Ping
               \/ m = Ping /\ l = i /\ n = len + 1
  <2>1. CASE l = i
    BY <1>1, <1>4, <2>1
  <2>2. CASE l # i
    BY <1>1, <2>2
  <2> QED BY <2>1, <2>2
<1>6. <<i, len + 1>> \notin PingsIn(channel, j)
  <2>1. len + 1 \notin DOMAIN channel[i][j]
    BY <1>1
  <2> QED BY <2>1, PingAt
<1>7. m # Ping => PingsIn(channel', j) = PingsIn(channel, j)
  BY <1>5, SamePings
<1>8. m = Ping => Cardinality(PingsIn(channel', j)) = Cardinality(PingsIn(channel, j)) + 1
  <2>1. ASSUME m = Ping PROVE PingsIn(channel', j) = PingsIn(channel, j) \cup {<<i, len + 1>>}
    <3>1. ASSUME NEW p, p = <<p[1], p[2]>>, p[1] \in Nodes
          PROVE  p \in PingsIn(channel', j) <=>
                   p \in PingsIn(channel, j) \/ (p[1] = i /\ p[2] = len + 1)
      <4> DEFINE a == p[1]
                 b == p[2]
      <4>1. p = <<a, b>> /\ a \in Nodes
        BY <3>1
      <4> HIDE DEF a, b
      <4>2. <<a, b>> \in PingsIn(channel', j) <=>
              <<a, b>> \in PingsIn(channel, j) \/ (a = i /\ b = len + 1)
        BY <1>5, <2>1, <4>1, PingAt
      <4> QED BY <4>1, <4>2 DEF a, b
    <3>2. \A p \in PingsIn(channel', j) : p = <<p[1], p[2]>> /\ p[1] \in Nodes
      BY PingAt
    <3>3. \A p \in PingsIn(channel, j) : p = <<p[1], p[2]>> /\ p[1] \in Nodes
      BY PingAt
    <3>4. \A p : p = <<p[1], p[2]>> => (p[1] = i /\ p[2] = len + 1 <=> p = <<i, len + 1>>)
      OBVIOUS
    <3>5. <<i, len + 1>>[1] = i /\ <<i, len + 1>>[2] = len + 1
      OBVIOUS
    <3>6. <<i, len + 1>> \in PingsIn(channel', j)
      BY <1>1, <2>1, PingAt
    <3> QED BY <3>1, <3>2, <3>3, <3>4, <3>5, <3>6
  <2>2. IsFiniteSet(PingsIn(channel, j))
    BY PingsFinite, QueueTypes
  <2> QED BY <1>6, <2>1, <2>2, FS_AddElement
<1> QED BY <1>2, <1>3, <1>7, <1>8

(* A message is received: the pings behind it move up.                      *)
LEMMA PingsOfReceive ==
  ASSUME RCGTypeOK, NEW i \in Nodes, NEW j \in Nodes, channel[i][j] # <<>>,
         Takes(i, j)
  PROVE  /\ \A k \in Nodes : k # j => Pings(k)' = Pings(k)
         /\ channel[i][j][1] # Ping => Cardinality(Pings(j))' = Cardinality(Pings(j))
         /\ channel[i][j][1] = Ping => Cardinality(Pings(j))' = Cardinality(Pings(j)) - 1
<1> DEFINE len == Len(channel[i][j])
<1>1. /\ \A k, l \in Nodes : k # i \/ l # j => channel'[k][l] = channel[k][l]
      /\ len \in Nat \ {0}
      /\ DOMAIN channel[i][j] = 1 .. len
      /\ DOMAIN channel'[i][j] = 1 .. len - 1
      /\ \A n \in DOMAIN channel'[i][j] : channel'[i][j][n] = channel[i][j][n + 1]
  <2>1. \A k, l \in Nodes : k # i \/ l # j => channel'[k][l] = channel[k][l]
    BY ChannelTail
  <2>2. /\ len \in Nat \ {0}
        /\ DOMAIN channel[i][j] = 1 .. len
        /\ DOMAIN channel'[i][j] = 1 .. len - 1
    BY ChannelTail
  <2>3. \A n \in DOMAIN channel'[i][j] : channel'[i][j][n] = channel[i][j][n + 1]
    BY ChannelTail
  <2> QED BY <2>1, <2>2, <2>3
<1> HIDE DEF len
<1>2. \A k \in Nodes : Pings(k) = PingsIn(channel, k) /\ Pings(k)' = PingsIn(channel', k)
  BY DEF Pings, PingsIn
<1>3. ASSUME NEW k \in Nodes, k # j PROVE PingsIn(channel', k) = PingsIn(channel, k)
  <2>1. \A l \in Nodes : channel'[l][k] = channel[l][k]
    BY <1>1, <1>3
  <2> QED BY <2>1, SamePings
<1> DEFINE New == PingsIn(channel', j)
           Old == PingsIn(channel, j) \ {<<i, 1>>}
           F(p) == IF p[1] = i THEN <<i, p[2] + 1>> ELSE p
           f == [p \in New |-> F(p)]
<1>4. ASSUME NEW l \in Nodes, NEW n
      PROVE  <<l, n>> \in New <=> n \in DOMAIN channel'[l][j] /\ channel'[l][j][n] = Ping
  BY PingAt
<1>5. ASSUME NEW l \in Nodes, NEW n
      PROVE  <<l, n>> \in Old <=>
               n \in DOMAIN channel[l][j] /\ channel[l][j][n] = Ping /\ (l # i \/ n # 1)
  BY PingAt
<1>6. \A p \in New : \E l \in Nodes : \E n : p = <<l, n>>
  <2>1. \A p \in New : p[1] \in Nodes /\ p = <<p[1], p[2]>>
    BY PingAt
  <2> QED BY <2>1
<1>7. \A p \in Old : \E l \in Nodes : \E n : p = <<l, n>>
  <2>1. \A p \in Old : p[1] \in Nodes /\ p = <<p[1], p[2]>>
    BY PingAt
  <2> QED BY <2>1
<1> HIDE DEF New, Old
<1>8. ASSUME NEW p \in New
      PROVE  F(p) \in Old /\ (p[1] = i => p[2] \in Nat)
  <2>1. PICK l, n : l \in Nodes /\ p = <<l, n>>
    BY <1>6, <1>8
  <2>2. n \in DOMAIN channel'[l][j] /\ channel'[l][j][n] = Ping
    BY <1>4, <1>8, <2>1
  <2>3. p[1] = l /\ p[2] = n
    BY <2>1
  <2>4. CASE l = i
    <3>1. n \in Nat /\ n + 1 \in DOMAIN channel[i][j] /\ n + 1 # 1
          /\ channel[i][j][n + 1] = Ping
      BY <1>1, <2>1, <2>2, <2>4
    <3>2. <<i, n + 1>> \in Old
      BY <1>5, <3>1
    <3> QED BY <2>3, <2>4, <3>1, <3>2
  <2>5. CASE l # i
    <3>1. n \in DOMAIN channel[l][j] /\ channel[l][j][n] = Ping
      BY <1>1, <2>1, <2>2, <2>5
    <3>2. <<l, n>> \in Old
      BY <1>5, <2>1, <2>5, <3>1
    <3> QED BY <2>1, <2>3, <2>5, <3>2
  <2> QED BY <2>4, <2>5
<1>9. ASSUME NEW p \in New, NEW q \in New, F(p) = F(q) PROVE p = q
  <2>1. PICK l, n : l \in Nodes /\ p = <<l, n>>
    BY <1>6, <1>9
  <2>2. PICK k, a : k \in Nodes /\ q = <<k, a>>
    BY <1>6, <1>9
  <2>3. /\ p[1] = l /\ p[2] = n /\ q[1] = k /\ q[2] = a
    BY <2>1, <2>2
  <2>4. F(p)[1] = l /\ F(q)[1] = k
    BY <2>3
  <2>5. l = k
    BY <1>9, <2>4
  <2>6. CASE l = i
    <3>1. F(p) = <<i, n + 1>> /\ F(q) = <<i, a + 1>>
      BY <2>3, <2>5, <2>6
    <3>2. n + 1 = a + 1
      BY <1>9, <3>1
    <3>3. n \in Nat /\ a \in Nat
      BY <1>8, <2>3, <2>5, <2>6
    <3>4. n = a
      BY <3>2, <3>3
    <3> QED BY <2>1, <2>2, <2>5, <3>4
  <2>7. CASE l # i
    BY <1>9, <2>3, <2>5, <2>7
  <2> QED BY <2>6, <2>7
<1>10. ASSUME NEW q \in Old PROVE \E p \in New : F(p) = q
  <2>1. PICK l, n : l \in Nodes /\ q = <<l, n>>
    BY <1>7, <1>10
  <2>2. n \in DOMAIN channel[l][j] /\ channel[l][j][n] = Ping /\ (l # i \/ n # 1)
    BY <1>5, <1>10, <2>1
  <2>3. CASE l = i
    <3>1. n - 1 \in DOMAIN channel'[i][j] /\ n - 1 + 1 = n
      BY <1>1, <2>2, <2>3
    <3>2. <<i, n - 1>> \in New
      BY <1>1, <1>4, <2>2, <2>3, <3>1
    <3>3. F(<<i, n - 1>>) = <<i, n>>
      BY <3>1
    <3> QED BY <2>1, <2>3, <3>2, <3>3
  <2>4. CASE l # i
    <3>1. q \in New
      BY <1>1, <1>4, <2>1, <2>2, <2>4
    <3>2. q[1] = l
      BY <2>1
    <3> QED BY <2>4, <3>1, <3>2
  <2> QED BY <2>3, <2>4
<1> HIDE DEF F
<1>11. f \in Bijection(New, Old)
  <2>1. f \in [New -> Old]
    BY <1>8
  <2>2. \A p, q \in New : f[p] = f[q] => p = q
    BY <1>9
  <2>3. \A q \in Old : \E p \in New : f[p] = q
    BY <1>10
  <2> QED BY <2>1, <2>2, <2>3, Fun_IsBij
<1>12. ExistsBijection(New, Old)
  BY <1>11 DEF ExistsBijection
<1>13. IsFiniteSet(New)
  <2>1. channel' \in [Nodes -> [Nodes -> Seq(Packet)]]
    BY ChannelTail
  <2> QED BY <2>1, PingsFinite DEF New
<1>14. Cardinality(Old) = Cardinality(New)
  BY <1>12, <1>13, FS_Bijection
<1>15. IsFiniteSet(PingsIn(channel, j)) /\ Cardinality(PingsIn(channel, j)) \in Nat
  BY PingsFinite, QueueTypes
<1>16. <<i, 1>> \in PingsIn(channel, j) <=> channel[i][j][1] = Ping
  <2>1. 1 \in DOMAIN channel[i][j]
    BY <1>1
  <2> QED BY <2>1, PingAt
<1>17. Cardinality(Old) = IF channel[i][j][1] = Ping THEN Cardinality(PingsIn(channel, j)) - 1
                          ELSE Cardinality(PingsIn(channel, j))
  BY <1>15, <1>16, FS_RemoveElement DEF Old
<1> QED BY <1>2, <1>3, <1>14, <1>17 DEF New

(* A head has fewer calls than a counter can count.                         *)
LEMMA CallsBounded ==
  ASSUME NEW i \in Nodes, NEW S \in SUBSET Calls,
         \A c \in S : c[1] = i /\ c[2] # i /\ c[4] = FALSE
  PROVE  IsFiniteSet(S) /\ Cardinality(S) \in Nat /\ Cardinality(S) < SizeModulus
<1> DEFINE T == Nodes \X (1 .. CallsToOther)
           f == [c \in S |-> <<c[2], c[3]>>]
<1>1. /\ IsFiniteSet(Nodes) /\ Cardinality(Nodes) \in Nat
      /\ CallsToOther \in Nat /\ AnsweredCalls \in Nat /\ SizeModulus \in Nat
      /\ SizeModulus > Cardinality(Nodes) * (CallsToOther + AnsweredCalls)
  <2>1. /\ IsFiniteSet(Nodes)
        /\ CallsToOther \in Nat /\ AnsweredCalls \in Nat /\ SizeModulus \in Nat
        /\ SizeModulus > Cardinality(Nodes) * (CallsToOther + AnsweredCalls)
    BY RCGAssumption
  <2> QED BY <2>1, FS_CardinalityType
<1>2. IsFiniteSet(1 .. CallsToOther) /\ Cardinality(1 .. CallsToOther) = CallsToOther
  <2>1. \A n \in Nat : IsFiniteSet(1 .. n) /\ Cardinality(1 .. n) = n
    BY FS_Interval
  <2> QED BY <1>1, <2>1
<1>3. IsFiniteSet(T) /\ Cardinality(T) = Cardinality(Nodes) * CallsToOther
  BY <1>1, <1>2, FS_Product
<1>4. ASSUME NEW c \in S PROVE <<c[2], c[3]>> \in T
  <2>1. c[2] \in Nodes /\ c[3] \in 1 .. CallsToOther
    BY CallFacts
  <2> QED BY <2>1
<1>5. ASSUME NEW c \in S, NEW d \in S, <<c[2], c[3]>> = <<d[2], d[3]>> PROVE c = d
  <2>1. c[2] = d[2] /\ c[3] = d[3]
    BY <1>5
  <2> QED BY <2>1, SameCall
<1> HIDE DEF T
<1>6. f \in Injection(S, T)
  <2>1. f \in [S -> T]
    BY <1>4
  <2>2. \A c, d \in S : f[c] = f[d] => c = d
    BY <1>5
  <2> QED BY <2>1, <2>2, Fun_IsInj
<1>7. IsFiniteSet(S) /\ Cardinality(S) <= Cardinality(T)
  BY <1>3, <1>6, FS_Injection
<1>8. \A a, b, d \in Nat : a * b <= a * (b + d)
  <2>1. \A a, b, d \in Nat : a * (b + d) = a * b + a * d /\ a * d >= 0
    OBVIOUS
  <2>2. \A a, b, d \in Nat : a * b \in Nat /\ a * d \in Nat
    OBVIOUS
  <2> QED BY <2>1, <2>2
<1>9. Cardinality(Nodes) * CallsToOther <= Cardinality(Nodes) * (CallsToOther + AnsweredCalls)
  BY <1>1, <1>8
<1>10. Cardinality(S) \in Nat
  BY <1>7, FS_CardinalityType
<1>11. Cardinality(Nodes) * CallsToOther \in Nat
       /\ Cardinality(Nodes) * (CallsToOther + AnsweredCalls) \in Nat
  BY <1>1
<1> QED BY <1>1, <1>3, <1>7, <1>9, <1>10, <1>11

(* In particular there are finitely many.                                   *)
LEMMA FewCalls ==
  ASSUME RCGTypeOK, CallsOK, ~remoteAnswers, NEW k \in Nodes
  PROVE  /\ IsFiniteSet(RemoteCalls(k)) /\ Cardinality(RemoteCalls(k)) \in Nat
         /\ Cardinality(RemoteCalls(k)) < SizeModulus
         /\ IsFiniteSet(Unexecuted(k)) /\ Cardinality(Unexecuted(k)) \in Nat
<1>1. RemoteCalls(k) \in SUBSET Calls
  BY DEF RCGTypeOK, RemoteCalls
<1>2. \A c \in RemoteCalls(k) : c[1] = k /\ c[2] # k /\ c[4] = FALSE
  <2>1. remoteAnswers = FALSE
    BY DEF RCGTypeOK
  <2> QED BY <2>1 DEF RemoteCalls, CallsOK
<1>3. /\ IsFiniteSet(RemoteCalls(k)) /\ Cardinality(RemoteCalls(k)) \in Nat
      /\ Cardinality(RemoteCalls(k)) < SizeModulus
  BY <1>1, <1>2, CallsBounded
<1>4. Unexecuted(k) \in SUBSET RemoteCalls(k)
  BY DEF Unexecuted
<1>5. IsFiniteSet(Unexecuted(k))
  BY <1>3, <1>4, FS_Subset
<1> QED BY <1>3, <1>5, FS_CardinalityType

-----------------------------------------------------------------------------
(* The steps one by one                                                    *)

(* Steps that only move on change nothing of interest.                      *)
LEMMA MovingOn ==
  ASSUME IInv, remoteAnswers' = remoteAnswers, NEW i \in Nodes,
         DoWork(i) \/ TestForMessages(i) \/ NoTask(i)
  PROVE  IInv'
<1>1. /\ scheduled' = scheduled /\ tasks' = tasks /\ channel' = channel
      /\ numWaitingForReply' = numWaitingForReply
      /\ executions' = executions /\ results' = results
  BY DEF DoWork, TestForMessages, NoTask, history
<1>2. PICK next \in {"app", "receive", "execute"} : Goto(i, next)
  BY DEF DoWork, TestForMessages, NoTask
<1>3. pc[i] # "deliver"
  BY DEF DoWork, TestForMessages, NoTask
<1>4. RCGTypeOK
  BY DEF IInv
<1>5. /\ pc' \in [Nodes -> {"app", "receive", "execute", "deliver"}]
      /\ \A l \in Nodes : pc'[l] = "deliver" <=> pc[l] = "deliver"
  BY <1>2, <1>3, <1>4 DEF Goto, RCGTypeOK
<1>6. outstanding' \in [Nodes -> SUBSET (Nodes \X Message)]
  <2>1. outstanding \in [Nodes -> SUBSET (Nodes \X Message)]
    BY <1>4 DEF RCGTypeOK
  <2> QED BY <2>1 DEF DoWork, TestForMessages, NoTask
<1>7. RCGTypeOK'
  BY <1>1, <1>4, <1>5, <1>6 DEF RCGTypeOK
<1>8. ChannelsOK' /\ OrderOK' /\ NothingLost' /\ CallsOK' /\ CallsInOrder'
  <2>1. ChannelsOK'
    BY <1>1 DEF IInv, ChannelsOK, ItemOK, Open
  <2>2. OrderOK'
    BY <1>1 DEF IInv, OrderOK, ChannelOrder, TaskOrder, PathOrder
  <2>3. NothingLost'
    BY <1>1 DEF IInv, NothingLost, IsWaiting
  <2>4. CallsOK' /\ CallsInOrder'
    BY <1>1 DEF IInv, CallsOK, CallsInOrder
  <2> QED BY <2>1, <2>2, <2>3, <2>4
<1>9. TasksOK' /\ DeliveringOK'
  BY <1>1, <1>5 DEF IInv, TasksOK, DeliveringOK, ItemOK, Open
<1>10. CountOK'
  BY <1>1 DEF IInv, CountOK, Unexecuted, RemoteCalls, Pings
<1> QED BY <1>7, <1>8, <1>9, <1>10 DEF IInv

(* A new call was not executed and is the next of its caller.               *)
LEMMA NewCall ==
  ASSUME IInv, remoteAnswers' = remoteAnswers, NEW i \in Nodes, NEW c \in Calls,
         Schedule(i, c)
  PROVE  /\ c \notin scheduled /\ scheduled' = scheduled \union {c} /\ c[1] = i
         /\ c[1] # c[2] => c[4] = remoteAnswers
         /\ executions[c] = 0 /\ results[c] = <<>>
         /\ pc' = pc /\ executions' = executions /\ results' = results
         /\ pc' \in [Nodes -> {"app", "receive", "execute", "deliver"}]
         /\ scheduled' \subseteq Calls /\ CallsOK' /\ CallsInOrder'
<1>1. /\ c \notin scheduled /\ scheduled' = scheduled \union {c} /\ c[1] = i
      /\ c[1] # c[2] => c[4] = remoteAnswers
      /\ pc' = pc /\ executions' = executions /\ results' = results
      /\ \A k \in 1 .. c[3] - 1 : <<c[1], c[2], k, c[4]>> \in scheduled
  BY DEF Schedule, history
<1>2. executions[c] = 0 /\ results[c] = <<>>
  BY <1>1 DEF IInv, CallsOK
<1>3. /\ pc \in [Nodes -> {"app", "receive", "execute", "deliver"}]
      /\ scheduled \subseteq Calls
  BY DEF IInv, RCGTypeOK
<1>4. c[4] = IF c[1] = c[2] THEN LocalAnswers ELSE remoteAnswers
  BY <1>1, CallFacts
<1>5. \A d \in scheduled' :
       /\ d[4] = IF d[1] = d[2] THEN LocalAnswers ELSE remoteAnswers
       /\ \A k \in 1 .. d[3] - 1 : <<d[1], d[2], k, d[4]>> \in scheduled
  BY <1>1, <1>4 DEF IInv, CallsOK
<1>6. CallsOK'
  BY <1>1, <1>5 DEF IInv, CallsOK
<1>7. CallsInOrder'
  BY <1>1 DEF IInv, CallsInOrder
<1> QED BY <1>1, <1>2, <1>3, <1>6, <1>7

(* A head makes a call to itself.                                           *)
LEMMA ScheduleOwn ==
  ASSUME IInv, remoteAnswers' = remoteAnswers, NEW i \in Nodes, NEW c \in Calls,
         Schedule(i, c), c[2] = i
  PROVE  IInv'
<1>1. /\ c \notin scheduled /\ scheduled' = scheduled \union {c} /\ c[1] = i
      /\ c[1] # c[2] => c[4] = remoteAnswers
      /\ executions[c] = 0 /\ results[c] = <<>>
      /\ pc' = pc /\ executions' = executions /\ results' = results
      /\ pc' \in [Nodes -> {"app", "receive", "execute", "deliver"}]
      /\ scheduled' \subseteq Calls /\ CallsOK' /\ CallsInOrder'
  BY NewCall
<1>2. /\ tasks' = [tasks EXCEPT ![i] = Append(@, <<i, Call(c)>>)]
      /\ numWaitingForReply' = numWaitingForReply
      /\ outstanding' = outstanding /\ channel' = channel
  BY DEF Schedule
<1>3. /\ RCGTypeOK /\ ChannelsOK /\ TasksOK /\ DeliveringOK /\ OrderOK
      /\ NothingLost /\ CallsOK /\ CountOK
  BY DEF IInv
<1> DEFINE len == Len(tasks[i])
<1>4. /\ tasks' \in [Nodes -> Seq(Nodes \X Message)]
      /\ \A k \in Nodes : k # i => tasks'[k] = tasks[k]
      /\ len \in Nat /\ DOMAIN tasks[i] = 1 .. len
      /\ DOMAIN tasks'[i] = 1 .. len + 1
      /\ \A n \in DOMAIN tasks[i] : tasks'[i][n] = tasks[i][n]
      /\ tasks'[i][len + 1] = <<i, Call(c)>>
  <2>1. <<i, Call(c)>> \in Nodes \X Message
    BY MessageFacts
  <2> QED BY <1>2, <1>3, <2>1, TasksAppend
<1> HIDE DEF len
<1>5. RCGTypeOK'
  BY <1>1, <1>2, <1>3, <1>4 DEF RCGTypeOK
<1>6. ChannelsOK'
  BY <1>1, <1>2, <1>3 DEF ChannelsOK, ItemOK, Open
<1>7. ItemOK(i, i, Call(c))' /\ Open(Call(c))'
  BY <1>1, MessageFacts DEF ItemOK, Open
<1>8. /\ \A l \in Nodes : \A n \in DOMAIN tasks'[l] :
           \/ n \in DOMAIN tasks[l] /\ tasks'[l][n] = tasks[l][n]
           \/ l = i /\ tasks'[l][n] = <<i, Call(c)>>
      /\ \A l \in Nodes : \A n \in DOMAIN tasks[l] :
           n \in DOMAIN tasks'[l] /\ tasks'[l][n] = tasks[l][n]
  <2>1. <<i, Call(c)>> \in Nodes \X Message
    BY MessageFacts
  <2> QED BY <1>2, <1>3, <2>1, TasksGrow
<1>9. TasksOK'
  <2>1. ASSUME NEW l \in Nodes, NEW n \in DOMAIN tasks'[l], NEW o, NEW x,
               o = tasks'[l][n][1], x = tasks'[l][n][2]
        PROVE  ItemOK(o, l, x)' /\ (n > 1 \/ pc[l] # "deliver" => Open(x)')
    <3>1. CASE n \in DOMAIN tasks[l] /\ tasks'[l][n] = tasks[l][n]
      <4>1. ItemOK(o, l, x) /\ (n > 1 \/ pc[l] # "deliver" => Open(x))
        BY <1>3, <2>1, <3>1 DEF TasksOK
      <4> QED BY <1>1, <4>1 DEF ItemOK, Open
    <3>2. CASE l = i /\ tasks'[l][n] = <<i, Call(c)>>
      BY <1>7, <2>1, <3>2
    <3> QED BY <1>8, <2>1, <3>1, <3>2
  <2> QED BY <1>1, <2>1 DEF TasksOK
<1>10. DeliveringOK'
  <2>1. ASSUME NEW l \in Nodes, pc[l] = "deliver"
        PROVE  tasks'[l] # <<>> /\ tasks'[l][1] = tasks[l][1]
    <3>1. 1 \in DOMAIN tasks[l]
      BY <1>3, <2>1, FirstTask DEF DeliveringOK
    <3>2. tasks'[l][1] = tasks[l][1] /\ 1 \in DOMAIN tasks'[l]
      BY <1>8, <3>1
    <3> QED BY <3>2
  <2> QED BY <1>1, <1>3, <2>1 DEF DeliveringOK
<1>11. OrderOK'
  <2>1. ASSUME NEW n \in DOMAIN tasks[i]
        PROVE  Before(tasks[i][n][2], Call(c))
    <3>1. tasks[i][n][1] \in Nodes
      <4>1. tasks[i] \in Seq(Nodes \X Message)
        BY <1>3, QueueTypes
      <4>2. tasks[i][n] \in Nodes \X Message
        BY <1>4, <4>1, <2>1, ElementOfSeq
      <4> QED BY <4>2
    <3>2. ItemOK(tasks[i][n][1], i, tasks[i][n][2])
      BY <1>3, <2>1 DEF TasksOK
    <3> QED BY <1>1, <1>3, <3>1, <3>2, NewCallIsLast
  <2>2. Call(c) \in Message /\ From(Call(c)) = i
    BY <1>1, MessageFacts
  <2> QED BY <1>2, <1>3, <2>1, <2>2, EnqueueKeepsOrder
<1>12. NothingLost'
  <2>1. ASSUME NEW d \in scheduled, executions[d] = 0 PROVE IsWaiting(d)'
    <3>1. IsWaiting(d) /\ d \in Calls /\ d[2] \in Nodes
      BY <1>1, <1>3, <2>1, CallFacts DEF NothingLost
    <3>2. \A n \in DOMAIN tasks[d[2]] :
             n \in DOMAIN tasks'[d[2]] /\ tasks'[d[2]][n] = tasks[d[2]][n]
      BY <1>8, <3>1
    <3> QED BY <1>2, <3>1, <3>2, WaitingStays
  <2>2. IsWaiting(c)'
    <3>1. len + 1 \in DOMAIN tasks'[c[2]]
      BY <1>4
    <3>2. tasks'[c[2]][len + 1] = <<c[1], Call(c)>>
      BY <1>1, <1>4
    <3> QED BY <3>1, <3>2 DEF IsWaiting
  <2> QED BY <1>1, <2>1, <2>2 DEF NothingLost
<1>13. CountOK'
  <2>1. \A k \in Nodes : RemoteCalls(k)' = RemoteCalls(k)
    BY <1>1 DEF RemoteCalls
  <2>2. \A k \in Nodes : Unexecuted(k)' = Unexecuted(k)
    BY <1>1, <2>1 DEF Unexecuted
  <2>3. \A k \in Nodes : Pings(k)' = Pings(k)
    BY <1>2 DEF Pings
  <2> QED BY <1>2, <1>3, <2>1, <2>2, <2>3 DEF CountOK
<1> QED BY <1>1, <1>5, <1>6, <1>9, <1>10, <1>11, <1>12, <1>13 DEF IInv

(* The counter counts modulo SizeModulus.                                   *)
LEMMA CounterFacts ==
  /\ SizeModulus \in Nat \ {0}
  /\ \A n \in Int : n % SizeModulus \in 0 .. SizeModulus - 1
  /\ \A n \in 0 .. SizeModulus - 1 : n % SizeModulus = n
<1>1. SizeModulus \in Nat \ {0}
  <2>1. /\ Cardinality(Nodes) \in Nat
        /\ CallsToOther \in Nat /\ AnsweredCalls \in Nat /\ SizeModulus \in Nat
        /\ SizeModulus > Cardinality(Nodes) * (CallsToOther + AnsweredCalls)
    <3>1. IsFiniteSet(Nodes)
      BY RCGAssumption
    <3>2. Cardinality(Nodes) \in Nat
      BY <3>1, FS_CardinalityType
    <3> QED BY <3>2, RCGAssumption
  <2>2. Cardinality(Nodes) * (CallsToOther + AnsweredCalls) \in Nat
    BY <2>1
  <2> QED BY <2>1, <2>2
<1> QED BY <1>1

(* An on_result function is called with the result of its call.             *)
LEMMA GiveResult ==
  ASSUME RCGTypeOK, NEW c \in Calls, results' = [results EXCEPT ![c] = Append(@, c)]
  PROVE  /\ results' \in [Calls -> Seq(Calls)]
         /\ \A d \in Calls : d # c => results'[d] = results[d]
<1>1. results \in [Calls -> Seq(Calls)]
  BY DEF RCGTypeOK
<1>2. Append(results[c], c) \in Seq(Calls)
  BY <1>1, AppendAt
<1> QED BY <1>1, <1>2

(* What is sent to another head has the type of a message.                  *)
LEMMA SendTypes ==
  ASSUME RCGTypeOK, NEW i \in Nodes, NEW j \in Nodes, i # j, NEW m \in Packet,
         Sends(i, j, m), outstanding' = outstanding \/ (m \in Message /\ SendMessage(i, j, m))
  PROVE  /\ channel' \in [Nodes -> [Nodes -> Seq(Message \union {Ping})]]
         /\ \A k \in Nodes : channel'[k][k] = <<>>
         /\ outstanding' \in [Nodes -> SUBSET (Nodes \X Message)]
<1>1. /\ channel' \in [Nodes -> [Nodes -> Seq(Packet)]]
      /\ \A k, l \in Nodes : k # i \/ l # j => channel'[k][l] = channel[k][l]
  BY ChannelAppend
<1>2. \A k \in Nodes : channel'[k][k] = <<>>
  BY <1>1 DEF RCGTypeOK
<1>3. outstanding \in [Nodes -> SUBSET (Nodes \X Message)]
  BY DEF RCGTypeOK
<1>4. ASSUME m \in Message, SendMessage(i, j, m)
      PROVE  outstanding' \in [Nodes -> SUBSET (Nodes \X Message)]
  <2>1. <<j, m>> \in Nodes \X Message
    BY <1>4
  <2>2. outstanding' = outstanding
        \/ outstanding' = [outstanding EXCEPT ![i] = @ \union {<<j, m>>}]
    BY <1>4 DEF SendMessage
  <2> HIDE <1>4
  <2> QED BY <1>3, <2>1, <2>2
<1> QED BY <1>1, <1>2, <1>3, <1>4 DEF Packet

(* A head makes a call to another one.                                      *)
LEMMA ScheduleRemote ==
  ASSUME IInv, remoteAnswers' = remoteAnswers, NEW i \in Nodes, NEW c \in Calls,
         Schedule(i, c), c[2] # i
  PROVE  IInv'
<1> DEFINE j == c[2]
<1>1. /\ c \notin scheduled /\ scheduled' = scheduled \union {c} /\ c[1] = i
      /\ c[1] # c[2] => c[4] = remoteAnswers
      /\ executions[c] = 0 /\ results[c] = <<>>
      /\ pc' = pc /\ executions' = executions /\ results' = results
      /\ pc' \in [Nodes -> {"app", "receive", "execute", "deliver"}]
      /\ scheduled' \subseteq Calls /\ CallsOK' /\ CallsInOrder'
  BY NewCall
<1>2. /\ SendMessage(i, j, Call(c)) /\ tasks' = tasks
      /\ numWaitingForReply' = [numWaitingForReply EXCEPT ![i] = (@ + 1) % SizeModulus]
  BY DEF Schedule
<1>3. /\ RCGTypeOK /\ ChannelsOK /\ TasksOK /\ DeliveringOK /\ OrderOK
      /\ NothingLost /\ CallsOK /\ CountOK
  BY DEF IInv
<1>4. /\ j \in Nodes /\ i # j /\ Call(c) \in Message /\ Call(c) \in Packet /\ Call(c) # Ping
      /\ Sends(i, j, Call(c))
  BY <1>2, CallFacts, MessageFacts DEF SendMessage, Sends, Packet
<1>5. RCGTypeOK'
  <2>1. numWaitingForReply' \in [Nodes -> 0 .. SizeModulus - 1]
    <3>1. numWaitingForReply \in [Nodes -> 0 .. SizeModulus - 1]
      BY <1>3 DEF RCGTypeOK
    <3>2. (numWaitingForReply[i] + 1) % SizeModulus \in 0 .. SizeModulus - 1
      <4>1. numWaitingForReply[i] + 1 \in Int
        BY <3>1, CounterFacts
      <4> QED BY <4>1, CounterFacts
    <3> QED BY <1>2, <3>1, <3>2
  <2>2. /\ channel' \in [Nodes -> [Nodes -> Seq(Message \union {Ping})]]
        /\ \A k \in Nodes : channel'[k][k] = <<>>
        /\ outstanding' \in [Nodes -> SUBSET (Nodes \X Message)]
    BY <1>2, <1>3, <1>4, SendTypes
  <2> QED BY <1>1, <1>2, <1>3, <2>1, <2>2 DEF RCGTypeOK
<1>6. ChannelsOK'
  <2>1. ItemOK(i, j, Call(c))' /\ Open(Call(c))'
    BY <1>1, <1>4, MessageFacts DEF ItemOK, Open
  <2>2. \A x \in InTransit : Open(x) => Open(x)'
    BY <1>1 DEF Open
  <2> QED BY <1>1, <1>3, <1>4, <2>1, <2>2, SendKeepsChannels
<1>7. TasksOK' /\ DeliveringOK'
  <2>1. TasksOK'
    BY <1>1, <1>2, <1>3 DEF TasksOK, ItemOK, Open
  <2>2. DeliveringOK'
    BY <1>1, <1>2, <1>3 DEF DeliveringOK
  <2> QED BY <2>1, <2>2
<1>8. OrderOK'
  <2>1. ASSUME NEW n \in DOMAIN channel[i][j], channel[i][j][n] # Ping
        PROVE  Before(channel[i][j][n], Call(c))
    <3>1. ItemOK(i, j, channel[i][j][n])
      BY <1>3, <1>4, <2>1 DEF ChannelsOK
    <3> QED BY <1>1, <1>3, <1>4, <3>1, NewCallIsLast
  <2>2. ASSUME NEW n \in DOMAIN tasks[j]
        PROVE  Before(tasks[j][n][2], Call(c))
    <3>1. tasks[j][n][1] \in Nodes
      <4>1. tasks[j] \in Seq(Nodes \X Message)
        BY <1>3, <1>4, QueueTypes
      <4>2. DOMAIN tasks[j] = 1 .. Len(tasks[j])
        BY <4>1, LenProperties
      <4>3. tasks[j][n] \in Nodes \X Message
        BY <4>1, <4>2, <2>2, ElementOfSeq
      <4> QED BY <4>3
    <3>2. ItemOK(tasks[j][n][1], j, tasks[j][n][2])
      BY <1>3, <1>4, <2>2 DEF TasksOK
    <3> QED BY <1>1, <1>3, <1>4, <3>1, <3>2, NewCallIsLast
  <2>3. NoNewTasks /\ TaskOrder'
    BY <1>2, <1>3 DEF NoNewTasks, OrderOK, TaskOrder
  <2> QED BY <1>3, <1>4, <2>1, <2>2, <2>3, SendKeepsOrder
<1> DEFINE len == Len(channel[i][j])
<1>9. /\ \A k, l \in Nodes : k # i \/ l # j => channel'[k][l] = channel[k][l]
      /\ len \in Nat /\ DOMAIN channel[i][j] = 1 .. len
      /\ DOMAIN channel'[i][j] = 1 .. len + 1
      /\ \A n \in DOMAIN channel[i][j] : channel'[i][j][n] = channel[i][j][n]
      /\ channel'[i][j][len + 1] = Call(c)
  BY <1>3, <1>4, ChannelAppend
<1> HIDE DEF len
<1>10. NothingLost'
  <2>1. ASSUME NEW d \in scheduled, executions[d] = 0 PROVE IsWaiting(d)'
    <3>1. IsWaiting(d) /\ d \in Calls /\ d[1] \in Nodes /\ d[2] \in Nodes
      BY <1>1, <1>3, <2>1, CallFacts DEF NothingLost
    <3>2. \A n \in DOMAIN channel[d[1]][d[2]] :
             /\ n \in DOMAIN channel'[d[1]][d[2]]
             /\ channel'[d[1]][d[2]][n] = channel[d[1]][d[2]][n]
      BY <1>3, <1>4, <3>1, ChannelGrows
    <3> QED BY <1>2, <3>1, <3>2, WaitingStays
  <2>2. IsWaiting(c)'
    <3>1. len + 1 \in DOMAIN channel'[i][j]
      BY <1>9
    <3> QED BY <1>1, <1>4, <1>9, <3>1 DEF IsWaiting
  <2> QED BY <1>1, <2>1, <2>2 DEF NothingLost
<1>11. CountOK'
  <2> SUFFICES ASSUME ~remoteAnswers, NEW k \in Nodes
               PROVE  /\ numWaitingForReply'[k] =
                           Cardinality(Unexecuted(k)') + Cardinality(Pings(k)')
                      /\ Cardinality(Unexecuted(k)') + Cardinality(Pings(k)')
                           <= Cardinality(RemoteCalls(k)')
    BY DEF CountOK
  <2>1. /\ Pings(k)' = Pings(k) /\ Cardinality(Pings(k)) \in Nat
    <3>1. Pings(k)' = Pings(k)
      BY <1>3, <1>4, PingsOfSend
    <3>2. Cardinality(Pings(k)) \in Nat
      BY <1>3, PingsFinite, QueueTypes DEF Pings, PingsIn
    <3> QED BY <3>1, <3>2
  <2>2. /\ numWaitingForReply[k] = Cardinality(Unexecuted(k)) + Cardinality(Pings(k))
        /\ Cardinality(Unexecuted(k)) + Cardinality(Pings(k)) <= Cardinality(RemoteCalls(k))
    BY <1>3 DEF CountOK
  <2>3. /\ IsFiniteSet(RemoteCalls(k)) /\ Cardinality(RemoteCalls(k)) \in Nat
        /\ IsFiniteSet(Unexecuted(k)) /\ Cardinality(Unexecuted(k)) \in Nat
    BY <1>3, FewCalls
  <2>4. CASE k # i
    <3>1. RemoteCalls(k)' = RemoteCalls(k)
      BY <1>1, <2>4 DEF RemoteCalls
    <3>2. Unexecuted(k)' = Unexecuted(k)
      BY <1>1, <3>1 DEF Unexecuted
    <3>3. numWaitingForReply'[k] = numWaitingForReply[k]
      BY <1>2, <1>3, <2>4 DEF RCGTypeOK
    <3> QED BY <2>1, <2>2, <3>1, <3>2, <3>3
  <2>5. CASE k = i
    <3>1. RemoteCalls(i)' = RemoteCalls(i) \union {c} /\ c \notin RemoteCalls(i)
      BY <1>1, <1>4 DEF RemoteCalls
    <3>2. Unexecuted(i)' = Unexecuted(i) \union {c} /\ c \notin Unexecuted(i)
      BY <1>1, <3>1 DEF Unexecuted
    <3>3. Cardinality(RemoteCalls(i)') = Cardinality(RemoteCalls(i)) + 1
      BY <2>3, <2>5, <3>1, FS_AddElement
    <3>4. Cardinality(Unexecuted(i)') = Cardinality(Unexecuted(i)) + 1
      BY <2>3, <2>5, <3>2, FS_AddElement
    <3>5. Cardinality(RemoteCalls(i)') < SizeModulus
      <4>1. \A d \in RemoteCalls(i)' : d[1] = i /\ d[2] # i /\ d[4] = FALSE
        BY <1>1, <1>3, <1>4, <3>1 DEF RemoteCalls, CallsOK
      <4>2. RemoteCalls(i)' \in SUBSET Calls
        BY <1>1 DEF RemoteCalls
      <4> QED BY <4>1, <4>2, CallsBounded
    <3>6. numWaitingForReply[i] + 1 \in 0 .. SizeModulus - 1
      <4>1. /\ numWaitingForReply[i] \in Nat
            /\ numWaitingForReply[i] + 1 <= Cardinality(RemoteCalls(i)) + 1
        BY <2>1, <2>2, <2>3, <2>5
      <4>2. numWaitingForReply[i] + 1 < SizeModulus
        BY <2>3, <2>5, <3>3, <3>5, <4>1, CounterFacts
      <4> QED BY <4>1, <4>2, CounterFacts
    <3>7. numWaitingForReply'[i] = numWaitingForReply[i] + 1
      BY <1>2, <1>3, <3>6, CounterFacts DEF RCGTypeOK
    <3> HIDE DEF j
    <3> QED BY <2>1, <2>2, <2>3, <2>5, <3>3, <3>4, <3>7
  <2> QED BY <2>4, <2>5
<1> QED BY <1>1, <1>5, <1>6, <1>7, <1>8, <1>10, <1>11 DEF IInv

(* What a received message leaves behind in the channels.                   *)
LEMMA ChannelsShrink ==
  ASSUME RCGTypeOK, NEW i \in Nodes, NEW j \in Nodes, channel[j][i] # <<>>, Takes(j, i)
  PROVE  /\ channel' \in [Nodes -> [Nodes -> Seq(Message \union {Ping})]]
         /\ \A k \in Nodes : channel'[k][k] = <<>>
         /\ \A k, l \in Nodes : \A n \in DOMAIN channel'[k][l] :
              \E a \in DOMAIN channel[k][l] : channel[k][l][a] = channel'[k][l][n]
         /\ \A k, l \in Nodes : \A a \in DOMAIN channel[k][l] :
              (k = j /\ l = i => a # 1) =>
                \E n \in DOMAIN channel'[k][l] : channel'[k][l][n] = channel[k][l][a]
<1>1. channel' \in [Nodes -> [Nodes -> Seq(Packet)]]
  BY ChannelTail
<1>2. \A k, l \in Nodes : k # j \/ l # i => channel'[k][l] = channel[k][l]
  BY ChannelTail
<1>3. \A n \in DOMAIN channel'[j][i] :
         n + 1 \in DOMAIN channel[j][i] /\ channel'[j][i][n] = channel[j][i][n + 1]
  BY ChannelTail
<1>4. /\ DOMAIN channel[j][i] = 1 .. Len(channel[j][i])
      /\ DOMAIN channel'[j][i] = 1 .. Len(channel[j][i]) - 1
      /\ Len(channel[j][i]) \in Nat
  BY ChannelTail
<1>5. \A k \in Nodes : channel'[k][k] = <<>>
  <2>1. i # j
    BY DEF RCGTypeOK
  <2> QED BY <1>2, <2>1 DEF RCGTypeOK
<1>6. ASSUME NEW k \in Nodes, NEW l \in Nodes, NEW n \in DOMAIN channel'[k][l]
      PROVE  \E a \in DOMAIN channel[k][l] : channel[k][l][a] = channel'[k][l][n]
  <2>1. CASE k = j /\ l = i
    BY <1>3, <1>6, <2>1
  <2>2. CASE k # j \/ l # i
    BY <1>2, <1>6, <2>2
  <2> QED BY <2>1, <2>2
<1>7. ASSUME NEW k \in Nodes, NEW l \in Nodes, NEW a \in DOMAIN channel[k][l],
             k = j /\ l = i => a # 1
      PROVE  \E n \in DOMAIN channel'[k][l] : channel'[k][l][n] = channel[k][l][a]
  <2>1. CASE k = j /\ l = i
    <3>1. a - 1 \in DOMAIN channel'[j][i] /\ a - 1 + 1 = a
      BY <1>4, <1>7, <2>1
    <3>2. channel'[j][i][a - 1] = channel[j][i][a]
      BY <1>3, <3>1
    <3> QED BY <2>1, <3>1, <3>2
  <2>2. CASE k # j \/ l # i
    BY <1>2, <1>7, <2>2
  <2> QED BY <2>1, <2>2
<1> QED BY <1>1, <1>5, <1>6, <1>7 DEF Packet

(* A head receives a ping.                                                  *)
LEMMA ReceivePing ==
  ASSUME IInv, remoteAnswers' = remoteAnswers, NEW i \in Nodes, NEW j \in Nodes,
         Receive(i, j), channel[j][i][1] = Ping
  PROVE  IInv'
<1>1. /\ RCGTypeOK /\ ChannelsOK /\ TasksOK /\ DeliveringOK /\ OrderOK
      /\ NothingLost /\ CallsOK /\ CountOK /\ CallsInOrder
  BY DEF IInv
<1>2. channel[j][i] # <<>> /\ Takes(j, i)
  BY DEF Receive, Takes
<1>3. /\ tasks' = tasks /\ pc' = pc /\ scheduled' = scheduled /\ outstanding' = outstanding
      /\ executions' = executions /\ results' = results
      /\ numWaitingForReply' = [numWaitingForReply EXCEPT ![i] = (@ - 1) % SizeModulus]
  <2>1. Head(channel[j][i]) = channel[j][i][1]
    BY <1>1, <1>2, ChannelTail
  <2> QED BY <2>1 DEF Receive, history
<1>4. /\ channel' \in [Nodes -> [Nodes -> Seq(Message \union {Ping})]]
      /\ \A k \in Nodes : channel'[k][k] = <<>>
  BY <1>1, <1>2, ChannelsShrink
<1>5. \A k, l \in Nodes : \A n \in DOMAIN channel'[k][l] :
         \E a \in DOMAIN channel[k][l] : channel[k][l][a] = channel'[k][l][n]
  BY <1>1, <1>2, ChannelsShrink
<1>6. \A k, l \in Nodes : \A a \in DOMAIN channel[k][l] :
         (k = j /\ l = i => a # 1) =>
           \E n \in DOMAIN channel'[k][l] : channel'[k][l][n] = channel[k][l][a]
  BY <1>1, <1>2, ChannelsShrink
<1>7. RCGTypeOK'
  <2>1. numWaitingForReply' \in [Nodes -> 0 .. SizeModulus - 1]
    <3>1. numWaitingForReply \in [Nodes -> 0 .. SizeModulus - 1]
      BY <1>1 DEF RCGTypeOK
    <3>2. (numWaitingForReply[i] - 1) % SizeModulus \in 0 .. SizeModulus - 1
      <4>1. numWaitingForReply[i] - 1 \in Int
        BY <3>1, CounterFacts
      <4> QED BY <4>1, CounterFacts
    <3> QED BY <1>3, <3>1, <3>2
  <2> QED BY <1>1, <1>3, <1>4, <2>1 DEF RCGTypeOK
<1>8. ChannelsOK'
  <2>1. \A x \in InTransit : Open(x) => Open(x)'
    BY <1>3 DEF Open
  <2> QED BY <1>1, <1>3, <1>5, <2>1, OldChannelsOK
<1>9. TasksOK'
  BY <1>1, <1>3 DEF TasksOK, ItemOK, Open
<1>10. DeliveringOK'
  BY <1>1, <1>3 DEF DeliveringOK
<1>11. OrderOK'
  BY <1>1, <1>2, <1>3, PingKeepsOrder
<1>12. NothingLost'
  <2>1. ASSUME NEW d \in scheduled, executions[d] = 0,
               NEW n \in DOMAIN channel[d[1]][d[2]], channel[d[1]][d[2]][n] = Call(d)
        PROVE  \E a \in DOMAIN channel'[d[1]][d[2]] : channel'[d[1]][d[2]][a] = Call(d)
    <3>1. d \in Calls /\ d[1] \in Nodes /\ d[2] \in Nodes /\ Call(d) # Ping
      BY <1>1, <2>1, CallFacts, MessageFacts DEF RCGTypeOK
    <3>2. d[1] = j /\ d[2] = i => n # 1
      BY <2>1, <3>1
    <3> QED BY <1>6, <2>1, <3>1, <3>2
  <2> QED BY <1>1, <1>3, <2>1 DEF NothingLost, IsWaiting
<1>13. CallsOK' /\ CallsInOrder'
  BY <1>1, <1>3 DEF CallsOK, CallsInOrder
<1>14. CountOK'
  <2> SUFFICES ASSUME ~remoteAnswers, NEW k \in Nodes
               PROVE  /\ numWaitingForReply'[k] =
                           Cardinality(Unexecuted(k)') + Cardinality(Pings(k)')
                      /\ Cardinality(Unexecuted(k)') + Cardinality(Pings(k)')
                           <= Cardinality(RemoteCalls(k)')
    BY DEF CountOK
  <2>1. Unexecuted(k)' = Unexecuted(k) /\ RemoteCalls(k)' = RemoteCalls(k)
    BY <1>3 DEF Unexecuted, RemoteCalls
  <2>2. /\ numWaitingForReply[k] = Cardinality(Unexecuted(k)) + Cardinality(Pings(k))
        /\ Cardinality(Unexecuted(k)) + Cardinality(Pings(k)) <= Cardinality(RemoteCalls(k))
    BY <1>1 DEF CountOK
  <2>3. /\ Cardinality(RemoteCalls(k)) \in Nat /\ Cardinality(Unexecuted(k)) \in Nat
    BY <1>1, FewCalls
  <2>4. Cardinality(Pings(k)) \in Nat
    BY <1>1, PingsFinite, QueueTypes DEF Pings, PingsIn
  <2>5. CASE k # i
    <3>1. Pings(k)' = Pings(k)
      BY <1>1, <1>2, <2>5, PingsOfReceive
    <3>2. numWaitingForReply'[k] = numWaitingForReply[k]
      BY <1>1, <1>3, <2>5 DEF RCGTypeOK
    <3> QED BY <2>1, <2>2, <3>1, <3>2
  <2>6. CASE k = i
    <3>1. Cardinality(Pings(i)') = Cardinality(Pings(i)) - 1
      BY <1>1, <1>2, PingsOfReceive
    <3>2. Cardinality(Pings(i)') \in Nat
      BY <1>4, PingsFinite DEF Pings, PingsIn, Packet
    <3>3. numWaitingForReply[i] \in 0 .. SizeModulus - 1
      BY <1>1 DEF RCGTypeOK
    <3>4. numWaitingForReply[i] - 1 \in 0 .. SizeModulus - 1
      BY <2>2, <2>3, <2>4, <2>6, <3>1, <3>2, <3>3, CounterFacts
    <3>5. numWaitingForReply'[i] = numWaitingForReply[i] - 1
      BY <1>1, <1>3, <3>4, CounterFacts DEF RCGTypeOK
    <3> QED BY <2>1, <2>2, <2>3, <2>4, <2>6, <3>1, <3>2, <3>5
  <2> QED BY <2>5, <2>6
<1> QED BY <1>7, <1>8, <1>9, <1>10, <1>11, <1>12, <1>13, <1>14 DEF IInv

(* A head receives a call or a result.                                      *)
LEMMA ReceiveMessage ==
  ASSUME IInv, remoteAnswers' = remoteAnswers, NEW i \in Nodes, NEW j \in Nodes,
         Receive(i, j), channel[j][i][1] # Ping
  PROVE  IInv'
<1> DEFINE m == channel[j][i][1]
<1>1. /\ RCGTypeOK /\ ChannelsOK /\ TasksOK /\ DeliveringOK /\ OrderOK
      /\ NothingLost /\ CallsOK /\ CountOK /\ CallsInOrder
  BY DEF IInv
<1>2. channel[j][i] # <<>> /\ Takes(j, i) /\ pc[i] = "receive"
  BY DEF Receive, Takes
<1>3. /\ tasks' = [tasks EXCEPT ![i] = Append(@, <<j, m>>)]
      /\ pc' = pc /\ scheduled' = scheduled /\ outstanding' = outstanding
      /\ executions' = executions /\ results' = results
      /\ numWaitingForReply' = numWaitingForReply
  <2>1. Head(channel[j][i]) = channel[j][i][1]
    BY <1>1, <1>2, ChannelTail
  <2> QED BY <2>1 DEF Receive, history
<1>4. /\ channel' \in [Nodes -> [Nodes -> Seq(Message \union {Ping})]]
      /\ \A k \in Nodes : channel'[k][k] = <<>>
  BY <1>1, <1>2, ChannelsShrink
<1>5. \A k, l \in Nodes : \A n \in DOMAIN channel'[k][l] :
         \E a \in DOMAIN channel[k][l] : channel[k][l][a] = channel'[k][l][n]
  BY <1>1, <1>2, ChannelsShrink
<1>6. \A k, l \in Nodes : \A a \in DOMAIN channel[k][l] :
         (k = j /\ l = i => a # 1) =>
           \E n \in DOMAIN channel'[k][l] : channel'[k][l][n] = channel[k][l][a]
  BY <1>1, <1>2, ChannelsShrink
<1>7. ItemOK(j, i, m) /\ Open(m)
  <2>1. 1 \in DOMAIN channel[j][i]
    <3>1. /\ DOMAIN channel[j][i] = 1 .. Len(channel[j][i])
          /\ Len(channel[j][i]) \in Nat \ {0}
      BY <1>1, <1>2, ChannelTail
    <3> QED BY <3>1
  <2> QED BY <1>1, <2>1 DEF ChannelsOK
<1>8. m \in Message /\ <<j, m>> \in Nodes \X Message
  <2>1. m \in Message
    BY <1>7 DEF ItemOK
  <2> QED BY <2>1
<1>9. OrderOK'
  BY <1>1, <1>2, <1>3, ReceiveKeepsOrder
<1>10. /\ tasks' \in [Nodes -> Seq(Nodes \X Message)]
       /\ \E n \in DOMAIN tasks'[i] : tasks'[i][n] = <<j, m>>
  <2>1. /\ tasks' \in [Nodes -> Seq(Nodes \X Message)]
        /\ Len(tasks[i]) \in Nat
        /\ DOMAIN tasks'[i] = 1 .. Len(tasks[i]) + 1
        /\ tasks'[i][Len(tasks[i]) + 1] = <<j, m>>
    BY <1>1, <1>3, <1>8, TasksAppend
  <2>2. Len(tasks[i]) + 1 \in DOMAIN tasks'[i]
    BY <2>1
  <2> QED BY <2>1, <2>2
<1>11. /\ \A l \in Nodes : \A n \in DOMAIN tasks'[l] :
            \/ n \in DOMAIN tasks[l] /\ tasks'[l][n] = tasks[l][n]
            \/ l = i /\ tasks'[l][n] = <<j, m>>
       /\ \A l \in Nodes : \A n \in DOMAIN tasks[l] :
            n \in DOMAIN tasks'[l] /\ tasks'[l][n] = tasks[l][n]
  BY <1>1, <1>3, <1>8, TasksGrow
<1> HIDE DEF m
<1>12. RCGTypeOK'
  BY <1>1, <1>3, <1>4, <1>10 DEF RCGTypeOK
<1>13. ChannelsOK'
  <2>1. \A x \in InTransit : Open(x) => Open(x)'
    BY <1>3 DEF Open
  <2> QED BY <1>1, <1>3, <1>5, <2>1, OldChannelsOK
<1>14. TasksOK'
  <2>1. ASSUME NEW l \in Nodes, NEW n \in DOMAIN tasks'[l], NEW o, NEW x,
               o = tasks'[l][n][1], x = tasks'[l][n][2]
        PROVE  ItemOK(o, l, x)' /\ (n > 1 \/ pc[l] # "deliver" => Open(x)')
    <3>1. CASE n \in DOMAIN tasks[l] /\ tasks'[l][n] = tasks[l][n]
      <4>1. ItemOK(o, l, x) /\ (n > 1 \/ pc[l] # "deliver" => Open(x))
        BY <1>1, <2>1, <3>1 DEF TasksOK
      <4> QED BY <1>3, <4>1 DEF ItemOK, Open
    <3>2. CASE l = i /\ tasks'[l][n] = <<j, m>>
      <4>1. o = j /\ x = m
        BY <2>1, <3>2
      <4> QED BY <1>3, <1>7, <3>2, <4>1 DEF ItemOK, Open
    <3> QED BY <1>11, <2>1, <3>1, <3>2
  <2> QED BY <1>3, <2>1 DEF TasksOK
<1>15. DeliveringOK'
  <2>1. ASSUME NEW l \in Nodes, pc[l] = "deliver"
        PROVE  tasks'[l] # <<>> /\ tasks'[l][1] = tasks[l][1]
    <3>1. 1 \in DOMAIN tasks[l]
      BY <1>1, <2>1, FirstTask DEF DeliveringOK
    <3>2. tasks'[l][1] = tasks[l][1] /\ 1 \in DOMAIN tasks'[l]
      BY <1>11, <3>1
    <3> QED BY <3>2
  <2> QED BY <1>1, <1>3, <2>1 DEF DeliveringOK
<1>16. NothingLost'
  <2>1. ASSUME NEW d \in scheduled, executions[d] = 0 PROVE IsWaiting(d)'
    <3>1. d \in Calls /\ d[1] \in Nodes /\ d[2] \in Nodes /\ IsWaiting(d)
      BY <1>1, <2>1, CallFacts DEF RCGTypeOK, NothingLost
    <3>2. CASE \E n \in DOMAIN tasks[d[2]] : tasks[d[2]][n] = <<d[1], Call(d)>>
      BY <1>11, <3>1, <3>2 DEF IsWaiting
    <3>3. CASE /\ d[1] # d[2]
               /\ \E n \in DOMAIN channel[d[1]][d[2]] : channel[d[1]][d[2]][n] = Call(d)
      <4>1. PICK n \in DOMAIN channel[d[1]][d[2]] : channel[d[1]][d[2]][n] = Call(d)
        BY <3>3
      <4>2. CASE d[1] = j /\ d[2] = i /\ n = 1
        BY <1>10, <4>1, <4>2 DEF IsWaiting, m
      <4>3. CASE ~(d[1] = j /\ d[2] = i /\ n = 1)
        <5>1. \E a \in DOMAIN channel'[d[1]][d[2]] : channel'[d[1]][d[2]][a] = Call(d)
          BY <1>6, <3>1, <4>1, <4>3
        <5> QED BY <3>3, <5>1 DEF IsWaiting
      <4> QED BY <4>2, <4>3
    <3> QED BY <3>1, <3>2, <3>3 DEF IsWaiting
  <2> QED BY <1>3, <2>1 DEF NothingLost
<1>17. CallsOK' /\ CallsInOrder'
  BY <1>1, <1>3 DEF CallsOK, CallsInOrder
<1>18. CountOK'
  <2>1. \A k \in Nodes : Unexecuted(k)' = Unexecuted(k) /\ RemoteCalls(k)' = RemoteCalls(k)
    BY <1>3 DEF Unexecuted, RemoteCalls
  <2>2. \A k \in Nodes : Cardinality(Pings(k)') = Cardinality(Pings(k))
    BY <1>1, <1>2, PingsOfReceive
  <2> QED BY <1>1, <1>3, <2>1, <2>2 DEF CountOK
<1> QED BY <1>9, <1>12, <1>13, <1>14, <1>15, <1>16, <1>17, <1>18 DEF IInv

(* The calls go on waiting when the first task was executed and taken.      *)
LEMMA PopKeepsWaiting ==
  ASSUME RCGTypeOK, NothingLost, NEW i \in Nodes, tasks[i] # <<>>, PopFront(i),
         scheduled' = scheduled, NEW c, c = tasks[i][1][2].call, executions'[c] # 0,
         \A d \in Calls : d # c => executions'[d] = executions[d],
         \A k, l \in Nodes : \A n \in DOMAIN channel[k][l] :
           n \in DOMAIN channel'[k][l] /\ channel'[k][l][n] = channel[k][l][n]
  PROVE  NothingLost'
<1>1. /\ \A k \in Nodes : k # i => tasks'[k] = tasks[k]
      /\ DOMAIN tasks[i] = 1 .. Len(tasks[i]) /\ Len(tasks[i]) \in Nat \ {0}
      /\ DOMAIN tasks'[i] = 1 .. Len(tasks[i]) - 1
      /\ \A n \in DOMAIN tasks'[i] :
           n + 1 \in DOMAIN tasks[i] /\ tasks'[i][n] = tasks[i][n + 1]
  BY TasksTail
<1>2. ASSUME NEW d \in scheduled, executions'[d] = 0 PROVE IsWaiting(d)'
  <2>1. d # c /\ d \in Calls /\ d[1] \in Nodes /\ d[2] \in Nodes /\ Call(d).call = d
    BY <1>2, CallFacts, MessageFacts DEF RCGTypeOK
  <2>2. IsWaiting(d)
    BY <1>2, <2>1 DEF NothingLost
  <2>3. CASE \E n \in DOMAIN tasks[d[2]] : tasks[d[2]][n] = <<d[1], Call(d)>>
    <3>1. PICK n \in DOMAIN tasks[d[2]] : tasks[d[2]][n] = <<d[1], Call(d)>>
      BY <2>3
    <3>2. CASE d[2] # i
      BY <1>1, <2>1, <3>1, <3>2 DEF IsWaiting
    <3>3. CASE d[2] = i
      <4>1. tasks[i][n][2] = Call(d)
        BY <3>1, <3>3
      <4>2. n # 1
        BY <2>1, <4>1
      <4>3. n - 1 \in DOMAIN tasks'[i] /\ n - 1 + 1 = n
        BY <1>1, <3>1, <3>3, <4>2
      <4>4. tasks'[i][n - 1] = <<d[1], Call(d)>>
        BY <1>1, <3>1, <3>3, <4>3
      <4> QED BY <3>3, <4>3, <4>4 DEF IsWaiting
    <3> QED BY <3>2, <3>3
  <2>4. CASE /\ d[1] # d[2]
             /\ \E n \in DOMAIN channel[d[1]][d[2]] : channel[d[1]][d[2]][n] = Call(d)
    <3>1. PICK n \in DOMAIN channel[d[1]][d[2]] : channel[d[1]][d[2]][n] = Call(d)
      BY <2>4
    <3>2. n \in DOMAIN channel'[d[1]][d[2]] /\ channel'[d[1]][d[2]][n] = Call(d)
      BY <2>1, <3>1
    <3> QED BY <2>4, <3>2 DEF IsWaiting
  <2> QED BY <2>2, <2>3, <2>4 DEF IsWaiting
<1> QED BY <1>2 DEF NothingLost

(* What every execution of a call has in common.                            *)
LEMMA CallExecuted ==
  ASSUME IInv, remoteAnswers' = remoteAnswers, NEW i \in Nodes, ExecuteCall(i),
         NEW c, c = tasks[i][1][2].call
  PROVE  /\ tasks[i] # <<>> /\ pc[i] = "execute"
         /\ c \in Calls /\ c \in scheduled /\ c[2] = i /\ c[1] = tasks[i][1][1] /\ c[1] \in Nodes
         /\ executions[c] = 0 /\ results[c] = <<>> /\ executions'[c] = 1
         /\ \A d \in Calls : d # c => executions'[d] = executions[d] /\ results'[d] = results[d]
         /\ executions' \in [Calls -> Nat] /\ results' = results /\ scheduled' = scheduled
         /\ numWaitingForReply' = numWaitingForReply
         /\ CallsOK' /\ CallsInOrder'
         /\ executions' = [executions EXCEPT ![c] = 1]
<1>1. /\ RCGTypeOK /\ ChannelsOK /\ TasksOK /\ OrderOK /\ NothingLost /\ CallsOK
      /\ CallsInOrder
  BY DEF IInv
<1>2. tasks[i] # <<>> /\ pc[i] = "execute" /\ scheduled' = scheduled /\ results' = results
      /\ numWaitingForReply' = numWaitingForReply
  BY DEF ExecuteCall
<1>3. Head(tasks[i]) = tasks[i][1]
  BY <1>1, <1>2, FirstTask
<1>4. ~tasks[i][1][2].answer /\ executions' = [executions EXCEPT ![c] = @ + 1]
  BY <1>3 DEF ExecuteCall
<1>5. /\ c \in Calls /\ c \in scheduled /\ c[2] = i /\ c[1] = tasks[i][1][1]
      /\ executions[c] = 0 /\ results[c] = <<>>
      /\ \A k \in 1 .. c[3] - 1 : executions[<<c[1], c[2], k, c[4]>>] > 0
  BY <1>1, <1>2, <1>4, FirstCallIsNext
<1>6. /\ executions' \in [Calls -> Nat] /\ executions'[c] = 1
      /\ \A d \in Calls : d # c => executions'[d] = executions[d]
      /\ CallsOK' /\ CallsInOrder'
  BY <1>1, <1>2, <1>4, <1>5, ExecutionInOrder
<1>7. c[1] \in Nodes
  BY <1>5, CallFacts
<1>8. executions' = [executions EXCEPT ![c] = 1]
  BY <1>4, <1>5
<1> QED BY <1>2, <1>5, <1>6, <1>7, <1>8

(* A head executes a call of its own that has no on_result function.        *)
LEMMA ExecuteOwnSilent ==
  ASSUME IInv, remoteAnswers' = remoteAnswers, NEW i \in Nodes, ExecuteCall(i),
         NEW c, c = tasks[i][1][2].call, c[1] = i, ~AnswerRequired(c)
  PROVE  IInv'
<1>1. /\ RCGTypeOK /\ ChannelsOK /\ TasksOK /\ DeliveringOK /\ OrderOK
      /\ NothingLost /\ CallsOK /\ CountOK /\ CallsInOrder
  BY DEF IInv
<1>2. /\ tasks[i] # <<>> /\ pc[i] = "execute"
      /\ c \in Calls /\ c \in scheduled /\ c[2] = i /\ tasks[i][1][1] = i
      /\ executions[c] = 0 /\ results[c] = <<>> /\ executions'[c] = 1
      /\ \A d \in Calls : d # c => executions'[d] = executions[d] /\ results'[d] = results[d]
      /\ executions' \in [Calls -> Nat] /\ results' = results /\ scheduled' = scheduled
      /\ numWaitingForReply' = numWaitingForReply
      /\ CallsOK' /\ CallsInOrder'
  BY CallExecuted
<1>3. PopFront(i) /\ Goto(i, "app") /\ channel' = channel /\ outstanding' = outstanding
  <2>1. Head(tasks[i]) = tasks[i][1]
    BY <1>1, <1>2, FirstTask
  <2> QED BY <1>2, <2>1 DEF ExecuteCall
<1>4. RCGTypeOK'
  <2>1. tasks' \in [Nodes -> Seq(Nodes \X Message)]
    BY <1>1, <1>2, <1>3, TasksTail
  <2>2. pc' \in [Nodes -> {"app", "receive", "execute", "deliver"}]
    BY <1>1, <1>3 DEF RCGTypeOK, Goto
  <2> QED BY <1>1, <1>2, <1>3, <2>1, <2>2 DEF RCGTypeOK
<1>5. TasksOK' /\ DeliveringOK' /\ \A x \in InTransit : Open(x) => Open(x)'
  BY <1>1, <1>2, <1>3, PopKeepsTasks
<1>6. ChannelsOK'
  <2>1. \A k, l \in Nodes : \A n \in DOMAIN channel'[k][l] :
           \E a \in DOMAIN channel[k][l] : channel[k][l][a] = channel'[k][l][n]
    BY <1>3
  <2> QED BY <1>1, <1>2, <1>5, <2>1, OldChannelsOK
<1>7. OrderOK'
  BY <1>1, <1>2, <1>3, PopKeepsOrder
<1>8. NothingLost'
  <2>1. tasks[i] # <<>> /\ scheduled' = scheduled /\ executions'[c] = 1
    BY <1>2
  <2>2. executions'[c] # 0
    BY <2>1
  <2>3. \A d \in Calls : d # c => executions'[d] = executions[d]
    BY <1>2
  <2>4. \A k, l \in Nodes : \A n \in DOMAIN channel[k][l] :
           n \in DOMAIN channel'[k][l] /\ channel'[k][l][n] = channel[k][l][n]
    BY <1>3
  <2> QED BY <1>1, <1>3, <2>1, <2>2, <2>3, <2>4, PopKeepsWaiting
<1>9. CountOK'
  <2>1. \A k \in Nodes : RemoteCalls(k)' = RemoteCalls(k) /\ c \notin RemoteCalls(k)
    BY <1>2 DEF RemoteCalls
  <2>2. \A k \in Nodes : RemoteCalls(k) \subseteq Calls
    BY <1>1 DEF RemoteCalls, RCGTypeOK
  <2>3. \A k \in Nodes : Unexecuted(k)' = Unexecuted(k)
    BY <1>2, <2>1, <2>2 DEF Unexecuted
  <2>4. \A k \in Nodes : Pings(k)' = Pings(k)
    BY <1>3 DEF Pings
  <2> QED BY <1>1, <1>2, <2>1, <2>3, <2>4 DEF CountOK
<1> QED BY <1>2, <1>4, <1>5, <1>6, <1>7, <1>8, <1>9 DEF IInv

(* A head executes a call of its own, and its on_result function comes next. *)
LEMMA ExecuteOwnAnswered ==
  ASSUME IInv, remoteAnswers' = remoteAnswers, NEW i \in Nodes, ExecuteCall(i),
         NEW c, c = tasks[i][1][2].call, c[1] = i, AnswerRequired(c)
  PROVE  IInv'
<1>1. /\ RCGTypeOK /\ ChannelsOK /\ TasksOK /\ DeliveringOK /\ OrderOK
      /\ NothingLost /\ CallsOK /\ CountOK /\ CallsInOrder
  BY DEF IInv
<1>2. /\ tasks[i] # <<>> /\ pc[i] = "execute"
      /\ c \in Calls /\ c \in scheduled /\ c[2] = i /\ tasks[i][1][1] = i
      /\ executions[c] = 0 /\ results[c] = <<>> /\ executions'[c] = 1
      /\ \A d \in Calls : d # c => executions'[d] = executions[d] /\ results'[d] = results[d]
      /\ executions' \in [Calls -> Nat] /\ results' = results /\ scheduled' = scheduled
      /\ numWaitingForReply' = numWaitingForReply
      /\ CallsOK' /\ CallsInOrder'
  BY CallExecuted
<1>3. tasks' = tasks /\ Goto(i, "deliver") /\ channel' = channel /\ outstanding' = outstanding
  <2>1. Head(tasks[i]) = tasks[i][1]
    BY <1>1, <1>2, FirstTask
  <2> QED BY <1>2, <2>1 DEF ExecuteCall
<1>4. /\ pc' \in [Nodes -> {"app", "receive", "execute", "deliver"}]
      /\ pc'[i] = "deliver" /\ \A l \in Nodes : l # i => pc'[l] = pc[l]
  BY <1>1, <1>3 DEF RCGTypeOK, Goto
<1>5. RCGTypeOK'
  BY <1>1, <1>2, <1>3, <1>4 DEF RCGTypeOK
<1>6. /\ \A k, l \in Nodes : \A n \in DOMAIN channel[k][l] :
           channel[k][l][n] # Ping => channel[k][l][n].call # c
      /\ \A l \in Nodes : \A n \in DOMAIN tasks[l] :
           l # i \/ n # 1 => tasks[l][n][2].call # c
  <2>1. \A k, l \in Nodes : \A n \in DOMAIN channel[k][l] :
          channel[k][l][n] # Ping => channel[k][l][n].call # tasks[i][1][2].call
    BY <1>1, <1>2, FirstTaskIsAlone
  <2>2. \A l \in Nodes : \A n \in DOMAIN tasks[l] :
          l # i \/ n # 1 => tasks[l][n][2].call # tasks[i][1][2].call
    BY <1>1, <1>2, FirstTaskIsAlone
  <2> QED BY <2>1, <2>2
<1>7. \A x \in Message : Open(x) /\ x.call # c => Open(x)'
  BY <1>2, MessageFacts DEF Open
<1>8. ChannelsOK'
  <2>1. ASSUME NEW k \in Nodes, NEW l \in Nodes, NEW n \in DOMAIN channel[k][l],
               NEW x, x = channel[k][l][n], x # Ping
        PROVE  ItemOK(k, l, x)' /\ Open(x)'
    <3>1. ItemOK(k, l, x) /\ Open(x) /\ x.call # c
      BY <1>1, <1>6, <2>1 DEF ChannelsOK
    <3> QED BY <1>2, <1>7, <3>1 DEF ItemOK
  <2> QED BY <1>3, <2>1 DEF ChannelsOK
<1>9. TasksOK'
  <2>1. ASSUME NEW l \in Nodes, NEW n \in DOMAIN tasks[l], NEW o, NEW x,
               o = tasks[l][n][1], x = tasks[l][n][2]
        PROVE  ItemOK(o, l, x)' /\ (n > 1 \/ pc'[l] # "deliver" => Open(x)')
    <3>1. ItemOK(o, l, x) /\ (n > 1 \/ pc[l] # "deliver" => Open(x))
      BY <1>1, <2>1 DEF TasksOK
    <3>2. ASSUME n > 1 \/ pc'[l] # "deliver" PROVE Open(x)'
      <4>1. (n > 1 \/ pc[l] # "deliver") /\ (l # i \/ n # 1)
        <5>1. CASE n > 1
          <6>1. DOMAIN tasks[l] = 1 .. Len(tasks[l])
            BY <1>1, QueueTypes, LenProperties
          <6>2. n # 1
            BY <2>1, <5>1, <6>1
          <6> QED BY <5>1, <6>2
        <5>2. CASE pc'[l] # "deliver"
          BY <1>4, <5>2
        <5> QED BY <3>2, <5>1, <5>2
      <4>2. Open(x) /\ x.call # c
        BY <1>6, <2>1, <3>1, <4>1
      <4> QED BY <1>7, <3>1, <4>2 DEF ItemOK
    <3> QED BY <1>2, <3>1, <3>2 DEF ItemOK
  <2> QED BY <1>3, <2>1 DEF TasksOK
<1>10. DeliveringOK'
  <2>1. ASSUME NEW l \in Nodes, pc'[l] = "deliver", l # i
        PROVE  /\ tasks[l] # <<>> /\ tasks[l][1][1] = l
               /\ AnswerRequired(tasks[l][1][2].call)
               /\ executions'[tasks[l][1][2].call] = 1
               /\ results'[tasks[l][1][2].call] = <<>>
    <3>1. pc[l] = "deliver"
      BY <1>4, <2>1
    <3>2. /\ tasks[l] # <<>> /\ tasks[l][1][1] = l
          /\ AnswerRequired(tasks[l][1][2].call)
          /\ executions[tasks[l][1][2].call] = 1
          /\ results[tasks[l][1][2].call] = <<>>
      BY <1>1, <3>1 DEF DeliveringOK
    <3>3. tasks[l][1][2].call # c /\ tasks[l][1][2].call \in Calls
      <4>1. 1 \in DOMAIN tasks[l] /\ tasks[l][1][2] \in Message
        BY <1>1, <3>2, FirstTask
      <4> QED BY <1>6, <2>1, <4>1, MessageFacts
    <3> QED BY <1>2, <3>2, <3>3
  <2>2. /\ tasks[i] # <<>> /\ tasks[i][1][1] = i
        /\ AnswerRequired(tasks[i][1][2].call)
        /\ executions'[tasks[i][1][2].call] = 1
        /\ results'[tasks[i][1][2].call] = <<>>
    BY <1>2
  <2>3. ASSUME NEW l \in Nodes, pc'[l] = "deliver"
        PROVE  /\ tasks[l] # <<>> /\ tasks[l][1][1] = l
               /\ AnswerRequired(tasks[l][1][2].call)
               /\ executions'[tasks[l][1][2].call] = 1
               /\ results'[tasks[l][1][2].call] = <<>>
    <3>1. CASE l = i
      BY <2>2, <3>1
    <3>2. CASE l # i
      BY <2>1, <2>3, <3>2
    <3> QED BY <3>1, <3>2
  <2> QED BY <1>3, <2>3 DEF DeliveringOK, AnswerRequired
<1>11. OrderOK'
  BY <1>1, <1>3 DEF OrderOK, ChannelOrder, TaskOrder, PathOrder
<1>12. NothingLost'
  <2>1. ASSUME NEW d \in scheduled, executions'[d] = 0 PROVE IsWaiting(d)
    BY <1>1, <1>2, <2>1 DEF RCGTypeOK, NothingLost
  <2> QED BY <1>2, <1>3, <2>1 DEF NothingLost, IsWaiting
<1>13. CountOK'
  <2>1. \A k \in Nodes : RemoteCalls(k)' = RemoteCalls(k) /\ c \notin RemoteCalls(k)
    BY <1>2 DEF RemoteCalls
  <2>2. \A k \in Nodes : RemoteCalls(k) \subseteq Calls
    BY <1>1 DEF RemoteCalls, RCGTypeOK
  <2>3. \A k \in Nodes : Unexecuted(k)' = Unexecuted(k)
    BY <1>2, <2>1, <2>2 DEF Unexecuted
  <2>4. \A k \in Nodes : Pings(k)' = Pings(k)
    BY <1>3 DEF Pings
  <2> QED BY <1>1, <1>2, <2>1, <2>3, <2>4 DEF CountOK
<1> QED BY <1>2, <1>5, <1>8, <1>9, <1>10, <1>11, <1>12, <1>13 DEF IInv

(* A head executes a call of another one and pings it.                      *)
LEMMA ExecuteRemoteSilent ==
  ASSUME IInv, remoteAnswers' = remoteAnswers, NEW i \in Nodes, ExecuteCall(i),
         NEW c, c = tasks[i][1][2].call, c[1] # i, ~AnswerRequired(c)
  PROVE  IInv'
<1> DEFINE o == c[1]
<1>1. /\ RCGTypeOK /\ ChannelsOK /\ TasksOK /\ DeliveringOK /\ OrderOK
      /\ NothingLost /\ CallsOK /\ CountOK /\ CallsInOrder
  BY DEF IInv
<1>2. /\ tasks[i] # <<>> /\ pc[i] = "execute"
      /\ c \in Calls /\ c \in scheduled /\ c[2] = i /\ o = tasks[i][1][1] /\ o \in Nodes
      /\ executions[c] = 0 /\ results[c] = <<>> /\ executions'[c] = 1
      /\ \A d \in Calls : d # c => executions'[d] = executions[d] /\ results'[d] = results[d]
      /\ executions' \in [Calls -> Nat] /\ results' = results /\ scheduled' = scheduled
      /\ numWaitingForReply' = numWaitingForReply
      /\ CallsOK' /\ CallsInOrder'
  BY CallExecuted
<1>3. PopFront(i) /\ Goto(i, "app") /\ Sends(i, o, Ping) /\ outstanding' = outstanding
  <2>1. Head(tasks[i]) = tasks[i][1]
    BY <1>1, <1>2, FirstTask
  <2> QED BY <1>2, <2>1 DEF ExecuteCall, SendPing, Sends
<1>4. o \in Nodes /\ i # o /\ Ping \in Packet
  BY <1>2 DEF Packet
<1> HIDE DEF o
<1>5. RCGTypeOK'
  <2>1. tasks' \in [Nodes -> Seq(Nodes \X Message)]
    BY <1>1, <1>2, <1>3, TasksTail
  <2>2. pc' \in [Nodes -> {"app", "receive", "execute", "deliver"}]
    BY <1>1, <1>3 DEF RCGTypeOK, Goto
  <2>3. /\ channel' \in [Nodes -> [Nodes -> Seq(Message \union {Ping})]]
        /\ \A k \in Nodes : channel'[k][k] = <<>>
        /\ outstanding' \in [Nodes -> SUBSET (Nodes \X Message)]
    BY <1>1, <1>3, <1>4, SendTypes
  <2> QED BY <1>1, <1>2, <1>3, <2>1, <2>2, <2>3 DEF RCGTypeOK
<1>6. TasksOK' /\ DeliveringOK' /\ \A x \in InTransit : Open(x) => Open(x)'
  BY <1>1, <1>2, <1>3, PopKeepsTasks
<1>7. ChannelsOK'
  BY <1>1, <1>2, <1>3, <1>4, <1>6, SendKeepsChannels
<1>8. OrderOK'
  <2>1. NoNewTasks /\ TaskOrder'
    BY <1>1, <1>2, <1>3, PopKeepsOrder
  <2> QED BY <1>1, <1>3, <1>4, <2>1, SendKeepsOrder
<1>9. NothingLost'
  <2>1. tasks[i] # <<>> /\ scheduled' = scheduled /\ executions'[c] = 1
    BY <1>2
  <2>2. executions'[c] # 0
    BY <2>1
  <2>3. \A d \in Calls : d # c => executions'[d] = executions[d]
    BY <1>2
  <2>4. \A k, l \in Nodes : \A n \in DOMAIN channel[k][l] :
           n \in DOMAIN channel'[k][l] /\ channel'[k][l][n] = channel[k][l][n]
    BY <1>1, <1>3, <1>4, ChannelGrows
  <2> QED BY <1>1, <1>3, <2>1, <2>2, <2>3, <2>4, PopKeepsWaiting
<1>10. CountOK'
  <2> SUFFICES ASSUME ~remoteAnswers, NEW k \in Nodes
               PROVE  /\ numWaitingForReply'[k] =
                           Cardinality(Unexecuted(k)') + Cardinality(Pings(k)')
                      /\ Cardinality(Unexecuted(k)') + Cardinality(Pings(k)')
                           <= Cardinality(RemoteCalls(k)')
    BY DEF CountOK
  <2>1. /\ numWaitingForReply[k] = Cardinality(Unexecuted(k)) + Cardinality(Pings(k))
        /\ Cardinality(Unexecuted(k)) + Cardinality(Pings(k)) <= Cardinality(RemoteCalls(k))
    BY <1>1 DEF CountOK
  <2>2. RemoteCalls(k)' = RemoteCalls(k) /\ numWaitingForReply'[k] = numWaitingForReply[k]
    BY <1>2 DEF RemoteCalls
  <2>3. RemoteCalls(k) \subseteq Calls
    BY <1>1 DEF RemoteCalls, RCGTypeOK
  <2>4. /\ IsFiniteSet(Unexecuted(k)) /\ Cardinality(Unexecuted(k)) \in Nat
        /\ Cardinality(Pings(k)) \in Nat
    <3>1. Cardinality(Pings(k)) \in Nat
      BY <1>1, PingsFinite, QueueTypes DEF Pings, PingsIn
    <3> QED BY <1>1, <3>1, FewCalls
  <2>5. Unexecuted(k)' = Unexecuted(k) \ {c}
    BY <1>2, <2>2, <2>3 DEF Unexecuted
  <2>6. CASE k # o
    <3>1. c \notin Unexecuted(k)
      BY <2>6 DEF Unexecuted, RemoteCalls, o
    <3>2. Unexecuted(k)' = Unexecuted(k)
      BY <2>5, <3>1
    <3>3. Pings(k)' = Pings(k)
      BY <1>1, <1>3, <1>4, <2>6, PingsOfSend
    <3> QED BY <2>1, <2>2, <3>2, <3>3
  <2>7. CASE k = o
    <3>1. c \in Unexecuted(k)
      BY <1>2, <1>4, <2>7 DEF Unexecuted, RemoteCalls, o
    <3>2. Cardinality(Unexecuted(k)') = Cardinality(Unexecuted(k)) - 1
      <4>1. IsFiniteSet(Unexecuted(k))
        BY <2>4
      <4>2. Cardinality(Unexecuted(k) \ {c}) = Cardinality(Unexecuted(k)) - 1
        BY <3>1, <4>1, FS_RemoveElement
      <4> QED BY <2>5, <4>2
    <3>3. Cardinality(Pings(k)') = Cardinality(Pings(k)) + 1
      BY <1>1, <1>3, <1>4, <2>7, PingsOfSend
    <3> QED BY <2>1, <2>2, <2>4, <3>2, <3>3
  <2> QED BY <2>6, <2>7
<1> QED BY <1>2, <1>5, <1>6, <1>7, <1>8, <1>9, <1>10 DEF IInv

(* A head executes a call of another one and sends the result back.         *)
LEMMA ExecuteRemoteAnswered ==
  ASSUME IInv, remoteAnswers' = remoteAnswers, NEW i \in Nodes, ExecuteCall(i),
         NEW c, c = tasks[i][1][2].call, c[1] # i, AnswerRequired(c)
  PROVE  IInv'
<1> DEFINE o == c[1]
<1>1. /\ RCGTypeOK /\ ChannelsOK /\ TasksOK /\ DeliveringOK /\ OrderOK
      /\ NothingLost /\ CallsOK /\ CountOK /\ CallsInOrder
  BY DEF IInv
<1>2. /\ tasks[i] # <<>> /\ pc[i] = "execute"
      /\ c \in Calls /\ c \in scheduled /\ c[2] = i /\ o = tasks[i][1][1] /\ o \in Nodes
      /\ executions[c] = 0 /\ results[c] = <<>> /\ executions'[c] = 1
      /\ \A d \in Calls : d # c => executions'[d] = executions[d] /\ results'[d] = results[d]
      /\ executions' \in [Calls -> Nat] /\ results' = results /\ scheduled' = scheduled
      /\ numWaitingForReply' = numWaitingForReply
      /\ CallsOK' /\ CallsInOrder'
  BY CallExecuted
<1>3. PopFront(i) /\ Goto(i, "app") /\ SendMessage(i, o, Result(c))
  <2>1. Head(tasks[i]) = tasks[i][1]
    BY <1>1, <1>2, FirstTask
  <2> QED BY <1>2, <2>1 DEF ExecuteCall
<1>4. /\ o \in Nodes /\ i # o /\ Result(c) \in Message /\ Result(c) \in Packet
      /\ Sends(i, o, Result(c)) /\ c = Result(c).call
  BY <1>2, <1>3, MessageFacts DEF Packet, SendMessage, Sends
<1>5. remoteAnswers = TRUE
  BY <1>1, <1>2, <1>4 DEF CallsOK, AnswerRequired, RCGTypeOK
<1> HIDE DEF o
<1>6. RCGTypeOK'
  <2>1. tasks' \in [Nodes -> Seq(Nodes \X Message)]
    BY <1>1, <1>2, <1>3, TasksTail
  <2>2. pc' \in [Nodes -> {"app", "receive", "execute", "deliver"}]
    BY <1>1, <1>3 DEF RCGTypeOK, Goto
  <2>3. /\ channel' \in [Nodes -> [Nodes -> Seq(Message \union {Ping})]]
        /\ \A k \in Nodes : channel'[k][k] = <<>>
        /\ outstanding' \in [Nodes -> SUBSET (Nodes \X Message)]
    BY <1>1, <1>3, <1>4, SendTypes
  <2> QED BY <1>1, <1>2, <1>3, <2>1, <2>2, <2>3 DEF RCGTypeOK
<1>7. TasksOK' /\ DeliveringOK' /\ \A x \in InTransit : Open(x) => Open(x)'
  BY <1>1, <1>2, <1>3, PopKeepsTasks
<1>8. ChannelsOK'
  <2>1. ItemOK(i, o, Result(c))'
    <3>1. /\ Result(c).call = c /\ From(Result(c)) = i /\ To(Result(c)) = o
      BY <1>2, MessageFacts DEF o
    <3> QED BY <1>2, <1>4, <3>1 DEF ItemOK
  <2>2. Open(Result(c))'
    <3>1. Result(c).call = c /\ Result(c).answer = TRUE
      BY <1>2 DEF Result
    <3> QED BY <1>2, <3>1 DEF Open
  <2> QED BY <1>1, <1>2, <1>4, <1>7, <2>1, <2>2, SendKeepsChannels
<1>9. OrderOK'
  <2>1. NoNewTasks /\ TaskOrder'
    BY <1>1, <1>2, <1>3, PopKeepsOrder
  <2>2. ASSUME NEW n \in DOMAIN channel[i][o], channel[i][o][n] # Ping
        PROVE  Before(channel[i][o][n], Result(c))
    <3>1. ItemOK(i, o, channel[i][o][n]) /\ Open(channel[i][o][n])
      BY <1>1, <1>4, <2>2 DEF ChannelsOK
    <3> QED BY <1>1, <1>2, <1>4, <3>1, NewResultIsLast
  <2>3. ASSUME NEW n \in DOMAIN tasks[o]
        PROVE  Before(tasks[o][n][2], Result(c))
    <3>1. n \in 1 .. Len(tasks[o]) /\ Len(tasks[o]) \in Nat /\ tasks[o][n][1] \in Nodes
      <4>1. tasks[o] \in Seq(Nodes \X Message)
        BY <1>1, <1>4, QueueTypes
      <4>2. DOMAIN tasks[o] = 1 .. Len(tasks[o]) /\ Len(tasks[o]) \in Nat
        BY <4>1, LenProperties
      <4>3. tasks[o][n] \in Nodes \X Message
        BY <4>1, <4>2, <2>3, ElementOfSeq
      <4> QED BY <2>3, <4>2, <4>3
    <3>2. /\ ItemOK(tasks[o][n][1], o, tasks[o][n][2])
          /\ n > 1 \/ pc[o] # "deliver" => Open(tasks[o][n][2])
      BY <1>1, <1>4, <2>3 DEF TasksOK
    <3>3. ASSUME tasks[o][n][2].answer PROVE Open(tasks[o][n][2])
      <4>1. tasks[o][n][1] # o
        BY <3>2, <3>3 DEF ItemOK
      <4>2. n > 1 \/ pc[o] # "deliver"
        BY <1>1, <1>4, <3>1, <4>1 DEF DeliveringOK
      <4> QED BY <3>2, <4>2
    <3> QED BY <1>1, <1>2, <1>4, <3>1, <3>2, <3>3, NewResultIsLast
  <2> QED BY <1>1, <1>4, <2>1, <2>2, <2>3, SendKeepsOrder
<1>10. NothingLost'
  <2>1. tasks[i] # <<>> /\ scheduled' = scheduled /\ executions'[c] = 1
    BY <1>2
  <2>2. executions'[c] # 0
    BY <2>1
  <2>3. \A d \in Calls : d # c => executions'[d] = executions[d]
    BY <1>2
  <2>4. \A k, l \in Nodes : \A n \in DOMAIN channel[k][l] :
           n \in DOMAIN channel'[k][l] /\ channel'[k][l][n] = channel[k][l][n]
    BY <1>1, <1>4, ChannelGrows
  <2> QED BY <1>1, <1>3, <2>1, <2>2, <2>3, <2>4, PopKeepsWaiting
<1>11. CountOK'
  BY <1>5 DEF CountOK
<1> QED BY <1>2, <1>6, <1>7, <1>8, <1>9, <1>10, <1>11 DEF IInv

(* The on_result function of a head's own call runs.                        *)
LEMMA DeliverOwnResult ==
  ASSUME IInv, remoteAnswers' = remoteAnswers, NEW i \in Nodes, DeliverOwn(i),
         NEW c, c = tasks[i][1][2].call
  PROVE  /\ IInv' /\ c \in Calls /\ AnswerRequired(c) /\ executions[c] = 1
         /\ results[c] = <<>> /\ results' = [results EXCEPT ![c] = Append(@, c)]
<1>1. /\ RCGTypeOK /\ ChannelsOK /\ TasksOK /\ DeliveringOK /\ OrderOK
      /\ NothingLost /\ CallsOK /\ CountOK /\ CallsInOrder
  BY DEF IInv
<1>2. /\ pc[i] = "deliver" /\ PopFront(i) /\ Goto(i, "app")
      /\ channel' = channel /\ outstanding' = outstanding /\ scheduled' = scheduled
      /\ executions' = executions /\ numWaitingForReply' = numWaitingForReply
  BY DEF DeliverOwn
<1>3. /\ tasks[i] # <<>> /\ tasks[i][1][1] = i /\ AnswerRequired(c)
      /\ executions[c] = 1 /\ results[c] = <<>>
  BY <1>1, <1>2 DEF DeliveringOK
<1>4. c \in Calls /\ Head(tasks[i]) = tasks[i][1]
  BY <1>1, <1>3, FirstTask, MessageFacts
<1>5. results' = [results EXCEPT ![c] = Append(@, c)]
  BY <1>4 DEF DeliverOwn
<1>6. /\ results' \in [Calls -> Seq(Calls)]
      /\ \A d \in Calls : d # c => results'[d] = results[d]
  BY <1>1, <1>3, <1>4, <1>5, GiveResult
<1>7. c \in scheduled
  BY <1>1, <1>3, <1>4 DEF CallsOK
<1>8. RCGTypeOK'
  <2>1. tasks' \in [Nodes -> Seq(Nodes \X Message)]
    BY <1>1, <1>2, <1>3, TasksTail
  <2>2. pc' \in [Nodes -> {"app", "receive", "execute", "deliver"}]
    BY <1>1, <1>2 DEF RCGTypeOK, Goto
  <2> QED BY <1>1, <1>2, <1>6, <2>1, <2>2 DEF RCGTypeOK
<1>9. TasksOK' /\ DeliveringOK' /\ \A x \in InTransit : Open(x) => Open(x)'
  BY <1>1, <1>2, <1>3, <1>6, PopKeepsTasks
<1>10. ChannelsOK'
  <2>1. \A k, l \in Nodes : \A n \in DOMAIN channel'[k][l] :
           \E a \in DOMAIN channel[k][l] : channel[k][l][a] = channel'[k][l][n]
    BY <1>2
  <2> QED BY <1>1, <1>2, <1>9, <2>1, OldChannelsOK
<1>11. OrderOK'
  BY <1>1, <1>2, <1>3, PopKeepsOrder
<1>12. NothingLost'
  <2>1. \A k, l \in Nodes : \A n \in DOMAIN channel[k][l] :
           n \in DOMAIN channel'[k][l] /\ channel'[k][l][n] = channel[k][l][n]
    BY <1>2
  <2>2. executions'[c] # 0 /\ \A d \in Calls : d # c => executions'[d] = executions[d]
    BY <1>2, <1>3
  <2> QED BY <1>1, <1>2, <1>3, <2>1, <2>2, PopKeepsWaiting
<1>13. CallsOK' /\ CallsInOrder'
  <2>1. \A d \in Calls : /\ executions[d] \in {0, 1}
                         /\ d \notin scheduled => executions[d] = 0 /\ results'[d] = <<>>
    BY <1>1, <1>6, <1>7 DEF CallsOK
  <2>2. CallsOK'
    BY <1>1, <1>2, <2>1 DEF CallsOK
  <2> QED BY <1>1, <1>2, <2>2 DEF CallsInOrder
<1>14. CountOK'
  BY <1>1, <1>2 DEF CountOK, Unexecuted, RemoteCalls, Pings
<1> QED BY <1>3, <1>4, <1>5, <1>8, <1>9, <1>10, <1>11, <1>12, <1>13, <1>14 DEF IInv

(* A result arrived: its on_result function runs, and its origin is pinged. *)
LEMMA ExecuteRemoteResult ==
  ASSUME IInv, remoteAnswers' = remoteAnswers, NEW i \in Nodes, ExecuteResult(i),
         NEW c, c = tasks[i][1][2].call
  PROVE  /\ IInv' /\ c \in Calls /\ AnswerRequired(c) /\ executions[c] = 1
         /\ results[c] = <<>> /\ results' = [results EXCEPT ![c] = Append(@, c)]
<1> DEFINE o == tasks[i][1][1]
           m == tasks[i][1][2]
<1>1. /\ RCGTypeOK /\ ChannelsOK /\ TasksOK /\ DeliveringOK /\ OrderOK
      /\ NothingLost /\ CallsOK /\ CountOK /\ CallsInOrder
  BY DEF IInv
<1>2. /\ pc[i] = "execute" /\ tasks[i] # <<>> /\ PopFront(i) /\ Goto(i, "app")
      /\ scheduled' = scheduled /\ executions' = executions
      /\ numWaitingForReply' = numWaitingForReply
  BY DEF ExecuteResult
<1>3. Head(tasks[i]) = tasks[i][1] /\ 1 \in DOMAIN tasks[i] /\ o \in Nodes
  BY <1>1, <1>2, FirstTask
<1>4. /\ m.answer /\ results' = [results EXCEPT ![c] = Append(@, c)]
      /\ Sends(i, o, Ping) /\ outstanding' = outstanding
  BY <1>3 DEF ExecuteResult, SendPing, Sends
<1>5. ItemOK(o, i, m) /\ Open(m)
  BY <1>1, <1>2, <1>3 DEF TasksOK
<1>6. /\ c \in Calls /\ c \in scheduled /\ AnswerRequired(c) /\ executions[c] = 1
      /\ results[c] = <<>> /\ c[1] # c[2] /\ i # o
  BY <1>4, <1>5, MessageFacts DEF ItemOK, Open, From, To
<1>7. remoteAnswers = TRUE
  BY <1>1, <1>6 DEF CallsOK, AnswerRequired, RCGTypeOK
<1>8. Ping \in Packet
  BY DEF Packet
<1> HIDE DEF o, m
<1>9. /\ results' \in [Calls -> Seq(Calls)]
      /\ \A d \in Calls : d # c => results'[d] = results[d]
  BY <1>1, <1>4, <1>6, GiveResult
<1>10. RCGTypeOK'
  <2>1. tasks' \in [Nodes -> Seq(Nodes \X Message)]
    BY <1>1, <1>2, TasksTail
  <2>2. pc' \in [Nodes -> {"app", "receive", "execute", "deliver"}]
    BY <1>1, <1>2 DEF RCGTypeOK, Goto
  <2>3. /\ channel' \in [Nodes -> [Nodes -> Seq(Message \union {Ping})]]
        /\ \A k \in Nodes : channel'[k][k] = <<>>
        /\ outstanding' \in [Nodes -> SUBSET (Nodes \X Message)]
    BY <1>1, <1>3, <1>4, <1>6, <1>8, SendTypes
  <2> QED BY <1>1, <1>2, <1>9, <2>1, <2>2, <2>3 DEF RCGTypeOK
<1>11. TasksOK' /\ DeliveringOK' /\ \A x \in InTransit : Open(x) => Open(x)'
  BY <1>1, <1>2, <1>9, PopKeepsTasks
<1>12. ChannelsOK'
  BY <1>1, <1>2, <1>3, <1>4, <1>8, <1>11, SendKeepsChannels
<1>13. OrderOK'
  <2>1. NoNewTasks /\ TaskOrder'
    BY <1>1, <1>2, PopKeepsOrder
  <2> QED BY <1>1, <1>3, <1>4, <1>8, <2>1, SendKeepsOrder
<1>14. NothingLost'
  <2>1. \A k, l \in Nodes : \A n \in DOMAIN channel[k][l] :
           n \in DOMAIN channel'[k][l] /\ channel'[k][l][n] = channel[k][l][n]
    BY <1>1, <1>3, <1>4, <1>8, ChannelGrows
  <2>2. executions'[c] # 0 /\ \A d \in Calls : d # c => executions'[d] = executions[d]
    BY <1>2, <1>6
  <2> QED BY <1>1, <1>2, <2>1, <2>2, PopKeepsWaiting
<1>15. CallsOK' /\ CallsInOrder'
  <2>1. \A d \in Calls : /\ executions[d] \in {0, 1}
                         /\ d \notin scheduled => executions[d] = 0 /\ results'[d] = <<>>
    BY <1>1, <1>6, <1>9 DEF CallsOK
  <2>2. CallsOK'
    BY <1>1, <1>2, <2>1 DEF CallsOK
  <2> QED BY <1>1, <1>2, <2>2 DEF CallsInOrder
<1>16. CountOK'
  BY <1>7 DEF CountOK
<1> QED BY <1>4, <1>6, <1>10, <1>11, <1>12, <1>13, <1>14, <1>15, <1>16 DEF IInv

-----------------------------------------------------------------------------
(* The theorems                                                            *)

(* At first nothing is under way.                                           *)
LEMMA InitIInv == Init => IInv
<1> SUFFICES ASSUME Init PROVE IInv
  OBVIOUS
<1>1. /\ pc = [i \in Nodes |-> "app"] /\ scheduled = {}
      /\ tasks = [i \in Nodes |-> <<>>] /\ numWaitingForReply = [i \in Nodes |-> 0]
      /\ outstanding = [i \in Nodes |-> {}] /\ remoteAnswers \in BOOLEAN
      /\ channel = [i \in Nodes |-> [j \in Nodes |-> <<>>]]
      /\ executions = [c \in Calls |-> 0] /\ results = [c \in Calls |-> <<>>]
  BY DEF Init
<1>2. \A S : <<>> \in Seq(S)
  BY EmptySeq
<1>3. RCGTypeOK
  <2>1. tasks \in [Nodes -> Seq(Nodes \X Message)]
    BY <1>1, <1>2
  <2>2. /\ channel \in [Nodes -> [Nodes -> Seq(Message \union {Ping})]]
        /\ \A i \in Nodes : channel[i][i] = <<>>
    BY <1>1, <1>2
  <2>3. numWaitingForReply \in [Nodes -> 0 .. SizeModulus - 1]
    BY <1>1, CounterFacts
  <2>4. results \in [Calls -> Seq(Calls)]
    BY <1>1, <1>2
  <2> QED BY <1>1, <2>1, <2>2, <2>3, <2>4 DEF RCGTypeOK
<1>4. /\ \A i, j \in Nodes : DOMAIN channel[i][j] = {}
      /\ \A j \in Nodes : DOMAIN tasks[j] = {}
  <2>1. DOMAIN <<>> = {}
    OBVIOUS
  <2> QED BY <1>1, <2>1
<1>5. ChannelsOK /\ TasksOK /\ OrderOK
  BY <1>4 DEF ChannelsOK, TasksOK, OrderOK, ChannelOrder, TaskOrder, PathOrder
<1>6. DeliveringOK
  BY <1>1 DEF DeliveringOK
<1>7. NothingLost /\ CallsOK /\ CallsInOrder
  BY <1>1 DEF NothingLost, CallsOK, CallsInOrder
<1>8. CountOK
  <2>1. ASSUME NEW i \in Nodes
        PROVE  Cardinality(Unexecuted(i)) = 0 /\ Cardinality(RemoteCalls(i)) = 0
               /\ Cardinality(Pings(i)) = 0 /\ numWaitingForReply[i] = 0
    <3>1. RemoteCalls(i) = {} /\ Unexecuted(i) = {}
      BY <1>1 DEF RemoteCalls, Unexecuted
    <3>2. Pings(i) = {}
      <4>1. \A p \in PingsIn(channel, i) : p[1] \in Nodes /\ p = <<p[1], p[2]>>
        BY PingAt
      <4>2. \A l \in Nodes : \A n : <<l, n>> \notin PingsIn(channel, i)
        BY <1>4, PingAt
      <4>3. PingsIn(channel, i) = {}
        BY <4>1, <4>2
      <4> QED BY <4>3 DEF Pings, PingsIn
    <3> QED BY <1>1, <3>1, <3>2, FS_EmptySet
  <2> QED BY <2>1 DEF CountOK
<1> QED BY <1>3, <1>5, <1>6, <1>7, <1>8 DEF IInv

(* The execution of a call, whatever follows.                               *)
LEMMA ExecuteStep ==
  ASSUME IInv, remoteAnswers' = remoteAnswers, NEW i \in Nodes, ExecuteCall(i)
  PROVE  IInv'
<1> DEFINE c == tasks[i][1][2].call
<1>1. CASE c[1] = i /\ ~AnswerRequired(c)
  BY <1>1, ExecuteOwnSilent
<1>2. CASE c[1] = i /\ AnswerRequired(c)
  BY <1>2, ExecuteOwnAnswered
<1>3. CASE c[1] # i /\ ~AnswerRequired(c)
  BY <1>3, ExecuteRemoteSilent
<1>4. CASE c[1] # i /\ AnswerRequired(c)
  BY <1>4, ExecuteRemoteAnswered
<1> QED BY <1>1, <1>2, <1>3, <1>4

(* Every step keeps the invariant.                                          *)
LEMMA NextIInv == IInv /\ [Next]_vars => IInv'
<1> SUFFICES ASSUME IInv, [Next]_vars PROVE IInv'
  OBVIOUS
<1>1. CASE UNCHANGED vars
  <2>1. /\ remoteAnswers' = remoteAnswers /\ pc' = pc /\ scheduled' = scheduled
        /\ tasks' = tasks /\ numWaitingForReply' = numWaitingForReply
        /\ outstanding' = outstanding /\ channel' = channel
        /\ executions' = executions /\ results' = results
    BY <1>1 DEF vars, history
  <2>2. RCGTypeOK' /\ ChannelsOK' /\ TasksOK' /\ DeliveringOK'
    BY <2>1 DEF IInv, RCGTypeOK, ChannelsOK, TasksOK, DeliveringOK, ItemOK, Open
  <2>3. OrderOK'
    BY <2>1 DEF IInv, OrderOK, ChannelOrder, TaskOrder, PathOrder
  <2>4. NothingLost' /\ CallsOK' /\ CallsInOrder'
    BY <2>1 DEF IInv, NothingLost, IsWaiting, CallsOK, CallsInOrder
  <2>5. CountOK'
    BY <2>1 DEF IInv, CountOK, Unexecuted, RemoteCalls, Pings
  <2> QED BY <2>2, <2>3, <2>4, <2>5 DEF IInv
<1>2. CASE Next
  <2>1. PICK i \in Nodes : NodeStep(i)
    BY <1>2 DEF Next
  <2>2. remoteAnswers' = remoteAnswers
    BY <1>2 DEF Next
  <2>3. CASE \E c \in Calls : Schedule(i, c)
    BY <2>2, <2>3, ScheduleOwn, ScheduleRemote
  <2>4. CASE DoWork(i) \/ TestForMessages(i) \/ NoTask(i)
    BY <2>2, <2>4, MovingOn
  <2>5. CASE \E j \in Nodes : Receive(i, j)
    BY <2>2, <2>5, ReceivePing, ReceiveMessage
  <2>6. CASE ExecuteCall(i)
    BY <2>2, <2>6, ExecuteStep
  <2>7. CASE DeliverOwn(i)
    BY <2>2, <2>7, DeliverOwnResult
  <2>8. CASE ExecuteResult(i)
    BY <2>2, <2>8, ExecuteRemoteResult
  <2> QED BY <2>1, <2>3, <2>4, <2>5, <2>6, <2>7, <2>8 DEF NodeStep
<1> QED BY <1>1, <1>2

(* A head that sees no work outstanding may rely on it.                     *)
LEMMA QuietFollows == IInv => QuietMeansDone
<1> SUFFICES ASSUME IInv, NEW i \in Nodes, ~remoteAnswers, ~IsWorkOutstanding(i),
                    NEW c \in scheduled, c[1] = i, executions[c] # 1
             PROVE  FALSE
  BY DEF QuietMeansDone
<1>1. /\ RCGTypeOK /\ NothingLost /\ CallsOK /\ CountOK
  BY DEF IInv
<1>2. tasks[i] = <<>> /\ numWaitingForReply[i] = 0
  <2>1. numWaitingForReply[i] \in 0 .. SizeModulus - 1
    BY <1>1 DEF RCGTypeOK
  <2>2. tasks[i] = <<>> /\ ~(numWaitingForReply[i] > 0)
    BY DEF IsWorkOutstanding
  <2>3. SizeModulus \in Nat
    BY CounterFacts
  <2> QED BY <2>1, <2>2, <2>3
<1>3. c \in Calls /\ executions[c] = 0 /\ IsWaiting(c)
  BY <1>1 DEF RCGTypeOK, CallsOK, NothingLost
<1>4. CASE c[2] = i
  <2>1. \E n \in DOMAIN tasks[i] : TRUE
    BY <1>3, <1>4 DEF IsWaiting
  <2>2. DOMAIN tasks[i] = {}
    BY <1>2
  <2> QED BY <2>1, <2>2
<1>5. CASE c[2] # i
  <2>1. c \in Unexecuted(i)
    BY <1>3, <1>5 DEF Unexecuted, RemoteCalls
  <2>2. IsFiniteSet(Unexecuted(i)) /\ Cardinality(Unexecuted(i)) \in Nat
    BY <1>1, FewCalls
  <2>3. Cardinality(Unexecuted(i)) # 0
    BY <2>1, <2>2, FS_EmptySet
  <2>4. Cardinality(Pings(i)) \in Nat
    BY <1>1, PingsFinite, QueueTypes DEF Pings, PingsIn
  <2>5. numWaitingForReply[i] = Cardinality(Unexecuted(i)) + Cardinality(Pings(i))
    BY <1>1 DEF CountOK
  <2> QED BY <1>2, <2>2, <2>3, <2>4, <2>5
<1> QED BY <1>4, <1>5

(* Two calls of one head to another are executed in the order they were     *)
(* made, whatever goes in between and however often the queues are changed. *)
THEOREM CallsStayInOrder == Spec => []CallsInOrder
<1>1. IInv => CallsInOrder
  BY DEF IInv
<1> QED BY <1>1, InitIInv, NextIInv, PTL DEF Spec

(* num_tasks_pending is the number of pending tasks on remote nodes for any *)
(* number of heads and calls, and never wraps, as long as no call between   *)
(* heads has an answer.                                                     *)
THEOREM PendingCountsExactly == Spec => []PendingIsExact
<1>1. IInv => PendingIsExact
  BY DEF IInv, PendingIsExact, CountOK
<1> QED BY <1>1, InitIInv, NextIInv, PTL DEF Spec

(* A head for which is_work_outstanding is false may stop: all its calls    *)
(* were executed.                                                           *)
THEOREM QuietIsDone == Spec => []QuietMeansDone
BY QuietFollows, InitIInv, NextIInv, PTL DEF Spec

(* Every step of the heads is a step of the task pool or none of its own.   *)
LEMMA PoolStep == IInv /\ [Next]_vars => [Pool!Next]_(Pool!poolVars)
<1> SUFFICES ASSUME IInv, [Next]_vars, ~ UNCHANGED <<scheduled, executions, results>>
             PROVE  Pool!Next
  BY DEF Pool!poolVars
<1>1. Next
  BY DEF vars, history
<1>2. PICK i \in Nodes : NodeStep(i)
  BY <1>1 DEF Next
<1>3. remoteAnswers' = remoteAnswers
  BY <1>1 DEF Next
<1>4. ASSUME NEW c \in Calls, Schedule(i, c) PROVE Pool!Next
  <2>1. /\ c \notin scheduled /\ scheduled' = scheduled \union {c}
        /\ executions' = executions /\ results' = results
    BY <1>4 DEF Schedule, history
  <2>2. Pool!Submit(c)
    BY <2>1 DEF Pool!Submit
  <2> QED BY <2>2 DEF Pool!Next
<1>5. CASE ExecuteCall(i)
  <2> DEFINE c == tasks[i][1][2].call
  <2>1. /\ c \in Calls /\ c \in scheduled /\ executions[c] = 0
        /\ executions' = [executions EXCEPT ![c] = 1]
        /\ results' = results /\ scheduled' = scheduled
    BY <1>3, <1>5, CallExecuted
  <2>2. Pool!Execute(c)
    BY <2>1 DEF Pool!Execute
  <2> QED BY <2>1, <2>2 DEF Pool!Next
<1>6. ASSUME NEW c \in Calls, AnswerRequired(c), executions[c] = 1, results[c] = <<>>,
             results' = [results EXCEPT ![c] = Append(@, c)],
             scheduled' = scheduled, executions' = executions
      PROVE  Pool!Next
  <2>1. results' = [results EXCEPT ![c] = <<c>>]
    BY <1>6
  <2>2. c \notin {d \in Calls : ~AnswerRequired(d)}
    BY <1>6
  <2>3. Pool!Deliver(c)
    BY <1>6, <2>1, <2>2 DEF Pool!Deliver
  <2> QED BY <2>3 DEF Pool!Next
<1>7. CASE DeliverOwn(i)
  BY <1>3, <1>6, <1>7, DeliverOwnResult DEF DeliverOwn
<1>8. CASE ExecuteResult(i)
  BY <1>3, <1>6, <1>8, ExecuteRemoteResult DEF ExecuteResult
<1>9. CASE \/ DoWork(i) \/ TestForMessages(i) \/ NoTask(i)
           \/ \E j \in Nodes : Receive(i, j)
  BY <1>9 DEF DoWork, TestForMessages, NoTask, Receive, history
<1> QED BY <1>2, <1>4, <1>5, <1>7, <1>8, <1>9 DEF NodeStep

(* The heads among themselves are a task pool: a call is executed once,     *)
(* after it was made, and its on_result function is called once, after it   *)
(* was executed, with its own result.  (That it happens at all is a matter  *)
(* of fairness: ImplementsTaskPool.)                                        *)
THEOREM HeadsAreATaskPool == Spec => Pool!Init /\ [][Pool!Next]_(Pool!poolVars)
<1>1. Init => Pool!Init
  BY DEF Init, Pool!Init
<1> QED BY <1>1, InitIInv, NextIInv, PoolStep, PTL DEF Spec
=============================================================================
