---------------------- MODULE NotificationStreamProofs ----------------------
(***************************************************************************)
(* Theorems about NotificationStream, for any number of connections, any   *)
(* pods and routing, any cap and any set of events.                        *)
(***************************************************************************)
EXTENDS NotificationStream, FiniteSetTheorems, SequenceTheorems, TLAPS

Operation == [op : {"retain", "release"}, conn : Conns]

-----------------------------------------------------------------------------
(* Sequences.                                                              *)

\* What is left when the first operation of a chain has ended.
LEMMA TailItems ==
    ASSUME NEW S, NEW s \in Seq(S), s # <<>>
    PROVE  /\ Len(s) \in Nat /\ 1 \in 1 .. Len(s) /\ Head(s) = s[1] /\ Head(s) \in S
           /\ Tail(s) \in Seq(S) /\ Len(Tail(s)) = Len(s) - 1
           /\ \A i \in 1 .. Len(Tail(s)) : i + 1 \in 1 .. Len(s) /\ Tail(s)[i] = s[i + 1]
<1>1. Len(s) \in Nat \ {0}
  BY EmptySeq
<1>2. Tail(s) \in Seq(S) /\ Len(Tail(s)) = Len(s) - 1
  BY HeadTailProperties
<1>3. \A i \in 1 .. Len(Tail(s)) : Tail(s)[i] = s[i + 1]
  BY HeadTailProperties
<1>4. Head(s) \in S
  BY HeadTailProperties
<1>5. Head(s) = s[1]
  OBVIOUS
<1> QED BY <1>1, <1>2, <1>3, <1>4, <1>5

\* A chain with one operation more.
LEMMA AppendItems ==
    ASSUME NEW S, NEW s \in Seq(S), NEW e \in S
    PROVE  /\ Append(s, e) \in Seq(S) /\ Len(s) \in Nat /\ Len(Append(s, e)) = Len(s) + 1
           /\ \A i \in 1 .. Len(s) : Append(s, e)[i] = s[i]
           /\ Append(s, e)[Len(s) + 1] = e
OBVIOUS

-----------------------------------------------------------------------------
(* Type correctness.                                                       *)

\* The connection of the operation that runs.
LEMMA HeadConn ==
    ASSUME TypeOK, NEW p \in Pods, ops[p] # <<>>
    PROVE  /\ Head(ops[p]) \in Operation /\ Head(ops[p]).conn \in Conns
           /\ Tail(ops[p]) \in Seq(Operation)
<1>1. ops[p] \in Seq(Operation)
  BY DEF TypeOK, Operation
<1>2. Head(ops[p]) \in Operation /\ Tail(ops[p]) \in Seq(Operation)
  BY <1>1, TailItems
<1> QED BY <1>2 DEF Operation

\* Appending an operation to a chain keeps it one.
LEMMA QueuedType ==
    ASSUME TypeOK, StreamAssumption, NEW c \in Conns, NEW kind \in {"retain", "release"},
           NEW q \in Seq(Operation)
    PROVE  /\ [op |-> kind, conn |-> c] \in Operation
           /\ Append(q, [op |-> kind, conn |-> c]) \in Seq(Operation)
           /\ Home[c] \in Pods
<1>1. [op |-> kind, conn |-> c] \in Operation
  BY DEF Operation
<1> QED BY <1>1, AppendItems DEF StreamAssumption

LEMMA TypeInit == StreamAssumption /\ Init => TypeOK
<1> SUFFICES ASSUME StreamAssumption, Init PROVE TypeOK
  OBVIOUS
<1>1. <<>> \in Seq(Operation)
  BY EmptySeq
<1>2. ops \in [Pods -> Seq(Operation)]
  BY <1>1 DEF Init
<1> QED BY <1>2 DEF Init, TypeOK, Places, Operation, StreamAssumption

\* Admission, refusal and heartbeats leave the chains alone.
LEMMA AdmissionType ==
    ASSUME TypeOK, StreamAssumption, NEW c \in Conns,
           \/ Connect(c) \/ Admit(c) \/ AdmitUnanswered(c) \/ Refuse(c)
           \/ ReleaseSlot(c) \/ Touch(c) \/ GoStale(c) \/ MissHeartbeats(c)
    PROVE  TypeOK'
<1>1. CASE Connect(c)
  BY <1>1 DEF Connect, TypeOK, Places, cap, channel
<1>2. CASE Admit(c)
  BY <1>2 DEF Admit, AdmitScript, TypeOK, Places, channel
<1>3. CASE AdmitUnanswered(c)
  <2>1. faults' \in 0 .. MaxFaults
    BY <1>3 DEF AdmitUnanswered, Fault, TypeOK, StreamAssumption
  <2>2. slots' \subseteq Conns /\ stale' \subseteq slots'
    BY <1>3 DEF AdmitUnanswered, AdmitScript, TypeOK
  <2> QED BY <1>3, <2>1, <2>2 DEF AdmitUnanswered, TypeOK, Places, channel
<1>4. CASE Refuse(c)
  BY <1>4 DEF Refuse, TypeOK, Places, cap, channel
<1>5. CASE ReleaseSlot(c)
  <2>1. faults' \in 0 .. MaxFaults
    BY <1>5 DEF ReleaseSlot, Fault, TypeOK, StreamAssumption
  <2> QED BY <1>5, <2>1 DEF ReleaseSlot, TypeOK, body, channel
<1>6. CASE Touch(c)
  BY <1>6 DEF Touch, TypeOK, body, channel
<1>7. CASE GoStale(c)
  BY <1>7 DEF GoStale, TypeOK, body, channel
<1>8. CASE MissHeartbeats(c)
  <2>1. faults' \in 0 .. MaxFaults
    BY <1>8 DEF MissHeartbeats, Fault, TypeOK, StreamAssumption
  <2> QED BY <1>8, <2>1 DEF MissHeartbeats, TypeOK, body, channel
<1> QED BY <1>1, <1>2, <1>3, <1>4, <1>5, <1>6, <1>7, <1>8

\* What becomes of a connection whose retainChannel has returned.
LEMMA RetainedType ==
    ASSUME TypeOK, StreamAssumption, NEW c \in Conns, NEW rest \in Seq(Operation),
           Retained(c, rest)
    PROVE  /\ at' \in [Conns -> Places]
           /\ ops' \in [Pods -> Seq(Operation)]
           /\ disposers' \in [Conns -> SUBSET {"slot", "channel"}]
           /\ beating' \subseteq Conns
<1>1. Append(rest, [op |-> "release", conn |-> c]) \in Seq(Operation)
  BY QueuedType
<1>2. ops \in [Pods -> Seq(Operation)]
  BY DEF TypeOK, Operation
<1>3. ops' \in [Pods -> Seq(Operation)]
  BY <1>1, <1>2 DEF Retained
<1>4. at' \in [Conns -> Places]
  BY DEF Retained, TypeOK, Places
<1>5. disposers' \in [Conns -> SUBSET {"slot", "channel"}]
  <2>1. disposers[c] \cup {"channel"} \in SUBSET {"slot", "channel"}
    BY DEF TypeOK
  <2> QED BY <2>1 DEF Retained, TypeOK
<1>6. beating' \subseteq Conns
  BY DEF Retained, TypeOK
<1> QED BY <1>3, <1>4, <1>5, <1>6

LEMMA ChannelType ==
    ASSUME TypeOK, StreamAssumption, NEW p \in Pods,
           \/ Retain(p) \/ Release(p) \/ Subscribe(p) \/ SubscribeFails(p)
           \/ Unsubscribe(p) \/ UnsubscribeFails(p) \/ KillPod(p)
    PROVE  TypeOK'
<1>0. ops \in [Pods -> Seq(Operation)]
  BY DEF TypeOK, Operation
<1>1. CASE Retain(p)
  <2>0. ops[p] # <<>>
    BY <1>1 DEF Retain, Next1
  <2> DEFINE c == Head(ops[p]).conn
  <2>1. c \in Conns /\ Tail(ops[p]) \in Seq(Operation)
    BY <2>0, HeadConn
  <2>2. /\ at' \in [Conns -> Places] /\ ops' \in [Pods -> Seq(Operation)]
        /\ disposers' \in [Conns -> SUBSET {"slot", "channel"}]
        /\ beating' \subseteq Conns
    <3>1. CASE listeners[p] \subseteq {c}
      BY <1>0, <1>1, <3>1 DEF Retain, TypeOK
    <3>2. CASE ~(listeners[p] \subseteq {c})
      <4>1. Retained(c, Tail(ops[p]))
        BY <1>1, <3>2 DEF Retain
      <4> QED BY <2>1, <4>1, RetainedType
    <3> QED BY <3>1, <3>2
  <2>3. flight' \in [Pods -> BOOLEAN]
    BY <1>1 DEF Retain, TypeOK
  <2>4. listeners' \in [Pods -> SUBSET Conns]
    BY <1>1, <2>1 DEF Retain, TypeOK
  <2> QED BY <1>1, <2>2, <2>3, <2>4 DEF Retain, TypeOK, cap, Operation
<1>2. CASE Release(p)
  <2>0. ops[p] # <<>>
    BY <1>2 DEF Release, Next1
  <2>1. Tail(ops[p]) \in Seq(Operation)
    BY <2>0, HeadConn
  <2>2. ops' \in [Pods -> Seq(Operation)]
    BY <1>0, <1>2, <2>1 DEF Release
  <2>3. flight' \in [Pods -> BOOLEAN]
    BY <1>2 DEF Release, TypeOK
  <2>4. listeners' \in [Pods -> SUBSET Conns]
    BY <1>2 DEF Release, TypeOK
  <2> QED BY <1>2, <2>2, <2>3, <2>4 DEF Release, TypeOK, body, cap, Operation
<1>3. CASE Subscribe(p)
  <2>0. ops[p] # <<>>
    BY <1>3 DEF Subscribe, InFlight
  <2>1. Head(ops[p]).conn \in Conns /\ Tail(ops[p]) \in Seq(Operation)
    BY <2>0, HeadConn
  <2>2. /\ at' \in [Conns -> Places] /\ ops' \in [Pods -> Seq(Operation)]
        /\ disposers' \in [Conns -> SUBSET {"slot", "channel"}]
        /\ beating' \subseteq Conns
    BY <1>3, <2>1, RetainedType DEF Subscribe
  <2> QED BY <1>3, <2>2 DEF Subscribe, InFlight, TypeOK, cap, Operation
<1>4. CASE SubscribeFails(p)
  <2>0. ops[p] # <<>>
    BY <1>4 DEF SubscribeFails, InFlight
  <2>1. Head(ops[p]).conn \in Conns /\ Tail(ops[p]) \in Seq(Operation)
    BY <2>0, HeadConn
  <2>2. ops' \in [Pods -> Seq(Operation)]
    BY <1>0, <1>4, <2>1 DEF SubscribeFails
  <2>3. faults' \in 0 .. MaxFaults
    BY <1>4 DEF SubscribeFails, Fault, TypeOK, StreamAssumption
  <2> QED BY <1>4, <2>1, <2>2, <2>3 DEF SubscribeFails, InFlight, TypeOK, Places, Operation
<1>5. CASE Unsubscribe(p) \/ UnsubscribeFails(p)
  <2>0. ops[p] # <<>>
    BY <1>5 DEF Unsubscribe, UnsubscribeFails, InFlight
  <2>1. Tail(ops[p]) \in Seq(Operation)
    BY <2>0, HeadConn
  <2>2. ops' \in [Pods -> Seq(Operation)]
    BY <1>0, <1>5, <2>1 DEF Unsubscribe, UnsubscribeFails
  <2>3. faults' \in 0 .. MaxFaults
    BY <1>5 DEF Unsubscribe, UnsubscribeFails, Fault, TypeOK, StreamAssumption
  <2> QED BY <1>5, <2>2, <2>3
       DEF Unsubscribe, UnsubscribeFails, InFlight, TypeOK, body, cap, Operation
<1>6. CASE KillPod(p)
  <2>1. <<>> \in Seq(Operation)
    BY EmptySeq
  <2>2. ops' \in [Pods -> Seq(Operation)]
    BY <1>0, <1>6, <2>1 DEF KillPod
  <2>3. faults' \in 0 .. MaxFaults
    BY <1>6 DEF KillPod, Fault, TypeOK, StreamAssumption
  <2> QED BY <1>6, <2>2, <2>3 DEF KillPod, TypeOK, Places, Operation
<1> QED BY <1>1, <1>2, <1>3, <1>4, <1>5, <1>6

LEMMA TypeStep == StreamAssumption /\ TypeOK /\ [Next]_vars => TypeOK'
<1> SUFFICES ASSUME StreamAssumption, TypeOK, [Next]_vars PROVE TypeOK'
  OBVIOUS
<1>0. ops \in [Pods -> Seq(Operation)]
  BY DEF TypeOK, Operation
<1>1. ASSUME NEW c \in Conns, AdmitReturns(c) PROVE TypeOK'
  <2>1. Home[c] \in Pods /\ Queued("retain", c) \in Seq(Operation)
    BY <1>0, QueuedType DEF Queued, StreamAssumption
  <2>2. ops' \in [Pods -> Seq(Operation)]
    BY <1>0, <1>1, <2>1 DEF AdmitReturns
  <2>3. disposers' \in [Conns -> SUBSET {"slot", "channel"}]
    <3>1. disposers[c] \cup {"slot"} \in SUBSET {"slot", "channel"}
      BY DEF TypeOK
    <3>2. disposers \in [Conns -> SUBSET {"slot", "channel"}]
      BY DEF TypeOK
    <3>3. \/ disposers' = disposers
          \/ disposers' = [disposers EXCEPT ![c] = @ \cup {"slot"}]
      BY <1>1 DEF AdmitReturns
    <3> QED BY <3>1, <3>2, <3>3
  <2>4. at' \in [Conns -> Places] /\ releasing' \subseteq Conns
    BY <1>1 DEF AdmitReturns, TypeOK, Places
  <2> QED BY <1>1, <2>2, <2>3, <2>4 DEF AdmitReturns, TypeOK, Operation
<1>2. ASSUME NEW c \in Conns, Teardown(c) PROVE TypeOK'
  <2>1. Home[c] \in Pods /\ Queued("release", c) \in Seq(Operation)
    BY <1>0, QueuedType DEF Queued, StreamAssumption
  <2>2. ops' \in [Pods -> Seq(Operation)]
    BY <1>0, <1>2, <2>1 DEF Teardown
  <2> QED BY <1>2, <2>2 DEF Teardown, TypeOK, Places, Operation
<1>3. CASE SetExpires
  BY <1>3 DEF SetExpires, TypeOK, body, channel
<1>4. CASE UNCHANGED vars
  BY <1>4 DEF vars, body, cap, channel, TypeOK
<1> QED BY <1>1, <1>2, <1>3, <1>4, AdmissionType, ChannelType DEF Next

\* Every variable of the stream model keeps its type, the chains of channel
\* operations included.
THEOREM TypeCorrect == Spec => []TypeOK
<1>1. StreamAssumption
  BY StreamAssumption
<1> QED BY <1>1, TypeInit, TypeStep, PTL DEF Spec
-----------------------------------------------------------------------------
(* The chains of channel operations.                                       *)

\* A chain q of pod p, with a for where the connections are: a connection that
\* waits for its channel is retaining, one whose release is queued is over,
\* and no connection retains twice.
ChainOK(p, q, a) ==
    /\ \A i \in 1 .. Len(q) :
          /\ Home[q[i].conn] = p
          /\ q[i].op = "retain" => a[q[i].conn] = "retaining"
          /\ q[i].op = "release" => a[q[i].conn] = "over"
    /\ \A i, j \in 1 .. Len(q) :
          i # j /\ q[i].op = "retain" /\ q[j].op = "retain" => q[i].conn # q[j].conn

Chains == \A p \in Pods : ChainOK(p, ops[p], at)

\* Connections outside a chain may move.
LEMMA ChainFrame ==
    ASSUME NEW p, NEW q, NEW a, NEW b, ChainOK(p, q, a),
           \A i \in 1 .. Len(q) : b[q[i].conn] = a[q[i].conn]
    PROVE  ChainOK(p, q, b)
BY DEF ChainOK

\* The connection whose operation ends may move when that was its retain.
LEMMA ChainTail ==
    ASSUME NEW p, NEW q \in Seq(Operation), q # <<>>, NEW a, NEW b, ChainOK(p, q, a),
           \A x \in Conns :
               b[x] = a[x] \/ (x = Head(q).conn /\ Head(q).op = "retain")
    PROVE  ChainOK(p, Tail(q), b)
<1> DEFINE t == Tail(q)
<1>1. /\ Len(q) \in Nat /\ 1 \in 1 .. Len(q) /\ Head(q) = q[1]
      /\ Len(t) = Len(q) - 1
      /\ \A i \in 1 .. Len(t) : i + 1 \in 1 .. Len(q) /\ t[i] = q[i + 1]
  BY TailItems
<1>2. \A i \in 1 .. Len(q) : q[i].conn \in Conns /\ q[i].op \in {"retain", "release"}
  <2>1. \A i \in 1 .. Len(q) : q[i] \in Operation
    BY ElementOfSeq
  <2> QED BY <2>1 DEF Operation
<1> HIDE DEF t
<1>3. ASSUME NEW i \in 1 .. Len(t) PROVE b[t[i].conn] = a[t[i].conn]
  <2>0. i + 1 \in 1 .. Len(q) /\ t[i] = q[i + 1] /\ i + 1 # 1
    BY <1>1
  <2>1. CASE b[q[i + 1].conn] = a[q[i + 1].conn]
    BY <2>0, <2>1
  <2>2. CASE q[i + 1].conn = q[1].conn /\ q[1].op = "retain"
    <3>1. a[q[1].conn] = "retaining"
      BY <1>1, <2>2 DEF ChainOK
    <3>2. q[i + 1].op # "release"
      BY <2>0, <2>2, <3>1 DEF ChainOK
    <3>3. q[i + 1].op # "retain"
      BY <1>1, <2>0, <2>2 DEF ChainOK
    <3> QED BY <1>2, <2>0, <3>2, <3>3
  <2> QED BY <1>1, <1>2, <2>0, <2>1, <2>2
<1>4. ChainOK(p, t, a)
  <2>1. \A i \in 1 .. Len(t) :
          /\ Home[t[i].conn] = p
          /\ t[i].op = "retain" => a[t[i].conn] = "retaining"
          /\ t[i].op = "release" => a[t[i].conn] = "over"
    BY <1>1 DEF ChainOK
  <2>2. ASSUME NEW i \in 1 .. Len(t), NEW j \in 1 .. Len(t), i # j,
               t[i].op = "retain", t[j].op = "retain"
        PROVE  t[i].conn # t[j].conn
    <3>1. i + 1 # j + 1
      BY <1>1, <2>2
    <3> QED BY <1>1, <2>2, <3>1 DEF ChainOK
  <2> QED BY <2>1, <2>2 DEF ChainOK
<1>5. ChainOK(p, t, b)
  BY <1>3, <1>4, ChainFrame
<1> QED BY <1>5 DEF t

\* Appending an operation of a connection that does not retain in the chain.
LEMMA ChainAppend ==
    ASSUME NEW p, NEW q \in Seq(Operation), NEW a, ChainOK(p, q, a),
           NEW e \in Operation, Home[e.conn] = p,
           \/ e.op = "release" /\ a[e.conn] = "over"
           \/ e.op = "retain" /\ a[e.conn] = "retaining"
              /\ \A i \in 1 .. Len(q) : q[i].conn # e.conn
    PROVE  ChainOK(p, Append(q, e), a)
<1> DEFINE t == Append(q, e)
<1>1. /\ Len(q) \in Nat /\ Len(t) = Len(q) + 1
      /\ \A i \in 1 .. Len(q) : t[i] = q[i]
      /\ t[Len(q) + 1] = e
  BY AppendItems
<1> HIDE DEF t
<1>2. \A i \in 1 .. Len(t) : i \in 1 .. Len(q) \/ i = Len(q) + 1
  BY <1>1
<1>3. \A i \in 1 .. Len(t) :
          /\ Home[t[i].conn] = p
          /\ t[i].op = "retain" => a[t[i].conn] = "retaining"
          /\ t[i].op = "release" => a[t[i].conn] = "over"
  BY <1>1, <1>2 DEF ChainOK
<1>4. ASSUME NEW i \in 1 .. Len(t), NEW j \in 1 .. Len(t), i # j,
             t[i].op = "retain", t[j].op = "retain"
      PROVE  t[i].conn # t[j].conn
  <2>1. CASE i \in 1 .. Len(q) /\ j \in 1 .. Len(q)
    BY <1>1, <1>4, <2>1 DEF ChainOK
  <2>2. CASE i = Len(q) + 1 /\ j \in 1 .. Len(q)
    BY <1>1, <1>4, <2>2
  <2>3. CASE j = Len(q) + 1 /\ i \in 1 .. Len(q)
    BY <1>1, <1>4, <2>3
  <2> QED BY <1>2, <1>4, <2>1, <2>2, <2>3
<1>5. ChainOK(p, t, a)
  BY <1>3, <1>4 DEF ChainOK
<1> QED BY <1>5 DEF t

\* What is known of the operations in a chain.
LEMMA InChain ==
    ASSUME TypeOK, Chains, NEW p \in Pods
    PROVE  /\ ops[p] \in Seq(Operation) /\ ChainOK(p, ops[p], at)
           /\ \A i \in 1 .. Len(ops[p]) :
                 /\ ops[p][i].conn \in Conns /\ Home[ops[p][i].conn] = p
                 /\ at[ops[p][i].conn] \in {"retaining", "over"}
<1>1. ops[p] \in Seq(Operation) /\ ChainOK(p, ops[p], at)
  BY DEF TypeOK, Operation, Chains
<1>2. \A i \in 1 .. Len(ops[p]) : ops[p][i] \in Operation
  BY <1>1, ElementOfSeq
<1> QED BY <1>1, <1>2 DEF Operation, ChainOK

\* Chains stay as they are while the connections in them do.
LEMMA ChainsKept ==
    ASSUME TypeOK, Chains,
           \A x \in Conns : at[x] \in {"retaining", "over"} => at'[x] = at[x]
    PROVE  \A p \in Pods : ChainOK(p, ops[p], at')
<1> SUFFICES ASSUME NEW p \in Pods PROVE ChainOK(p, ops[p], at')
  OBVIOUS
<1>1. \A i \in 1 .. Len(ops[p]) : at'[ops[p][i].conn] = at[ops[p][i].conn]
  BY InChain
<1> QED BY <1>1, ChainFrame DEF Chains

\* The operation at the head of a chain ends: only its connection may move.
LEMMA HeadEnds ==
    ASSUME TypeOK, Chains, NEW p \in Pods, ops[p] # <<>>,
           \A x \in Conns :
               at'[x] = at[x] \/ (x = Head(ops[p]).conn /\ Head(ops[p]).op = "retain")
    PROVE  /\ ChainOK(p, Tail(ops[p]), at')
           /\ \A o \in Pods \ {p} : ChainOK(o, ops[o], at')
           /\ Home[Head(ops[p]).conn] = p
           /\ Head(ops[p]).op = "retain" => at[Head(ops[p]).conn] = "retaining"
           /\ Head(ops[p]).op = "release" => at[Head(ops[p]).conn] = "over"
<1>0. ops[p] \in Seq(Operation) /\ ChainOK(p, ops[p], at)
  BY InChain
<1>1. ChainOK(p, Tail(ops[p]), at')
  BY <1>0, ChainTail
<1>2. 1 \in 1 .. Len(ops[p]) /\ Head(ops[p]) = ops[p][1]
  BY <1>0, TailItems
<1>3. /\ Home[Head(ops[p]).conn] = p
      /\ Head(ops[p]).op = "retain" => at[Head(ops[p]).conn] = "retaining"
      /\ Head(ops[p]).op = "release" => at[Head(ops[p]).conn] = "over"
  BY <1>0, <1>2 DEF ChainOK
<1>4. ASSUME NEW o \in Pods \ {p} PROVE ChainOK(o, ops[o], at')
  <2>1. \A i \in 1 .. Len(ops[o]) : at'[ops[o][i].conn] = at[ops[o][i].conn]
    BY <1>3, InChain
  <2> QED BY <2>1, ChainFrame DEF Chains
<1> QED BY <1>1, <1>3, <1>4
\* Both ways in which retainChannel's return changes the chains.
LEMMA RetainedChains ==
    ASSUME TypeOK, Chains, NEW p \in Pods, ops[p] # <<>>, Head(ops[p]).op = "retain",
           Retained(Head(ops[p]).conn, Tail(ops[p]))
    PROVE  Chains'
<1> DEFINE c == Head(ops[p]).conn
           e == [op |-> "release", conn |-> c]
<1>1. c \in Conns /\ Tail(ops[p]) \in Seq(Operation)
  BY HeadConn
<1>2. \A x \in Conns : at'[x] = at[x] \/ x = c
  BY <1>1 DEF Retained, TypeOK
<1>3. /\ ChainOK(p, Tail(ops[p]), at')
      /\ \A o \in Pods \ {p} : ChainOK(o, ops[o], at')
      /\ Home[c] = p
  BY <1>2, HeadEnds
<1>4. CASE c \in disposed
  <2>1. at'[c] = "over" /\ ops' = [ops EXCEPT ![p] = Append(Tail(ops[p]), e)]
    BY <1>1, <1>3, <1>4 DEF Retained, TypeOK
  <2>2. e \in Operation /\ e.conn = c /\ e.op = "release"
    BY <1>1 DEF Operation
  <2>3. ChainOK(p, Append(Tail(ops[p]), e), at')
    BY <1>1, <1>3, <2>1, <2>2, ChainAppend
  <2> QED BY <1>3, <2>1, <2>3 DEF Chains, TypeOK
<1>5. CASE c \notin disposed
  <2>1. ops' = [ops EXCEPT ![p] = Tail(ops[p])]
    BY <1>3, <1>5 DEF Retained
  <2> QED BY <1>3, <2>1 DEF Chains, TypeOK
<1> QED BY <1>4, <1>5

\* What a connection that is open, beating or released implies about the rest.
OpenInv ==
    \A c \in Conns :
        /\ at[c] = "open" => c \notin disposed
        /\ "channel" \in disposers[c] => at[c] = "open"
        /\ c \in beating => at[c] = "open"
        /\ c \in releasing => c \in disposed

LEMMA ChainsStep ==
    ASSUME TypeOK, StreamAssumption, OpenInv, Chains, [Next]_vars
    PROVE  Chains'
<1>1. ASSUME UNCHANGED ops,
             \A x \in Conns : at[x] \in {"retaining", "over"} => at'[x] = at[x]
      PROVE  Chains'
  BY <1>1, ChainsKept DEF Chains
<1>2. ASSUME NEW c \in Conns,
             Connect(c) \/ Admit(c) \/ AdmitUnanswered(c) \/ Refuse(c)
      PROVE  Chains'
  <2>1. UNCHANGED ops
    BY <1>2 DEF Connect, Admit, AdmitUnanswered, Refuse, channel
  <2>2. \A x \in Conns : at[x] \in {"retaining", "over"} => at'[x] = at[x]
    BY <1>2 DEF Connect, Admit, AdmitUnanswered, Refuse, TypeOK
  <2> QED BY <1>1, <2>1, <2>2
<1>3. ASSUME NEW c \in Conns,
             ReleaseSlot(c) \/ Touch(c) \/ GoStale(c) \/ MissHeartbeats(c)
      PROVE  Chains'
  <2>1. UNCHANGED <<at, ops>>
    BY <1>3 DEF ReleaseSlot, Touch, GoStale, MissHeartbeats, body, channel
  <2> QED BY <1>1, <2>1
<1>4. ASSUME NEW c \in Conns, AdmitReturns(c) PROVE Chains'
  <2>0. Home[c] \in Pods /\ at[c] = "admitted"
    BY <1>4 DEF AdmitReturns, StreamAssumption
  <2>1. \A x \in Conns : at[x] \in {"retaining", "over"} => at'[x] = at[x]
    BY <1>4, <2>0 DEF AdmitReturns, TypeOK
  <2>2. \A p \in Pods : ChainOK(p, ops[p], at')
    BY <2>1, ChainsKept
  <2>3. CASE c \in disposed
    BY <1>1, <1>4, <2>1, <2>3 DEF AdmitReturns
  <2>4. CASE c \notin disposed
    <3> DEFINE e == [op |-> "retain", conn |-> c]
    <3>1. e \in Operation /\ e.conn = c /\ e.op = "retain"
      BY DEF Operation
    <3>2. at'[c] = "retaining" /\ ops' = [ops EXCEPT ![Home[c]] = Append(ops[Home[c]], e)]
      BY <1>4, <2>4 DEF AdmitReturns, Queued, TypeOK
    <3>3. /\ ops[Home[c]] \in Seq(Operation)
          /\ \A i \in 1 .. Len(ops[Home[c]]) : ops[Home[c]][i].conn # c
      BY <2>0, InChain
    <3>4. ChainOK(Home[c], Append(ops[Home[c]], e), at')
      BY <2>0, <2>2, <3>1, <3>2, <3>3, ChainAppend
    <3> QED BY <2>0, <2>2, <3>2, <3>4 DEF Chains, TypeOK
  <2> QED BY <2>3, <2>4
<1>5. ASSUME NEW c \in Conns, Teardown(c) PROVE Chains'
  <2>0. Home[c] \in Pods
    BY DEF StreamAssumption
  <2>1. \A x \in Conns : at[x] \in {"retaining", "over"} => at'[x] = at[x]
    BY <1>5 DEF Teardown, TypeOK
  <2>2. \A p \in Pods : ChainOK(p, ops[p], at')
    BY <2>1, ChainsKept
  <2>3. CASE "channel" \notin disposers[c]
    BY <1>1, <1>5, <2>1, <2>3 DEF Teardown
  <2>4. CASE "channel" \in disposers[c]
    <3> DEFINE e == [op |-> "release", conn |-> c]
    <3>1. e \in Operation /\ e.conn = c /\ e.op = "release"
      BY DEF Operation
    <3>2. at'[c] = "over" /\ ops' = [ops EXCEPT ![Home[c]] = Append(ops[Home[c]], e)]
      BY <1>5, <2>4 DEF Teardown, Queued, TypeOK, OpenInv
    <3>3. ops[Home[c]] \in Seq(Operation)
      BY <2>0, InChain
    <3>4. ChainOK(Home[c], Append(ops[Home[c]], e), at')
      BY <2>0, <2>2, <3>1, <3>2, <3>3, ChainAppend
    <3> QED BY <2>0, <2>2, <3>2, <3>4 DEF Chains, TypeOK
  <2> QED BY <2>3, <2>4
<1>6. ASSUME NEW p \in Pods, Retain(p) PROVE Chains'
  <2>0. ops[p] # <<>> /\ Head(ops[p]).op = "retain"
    BY <1>6 DEF Retain, Next1
  <2>1. CASE listeners[p] \subseteq {Head(ops[p]).conn}
    BY <1>1, <1>6, <2>1 DEF Retain
  <2>2. CASE ~(listeners[p] \subseteq {Head(ops[p]).conn})
    <3>1. Retained(Head(ops[p]).conn, Tail(ops[p]))
      BY <1>6, <2>2 DEF Retain
    <3> QED BY <2>0, <3>1, RetainedChains
  <2> QED BY <2>1, <2>2
<1>7. ASSUME NEW p \in Pods, ops[p] # <<>>, UNCHANGED at,
             UNCHANGED ops \/ ops' = [ops EXCEPT ![p] = Tail(ops[p])]
      PROVE  Chains'
  <2>1. CASE UNCHANGED ops
    BY <1>1, <1>7, <2>1
  <2>2. CASE ops' = [ops EXCEPT ![p] = Tail(ops[p])]
    <3>1. /\ ChainOK(p, Tail(ops[p]), at')
          /\ \A o \in Pods \ {p} : ChainOK(o, ops[o], at')
      BY <1>7, HeadEnds
    <3> QED BY <2>2, <3>1 DEF Chains, TypeOK
  <2> QED BY <1>7, <2>1, <2>2
<1>8. ASSUME NEW p \in Pods, Release(p) \/ Unsubscribe(p) \/ UnsubscribeFails(p)
      PROVE  Chains'
  <2>1. ops[p] # <<>> /\ UNCHANGED at
    BY <1>8 DEF Release, Next1, Unsubscribe, UnsubscribeFails, InFlight, body
  <2>2. UNCHANGED ops \/ ops' = [ops EXCEPT ![p] = Tail(ops[p])]
    BY <1>8 DEF Release, Unsubscribe, UnsubscribeFails
  <2> QED BY <1>7, <2>1, <2>2
<1>9. ASSUME NEW p \in Pods, Subscribe(p) PROVE Chains'
  BY <1>9, RetainedChains DEF Subscribe, InFlight
<1>10. ASSUME NEW p \in Pods, SubscribeFails(p) PROVE Chains'
  <2>0. ops[p] # <<>> /\ Head(ops[p]).op = "retain"
    BY <1>10 DEF SubscribeFails, InFlight
  <2>1. \A x \in Conns : at'[x] = at[x] \/ x = Head(ops[p]).conn
    BY <1>10 DEF SubscribeFails, TypeOK
  <2>2. /\ ChainOK(p, Tail(ops[p]), at')
        /\ \A o \in Pods \ {p} : ChainOK(o, ops[o], at')
    BY <2>0, <2>1, HeadEnds
  <2>3. ops' = [ops EXCEPT ![p] = Tail(ops[p])]
    BY <1>10 DEF SubscribeFails
  <2> QED BY <2>2, <2>3 DEF Chains, TypeOK
<1>11. ASSUME NEW p \in Pods, KillPod(p) PROVE Chains'
  <2>1. ASSUME NEW o \in Pods \ {p} PROVE ChainOK(o, ops[o], at')
    <3>1. \A i \in 1 .. Len(ops[o]) : at'[ops[o][i].conn] = at[ops[o][i].conn]
      BY <1>11, InChain DEF KillPod, TypeOK
    <3> QED BY <3>1, ChainFrame DEF Chains
  <2>2. ChainOK(p, <<>>, at')
    BY DEF ChainOK
  <2>3. ops' = [ops EXCEPT ![p] = <<>>]
    BY <1>11 DEF KillPod
  <2> QED BY <2>1, <2>2, <2>3 DEF Chains, TypeOK
<1>12. CASE SetExpires \/ UNCHANGED vars
  <2>1. UNCHANGED <<at, ops>>
    BY <1>12 DEF SetExpires, vars, body, channel
  <2> QED BY <1>1, <2>1
<1> QED BY <1>2, <1>3, <1>4, <1>5, <1>6, <1>8, <1>9, <1>10, <1>11, <1>12 DEF Next

-----------------------------------------------------------------------------
(* Open connections.                                                       *)

LEMMA OpenStep ==
    ASSUME TypeOK, OpenInv, Chains, [Next]_vars
    PROVE  OpenInv'
<1>1. ASSUME NEW c \in Conns,
             \/ Connect(c) \/ Admit(c) \/ AdmitUnanswered(c) \/ Refuse(c)
             \/ ReleaseSlot(c) \/ Touch(c) \/ GoStale(c) \/ MissHeartbeats(c)
      PROVE  OpenInv'
  BY <1>1 DEF Connect, Admit, AdmitUnanswered, Refuse, ReleaseSlot, Touch, GoStale,
              MissHeartbeats, OpenInv, TypeOK, body, cap, channel
<1>2. ASSUME NEW c \in Conns, AdmitReturns(c) PROVE OpenInv'
  <2>1. ASSUME NEW x \in Conns
        PROVE  /\ at'[x] = "open" <=> at[x] = "open"
               /\ "channel" \in disposers'[x] <=> "channel" \in disposers[x]
               /\ x \in releasing' => x \in releasing \/ x \in disposed
    BY <1>2 DEF AdmitReturns, TypeOK
  <2> QED BY <1>2, <2>1 DEF AdmitReturns, OpenInv
<1>3. ASSUME NEW c \in Conns, Teardown(c) PROVE OpenInv'
  BY <1>3 DEF Teardown, OpenInv, TypeOK
<1>4. ASSUME NEW c \in Conns, NEW rest, Retained(c, rest), at[c] # "open",
             UNCHANGED <<disposed, releasing>>
      PROVE  OpenInv'
  BY <1>4 DEF Retained, OpenInv, TypeOK
<1>5. ASSUME NEW p \in Pods, Retain(p) \/ Subscribe(p) PROVE OpenInv'
  <2> DEFINE c == Head(ops[p]).conn
  <2>0. ops[p] # <<>> /\ Head(ops[p]).op = "retain"
    BY <1>5 DEF Retain, Next1, Subscribe, InFlight
  <2>1. c \in Conns /\ at[c] # "open"
    BY <2>0, HeadConn, InChain, TailItems DEF ChainOK
  <2>2. \/ Retained(c, Tail(ops[p])) /\ UNCHANGED <<disposed, releasing>>
        \/ UNCHANGED <<at, disposers, beating, disposed, releasing>>
    BY <1>5 DEF Retain, Subscribe, cap
  <2> QED BY <1>4, <2>1, <2>2 DEF OpenInv
<1>6. ASSUME NEW p \in Pods, SubscribeFails(p) PROVE OpenInv'
  <2> DEFINE c == Head(ops[p]).conn
  <2>0. ops[p] # <<>> /\ Head(ops[p]).op = "retain"
    BY <1>6 DEF SubscribeFails, InFlight
  <2>1. c \in Conns /\ at[c] # "open"
    BY <2>0, HeadConn, InChain, TailItems DEF ChainOK
  <2> QED BY <1>6, <2>1 DEF SubscribeFails, OpenInv, TypeOK
<1>7. ASSUME NEW p \in Pods, Release(p) \/ Unsubscribe(p) \/ UnsubscribeFails(p)
      PROVE  OpenInv'
  BY <1>7 DEF Release, Unsubscribe, UnsubscribeFails, OpenInv, body, cap
<1>8. ASSUME NEW p \in Pods, KillPod(p) PROVE OpenInv'
  BY <1>8 DEF KillPod, OpenInv, TypeOK
<1>9. CASE SetExpires \/ UNCHANGED vars
  BY <1>9 DEF SetExpires, vars, body, cap, OpenInv
<1> QED BY <1>1, <1>2, <1>3, <1>5, <1>6, <1>7, <1>8, <1>9 DEF Next
-----------------------------------------------------------------------------
(* The subscription under an open connection.                              *)

\* An open connection listens on its pod; while the first or last listener's
\* command is with Redis nobody else listens; and a pod that has listeners with
\* no command under way is subscribed, unless a SUBSCRIBE failed there.
Listening ==
    /\ \A c \in Conns : at[c] = "open" => c \in listeners[Home[c]]
    /\ \A p \in Pods :
          /\ flight[p] => ops[p] # <<>>
          /\ flight[p] /\ Head(ops[p]).op = "retain" => listeners[p] = {Head(ops[p]).conn}
          /\ flight[p] /\ Head(ops[p]).op = "release" => listeners[p] = {}
          /\ ~flight[p] /\ listeners[p] # {} => p \in subscribed \cup leaked

\* The head of a chain does not change when an operation is appended.
LEMMA HeadKept ==
    ASSUME NEW q \in Seq(Operation), q # <<>>, NEW e \in Operation
    PROVE  Append(q, e) # <<>> /\ Head(Append(q, e)) = Head(q)
<1>1. /\ Append(q, e) \in Seq(Operation) /\ Len(q) \in Nat /\ Len(Append(q, e)) = Len(q) + 1
      /\ \A i \in 1 .. Len(q) : Append(q, e)[i] = q[i]
  BY AppendItems
<1>2. 1 \in 1 .. Len(q) /\ Head(q) = q[1]
  BY TailItems
<1>3. Append(q, e) # <<>>
  BY <1>1, EmptySeq
<1>4. Head(Append(q, e)) = Append(q, e)[1]
  BY <1>1, <1>3, TailItems
<1> QED BY <1>1, <1>2, <1>3, <1>4

\* A step that appends to one chain at most, and opens nothing.
LEMMA ListeningKept ==
    ASSUME TypeOK, Listening, StreamAssumption, NEW c \in Conns, NEW e \in Operation,
           UNCHANGED <<listeners, flight, subscribed, leaked>>,
           \/ UNCHANGED ops
           \/ ops' = [ops EXCEPT ![Home[c]] = Append(@, e)],
           \A x \in Conns : at'[x] = "open" => at[x] = "open"
    PROVE  Listening'
<1>1. ASSUME NEW p \in Pods, flight[p]
      PROVE  ops'[p] # <<>> /\ Head(ops'[p]) = Head(ops[p])
  <2>1. ops[p] \in Seq(Operation) /\ ops[p] # <<>>
    BY <1>1 DEF TypeOK, Operation, Listening
  <2>2. Append(ops[p], e) # <<>> /\ Head(Append(ops[p], e)) = Head(ops[p])
    BY <2>1, HeadKept
  <2>3. ops'[p] = ops[p] \/ ops'[p] = Append(ops[p], e)
    BY DEF TypeOK
  <2> QED BY <2>1, <2>2, <2>3
<1> QED BY <1>1 DEF Listening

\* retainChannel has returned for the first operation of p's chain.
LEMMA RetainedListening ==
    ASSUME TypeOK, Chains, Listening, NEW p \in Pods, ops[p] # <<>>,
           Head(ops[p]).op = "retain", Retained(Head(ops[p]).conn, Tail(ops[p])),
           listeners' = [listeners EXCEPT ![p] = @ \cup {Head(ops[p]).conn}],
           flight' = [flight EXCEPT ![p] = FALSE],
           subscribed \subseteq subscribed', leaked' = leaked,
           p \in subscribed' \cup leaked'
    PROVE  Listening'
<1> DEFINE c == Head(ops[p]).conn
<1>1. c \in Conns /\ Home[c] = p
  BY HeadConn, HeadEnds, InChain, TailItems DEF ChainOK
<1>2. \A x \in Conns : at'[x] = "open" => at[x] = "open" \/ x = c
  BY <1>1 DEF Retained, TypeOK
<1>3. \A o \in Pods \ {p} : ops'[o] = ops[o]
  BY <1>1 DEF Retained, TypeOK
<1>4. \A x \in Conns : at'[x] = "open" => x \in listeners'[Home[x]]
  BY <1>1, <1>2 DEF Listening, TypeOK
<1> QED BY <1>3, <1>4 DEF Listening, TypeOK

LEMMA ListeningStep ==
    ASSUME TypeOK, StreamAssumption, OpenInv, Chains, Listening, [Next]_vars
    PROVE  Listening'
<1>0. \A c \in Conns : Home[c] \in Pods
  BY DEF StreamAssumption
<1>1. ASSUME NEW c \in Conns,
             \/ Connect(c) \/ Admit(c) \/ AdmitUnanswered(c) \/ Refuse(c)
             \/ ReleaseSlot(c) \/ Touch(c) \/ GoStale(c) \/ MissHeartbeats(c)
      PROVE  Listening'
  <2>1. UNCHANGED <<listeners, flight, subscribed, leaked, ops>>
    BY <1>1 DEF Connect, Admit, AdmitUnanswered, Refuse, ReleaseSlot, Touch, GoStale,
                MissHeartbeats, channel
  <2>2. \A x \in Conns : at'[x] = "open" => at[x] = "open"
    BY <1>1 DEF Connect, Admit, AdmitUnanswered, Refuse, ReleaseSlot, Touch, GoStale,
                MissHeartbeats, body, TypeOK
  <2> QED BY <2>1, <2>2 DEF Listening
<1>2. ASSUME NEW c \in Conns, AdmitReturns(c) PROVE Listening'
  <2> DEFINE e == [op |-> "retain", conn |-> c]
  <2>1. e \in Operation
    BY DEF Operation
  <2>2. UNCHANGED ops \/ ops' = [ops EXCEPT ![Home[c]] = Append(@, e)]
    BY <1>2 DEF AdmitReturns, Queued
  <2>3. \A x \in Conns : at'[x] = "open" => at[x] = "open"
    BY <1>2 DEF AdmitReturns, TypeOK
  <2>4. UNCHANGED <<listeners, flight, subscribed, leaked>>
    BY <1>2 DEF AdmitReturns
  <2> QED BY <2>1, <2>2, <2>3, <2>4, ListeningKept
<1>3. ASSUME NEW c \in Conns, Teardown(c) PROVE Listening'
  <2> DEFINE e == [op |-> "release", conn |-> c]
  <2>1. e \in Operation
    BY DEF Operation
  <2>2. UNCHANGED ops \/ ops' = [ops EXCEPT ![Home[c]] = Append(@, e)]
    BY <1>3 DEF Teardown, Queued
  <2>3. \A x \in Conns : at'[x] = "open" => at[x] = "open"
    BY <1>3 DEF Teardown, TypeOK
  <2>4. UNCHANGED <<listeners, flight, subscribed, leaked>>
    BY <1>3 DEF Teardown
  <2> QED BY <2>1, <2>2, <2>3, <2>4, ListeningKept
<1>4. ASSUME NEW p \in Pods, Retain(p) PROVE Listening'
  <2> DEFINE c == Head(ops[p]).conn
  <2>0. ops[p] # <<>> /\ Head(ops[p]).op = "retain" /\ ~flight[p] /\ c \in Conns
    BY <1>4, HeadConn DEF Retain, Next1
  <2>1. CASE listeners[p] \subseteq {c}
    <3>1. /\ listeners' = [listeners EXCEPT ![p] = @ \cup {c}]
          /\ flight' = [flight EXCEPT ![p] = TRUE]
          /\ UNCHANGED <<at, ops, subscribed, leaked>>
      BY <1>4, <2>1 DEF Retain
    <3> QED BY <1>0, <2>0, <2>1, <3>1 DEF Listening, TypeOK
  <2>2. CASE ~(listeners[p] \subseteq {c})
    <3>1. /\ Retained(c, Tail(ops[p])) /\ UNCHANGED <<flight, subscribed, leaked>>
          /\ listeners' = [listeners EXCEPT ![p] = @ \cup {c}]
      BY <1>4, <2>2 DEF Retain
    <3>2. p \in subscribed \cup leaked
      BY <2>0, <2>2 DEF Listening
    <3>3. flight' = [flight EXCEPT ![p] = FALSE]
      BY <2>0, <3>1 DEF TypeOK
    <3> QED BY <2>0, <3>1, <3>2, <3>3, RetainedListening
  <2> QED BY <2>1, <2>2
<1>5. ASSUME NEW p \in Pods, Subscribe(p) PROVE Listening'
  <2> DEFINE c == Head(ops[p]).conn
  <2>0. ops[p] # <<>> /\ Head(ops[p]).op = "retain" /\ flight[p]
    BY <1>5 DEF Subscribe, InFlight
  <2>1. listeners[p] = {c}
    BY <2>0 DEF Listening
  <2>2. listeners' = [listeners EXCEPT ![p] = @ \cup {c}]
    BY <1>5, <2>1 DEF Subscribe, TypeOK
  <2> QED BY <1>5, <2>0, <2>2, RetainedListening DEF Subscribe, InFlight
<1>6. ASSUME NEW p \in Pods, SubscribeFails(p) PROVE Listening'
  <2>1. /\ UNCHANGED <<listeners, subscribed>> /\ leaked' = leaked \cup {p}
        /\ flight' = [flight EXCEPT ![p] = FALSE]
        /\ ops' = [ops EXCEPT ![p] = Tail(@)]
        /\ at' = [at EXCEPT ![Head(ops[p]).conn] = "over"]
    BY <1>6 DEF SubscribeFails, InFlight
  <2> QED BY <2>1 DEF Listening, TypeOK
<1>7. ASSUME NEW p \in Pods, Release(p) PROVE Listening'
  <2> DEFINE c == Head(ops[p]).conn
             left == listeners[p] \ {c}
  <2>0. ops[p] # <<>> /\ Head(ops[p]).op = "release" /\ ~flight[p] /\ c \in Conns
    BY <1>7, HeadConn DEF Release, Next1
  <2>1. /\ listeners' = [listeners EXCEPT ![p] = left]
        /\ UNCHANGED <<at, subscribed, leaked>>
    BY <1>7 DEF Release, body
  <2>2. at[c] = "over"
    BY <2>0, <2>1, HeadEnds
  <2>3. \A x \in Conns : at'[x] = "open" => x \in listeners'[Home[x]]
    BY <1>0, <2>1, <2>2 DEF Listening, TypeOK
  <2>4. CASE listeners[p] # {} /\ left = {}
    <3>1. flight' = [flight EXCEPT ![p] = TRUE] /\ UNCHANGED ops
      BY <1>7, <2>4 DEF Release
    <3> QED BY <2>0, <2>1, <2>3, <2>4, <3>1 DEF Listening, TypeOK
  <2>5. CASE ~(listeners[p] # {} /\ left = {})
    <3>1. UNCHANGED flight /\ ops' = [ops EXCEPT ![p] = Tail(@)]
      BY <1>7, <2>5 DEF Release
    <3> QED BY <2>0, <2>1, <2>3, <2>5, <3>1 DEF Listening, TypeOK
  <2> QED BY <2>4, <2>5
<1>8. ASSUME NEW p \in Pods, Unsubscribe(p) \/ UnsubscribeFails(p) PROVE Listening'
  <2>0. ops[p] # <<>> /\ Head(ops[p]).op = "release" /\ flight[p]
    BY <1>8 DEF Unsubscribe, UnsubscribeFails, InFlight
  <2>1. listeners[p] = {}
    BY <2>0 DEF Listening
  <2>2. /\ UNCHANGED <<at, listeners, leaked>> /\ subscribed \ {p} \subseteq subscribed'
        /\ flight' = [flight EXCEPT ![p] = FALSE]
        /\ ops' = [ops EXCEPT ![p] = Tail(@)]
    BY <1>8 DEF Unsubscribe, UnsubscribeFails, InFlight, body
  <2> QED BY <2>1, <2>2 DEF Listening, TypeOK
<1>9. ASSUME NEW p \in Pods, KillPod(p) PROVE Listening'
  <2>1. /\ listeners' = [listeners EXCEPT ![p] = {}]
        /\ flight' = [flight EXCEPT ![p] = FALSE]
        /\ ops' = [ops EXCEPT ![p] = <<>>]
        /\ subscribed \ {p} \subseteq subscribed' /\ leaked \ {p} \subseteq leaked'
        /\ \A x \in Conns : at'[x] = "open" => at[x] = "open" /\ Home[x] # p
    BY <1>9 DEF KillPod, TypeOK
  <2> QED BY <1>0, <2>1 DEF Listening, TypeOK
<1>10. CASE SetExpires \/ UNCHANGED vars
  BY <1>10 DEF SetExpires, vars, body, channel, Listening
<1> QED BY <1>1, <1>2, <1>3, <1>4, <1>5, <1>6, <1>7, <1>8, <1>9, <1>10 DEF Next

LEMMA ChannelInit ==
    StreamAssumption /\ Init => OpenInv /\ Chains /\ Listening
<1> SUFFICES ASSUME Init PROVE OpenInv /\ Chains /\ Listening
  OBVIOUS
<1>1. OpenInv /\ Listening
  BY DEF Init, OpenInv, Listening
<1>2. Chains
  BY DEF Init, Chains, ChainOK
<1> QED BY <1>1, <1>2

\* A connection that is open has its pod subscribed to the user's channel, for
\* any number of connections and pods and whatever fails, but for the listener
\* that a failed SUBSCRIBE leaves behind.
THEOREM OpenIsSubscribedCorrect == Spec => []OpenIsSubscribed
<1> DEFINE Inv == TypeOK /\ OpenInv /\ Chains /\ Listening
<1>0. StreamAssumption
  BY StreamAssumption
<1>1. Init => Inv
  BY <1>0, TypeInit, ChannelInit
<1>2. Inv /\ [Next]_vars => Inv'
  BY <1>0, TypeStep, OpenStep, ChainsStep, ListeningStep
<1>3. Inv => OpenIsSubscribed
  <2> SUFFICES ASSUME Inv, NEW c \in Conns, at[c] = "open"
               PROVE  Home[c] \in subscribed \cup leaked
    BY DEF OpenIsSubscribed
  <2>1. Home[c] \in Pods /\ c \in listeners[Home[c]]
    BY <1>0 DEF StreamAssumption, Listening
  <2>2. CASE ~flight[Home[c]]
    BY <2>1, <2>2 DEF Listening
  <2>3. CASE flight[Home[c]]
    <3> DEFINE q == ops[Home[c]]
    <3>1. q # <<>> /\ Head(q) \in Operation
      BY <2>1, <2>3, HeadConn DEF Listening
    <3>2. Head(q).op = "retain" => at[Head(q).conn] = "retaining"
      BY <2>1, <3>1, InChain, TailItems DEF ChainOK
    <3>3. CASE Head(q).op = "retain"
      BY <2>1, <2>3, <3>2, <3>3 DEF Listening
    <3>4. CASE Head(q).op = "release"
      BY <2>1, <2>3, <3>4 DEF Listening
    <3> QED BY <3>1, <3>3, <3>4 DEF Operation
  <2> QED BY <2>2, <2>3
<1> QED BY <1>1, <1>2, <1>3, PTL DEF Spec
-----------------------------------------------------------------------------
(* The cap on a user's streams.                                            *)

\* A stream that is counted has a fresh slot, and there are no more fresh slots
\* than the cap but those of the exempt.
CapInv ==
    /\ Live \ exempt \subseteq slots \ stale
    /\ Cardinality((slots \ stale) \ exempt) =< Cap

\* Subsets of the connections are finite.
LEMMA FewerConns ==
    ASSUME StreamAssumption, NEW S, NEW T, T \subseteq Conns, S \subseteq T
    PROVE  /\ IsFiniteSet(S) /\ Cardinality(S) \in Nat /\ Cardinality(T) \in Nat
           /\ Cardinality(S) =< Cardinality(T)
<1>1. IsFiniteSet(Conns)
  BY FS_Interval DEF StreamAssumption, Conns
<1>2. IsFiniteSet(T)
  BY <1>1, FS_Subset
<1> QED BY <1>2, FS_Subset, FS_CardinalityType

\* Nobody new is counted.
LEMMA CapKept ==
    ASSUME TypeOK, StreamAssumption, CapInv,
           (slots' \ stale') \ exempt' \subseteq (slots \ stale) \ exempt,
           Live' \ exempt' \subseteq slots' \ stale'
    PROVE  CapInv'
<1>1. (slots \ stale) \ exempt \subseteq Conns
  BY DEF TypeOK
<1>2. Cardinality((slots' \ stale') \ exempt') =< Cardinality((slots \ stale) \ exempt)
  BY <1>1, FewerConns
<1>3. /\ Cardinality((slots' \ stale') \ exempt') \in Nat
      /\ Cardinality((slots \ stale) \ exempt) \in Nat
  BY <1>1, FewerConns
<1> QED BY <1>2, <1>3 DEF CapInv, StreamAssumption

\* ADMIT_SCRIPT counts before it adds, in one step.
LEMMA AdmitCap ==
    ASSUME TypeOK, StreamAssumption, CapInv, NEW c \in Conns, Admit(c)
    PROVE  CapInv'
<1>1. PICK admitted \in BOOLEAN :
          /\ AdmitScript(c, admitted)
          /\ at' = [at EXCEPT ![c] = IF admitted THEN "admitted" ELSE "refused"]
  BY DEF Admit
<1>2. UNCHANGED <<disposed, exempt>> /\ at[c] = "admitting"
  BY DEF Admit
<1> DEFINE counted == slots \ stale
<1>3. stale' = {} /\ admitted = (Cardinality(counted) < Cap)
      /\ slots' = IF admitted THEN counted \cup {c} ELSE counted
  BY <1>1 DEF AdmitScript
<1>4. Live' \ exempt' \subseteq slots' \ stale'
  BY <1>1, <1>2, <1>3 DEF Live, CapInv, TypeOK
<1>5. CASE ~admitted
  BY <1>2, <1>3, <1>4, <1>5, CapKept
<1>6. CASE admitted
  <2>1. counted \subseteq Conns /\ slots' = counted \cup {c} /\ Cardinality(counted) < Cap
    BY <1>3, <1>6 DEF TypeOK
  <2>2. IsFiniteSet(counted) /\ Cardinality(counted) \in Nat
    BY <2>1, FewerConns
  <2>3. /\ Cardinality(counted \cup {c}) \in Nat
        /\ Cardinality(counted \cup {c}) =< Cardinality(counted) + 1
    <3>1. Cardinality(counted \cup {c}) =
              IF c \in counted THEN Cardinality(counted) ELSE Cardinality(counted) + 1
      BY <2>2, FS_AddElement
    <3> QED BY <2>2, <3>1
  <2>4. (slots' \ stale') \ exempt' \subseteq counted \cup {c}
    BY <2>1
  <2>5. /\ Cardinality((slots' \ stale') \ exempt') \in Nat
        /\ Cardinality((slots' \ stale') \ exempt') =< Cardinality(counted \cup {c})
    <3>1. counted \cup {c} \subseteq Conns
      BY <2>1
    <3> QED BY <2>4, <3>1, FewerConns
  <2>6. Cap \in Nat
    BY DEF StreamAssumption
  <2>7. Cardinality((slots' \ stale') \ exempt') =< Cap
    BY <2>1, <2>2, <2>3, <2>5, <2>6
  <2> QED BY <1>4, <2>7 DEF CapInv
<1> QED BY <1>5, <1>6

LEMMA CapStep ==
    ASSUME TypeOK, StreamAssumption, OpenInv, Chains, CapInv, [Next]_vars
    PROVE  CapInv'
<1>1. ASSUME UNCHANGED <<slots, stale, exempt>>, Live' \subseteq Live PROVE CapInv'
  BY <1>1, CapKept DEF CapInv
<1>2. ASSUME NEW c \in Conns, Connect(c) \/ Refuse(c) \/ AdmitReturns(c) \/ Teardown(c)
      PROVE  CapInv'
  <2>1. UNCHANGED <<slots, stale, exempt>>
    BY <1>2 DEF Connect, Refuse, AdmitReturns, Teardown, cap
  <2>2. Live' \subseteq Live
    BY <1>2 DEF Connect, Refuse, AdmitReturns, Teardown, Live, TypeOK
  <2> QED BY <1>1, <2>1, <2>2
<1>3. ASSUME NEW c \in Conns, Admit(c) PROVE CapInv'
  BY <1>3, AdmitCap
<1>4. ASSUME NEW c \in Conns, AdmitUnanswered(c) PROVE CapInv'
  <2>1. /\ exempt' = exempt \cup {c} /\ UNCHANGED disposed
        /\ slots \ stale \subseteq slots' \ stale'
        /\ slots' \ stale' \subseteq (slots \ stale) \cup {c}
    BY <1>4 DEF AdmitUnanswered, AdmitScript
  <2>2. Live' \subseteq Live \cup {c}
    BY <1>4, <2>1 DEF AdmitUnanswered, Live, TypeOK
  <2> QED BY <2>1, <2>2, CapKept DEF CapInv
<1>5. ASSUME NEW c \in Conns, ReleaseSlot(c) PROVE CapInv'
  <2>1. UNCHANGED <<at, disposed, exempt>> /\ c \in disposed
    BY <1>5 DEF ReleaseSlot, body, OpenInv
  <2>2. /\ slots' \ stale' \subseteq slots \ stale
        /\ (slots \ stale) \ {c} \subseteq slots' \ stale'
    BY <1>5 DEF ReleaseSlot
  <2>3. Live' = Live /\ c \notin Live
    BY <2>1 DEF Live
  <2> QED BY <2>1, <2>2, <2>3, CapKept DEF CapInv
<1>6. ASSUME NEW c \in Conns, Touch(c) PROVE CapInv'
  <2>1. UNCHANGED <<at, disposed, exempt>> /\ slots' \ stale' = (slots \ stale) \cup {c}
    BY <1>6 DEF Touch, body
  <2>2. c \in Live
    BY <1>6 DEF Touch, OpenInv, Live
  <2>3. Live' = Live
    BY <2>1 DEF Live
  <2> QED BY <2>1, <2>2, <2>3, CapKept DEF CapInv
<1>7. ASSUME NEW c \in Conns, GoStale(c) \/ MissHeartbeats(c) PROVE CapInv'
  <2>1. UNCHANGED <<at, disposed, slots>> /\ stale' = stale \cup {c}
    BY <1>7 DEF GoStale, MissHeartbeats, body
  <2>2. exempt \subseteq exempt' /\ (c \in Live => c \in exempt')
    BY <1>7 DEF GoStale, MissHeartbeats
  <2>3. Live' = Live
    BY <2>1 DEF Live
  <2> QED BY <2>1, <2>2, <2>3, CapKept DEF CapInv
<1>8. ASSUME NEW c \in Conns, NEW rest, Retained(c, rest), at[c] = "retaining",
             UNCHANGED disposed
      PROVE  Live' \subseteq Live
  BY <1>8 DEF Retained, Live, TypeOK
<1>9. ASSUME NEW p \in Pods, Retain(p) \/ Subscribe(p) PROVE CapInv'
  <2> DEFINE c == Head(ops[p]).conn
  <2>0. ops[p] # <<>> /\ Head(ops[p]).op = "retain"
    BY <1>9 DEF Retain, Next1, Subscribe, InFlight
  <2>1. c \in Conns /\ at[c] = "retaining"
    BY <2>0, HeadConn, InChain, TailItems DEF ChainOK
  <2>2. UNCHANGED <<slots, stale, exempt, disposed>>
    BY <1>9 DEF Retain, Subscribe, cap
  <2>3. UNCHANGED at \/ Retained(c, Tail(ops[p]))
    BY <1>9 DEF Retain, Subscribe
  <2>4. Live' \subseteq Live
    BY <1>8, <2>1, <2>2, <2>3 DEF Live
  <2> QED BY <1>1, <2>2, <2>4
<1>10. ASSUME NEW p \in Pods,
              Release(p) \/ Unsubscribe(p) \/ UnsubscribeFails(p)
       PROVE  CapInv'
  <2>1. UNCHANGED <<slots, stale, exempt, at, disposed>>
    BY <1>10 DEF Release, Unsubscribe, UnsubscribeFails, body, cap
  <2> QED BY <1>1, <2>1 DEF Live
<1>11. ASSUME NEW p \in Pods, SubscribeFails(p) \/ KillPod(p) PROVE CapInv'
  <2>1. UNCHANGED <<slots, stale, exempt>> /\ disposed \subseteq disposed'
    BY <1>11 DEF SubscribeFails, KillPod
  <2>2. \A x \in Conns : at'[x] = at[x] \/ at'[x] = "over"
    BY <1>11 DEF SubscribeFails, KillPod, TypeOK
  <2>3. Live' \subseteq Live
    BY <2>1, <2>2 DEF Live
  <2> QED BY <1>1, <2>1, <2>3
<1>12. CASE SetExpires
  <2>1. UNCHANGED <<at, disposed, exempt>> /\ slots = stale /\ slots' = {}
    BY <1>12 DEF SetExpires, body
  <2>2. Live' = Live
    BY <2>1 DEF Live
  <2> QED BY <2>1, <2>2, CapKept DEF CapInv
<1>13. CASE UNCHANGED vars
  BY <1>1, <1>13 DEF vars, body, cap, Live
<1> QED BY <1>2, <1>3, <1>4, <1>5, <1>6, <1>7, <1>9, <1>10, <1>11, <1>12, <1>13 DEF Next

\* Simultaneous connections never put more streams on the pods than the cap,
\* whatever the cap and the number of tabs, but for those admitted while Redis
\* failed or taken for dead.
THEOREM CapHolds == Spec => []CapRespected
<1> DEFINE Inv == TypeOK /\ OpenInv /\ Chains /\ CapInv
<1>0. StreamAssumption
  BY StreamAssumption
<1>1. Init => Inv
  <2> SUFFICES ASSUME Init PROVE Inv
    OBVIOUS
  <2>1. TypeOK /\ OpenInv /\ Chains
    BY <1>0, TypeInit, ChannelInit
  <2>2. Live = {} /\ (slots \ stale) \ exempt = {}
    BY DEF Init, Live
  <2>3. CapInv
    BY <1>0, <2>2, FS_EmptySet DEF CapInv, StreamAssumption
  <2> QED BY <2>1, <2>3
<1>2. Inv /\ [Next]_vars => Inv'
  BY <1>0, TypeStep, OpenStep, ChainsStep, CapStep
<1>3. Inv => CapRespected
  <2> SUFFICES ASSUME Inv PROVE Cardinality(Live \ exempt) =< Cap
    BY DEF CapRespected
  <2> DEFINE fresh == (slots \ stale) \ exempt
  <2>1. Live \ exempt \subseteq fresh /\ fresh \subseteq Conns
    BY DEF CapInv, TypeOK
  <2> HIDE DEF fresh
  <2>2. /\ Cardinality(Live \ exempt) =< Cardinality(fresh)
        /\ Cardinality(Live \ exempt) \in Nat /\ Cardinality(fresh) \in Nat
    BY <1>0, <2>1, FewerConns
  <2>3. Cardinality(fresh) =< Cap /\ Cap \in Nat
    BY <1>0 DEF CapInv, fresh, StreamAssumption
  <2> QED BY <2>2, <2>3
<1> QED BY <1>1, <1>2, <1>3, PTL DEF Spec
=============================================================================
