---------------------------- MODULE BrokerProofs ----------------------------
(***************************************************************************)
(* Proofs about Broker, for any number of messages, polls and losses.      *)
(***************************************************************************)
EXTENDS Broker, TLAPS

-----------------------------------------------------------------------------
(* Sequences without repetition. *)

Once(s) == \A i, j \in DOMAIN s : s[i] = s[j] => i = j

Rising(s) == \A i, j \in DOMAIN s : i < j => s[i] < s[j]

LEMMA OfEmpty == ToSet(<<>>) = {} /\ Once(<<>>) /\ Rising(<<>>)
  BY DEF ToSet, Once, Rising

LEMMA OfAppend ==
  ASSUME NEW S, NEW s \in Seq(S), NEW e \in S
  PROVE  /\ Append(s, e) \in Seq(S)
         /\ ToSet(Append(s, e)) = ToSet(s) \cup {e}
         /\ Once(s) /\ e \notin ToSet(s) => Once(Append(s, e))
         /\ (S \subseteq Nat /\ Rising(s) /\ \A x \in ToSet(s) : x < e)
               => Rising(Append(s, e))
<1>1. /\ Append(s, e) \in Seq(S) /\ Len(Append(s, e)) = Len(s) + 1
      /\ DOMAIN Append(s, e) = 1..(Len(s) + 1) /\ DOMAIN s = 1..Len(s)
      /\ \A i \in 1..Len(s) : Append(s, e)[i] = s[i]
      /\ Append(s, e)[Len(s) + 1] = e /\ Len(s) \in Nat
  OBVIOUS
<1>2. \A i \in 1..(Len(s) + 1) : i \in 1..Len(s) \/ i = Len(s) + 1
  BY <1>1
<1>3. ToSet(Append(s, e)) = ToSet(s) \cup {e}
  <2>1. ToSet(Append(s, e)) \subseteq ToSet(s) \cup {e}
    BY <1>1, <1>2 DEF ToSet
  <2>2. e \in ToSet(Append(s, e))
    BY <1>1 DEF ToSet
  <2>3. ToSet(s) \subseteq ToSet(Append(s, e))
    BY <1>1 DEF ToSet
  <2> QED
    BY <2>1, <2>2, <2>3
<1>4. ASSUME Once(s), e \notin ToSet(s) PROVE Once(Append(s, e))
  BY <1>1, <1>2, <1>4 DEF Once, ToSet
<1>5. ASSUME S \subseteq Nat, Rising(s), \A x \in ToSet(s) : x < e
      PROVE  Rising(Append(s, e))
  <2> SUFFICES ASSUME NEW i \in 1..(Len(s) + 1), NEW j \in 1..(Len(s) + 1), i < j
               PROVE  Append(s, e)[i] < Append(s, e)[j]
    BY <1>1 DEF Rising
  <2>1. i \in 1..Len(s)
    BY <1>1
  <2>2. s[i] \in ToSet(s)
    BY <1>1, <2>1 DEF ToSet
  <2> QED
    BY <1>1, <1>2, <1>5, <2>1, <2>2 DEF Rising
<1> QED
  BY <1>1, <1>3, <1>4, <1>5

\* The same of numbers, in the form it is used below.
LEMMA OfAppendRising ==
  ASSUME NEW n \in Nat, NEW s \in Seq(1..n), NEW e \in 1..n,
         Rising(s), \A x \in ToSet(s) : x < e
  PROVE  Rising(Append(s, e))
<1>1. 1..n \subseteq Nat
  OBVIOUS
<1> QED
  BY <1>1, OfAppend

LEMMA OfTail ==
  ASSUME NEW S, NEW s \in Seq(S), s # <<>>
  PROVE  /\ Head(s) \in S /\ Tail(s) \in Seq(S)
         /\ ToSet(s) = ToSet(Tail(s)) \cup {Head(s)}
         /\ Once(s) => Once(Tail(s)) /\ Head(s) \notin ToSet(Tail(s))
         /\ Rising(s) => Rising(Tail(s)) /\ \A x \in ToSet(Tail(s)) : Head(s) < x
<1>1. /\ Head(s) = s[1] /\ Head(s) \in S /\ Tail(s) \in Seq(S)
      /\ Len(s) \in Nat \ {0} /\ Len(Tail(s)) = Len(s) - 1
      /\ DOMAIN s = 1..Len(s) /\ DOMAIN Tail(s) = 1..(Len(s) - 1)
      /\ \A i \in 1..(Len(s) - 1) : Tail(s)[i] = s[i + 1]
  OBVIOUS
<1>2. \A i \in 1..Len(s) : i = 1 \/ (i - 1 \in 1..(Len(s) - 1) /\ s[i] = Tail(s)[i - 1])
  BY <1>1
<1>3. ToSet(s) = ToSet(Tail(s)) \cup {Head(s)}
  <2>1. ASSUME NEW i \in DOMAIN s PROVE s[i] \in ToSet(Tail(s)) \cup {Head(s)}
    <3>1. CASE i = 1
      BY <1>1, <3>1
    <3>2. CASE i # 1
      <4>1. i - 1 \in DOMAIN Tail(s) /\ s[i] = Tail(s)[i - 1]
        BY <1>1, <1>2, <3>2
      <4> QED
        BY <4>1 DEF ToSet
    <3> QED
      BY <3>1, <3>2
  <2>2. Head(s) \in ToSet(s)
    BY <1>1 DEF ToSet
  <2>3. ToSet(Tail(s)) \subseteq ToSet(s)
    <3>1. \A i \in 1..(Len(s) - 1) : i + 1 \in 1..Len(s)
      BY <1>1
    <3> QED
      BY <1>1, <3>1 DEF ToSet
  <2> QED
    BY <2>1, <2>2, <2>3 DEF ToSet
<1>4. ASSUME Once(s) PROVE Once(Tail(s)) /\ Head(s) \notin ToSet(Tail(s))
  <2>1. \A i \in 1..(Len(s) - 1) : i + 1 \in 1..Len(s) /\ i + 1 # 1
    BY <1>1
  <2>2. Once(Tail(s))
    BY <1>1, <1>4, <2>1 DEF Once
  <2>3. \A i \in 1..(Len(s) - 1) : Tail(s)[i] # s[1]
    BY <1>1, <1>4, <2>1 DEF Once
  <2> QED
    BY <1>1, <2>2, <2>3 DEF ToSet
<1>5. ASSUME Rising(s)
      PROVE  Rising(Tail(s)) /\ \A x \in ToSet(Tail(s)) : Head(s) < x
  <2>1. \A i \in 1..(Len(s) - 1) : i + 1 \in 1..Len(s) /\ 1 < i + 1
    BY <1>1
  <2>2. \A i, j \in 1..(Len(s) - 1) : i < j => i + 1 < j + 1
    BY <1>1
  <2>3. Rising(Tail(s))
    BY <1>1, <1>5, <2>1, <2>2 DEF Rising
  <2>4. \A i \in 1..(Len(s) - 1) : s[1] < Tail(s)[i]
    <3>1. 1 \in 1..Len(s)
      BY <1>1
    <3> QED
      BY <1>1, <1>5, <2>1, <3>1 DEF Rising
  <2> QED
    BY <1>1, <2>3, <2>4 DEF ToSet
<1> QED
  BY <1>1, <1>3, <1>4, <1>5

LEMMA OfConcat ==
  ASSUME NEW S, NEW s \in Seq(S), NEW t \in Seq(S)
  PROVE  /\ s \o t \in Seq(S)
         /\ ToSet(s \o t) = ToSet(s) \cup ToSet(t)
         /\ Once(s) /\ Once(t) /\ ToSet(s) \cap ToSet(t) = {} => Once(s \o t)
<1>1. /\ s \o t \in Seq(S) /\ Len(s) \in Nat /\ Len(t) \in Nat
      /\ DOMAIN (s \o t) = 1..(Len(s) + Len(t))
      /\ DOMAIN s = 1..Len(s) /\ DOMAIN t = 1..Len(t)
      /\ \A i \in 1..(Len(s) + Len(t)) :
            (s \o t)[i] = IF i <= Len(s) THEN s[i] ELSE t[i - Len(s)]
  OBVIOUS
<1>2. \A i \in 1..(Len(s) + Len(t)) :
         \/ i \in 1..Len(s) /\ (s \o t)[i] = s[i]
         \/ i - Len(s) \in 1..Len(t) /\ (s \o t)[i] = t[i - Len(s)] /\ ~(i \in 1..Len(s))
  BY <1>1
<1>3. \A i \in 1..Len(s) : i \in 1..(Len(s) + Len(t)) /\ (s \o t)[i] = s[i]
  BY <1>1
<1>4. \A i \in 1..Len(t) : /\ i + Len(s) \in 1..(Len(s) + Len(t))
                           /\ (s \o t)[i + Len(s)] = t[i]
  BY <1>1
<1>5. ToSet(s \o t) = ToSet(s) \cup ToSet(t)
  <2>1. ASSUME NEW i \in DOMAIN (s \o t) PROVE (s \o t)[i] \in ToSet(s) \cup ToSet(t)
    <3>1. CASE i \in DOMAIN s
      BY <1>1, <1>3, <3>1 DEF ToSet
    <3>2. CASE i \notin DOMAIN s
      <4>1. i - Len(s) \in DOMAIN t /\ (s \o t)[i] = t[i - Len(s)]
        BY <1>1, <1>2, <3>2
      <4> QED
        BY <4>1 DEF ToSet
    <3> QED
      BY <3>1, <3>2
  <2>2. ASSUME NEW i \in DOMAIN s PROVE s[i] \in ToSet(s \o t)
    BY <1>1, <1>3 DEF ToSet
  <2>3. ASSUME NEW i \in DOMAIN t PROVE t[i] \in ToSet(s \o t)
    <3>1. i + Len(s) \in DOMAIN (s \o t) /\ (s \o t)[i + Len(s)] = t[i]
      BY <1>1, <1>4
    <3> QED
      BY <3>1 DEF ToSet
  <2> QED
    BY <2>1, <2>2, <2>3 DEF ToSet
<1>6. ASSUME Once(s), Once(t), ToSet(s) \cap ToSet(t) = {} PROVE Once(s \o t)
  <2> SUFFICES ASSUME NEW i \in 1..(Len(s) + Len(t)), NEW j \in 1..(Len(s) + Len(t)),
                      (s \o t)[i] = (s \o t)[j]
               PROVE  i = j
    BY <1>1 DEF Once
  <2>1. CASE i \in 1..Len(s) /\ j \in 1..Len(s)
    BY <1>1, <1>3, <1>6, <2>1 DEF Once
  <2>2. CASE ~(i \in 1..Len(s)) /\ ~(j \in 1..Len(s))
    <3>1. i - Len(s) = j - Len(s)
      BY <1>1, <1>2, <1>6, <2>2 DEF Once
    <3> QED
      BY <1>1, <3>1
  <2>3. ASSUME NEW k \in 1..(Len(s) + Len(t)), NEW l \in 1..(Len(s) + Len(t)),
               k \in 1..Len(s), ~(l \in 1..Len(s))
        PROVE  (s \o t)[k] # (s \o t)[l]
    <3>1. (s \o t)[k] \in ToSet(s)
      BY <1>1, <1>3, <2>3 DEF ToSet
    <3>2. l - Len(s) \in DOMAIN t /\ (s \o t)[l] = t[l - Len(s)]
      BY <1>1, <1>2, <2>3
    <3>3. (s \o t)[l] \in ToSet(t)
      BY <3>2 DEF ToSet
    <3> QED
      BY <1>6, <3>1, <3>3
  <2> QED
    BY <2>1, <2>2, <2>3
<1> QED
  BY <1>1, <1>5, <1>6

-----------------------------------------------------------------------------
(* The invariant, in three parts, each inductive with those before it. *)

\* The connection is there, or Redis' client is about to mend it.
Up == conn.st = "open" \/ (kind = "redis" /\ conn.st = "down")

\* What the connection, the call of subscribe and the polls have to do with
\* each other.
Linked ==
  /\ kind = "web" => conn = NoConn /\ wire = <<>> /\ call \in {"none", "done"}
  /\ kind # "web" => held = <<>> /\ poll = [p \in Polls |-> NoPoll] /\ ~polling
  /\ \A p \in Polls : poll[p].st # "answered" => poll[p].msgs = <<>>
  /\ conn.st = "opening" <=> call = "connecting"
  /\ conn.st # "open" => wire = <<>>
  /\ call = "listening" => Up
  /\ call = "confirming" => conn.st = "open" /\ conn.listens
  /\ call \in {"listening", "confirming"} => ~subscribed
  /\ intact /\ Up => conn.handler
  /\ kind # "web" /\ intact /\ subscribed => Up /\ conn.listens

Below(S, T) == \A x \in S, y \in T : x < y

\* Over a connection: what was taken is older than what is queued, and that than
\* what travels.
InOrder ==
  kind # "web" =>
    /\ Rising(queue) /\ Rising(wire)
    /\ Below(ToSet(taken), ToSet(queue))
    /\ Below(ToSet(taken), ToSet(wire))
    /\ Below(ToSet(queue), ToSet(wire))

Apart(s, t) == ToSet(s) \cap ToSet(t) = {}

\* With polls: a message is in one place, once.
InOnePlace ==
  kind = "web" =>
    /\ Once(held) /\ Once(queue) /\ \A p \in Polls : Once(poll[p].msgs)
    /\ Apart(taken, queue) /\ Apart(taken, held) /\ Apart(queue, held)
    /\ \A p \in Polls : /\ Apart(poll[p].msgs, taken)
                        /\ Apart(poll[p].msgs, queue)
                        /\ Apart(poll[p].msgs, held)
    /\ \A p, q \in Polls : p # q => Apart(poll[p].msgs, poll[q].msgs)

\* Every message that is anywhere was published.
Published ==
  /\ ToSet(wire) \subseteq 1..sent /\ ToSet(held) \subseteq 1..sent
  /\ ToSet(queue) \subseteq 1..sent /\ ToSet(taken) \subseteq 1..sent
  /\ \A p \in Polls : ToSet(poll[p].msgs) \subseteq 1..sent

Places == Published /\ InOrder /\ InOnePlace

\* No message has to be taken while no subscribe is resolved, nor one that comes
\* to a connection without a handler.
Owed ==
  /\ ~subscribed => due = {}
  /\ ~conn.handler => due \cap ToSet(wire) = {}
  /\ NoneForgotten

-----------------------------------------------------------------------------
(* Types. *)

LEMMA TypeInit == Init => TypeOK
<1> SUFFICES ASSUME Init PROVE TypeOK
  OBVIOUS
<1>1. <<>> \in MsgSeq
  BY DEF MsgSeq
<1>2. NoPoll \in [st : {"free", "asked", "answered"}, msgs : MsgSeq]
  BY <1>1 DEF NoPoll
<1>3. 0 \in 0..MaxMsg /\ 0 \in 0..MaxDrop
  BY BrokerAssumption DEF BrokerAssumption
<1> QED
  BY <1>1, <1>2, <1>3 DEF Init, TypeOK, NoConn

LEMMA TypeStep == TypeOK /\ [Next]_vars => TypeOK'
<1> SUFFICES ASSUME TypeOK, [Next]_vars PROVE TypeOK'
  OBVIOUS
<1> USE BrokerAssumption DEF BrokerAssumption
<1>e. <<>> \in MsgSeq
  BY DEF MsgSeq
<1>t. ASSUME NEW s \in MsgSeq, s # <<>>
      PROVE  Head(s) \in 1..MaxMsg /\ Tail(s) \in MsgSeq
  BY <1>t, OfTail DEF MsgSeq
<1>a. ASSUME NEW s \in MsgSeq, NEW e \in 1..MaxMsg PROVE Append(s, e) \in MsgSeq
  BY OfAppend DEF MsgSeq
<1>c. ASSUME NEW s \in MsgSeq, NEW t \in MsgSeq PROVE s \o t \in MsgSeq
  BY OfConcat DEF MsgSeq
<1>d. Lost => drops' \in 0..MaxDrop
  BY DEF Lost, TypeOK
<1>1. CASE Subscribe
  BY <1>1, <1>e DEF Subscribe, TypeOK, NoConn, AfterConnect, connVars, webVars, history
<1>2. CASE Connected
  BY <1>2 DEF Connected, TypeOK, AfterConnect, webVars, history
<1>3. CASE ConnectFails
  <2>1. /\ conn' \in [st : {"none", "opening", "open", "down"},
                      listens : BOOLEAN, handler : BOOLEAN]
        /\ intact' \in BOOLEAN
    <3>1. conn' = [conn EXCEPT !.st = "down"] \/ conn' = NoConn
      BY <1>3 DEF ConnectFails
    <3>2. intact' = FALSE \/ intact' = intact
      BY <1>3 DEF ConnectFails
    <3>3. intact' \in BOOLEAN
      BY <3>2, Zenon DEF TypeOK
    <3>4. conn' \in [st : {"none", "opening", "open", "down"},
                     listens : BOOLEAN, handler : BOOLEAN]
      <4>1. CASE conn' = [conn EXCEPT !.st = "down"]
        BY <4>1 DEF TypeOK
      <4>2. CASE conn' = NoConn
        BY <4>2 DEF NoConn
      <4> QED
        BY <3>1, <4>1, <4>2
    <3> QED
      BY <3>3, <3>4
  <2> QED
    BY <1>3, <1>d, <2>1 DEF ConnectFails, TypeOK, webVars
<1>4. CASE Listen
  BY <1>4 DEF Listen, TypeOK, webVars, history
<1>5. CASE ListenFails
  BY <1>5, <1>d DEF ListenFails, TypeOK, connVars, webVars
<1>6. CASE Confirm
  BY <1>6, <1>e DEF Confirm, TypeOK, connVars, webVars, history
<1>7. CASE Publish
  <2>1. sent + 1 \in 1..MaxMsg
    BY <1>7 DEF Publish, TypeOK
  <2>2. Append(wire, sent + 1) \in MsgSeq /\ Append(held, sent + 1) \in MsgSeq
    BY <1>a, <2>1 DEF TypeOK
  <2>3. due' \subseteq 1..sent' /\ sent' \in 0..MaxMsg
    BY <1>7 DEF Publish, TypeOK
  <2> QED
    BY <1>7, <2>2, <2>3 DEF Publish, TypeOK
<1>8. CASE Receive
  <2>1. wire' \in MsgSeq /\ queue' \in MsgSeq
    BY <1>8, <1>t, <1>a DEF Receive, TypeOK
  <2> QED
    BY <1>8, <2>1 DEF Receive, TypeOK, webVars, history
<1>9. CASE Drop
  <2>1. conn' \in [st : {"none", "opening", "open", "down"},
                   listens : BOOLEAN, handler : BOOLEAN]
    BY <1>9 DEF Drop, TypeOK
  <2>2. intact' \in BOOLEAN
    BY <1>9 DEF Drop, TypeOK
  <2>3. due' \subseteq 1..sent /\ drops' \in 0..MaxDrop
    BY <1>9, <1>d DEF Drop, TypeOK
  <2>4. call' \in {"none", "connecting", "listening", "confirming", "done", "failed"}
    BY <1>9 DEF Drop, TypeOK
  <2> QED
    BY <1>9, <1>e, <2>1, <2>2, <2>3, <2>4 DEF Drop, TypeOK, webVars
<1>10. CASE Reconnect
  BY <1>10 DEF Reconnect, TypeOK, webVars, history
<1>11. CASE Close
  BY <1>11, <1>e DEF Close, TypeOK, NoConn, webVars
<1>12. CASE SubscribeWeb
  BY <1>12, <1>e DEF SubscribeWeb, TypeOK, connVars, history
<1>13. CASE CloseWeb
  BY <1>13, <1>e DEF CloseWeb, TypeOK, connVars
<1>14. CASE Take
  <2>1. queue' \in MsgSeq /\ taken' \in MsgSeq
    BY <1>14, <1>t, <1>a DEF Take, TypeOK
  <2> QED
    BY <1>14, <2>1 DEF Take, TypeOK, connVars, webVars
<1>15. ASSUME NEW p \in Polls, PollSteps(p) PROVE TypeOK'
  <2>1. CASE Poll(p)
    BY <2>1 DEF Poll, TypeOK, connVars, history
  <2>2. CASE Serve(p)
    BY <2>2, <1>e DEF Serve, TypeOK, connVars, history
  <2>3. CASE Answer(p)
    <3>1. queue' \in MsgSeq
      BY <2>3, <1>c DEF Answer, TypeOK
    <3> QED
      BY <2>3, <1>e, <3>1 DEF Answer, NoPoll, TypeOK, connVars, history
  <2>4. CASE PollFails(p)
    BY <2>4, <1>d, <1>e DEF PollFails, NoPoll, TypeOK, connVars
  <2> QED
    BY <1>15, <2>1, <2>2, <2>3, <2>4 DEF PollSteps
<1>16. CASE UNCHANGED vars
  BY <1>16 DEF vars, connVars, webVars, history, TypeOK
<1> QED
  BY <1>1, <1>2, <1>3, <1>4, <1>5, <1>6, <1>7, <1>8, <1>9, <1>10, <1>11, <1>12,
     <1>13, <1>14, <1>15, <1>16 DEF Next

\* Every variable has its type in every state.
THEOREM TypeCorrect == Spec => []TypeOK
  BY TypeInit, TypeStep, PTL DEF Spec

-----------------------------------------------------------------------------
(* Connection, call and polls. *)

LEMMA LinkedInit == Init => Linked
  BY DEF Init, Linked, NoConn, NoPoll, Up

LEMMA LinkedStep == TypeOK /\ Linked /\ [Next]_vars => Linked'
<1> SUFFICES ASSUME TypeOK, Linked, [Next]_vars PROVE Linked'
  OBVIOUS
<1> USE DEF Linked, TypeOK, Up
<1>1. CASE Subscribe
  BY <1>1 DEF Subscribe, IsConnected, Idle, NoConn, AfterConnect, connVars, webVars, history
<1>2. CASE Connected
  BY <1>2 DEF Connected, AfterConnect, webVars, history
<1>3. CASE ConnectFails
  BY <1>3 DEF ConnectFails, NoConn, webVars
<1>4. CASE Listen
  BY <1>4 DEF Listen, webVars, history
<1>5. CASE ListenFails
  BY <1>5 DEF ListenFails, connVars, webVars
<1>6. CASE Confirm
  BY <1>6 DEF Confirm, connVars, webVars, history
<1>7. CASE Publish
  BY <1>7 DEF Publish
<1>8. CASE Receive
  BY <1>8 DEF Receive, webVars, history
<1>9. CASE Drop
  BY <1>9 DEF Drop, webVars
<1>10. CASE Reconnect
  BY <1>10 DEF Reconnect, webVars, history
<1>11. CASE Close
  BY <1>11 DEF Close, Idle, NoConn, webVars
<1>12. CASE SubscribeWeb
  BY <1>12 DEF SubscribeWeb, connVars, NoConn, history
<1>13. CASE CloseWeb
  BY <1>13 DEF CloseWeb, connVars, NoConn
<1>14. CASE Take
  BY <1>14 DEF Take, connVars, webVars
<1>15. ASSUME NEW p \in Polls, PollSteps(p) PROVE Linked'
  <2>0. kind = "web"
    <3> SUFFICES ASSUME kind # "web" PROVE FALSE
      OBVIOUS
    <3>1. poll[p].st = "free" /\ ~polling
      BY DEF NoPoll
    <3> QED
      BY <1>15, <3>1 DEF PollSteps, Poll, Serve, Answer, PollFails
  <2>1. CASE Poll(p)
    BY <2>0, <2>1 DEF Poll, connVars, history
  <2>2. CASE Serve(p)
    BY <2>0, <2>2 DEF Serve, connVars, history
  <2>3. CASE Answer(p)
    BY <2>0, <2>3 DEF Answer, NoPoll, connVars, history
  <2>4. CASE PollFails(p)
    BY <2>0, <2>4 DEF PollFails, NoPoll, connVars
  <2> QED
    BY <1>15, <2>1, <2>2, <2>3, <2>4 DEF PollSteps
<1>16. CASE UNCHANGED vars
  BY <1>16 DEF vars, connVars, webVars, history
<1> QED
  BY <1>1, <1>2, <1>3, <1>4, <1>5, <1>6, <1>7, <1>8, <1>9, <1>10, <1>11, <1>12,
     <1>13, <1>14, <1>15, <1>16 DEF Next

-----------------------------------------------------------------------------
(* Messages: in the order of their numbers, or each in one place. *)

LEMMA PlacesInit == Init => Places
<1> SUFFICES ASSUME Init PROVE Places
  OBVIOUS
<1>1. \A p \in Polls : poll[p].msgs = <<>>
  BY DEF Init, NoPoll
<1> QED
  BY <1>1, OfEmpty DEF Init, Places, Published, InOrder, InOnePlace, Below, Apart

\* Messages that only disappear disturb nothing.
LEMMA Fewer ==
  ASSUME Places,
         kind' = kind, sent' = sent, held' = held, taken' = taken,
         wire' = wire \/ wire' = <<>>, queue' = queue \/ queue' = <<>>,
         \A p \in Polls : poll'[p].msgs = poll[p].msgs \/ poll'[p].msgs = <<>>
  PROVE  Places'
<1>1. /\ ToSet(wire') \subseteq ToSet(wire) /\ ToSet(queue') \subseteq ToSet(queue)
      /\ \A p \in Polls : ToSet(poll'[p].msgs) \subseteq ToSet(poll[p].msgs)
  BY OfEmpty
<1>2. Published'
  BY <1>1 DEF Places, Published
<1>3. InOrder'
  BY <1>1, OfEmpty DEF Places, InOrder, Below
<1>4. ASSUME kind = "web" PROVE InOnePlace'
  <2>1. Once(held') /\ Once(queue') /\ \A p \in Polls : Once(poll'[p].msgs)
    BY <1>4, OfEmpty DEF Places, InOnePlace
  <2>2. Apart(taken, queue)' /\ Apart(taken, held)' /\ Apart(queue, held)'
    BY <1>1, <1>4 DEF Places, InOnePlace, Apart
  <2>3. \A p \in Polls : /\ Apart(poll[p].msgs, taken)'
                         /\ Apart(poll[p].msgs, queue)'
                         /\ Apart(poll[p].msgs, held)'
    BY <1>1, <1>4 DEF Places, InOnePlace, Apart
  <2>4. \A p, q \in Polls : p # q => Apart(poll[p].msgs, poll[q].msgs)'
    BY <1>1, <1>4 DEF Places, InOnePlace, Apart
  <2> QED
    BY <2>1, <2>2, <2>3, <2>4 DEF InOnePlace
<1> QED
  BY <1>2, <1>3, <1>4 DEF Places, InOnePlace

LEMMA PlacesPublish == TypeOK /\ Linked /\ Places /\ Publish => Places'
<1> SUFFICES ASSUME TypeOK, Linked, Places, Publish PROVE Places'
  OBVIOUS
<1>1. sent \in Nat /\ sent + 1 \in Nat /\ sent + 1 \notin 1..sent /\ sent + 1 \in 1..MaxMsg
      /\ 1..sent \subseteq 1..sent' /\ sent + 1 \in 1..sent' /\ MaxMsg \in Nat
  <2>1. sent \in Nat /\ MaxMsg \in Nat /\ sent < MaxMsg /\ sent' = sent + 1
    BY BrokerAssumption DEF BrokerAssumption, TypeOK, Publish
  <2> QED
    BY <2>1
<1>2. queue' = queue /\ taken' = taken /\ poll' = poll /\ kind' = kind
  BY DEF Publish
<1>3. ASSUME NEW s \in MsgSeq, ToSet(s) \subseteq 1..sent
      PROVE  /\ ToSet(Append(s, sent + 1)) = ToSet(s) \cup {sent + 1}
             /\ sent + 1 \notin ToSet(s)
             /\ Once(s) => Once(Append(s, sent + 1))
             /\ Rising(s) => Rising(Append(s, sent + 1))
  <2>1. \A x \in ToSet(s) : x < sent + 1
    BY <1>1, <1>3
  <2>2. s \in Seq(1..MaxMsg)
    BY DEF MsgSeq
  <2>3. sent + 1 \notin ToSet(s)
    BY <1>1, <1>3
  <2>4. /\ ToSet(Append(s, sent + 1)) = ToSet(s) \cup {sent + 1}
        /\ Once(s) => Once(Append(s, sent + 1))
    BY <1>1, <2>2, <2>3, OfAppend
  <2>5. Rising(s) => Rising(Append(s, sent + 1))
    BY <1>1, <2>1, <2>2, OfAppendRising
  <2> QED
    BY <2>3, <2>4, <2>5
<1>4. /\ wire' = wire \/ wire' = Append(wire, sent + 1)
      /\ held' = held \/ held' = Append(held, sent + 1)
      /\ kind = "web" => wire' = wire
      /\ kind # "web" => held' = held
  BY DEF Publish
<1>5. wire \in MsgSeq /\ held \in MsgSeq
  BY DEF TypeOK
<1>6. /\ ToSet(wire) \subseteq 1..sent /\ ToSet(held) \subseteq 1..sent
      /\ ToSet(queue) \subseteq 1..sent /\ ToSet(taken) \subseteq 1..sent
      /\ \A p \in Polls : ToSet(poll[p].msgs) \subseteq 1..sent
  BY DEF Places, Published
<1>7. /\ ToSet(wire') \subseteq ToSet(wire) \cup {sent + 1}
      /\ ToSet(held') \subseteq ToSet(held) \cup {sent + 1}
  BY <1>3, <1>4, <1>5, <1>6
<1>8. Published'
  BY <1>1, <1>2, <1>6, <1>7 DEF Published
<1>9. InOrder'
  <2> SUFFICES ASSUME kind # "web" PROVE InOrder'
    BY <1>2 DEF InOrder
  <2>1. Rising(queue') /\ Rising(wire') /\ Below(ToSet(taken'), ToSet(queue'))
    BY <1>2, <1>3, <1>4, <1>5, <1>6 DEF Places, InOrder
  <2>2. Below(ToSet(taken), {sent + 1}) /\ Below(ToSet(queue), {sent + 1})
    BY <1>1, <1>6 DEF Below
  <2>3. Below(ToSet(taken'), ToSet(wire')) /\ Below(ToSet(queue'), ToSet(wire'))
    BY <1>2, <1>7, <2>2 DEF Places, InOrder, Below
  <2> QED
    BY <2>1, <2>3 DEF InOrder
<1>10. InOnePlace'
  <2> SUFFICES ASSUME kind = "web" PROVE InOnePlace'
    BY <1>2 DEF InOnePlace
  <2>1. Once(held') /\ Once(queue') /\ \A p \in Polls : Once(poll'[p].msgs)
    BY <1>2, <1>3, <1>4, <1>5, <1>6 DEF Places, InOnePlace
  <2>2. /\ sent + 1 \notin ToSet(taken) /\ sent + 1 \notin ToSet(queue)
        /\ \A p \in Polls : sent + 1 \notin ToSet(poll[p].msgs)
    BY <1>1, <1>6
  <2>3. Apart(taken, queue)' /\ Apart(taken, held)' /\ Apart(queue, held)'
    BY <1>2, <1>7, <2>2 DEF Places, InOnePlace, Apart
  <2>4. \A p \in Polls : /\ Apart(poll[p].msgs, taken)'
                         /\ Apart(poll[p].msgs, queue)'
                         /\ Apart(poll[p].msgs, held)'
    BY <1>2, <1>7, <2>2 DEF Places, InOnePlace, Apart
  <2>5. \A p, q \in Polls : p # q => Apart(poll[p].msgs, poll[q].msgs)'
    BY <1>2 DEF Places, InOnePlace, Apart
  <2> QED
    BY <2>1, <2>3, <2>4, <2>5 DEF InOnePlace
<1> QED
  BY <1>8, <1>9, <1>10 DEF Places

LEMMA PlacesReceive == TypeOK /\ Linked /\ Places /\ Receive => Places'
<1> SUFFICES ASSUME TypeOK, Linked, Places, Receive PROVE Places'
  OBVIOUS
<1>1. kind # "web" /\ kind' = kind /\ sent' = sent /\ held' = held /\ taken' = taken
      /\ poll' = poll
  BY DEF Receive, Linked, webVars, history
<1>2. /\ Head(wire) \in 1..MaxMsg /\ wire' = Tail(wire)
      /\ ToSet(wire) = ToSet(wire') \cup {Head(wire)}
      /\ Rising(wire) => Rising(wire') /\ \A x \in ToSet(wire') : Head(wire) < x
  BY OfTail DEF Receive, TypeOK, MsgSeq
<1>3. queue' = queue \/ queue' = Append(queue, Head(wire))
  BY DEF Receive
<1>4. Rising(queue) /\ Rising(wire) /\ Below(ToSet(taken), ToSet(queue))
      /\ Below(ToSet(taken), ToSet(wire)) /\ Below(ToSet(queue), ToSet(wire))
  BY <1>1 DEF Places, InOrder
<1>5. ToSet(queue') \subseteq ToSet(queue) \cup {Head(wire)} /\ Rising(queue')
  <2>1. queue \in Seq(1..MaxMsg) /\ MaxMsg \in Nat
    BY BrokerAssumption DEF BrokerAssumption, TypeOK, MsgSeq
  <2>2. \A x \in ToSet(queue) : x < Head(wire)
    BY <1>2, <1>4 DEF Below
  <2>3. ToSet(Append(queue, Head(wire))) = ToSet(queue) \cup {Head(wire)}
    BY <1>2, <2>1, OfAppend
  <2>4. Rising(Append(queue, Head(wire)))
    BY <1>2, <1>4, <2>1, <2>2, OfAppendRising
  <2> QED
    BY <1>3, <1>4, <2>3, <2>4
<1>6. Published'
  BY <1>1, <1>2, <1>5 DEF Places, Published
<1>7. Below(ToSet(taken'), ToSet(queue')) /\ Below(ToSet(taken'), ToSet(wire'))
      /\ Below(ToSet(queue'), ToSet(wire'))
  BY <1>1, <1>2, <1>4, <1>5 DEF Below
<1> QED
  BY <1>1, <1>2, <1>4, <1>5, <1>6, <1>7 DEF Places, InOrder, InOnePlace

\* What getNextMessage returns was not returned before, and is the oldest.
LEMMA PlacesTake ==
  TypeOK /\ Places /\ Take =>
     /\ Places'
     /\ Head(queue) \in 1..sent /\ Head(queue) \notin ToSet(taken)
     /\ ToSet(taken') = ToSet(taken) \cup {Head(queue)}
     /\ kind # "web" => \A m \in ToSet(taken) : m < Head(queue)
<1> SUFFICES ASSUME TypeOK, Places, Take
             PROVE  /\ Places'
                    /\ Head(queue) \in 1..sent /\ Head(queue) \notin ToSet(taken)
                    /\ ToSet(taken') = ToSet(taken) \cup {Head(queue)}
                    /\ kind # "web" => \A m \in ToSet(taken) : m < Head(queue)
  OBVIOUS
<1>1. kind' = kind /\ sent' = sent /\ held' = held /\ wire' = wire /\ poll' = poll
  BY DEF Take, connVars, webVars
<1>2. /\ Head(queue) \in 1..MaxMsg /\ queue' = Tail(queue)
      /\ ToSet(queue) = ToSet(queue') \cup {Head(queue)}
      /\ Once(queue) => Once(queue') /\ Head(queue) \notin ToSet(queue')
      /\ Rising(queue) => Rising(queue') /\ \A x \in ToSet(queue') : Head(queue) < x
  BY OfTail DEF Take, TypeOK, MsgSeq
<1>3. ToSet(taken') = ToSet(taken) \cup {Head(queue)}
  BY <1>2, OfAppend DEF Take, TypeOK, MsgSeq
<1>4. ToSet(taken) \subseteq 1..sent /\ ToSet(queue) \subseteq 1..sent
      /\ Head(queue) \in ToSet(queue)
  BY <1>2 DEF Places, Published
<1>5. Published'
  BY <1>1, <1>2, <1>3, <1>4 DEF Places, Published
<1>6. ASSUME kind # "web"
      PROVE  InOrder' /\ \A m \in ToSet(taken) : m < Head(queue)
  <2>1. Rising(queue) /\ Rising(wire) /\ Below(ToSet(taken), ToSet(queue))
        /\ Below(ToSet(taken), ToSet(wire)) /\ Below(ToSet(queue), ToSet(wire))
    BY <1>6 DEF Places, InOrder
  <2>2. Below(ToSet(taken'), ToSet(queue')) /\ Below(ToSet(taken'), ToSet(wire'))
        /\ Below(ToSet(queue'), ToSet(wire'))
    BY <1>1, <1>2, <1>3, <1>4, <2>1 DEF Below
  <2>3. \A m \in ToSet(taken) : m < Head(queue)
    BY <1>4, <2>1 DEF Below
  <2> QED
    BY <1>1, <1>2, <2>1, <2>2, <2>3 DEF InOrder
<1>7. ASSUME kind = "web"
      PROVE  InOnePlace' /\ Head(queue) \notin ToSet(taken)
  <2>1. Once(held') /\ Once(queue') /\ \A p \in Polls : Once(poll'[p].msgs)
    BY <1>1, <1>2, <1>7 DEF Places, InOnePlace
  <2>2. Apart(taken, queue)' /\ Apart(taken, held)' /\ Apart(queue, held)'
    BY <1>1, <1>2, <1>3, <1>7, <2>1 DEF Places, InOnePlace, Apart
  <2>3. \A p \in Polls : /\ Apart(poll[p].msgs, taken)'
                         /\ Apart(poll[p].msgs, queue)'
                         /\ Apart(poll[p].msgs, held)'
    BY <1>1, <1>2, <1>3, <1>7 DEF Places, InOnePlace, Apart
  <2>4. \A p, q \in Polls : p # q => Apart(poll[p].msgs, poll[q].msgs)'
    BY <1>1, <1>7 DEF Places, InOnePlace, Apart
  <2>5. Head(queue) \notin ToSet(taken)
    BY <1>4, <1>7 DEF Places, InOnePlace, Apart
  <2> QED
    BY <2>1, <2>2, <2>3, <2>4, <2>5 DEF InOnePlace
<1>8. InOrder' /\ InOnePlace' /\ Head(queue) \notin ToSet(taken)
  <2>1. CASE kind = "web"
    BY <1>1, <1>7, <2>1 DEF InOrder
  <2>2. CASE kind # "web"
    <3>1. Head(queue) \notin ToSet(taken)
      BY <1>2, <1>6, <2>2
    <3> QED
      BY <1>1, <1>6, <2>2, <3>1 DEF InOnePlace
  <2> QED
    BY <2>1, <2>2
<1> QED
  BY <1>3, <1>4, <1>5, <1>6, <1>8 DEF Places

LEMMA PlacesServe ==
  ASSUME TypeOK, Linked, Places, NEW p \in Polls, Serve(p) PROVE Places'
<1>1. /\ kind' = kind /\ sent' = sent /\ wire' = wire /\ queue' = queue
      /\ taken' = taken /\ ToSet(held') = {} /\ Once(held')
      /\ poll'[p].msgs = held /\ \A q \in Polls : q # p => poll'[q] = poll[q]
  BY OfEmpty DEF Serve, connVars, history, TypeOK
<1>2. kind = "web"
  <2> SUFFICES ASSUME kind # "web" PROVE FALSE
    OBVIOUS
  <2>1. poll[p].st = "free"
    BY DEF Linked, NoPoll
  <2> QED
    BY <2>1 DEF Serve
<1>3. Published'
  BY <1>1 DEF Places, Published
<1>4. Once(held) /\ Once(queue) /\ \A q \in Polls : Once(poll[q].msgs)
  BY <1>2 DEF Places, InOnePlace
<1>5. \A q \in Polls : Once(poll'[q].msgs)
  BY <1>1, <1>4
<1>6. Apart(taken, queue)' /\ Apart(taken, held)' /\ Apart(queue, held)'
  BY <1>1, <1>2 DEF Places, InOnePlace, Apart
<1>7. \A q \in Polls : /\ Apart(poll[q].msgs, taken)'
                       /\ Apart(poll[q].msgs, queue)'
                       /\ Apart(poll[q].msgs, held)'
  BY <1>1, <1>2 DEF Places, InOnePlace, Apart
<1>8. \A q, r \in Polls : q # r => Apart(poll[q].msgs, poll[r].msgs)'
  BY <1>1, <1>2 DEF Places, InOnePlace, Apart
<1> QED
  BY <1>1, <1>2, <1>3, <1>4, <1>5, <1>6, <1>7, <1>8 DEF Places, InOrder, InOnePlace

LEMMA PlacesAnswer ==
  ASSUME TypeOK, Linked, Places, NEW p \in Polls, Answer(p) PROVE Places'
<1>1. /\ kind' = kind /\ sent' = sent /\ wire' = wire /\ held' = held
      /\ taken' = taken /\ ToSet(poll'[p].msgs) = {} /\ Once(poll'[p].msgs)
      /\ \A q \in Polls : q # p => poll'[q] = poll[q]
  BY OfEmpty DEF Answer, NoPoll, connVars, history, TypeOK
<1>2. kind = "web"
  <2> SUFFICES ASSUME kind # "web" PROVE FALSE
    OBVIOUS
  <2>1. poll[p].st = "free"
    BY DEF Linked, NoPoll
  <2> QED
    BY <2>1 DEF Answer
<1>3. Once(held) /\ Once(queue) /\ \A q \in Polls : Once(poll[q].msgs)
  BY <1>2 DEF Places, InOnePlace
<1>4. ToSet(queue') = ToSet(queue) \cup ToSet(poll[p].msgs) /\ Once(queue')
  <2>1. queue \in Seq(1..MaxMsg) /\ poll[p].msgs \in Seq(1..MaxMsg)
    BY DEF TypeOK, MsgSeq
  <2>2. ToSet(queue) \cap ToSet(poll[p].msgs) = {}
    BY <1>2 DEF Places, InOnePlace, Apart
  <2>3. queue' = queue \o poll[p].msgs
    BY DEF Answer
  <2> QED
    BY <1>3, <2>1, <2>2, <2>3, OfConcat
<1>5. Published'
  BY <1>1, <1>4 DEF Places, Published
<1>6. \A q \in Polls : Once(poll'[q].msgs)
  BY <1>1, <1>3
<1>7. Apart(taken, queue)' /\ Apart(taken, held)' /\ Apart(queue, held)'
  BY <1>1, <1>2, <1>4 DEF Places, InOnePlace, Apart
<1>8. \A q \in Polls : /\ Apart(poll[q].msgs, taken)'
                       /\ Apart(poll[q].msgs, queue)'
                       /\ Apart(poll[q].msgs, held)'
  BY <1>1, <1>2, <1>4 DEF Places, InOnePlace, Apart
<1>9. \A q, r \in Polls : q # r => Apart(poll[q].msgs, poll[r].msgs)'
  BY <1>1, <1>2 DEF Places, InOnePlace, Apart
<1> QED
  BY <1>1, <1>2, <1>3, <1>4, <1>5, <1>6, <1>7, <1>8, <1>9
     DEF Places, InOrder, InOnePlace

LEMMA PlacesStep == TypeOK /\ Linked /\ Places /\ [Next]_vars => Places'
<1> SUFFICES ASSUME TypeOK, Linked, Places, [Next]_vars PROVE Places'
  OBVIOUS
<1>1. CASE Subscribe
  BY <1>1, Fewer DEF Subscribe, connVars, webVars
<1>2. CASE Connected
  BY <1>2, Fewer DEF Connected, webVars
<1>3. CASE ConnectFails
  BY <1>3, Fewer DEF ConnectFails, webVars
<1>4. CASE Listen
  BY <1>4, Fewer DEF Listen, webVars
<1>5. CASE ListenFails
  BY <1>5, Fewer DEF ListenFails, connVars, webVars
<1>6. CASE Confirm
  BY <1>6, Fewer DEF Confirm, connVars, webVars
<1>7. CASE Drop
  BY <1>7, Fewer DEF Drop, webVars
<1>8. CASE Reconnect
  BY <1>8, Fewer DEF Reconnect, webVars
<1>9. CASE Close
  BY <1>9, Fewer DEF Close, webVars
<1>10. CASE SubscribeWeb
  BY <1>10, Fewer DEF SubscribeWeb, connVars
<1>11. CASE CloseWeb
  BY <1>11, Fewer DEF CloseWeb, connVars
<1>12. ASSUME NEW p \in Polls, PollSteps(p) PROVE Places'
  <2>1. CASE Poll(p)
    <3>1. \A q \in Polls : poll'[q].msgs = poll[q].msgs
      BY <2>1 DEF Poll, TypeOK
    <3> QED
      BY <2>1, <3>1, Fewer DEF Poll, connVars
  <2>2. CASE PollFails(p)
    <3>1. \A q \in Polls : poll'[q].msgs = poll[q].msgs \/ poll'[q].msgs = <<>>
      BY <2>2 DEF PollFails, NoPoll, TypeOK
    <3> QED
      BY <2>2, <3>1, Fewer DEF PollFails, connVars
  <2> QED
    BY <1>12, <2>1, <2>2, PlacesServe, PlacesAnswer DEF PollSteps
<1>13. CASE UNCHANGED vars
  BY <1>13, Fewer DEF vars, connVars, webVars
<1> QED
  BY <1>1, <1>2, <1>3, <1>4, <1>5, <1>6, <1>7, <1>8, <1>9, <1>10, <1>11, <1>12,
     <1>13, PlacesPublish, PlacesReceive, PlacesTake DEF Next

Inv == TypeOK /\ Linked /\ Places

LEMMA Invariant == Spec => []Inv
<1>1. Init => Inv
  BY TypeInit, LinkedInit, PlacesInit DEF Inv
<1>2. Inv /\ [Next]_vars => Inv'
  BY TypeStep, LinkedStep, PlacesStep DEF Inv
<1> QED
  BY <1>1, <1>2, PTL DEF Spec

-----------------------------------------------------------------------------
(* The promise of the channel. *)

LEMMA ChannelInit == Init => C!Init
  BY DEF Init, C!Init, ToSet

\* Of all actions, Publish and Take are steps of the channel, and the others
\* none.
LEMMA ChannelStep == Inv /\ [Next]_vars => [C!Next]_<<(kind # "web"), sent, ToSet(taken)>>
<1> SUFFICES ASSUME Inv, [Next]_vars
             PROVE  [C!Next]_<<(kind # "web"), sent, ToSet(taken)>>
  OBVIOUS
<1>1. CASE Publish
  <2>1. C!Publish
    BY <1>1 DEF Publish, C!Publish
  <2> QED
    BY <2>1 DEF C!Next
<1>2. CASE Take
  <2>1. C!Take(Head(queue)) /\ Head(queue) \in 1..sent
    <3>1. kind' = kind /\ sent' = sent
      BY <1>2 DEF Take
    <3> QED
      BY <1>2, <3>1, PlacesTake DEF Inv, C!Take
  <2> QED
    BY <2>1 DEF C!Next
<1>3. CASE ~Publish /\ ~Take
  <2>1. kind' = kind /\ sent' = sent /\ taken' = taken
    <3>1. CASE UNCHANGED vars
      BY <3>1 DEF vars
    <3>2. ASSUME NEW p \in Polls, PollSteps(p)
          PROVE  kind' = kind /\ sent' = sent /\ taken' = taken
      BY <3>2 DEF PollSteps, Poll, Serve, Answer, PollFails, connVars, history
    <3> QED
      BY <1>3, <3>1, <3>2 DEF Next, Subscribe, Connected, ConnectFails, Listen,
         ListenFails, Confirm, Receive, Drop, Reconnect, Close, SubscribeWeb,
         CloseWeb, connVars, webVars, history
  <2> QED
    BY <2>1
<1> QED
  BY <1>1, <1>2, <1>3

\* Whatever connections, polls and answers do, the reader takes each message at
\* most once, and over PostgreSQL and Redis in the order of publication.
THEOREM ImplementsChannel == Spec => ChannelSpec
<1>1. Spec => C!Init
  BY ChannelInit DEF Spec
<1>2. Inv /\ [Next]_vars => [C!Next]_<<(kind # "web"), sent, ToSet(taken)>>
  BY ChannelStep
<1> QED
  BY <1>1, <1>2, Invariant, PTL DEF Spec, ChannelSpec, C!Spec

-----------------------------------------------------------------------------
(* Messages that have to be taken. *)

LEMMA OwedInit == Init => Owed
  BY DEF Init, Owed, NoneForgotten

\* Steps that move nothing and owe nothing more.
LEMMA OwedSame ==
  ASSUME Owed,
         wire' = wire, held' = held, queue' = queue, due' = due,
         subscribed' = subscribed \/ subscribed' = TRUE,
         conn.handler => conn'.handler,
         \A p \in Polls : poll'[p].msgs = poll[p].msgs
  PROVE  Owed'
  BY DEF Owed, NoneForgotten

LEMMA OwedStep == Inv /\ Owed /\ [Next]_vars => Owed'
<1> SUFFICES ASSUME Inv, Owed, [Next]_vars PROVE Owed'
  OBVIOUS
<1> USE DEF Inv
<1>1. CASE Subscribe
  <2>1. wire' = wire
    BY <1>1 DEF Subscribe, IsConnected, Linked, connVars
  <2>2. ~conn'.handler => ~conn.handler \/ wire' = <<>>
    BY <1>1 DEF Subscribe, connVars
  <2>3. held' = held /\ queue' = queue /\ poll' = poll /\ due' = due
        /\ subscribed' = subscribed
    BY <1>1 DEF Subscribe, webVars, history
  <2> QED
    BY <2>1, <2>2, <2>3, OfEmpty DEF Owed, NoneForgotten
<1>2. CASE Connected
  BY <1>2, OwedSame DEF Connected, webVars, history, TypeOK
<1>3. CASE ConnectFails
  <2>1. wire = <<>>
    BY <1>3 DEF ConnectFails, Linked
  <2>2. wire' = wire /\ held' = held /\ queue' = queue /\ poll' = poll /\ due' = due
        /\ subscribed' = subscribed
    BY <1>3 DEF ConnectFails, webVars
  <2> QED
    BY <2>1, <2>2, OfEmpty DEF Owed, NoneForgotten
<1>4. CASE Listen
  BY <1>4, OwedSame DEF Listen, webVars, history, TypeOK
<1>5. CASE ListenFails
  BY <1>5, OwedSame DEF ListenFails, connVars, webVars
<1>6. CASE Confirm
  <2>1. due = {}
    BY <1>6 DEF Confirm, Linked, Owed
  <2> QED
    BY <1>6, <2>1 DEF Confirm, Owed, NoneForgotten, connVars, history
<1>7. CASE Publish
  <2>1. due' \subseteq due \cup {sent + 1} /\ (~Hears => due' = due)
    BY <1>7 DEF Publish
  <2>2. /\ ToSet(wire) \subseteq ToSet(wire') /\ ToSet(held) \subseteq ToSet(held')
        /\ ToSet(wire') \subseteq ToSet(wire) \cup {sent + 1}
        /\ kind = "web" => sent + 1 \in ToSet(held')
        /\ kind # "web" /\ conn.st = "open" /\ conn.listens => sent + 1 \in ToSet(wire')
    <3>1. sent + 1 \in 1..MaxMsg /\ wire \in Seq(1..MaxMsg) /\ held \in Seq(1..MaxMsg)
      <4>1. sent \in 0..MaxMsg /\ sent < MaxMsg
        BY <1>7 DEF Publish, TypeOK
      <4>2. sent + 1 \in 1..MaxMsg
        BY <4>1, BrokerAssumption DEF BrokerAssumption
      <4> QED
        BY <4>2 DEF TypeOK, MsgSeq
    <3>2. ToSet(Append(wire, sent + 1)) = ToSet(wire) \cup {sent + 1}
      BY ONLY <3>1, OfAppend
    <3>3. ToSet(Append(held, sent + 1)) = ToSet(held) \cup {sent + 1}
      BY ONLY <3>1, OfAppend
    <3> QED
      BY <1>7, <3>2, <3>3 DEF Publish
  <2>3. queue' = queue /\ poll' = poll /\ conn' = conn /\ subscribed' = subscribed
    BY <1>7 DEF Publish
  <2>4. Hears => subscribed /\ (kind # "web" => conn.st = "open" /\ conn.listens /\ conn.handler)
    BY DEF Hears, Linked, Up
  <2>5. sent + 1 \notin due
    BY DEF TypeOK
  <2>6. NoneForgotten'
    <3>1. Hears => sent + 1 \in ToSet(wire') \cup ToSet(held')
      BY <2>2, <2>4
    <3>2. due \subseteq ToSet(wire') \cup ToSet(held') \cup ToSet(queue')
                        \cup UNION {ToSet(poll'[p].msgs) : p \in Polls}
      BY <2>2, <2>3 DEF Owed, NoneForgotten
    <3> QED
      BY <2>1, <3>1, <3>2 DEF NoneForgotten
  <2>7. ~conn'.handler => due' \cap ToSet(wire') = {}
    <3> SUFFICES ASSUME ~conn.handler PROVE due' \cap ToSet(wire') = {}
      BY <2>3
    <3>1. CASE kind = "web"
      <4>1. wire' = <<>>
        BY <1>7, <3>1 DEF Publish, Linked
      <4> QED
        BY <4>1, OfEmpty
    <3>2. CASE kind # "web"
      <4>1. due' = due /\ due \cap ToSet(wire) = {}
        BY <2>1, <2>4, <3>2 DEF Owed
      <4> QED
        BY <2>2, <2>5, <4>1
    <3> QED
      BY <3>1, <3>2
  <2> QED
    BY <2>1, <2>3, <2>4, <2>6, <2>7 DEF Owed
<1>8. CASE Receive
  <2>1. Head(wire) \in 1..MaxMsg /\ ToSet(wire) = ToSet(wire') \cup {Head(wire)}
    BY <1>8, OfTail DEF Receive, TypeOK, MsgSeq
  <2>2. /\ conn.handler => ToSet(queue') = ToSet(queue) \cup {Head(wire)}
        /\ ~conn.handler => queue' = queue
    BY <1>8, <2>1, OfAppend DEF Receive, TypeOK, MsgSeq
  <2>3. held' = held /\ poll' = poll /\ due' = due /\ conn' = conn
        /\ subscribed' = subscribed
    BY <1>8 DEF Receive, webVars, history
  <2>4. NoneForgotten'
    <3>1. CASE conn.handler
      BY <2>1, <2>2, <2>3, <3>1 DEF Owed, NoneForgotten
    <3>2. CASE ~conn.handler
      BY <2>1, <2>2, <2>3, <3>2 DEF Owed, NoneForgotten
    <3> QED
      BY <3>1, <3>2
  <2> QED
    BY <2>1, <2>3, <2>4 DEF Owed
<1>9. CASE Drop
  <2>1. ToSet(wire') = {} /\ due' = due \ ToSet(wire)
    BY <1>9, OfEmpty DEF Drop
  <2>2. held' = held /\ queue' = queue /\ poll' = poll /\ subscribed' = subscribed
    BY <1>9 DEF Drop, webVars
  <2> QED
    BY <2>1, <2>2 DEF Owed, NoneForgotten
<1>10. CASE Reconnect
  BY <1>10, OwedSame DEF Reconnect, webVars, history, TypeOK
<1>11. CASE Close
  <2>1. ToSet(wire') = {} /\ due' = due \ ToSet(wire)
    BY <1>11, OfEmpty DEF Close
  <2>2. held' = held /\ queue' = queue /\ poll' = poll /\ subscribed' = subscribed
    BY <1>11 DEF Close, webVars
  <2> QED
    BY <2>1, <2>2 DEF Owed, NoneForgotten
<1>12. CASE SubscribeWeb
  <2>1. due = {}
    BY <1>12 DEF SubscribeWeb, Owed
  <2> QED
    BY <1>12, <2>1 DEF SubscribeWeb, Owed, NoneForgotten, connVars, history
<1>13. CASE CloseWeb
  BY <1>13 DEF CloseWeb, Owed, NoneForgotten
<1>14. CASE Take
  <2>1. ToSet(queue) = ToSet(queue') \cup {Head(queue)} /\ due' = due \ {Head(queue)}
    BY <1>14, OfTail DEF Take, TypeOK, MsgSeq
  <2>2. held' = held /\ wire' = wire /\ poll' = poll /\ conn' = conn
        /\ subscribed' = subscribed
    BY <1>14 DEF Take, connVars, webVars
  <2> QED
    BY <2>1, <2>2 DEF Owed, NoneForgotten
<1>15. ASSUME NEW p \in Polls, PollSteps(p) PROVE Owed'
  <2>1. CASE Poll(p)
    <3>1. \A q \in Polls : poll'[q].msgs = poll[q].msgs
      BY <2>1 DEF Poll, TypeOK
    <3> QED
      BY <2>1, <3>1, OwedSame DEF Poll, connVars, history
  <2>2. wire' = wire /\ conn' = conn /\ subscribed' = subscribed /\ due' \subseteq due
    BY <1>15 DEF PollSteps, Poll, Serve, Answer, PollFails, connVars, history
  <2>3. CASE Serve(p)
    <3>1. /\ poll'[p].msgs = held /\ \A q \in Polls : q # p => poll'[q] = poll[q]
          /\ poll[p].msgs = <<>> /\ queue' = queue
      BY <2>3 DEF Serve, TypeOK, Linked
    <3>2. NoneForgotten'
      <4> SUFFICES ASSUME NEW n \in due
                   PROVE  \/ n \in ToSet(wire') \/ n \in ToSet(held') \/ n \in ToSet(queue')
                          \/ \E q \in Polls : n \in ToSet(poll'[q].msgs)
        BY <2>2 DEF NoneForgotten
      <4>1. \/ n \in ToSet(wire) \/ n \in ToSet(held) \/ n \in ToSet(queue)
            \/ \E q \in Polls : n \in ToSet(poll[q].msgs)
        BY DEF Owed, NoneForgotten
      <4> QED
        BY <2>2, <3>1, <4>1, OfEmpty
    <3> QED
      BY <2>2, <3>2 DEF Owed
  <2>4. CASE Answer(p)
    <3>1. /\ \A q \in Polls : q # p => poll'[q] = poll[q]
          /\ held' = held
          /\ ToSet(queue') = ToSet(queue) \cup ToSet(poll[p].msgs)
      BY <2>4, OfConcat DEF Answer, TypeOK, MsgSeq
    <3>2. NoneForgotten'
      <4> SUFFICES ASSUME NEW n \in due
                   PROVE  \/ n \in ToSet(wire') \/ n \in ToSet(held') \/ n \in ToSet(queue')
                          \/ \E q \in Polls : n \in ToSet(poll'[q].msgs)
        BY <2>2 DEF NoneForgotten
      <4>1. \/ n \in ToSet(wire) \/ n \in ToSet(held) \/ n \in ToSet(queue)
            \/ \E q \in Polls : n \in ToSet(poll[q].msgs)
        BY DEF Owed, NoneForgotten
      <4> QED
        BY <2>2, <3>1, <4>1
    <3> QED
      BY <2>2, <3>2 DEF Owed
  <2>5. CASE PollFails(p)
    <3>1. /\ \A q \in Polls : q # p => poll'[q] = poll[q]
          /\ held' = held /\ queue' = queue /\ due' = due \ ToSet(poll[p].msgs)
      BY <2>5 DEF PollFails, TypeOK
    <3>2. NoneForgotten'
      <4> SUFFICES ASSUME NEW n \in due'
                   PROVE  \/ n \in ToSet(wire') \/ n \in ToSet(held') \/ n \in ToSet(queue')
                          \/ \E q \in Polls : n \in ToSet(poll'[q].msgs)
        BY DEF NoneForgotten
      <4>1. \/ n \in ToSet(wire) \/ n \in ToSet(held) \/ n \in ToSet(queue)
            \/ \E q \in Polls : n \in ToSet(poll[q].msgs)
        BY <2>2 DEF Owed, NoneForgotten
      <4> QED
        BY <2>2, <3>1, <4>1
    <3> QED
      BY <2>2, <3>2 DEF Owed
  <2> QED
    BY <1>15, <2>1, <2>3, <2>4, <2>5 DEF PollSteps
<1>16. CASE UNCHANGED vars
  BY <1>16, OwedSame DEF vars, connVars, webVars, history
<1> QED
  BY <1>1, <1>2, <1>3, <1>4, <1>5, <1>6, <1>7, <1>8, <1>9, <1>10, <1>11, <1>12,
     <1>13, <1>14, <1>15, <1>16 DEF Next

\* A message published after subscribe has been resolved stays where getNextMessage
\* will find it, unless its connection or its answer is lost.
THEOREM NothingForgotten == Spec => []NoneForgotten
<1>1. Owed => NoneForgotten
  BY DEF Owed
<1> QED
  BY <1>1, Invariant, OwedInit, OwedStep, PTL DEF Spec

=============================================================================
