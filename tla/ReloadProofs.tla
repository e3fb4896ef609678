---------------------------- MODULE ReloadProofs ----------------------------
(***************************************************************************)
(* Proofs about Reload, for any number of configurations, messages and     *)
(* overlapping loads.                                                      *)
(***************************************************************************)
EXTENDS Reload, TLAPS

USE DEF Loads, LoadSt

-----------------------------------------------------------------------------
(* The inductive invariant: what a load has done is told by how far it is. *)

\* A load knows its configuration from its first answer on.
Numbered ==
    \A l \in Loads : load[l].st \notin {"none", "asked"} => load[l].conf \in 1..Len(confs)

\* Nothing is received for a load that has not opened its reader.
Closed ==
    \A l \in Loads : load[l].st \notin {"subscribing", "done"} =>
        queue[l] = {} /\ l \notin listening

ReaderOpened == reader # None => load[reader].st \in {"subscribing", "done"}

\* No load starts before the message that asks for it.
Unasked == \A l \in Loads : l > Len(msgs) => load[l].st = "none"

\* Apart from OneLoop, which stands alone.
LInv ==
    /\ TypeOK
    /\ Numbered /\ Closed /\ ReaderOpened /\ Unasked
    /\ NotTakenTwice /\ PolledIsSubscribed

-----------------------------------------------------------------------------
(* Types. *)

LEMMA TypeInit == Init => TypeOK
<1> SUFFICES ASSUME Init PROVE TypeOK
  OBVIOUS
<1> USE ReloadAssumption DEF Init
<1>1. PICK c \in Conf : confs = <<c>>
  OBVIOUS
<1>2. confs \in Seq(Conf) /\ Len(confs) = 1
  BY <1>1
<1>3. load \in [Loads -> [st : LoadSt, conf : 0..Len(confs)]]
  BY <1>2
<1>4. msgs \in Seq({"reload", "delSession"}) /\ Len(msgs) =< MaxMsg
  OBVIOUS
<1>5. /\ rules \in [Locs -> 0..Len(confs)]
      /\ queueName \in Queues /\ topic \in [Loads -> Queues \cup {None}]
  BY <1>2
<1>6. queue \in [Loads -> SUBSET (1..Len(msgs))]
  OBVIOUS
<1>7. /\ alive \in BOOLEAN /\ stopped \in BOOLEAN
      /\ ready \subseteq Loads /\ listening \subseteq Loads /\ intervals \subseteq Loads
  OBVIOUS
<1>8. /\ acc \in Loads \cup {None} /\ last \in Loads \cup {None}
      /\ reader \in Loads \cup {None} /\ loop \in Loads \cup {None}
  OBVIOUS
<1> HIDE DEF Init
<1> QED
  BY <1>2, <1>3, <1>4, <1>5, <1>6, <1>7, <1>8 DEF TypeOK

\* A load that moves on keeps its configuration.
LEMMA GotoKeepsType ==
  ASSUME NEW l \in Loads, NEW st \in LoadSt, NEW S,
         load \in [Loads -> [st : LoadSt, conf : S]], Goto(l, st)
  PROVE  load' \in [Loads -> [st : LoadSt, conf : S]]
BY DEF Goto

\* The name of the queue comes from the configuration that the load has read.
LEMMA TypeStep == TypeOK /\ Numbered /\ [Next]_vars => TypeOK'
<1> SUFFICES ASSUME TypeOK, Numbered, [Next]_vars PROVE TypeOK'
  OBVIOUS
<1> USE ReloadAssumption
<1>1. ASSUME NEW l \in Loads, FetchConf(l) PROVE TypeOK'
  BY <1>1 DEF FetchConf, TypeOK, tsvVars, brokerVars, nameVars, loopVars, At
<1>2. ASSUME NEW l \in Loads, ApplyConf(l) PROVE TypeOK'
  <2>1. load[l].conf \in 0..Len(confs)
    BY DEF TypeOK
  <2>2. rules' \in [Locs -> 0..Len(confs)]
    BY <1>2, <2>1 DEF ApplyConf, Pushed, TypeOK
  <2>3. load' \in [Loads -> [st : LoadSt, conf : 0..Len(confs)]]
    BY <1>2, <2>1 DEF ApplyConf, Goto, TypeOK
  <2> QED
    BY <1>2, <2>2, <2>3 DEF ApplyConf, TypeOK, brokerVars, nameVars, loopVars
<1>3. ASSUME NEW l \in Loads, SessionReady(l) PROVE TypeOK'
  <2>1. load' \in [Loads -> [st : LoadSt, conf : 0..Len(confs)]]
    <3>1. CASE load[l].st = "session"
      BY <1>3, <3>1, GotoKeepsType DEF SessionReady, TypeOK
    <3>2. CASE load[l].st # "session"
      BY <1>3, <3>2 DEF SessionReady, TypeOK
    <3> QED
      BY <3>1, <3>2
  <2> QED
    BY <1>3, <2>1 DEF SessionReady, TypeOK, tsvVars, brokerVars, nameVars, loopVars
<1>4. ASSUME NEW l \in Loads, Die(l) PROVE TypeOK'
  BY <1>4 DEF Die, TypeOK, tsvVars, brokerVars, nameVars, loopVars
<1>5. ASSUME NEW l \in Loads, OpenBroker(l) PROVE TypeOK'
  BY <1>5 DEF OpenBroker, Goto, TypeOK, tsvVars, loopVars
<1>6. ASSUME NEW l \in Loads, Listen(l) PROVE TypeOK'
  BY <1>6 DEF Listen, TypeOK, tsvVars, nameVars, loopVars
<1>7. ASSUME NEW l \in Loads, Subscribed(l) PROVE TypeOK'
  BY <1>7 DEF Subscribed, StartEventLoop, Goto, TypeOK, tsvVars, nameVars
<1>8. ASSUME NEW l \in Loads, BrokerFails(l) PROVE TypeOK'
  BY <1>8 DEF BrokerFails, StartEventLoop, Goto, TypeOK, tsvVars, nameVars
<1>9. ASSUME CheckEvents PROVE TypeOK'
  <2> PICK m \in queue[reader] :
         /\ queue' = [queue EXCEPT ![reader] = @ \ {m}]
         /\ IF msgs[m] = "reload" THEN Goto(m, "asked") ELSE UNCHANGED load
    BY <1>9 DEF CheckEvents
  <2>1. reader \in Loads /\ m \in 1..Len(msgs)
    BY <1>9 DEF CheckEvents, Polled, TypeOK
  <2>2. load' \in [Loads -> [st : LoadSt, conf : 0..Len(confs)]]
    <3>1. CASE Goto(m, "asked")
      <4>1. m \in Loads
        BY <2>1 DEF TypeOK
      <4> QED
        BY <3>1, <4>1, GotoKeepsType DEF TypeOK
    <3>2. CASE UNCHANGED load
      BY <3>2 DEF TypeOK
    <3> QED
      BY <3>1, <3>2
  <2>3. queue' \in [Loads -> SUBSET (1..Len(msgs))]
    BY <2>1 DEF TypeOK
  <2> QED
    BY <1>9, <2>2, <2>3 DEF CheckEvents, TypeOK, tsvVars, nameVars, loopVars
<1>10. ASSUME StopEventLoop PROVE TypeOK'
  BY <1>10 DEF StopEventLoop, TypeOK, tsvVars, brokerVars, nameVars
<1>11. ASSUME NEW c \in Conf, SaveConf(c) PROVE TypeOK'
  <2>1. /\ confs' \in Seq(Conf)
        /\ Len(confs') = Len(confs) + 1
        /\ Len(confs) \in Nat
    BY <1>11 DEF SaveConf, TypeOK
  <2>2. 0..Len(confs) \subseteq 0..Len(confs')
    BY <2>1
  <2> QED
    BY <1>11, <2>1, <2>2 DEF SaveConf, TypeOK, tsvVars, brokerVars, nameVars, loopVars
<1>12. ASSUME NEW action \in {"reload", "delSession"}, NEW name \in Queues,
              Publish(action, name)
       PROVE TypeOK'
  <2>1. /\ msgs' \in Seq({"reload", "delSession"})
        /\ Len(msgs') = Len(msgs) + 1
        /\ Len(msgs) \in Nat /\ Len(msgs') =< MaxMsg
    BY <1>12 DEF Publish, TypeOK
  <2>2. queue' \in [Loads -> SUBSET (1..Len(msgs'))]
    BY <1>12, <2>1 DEF Publish, TypeOK
  <2> QED
    BY <1>12, <2>1, <2>2 DEF Publish, TypeOK, tsvVars, nameVars, loopVars
<1>13. CASE UNCHANGED vars
  BY <1>13 DEF vars, TypeOK, tsvVars, brokerVars, nameVars, loopVars
<1>14. ASSUME NEW l \in Loads, NameQueue(l) PROVE TypeOK'
  <2>1. confs[load[l].conf] \in Conf
    <3>1. load[l].conf \in 1..Len(confs)
      BY <1>14 DEF NameQueue, At, Numbered
    <3> QED
      BY <3>1 DEF TypeOK
  <2>2. queueName' \in Queues
    BY <1>14, <2>1 DEF NameQueue, Name, Conf
  <2>3. load' \in [Loads -> [st : LoadSt, conf : 0..Len(confs)]]
    BY <1>14, GotoKeepsType DEF NameQueue, TypeOK
  <2> QED
    BY <1>14, <2>2, <2>3 DEF NameQueue, TypeOK, tsvVars, loopVars
<1> QED
  BY <1>1, <1>2, <1>3, <1>4, <1>5, <1>6, <1>7, <1>8, <1>9, <1>10, <1>11, <1>12, <1>13,
     <1>14 DEF Next, Advance

LEMMA LInit == Init => LInv
<1> SUFFICES ASSUME Init PROVE LInv
  OBVIOUS
<1>1. TypeOK
  BY TypeInit
<1>2. Len(msgs) = 0
  BY DEF Init
<1>3. Numbered /\ Closed /\ Unasked
  BY <1>2, ReloadAssumption DEF Init, Numbered, Closed, Unasked
<1>4. ReaderOpened /\ NotTakenTwice /\ PolledIsSubscribed
  BY DEF Init, ReaderOpened, NotTakenTwice, PolledIsSubscribed
<1> QED
  BY <1>1, <1>3, <1>4 DEF LInv

LEMMA LStep == LInv /\ [Next]_vars => LInv'
<1> SUFFICES ASSUME LInv, [Next]_vars PROVE LInv'
  OBVIOUS
<1> USE ReloadAssumption
<1>0. TypeOK
  BY DEF LInv
<1> DEFINE Rest == /\ Numbered /\ Closed /\ ReaderOpened /\ Unasked
                   /\ NotTakenTwice /\ PolledIsSubscribed
<1>1. ASSUME NEW l \in Loads, FetchConf(l) PROVE Rest'
  <2> USE <1>0, <1>1 DEF FetchConf, At, tsvVars, brokerVars, nameVars, loopVars, LInv
  <2>1. Numbered'
    BY DEF Numbered, TypeOK
  <2>2. Closed' /\ ReaderOpened' /\ Unasked'
    BY DEF Closed, ReaderOpened, Unasked, TypeOK
  <2>3. NotTakenTwice'
    BY DEF NotTakenTwice, TypeOK
  <2>4. PolledIsSubscribed'
    BY DEF PolledIsSubscribed, TypeOK
  <2> QED
    BY <2>1, <2>2, <2>3, <2>4
<1>2. ASSUME NEW l \in Loads, ApplyConf(l) PROVE Rest'
  <2> USE <1>0, <1>2 DEF ApplyConf, Goto, At, brokerVars, nameVars, loopVars, LInv
  <2>1. Numbered' /\ Unasked'
    BY DEF Numbered, Unasked, TypeOK
  <2>2. Closed' /\ ReaderOpened'
    BY DEF Closed, ReaderOpened, TypeOK
  <2>3. NotTakenTwice'
    BY DEF NotTakenTwice, TypeOK
  <2>4. PolledIsSubscribed'
    BY DEF PolledIsSubscribed, TypeOK
  <2> QED
    BY <2>1, <2>2, <2>3, <2>4
<1>3. ASSUME NEW l \in Loads, SessionReady(l) PROVE Rest'
  <2> USE DEF LInv
  <2>1. UNCHANGED <<confs, queueName, topic, reader, listening, queue, msgs>>
    BY <1>3 DEF SessionReady, brokerVars, nameVars
  <2>2. CASE UNCHANGED load
    BY <2>1, <2>2 DEF Numbered, Closed, ReaderOpened, Unasked,
       NotTakenTwice, PolledIsSubscribed
  <2>3. CASE load[l].st = "session" /\ Goto(l, "logger")
    <3> USE <1>0, <2>1, <2>3 DEF Goto
    <3>1. Numbered' /\ Unasked'
      BY DEF Numbered, Unasked, TypeOK
    <3>2. Closed' /\ ReaderOpened'
      BY DEF Closed, ReaderOpened, TypeOK
    <3>3. NotTakenTwice' /\ PolledIsSubscribed'
      BY DEF NotTakenTwice, PolledIsSubscribed, TypeOK
    <3> QED
      BY <3>1, <3>2, <3>3
  <2> QED
    BY <1>3, <2>2, <2>3 DEF SessionReady
<1>4. ASSUME NEW l \in Loads, Die(l) PROVE Rest'
  BY <1>0, <1>4 DEF Die, tsvVars, brokerVars, nameVars, loopVars, LInv, Numbered, Closed,
     ReaderOpened, Unasked, NotTakenTwice, PolledIsSubscribed
<1>5. ASSUME NEW l \in Loads, OpenBroker(l) PROVE Rest'
  <2> USE <1>0, <1>5 DEF OpenBroker, At, Goto, tsvVars, loopVars, LInv
  <2>1. Numbered' /\ Unasked'
    BY DEF Numbered, Unasked, TypeOK
  <2>2. Closed' /\ ReaderOpened'
    BY DEF Closed, ReaderOpened, TypeOK
  <2>3. queue[l] = {}
    BY DEF Closed
  <2>4. NotTakenTwice' /\ PolledIsSubscribed'
    BY <2>3 DEF NotTakenTwice, PolledIsSubscribed, TypeOK
  <2> QED
    BY <2>1, <2>2, <2>4
<1>6. ASSUME NEW l \in Loads, Listen(l) PROVE Rest'
  BY <1>0, <1>6 DEF Listen, At, tsvVars, nameVars, loopVars, LInv, Numbered, Closed,
     ReaderOpened, Unasked, NotTakenTwice, PolledIsSubscribed, TypeOK
<1>7. ASSUME NEW l \in Loads, Subscribed(l) PROVE Rest'
  <2> USE <1>0, <1>7 DEF Subscribed, At, Goto, tsvVars, nameVars, LInv
  <2>1. Numbered' /\ Unasked'
    BY DEF Numbered, Unasked, TypeOK
  <2>2. Closed' /\ ReaderOpened'
    BY DEF Closed, ReaderOpened, TypeOK
  <2>3. NotTakenTwice'
    BY DEF NotTakenTwice, TypeOK
  <2>4. PolledIsSubscribed'
    BY DEF PolledIsSubscribed, TypeOK
  <2> QED
    BY <2>1, <2>2, <2>3, <2>4
<1>8. ASSUME NEW l \in Loads, BrokerFails(l) PROVE Rest'
  <2> USE <1>0, <1>8 DEF BrokerFails, At, Goto, tsvVars, nameVars, LInv
  <2>1. Numbered' /\ Unasked'
    BY DEF Numbered, Unasked, TypeOK
  <2>2. Closed' /\ ReaderOpened' /\ NotTakenTwice'
    BY DEF Closed, ReaderOpened, NotTakenTwice, TypeOK
  <2>3. PolledIsSubscribed'
    BY DEF PolledIsSubscribed, TypeOK
  <2> QED
    BY <2>1, <2>2, <2>3
<1>9. ASSUME CheckEvents PROVE Rest'
  <2> PICK m \in queue[reader] :
         /\ queue' = [queue EXCEPT ![reader] = @ \ {m}]
         /\ IF msgs[m] = "reload" THEN Goto(m, "asked") ELSE UNCHANGED load
    BY <1>9 DEF CheckEvents
  <2> USE DEF LInv
  <2>1. reader \in Loads /\ reader # None /\ m \in 1..Len(msgs) /\ m \in Loads
    BY <1>0, <1>9 DEF CheckEvents, Polled, TypeOK
  <2>2. load[m].st = "none"
    BY <2>1 DEF NotTakenTwice
  <2>3. \A l \in Loads : l # m => load'[l] = load[l]
    BY <1>0, <2>1 DEF Goto, TypeOK
  <2>4. load'[m].st \in {"none", "asked"}
    BY <1>0, <2>1, <2>2 DEF Goto, TypeOK
  <2>5. \A l \in Loads : queue'[l] \subseteq queue[l]
    BY <1>0, <2>1 DEF TypeOK
  <2>6. m \notin queue'[reader]
    BY <1>0, <2>1 DEF TypeOK
  <2>7. UNCHANGED <<confs, queueName, topic, listening, reader, msgs>>
    BY <1>9 DEF CheckEvents, nameVars
  <2>8. Numbered' /\ Unasked'
    <3>1. \A l \in Loads : l > Len(msgs) => l # m
      BY <1>0, <2>1 DEF TypeOK
    <3>2. Unasked'
      BY <3>1, <2>3, <2>7 DEF Unasked
    <3>3. Numbered'
      BY <2>3, <2>4, <2>7 DEF Numbered
    <3> QED
      BY <3>2, <3>3
  <2>9. Closed' /\ ReaderOpened'
    BY <1>0, <2>1, <2>2, <2>3, <2>4, <2>5, <2>7 DEF Closed, ReaderOpened
  <2>10. NotTakenTwice'
    BY <1>0, <2>1, <2>3, <2>5, <2>6, <2>7 DEF NotTakenTwice, TypeOK
  <2>11. PolledIsSubscribed'
    BY <2>2, <2>3, <2>7 DEF PolledIsSubscribed
  <2> QED
    BY <2>8, <2>9, <2>10, <2>11
<1>10. ASSUME StopEventLoop PROVE Rest'
  BY <1>10 DEF StopEventLoop, tsvVars, brokerVars, nameVars, LInv, Numbered, Closed,
     ReaderOpened, Unasked, NotTakenTwice, PolledIsSubscribed
<1>11. ASSUME NEW c \in Conf, SaveConf(c) PROVE Rest'
  <2> USE <1>0, <1>11 DEF SaveConf, tsvVars, brokerVars, nameVars, loopVars, LInv
  <2>1. /\ Len(confs') = Len(confs) + 1
        /\ \A v \in 1..Len(confs) : confs'[v] = confs[v]
        /\ Len(confs) \in Nat
    BY DEF TypeOK
  <2>2. Numbered'
    BY <2>1 DEF Numbered, TypeOK
  <2>3. Closed' /\ ReaderOpened' /\ Unasked' /\ NotTakenTwice'
    BY DEF Closed, ReaderOpened, Unasked, NotTakenTwice
  <2>4. PolledIsSubscribed'
    BY DEF PolledIsSubscribed
  <2> QED
    BY <2>2, <2>3, <2>4
<1>12. ASSUME NEW action \in {"reload", "delSession"}, NEW name \in Queues,
              Publish(action, name)
       PROVE Rest'
  <2> USE <1>0, <1>12 DEF Publish, tsvVars, nameVars, loopVars, LInv
  <2>1. Len(msgs') = Len(msgs) + 1 /\ Len(msgs) \in Nat /\ Len(msgs') \in Loads
    BY DEF TypeOK
  <2>2. Numbered' /\ ReaderOpened' /\ PolledIsSubscribed'
    BY DEF Numbered, ReaderOpened, PolledIsSubscribed
  <2>3. Closed' /\ Unasked'
    BY <2>1 DEF Closed, Unasked, TypeOK
  <2>4. load[Len(msgs) + 1].st = "none"
    BY <2>1 DEF Unasked
  <2>5. NotTakenTwice'
    BY <2>4 DEF NotTakenTwice, TypeOK
  <2> QED
    BY <2>2, <2>3, <2>5
<1>13. ASSUME UNCHANGED vars PROVE Rest'
  BY <1>13 DEF vars, tsvVars, brokerVars, nameVars, loopVars, LInv, Numbered, Closed,
     ReaderOpened, Unasked, NotTakenTwice, PolledIsSubscribed
<1>14. ASSUME NEW l \in Loads, NameQueue(l) PROVE Rest'
  <2> USE <1>0, <1>14 DEF NameQueue, At, Goto, tsvVars, loopVars, LInv
  <2>1. Numbered' /\ Unasked'
    BY DEF Numbered, Unasked, TypeOK
  <2>2. Closed' /\ ReaderOpened'
    BY DEF Closed, ReaderOpened, TypeOK
  <2>3. NotTakenTwice' /\ PolledIsSubscribed'
    BY DEF NotTakenTwice, PolledIsSubscribed, TypeOK
  <2> QED
    BY <2>1, <2>2, <2>3
<1> HIDE DEF Rest
<1>15. Rest'
  BY <1>1, <1>2, <1>3, <1>4, <1>5, <1>6, <1>7, <1>8, <1>9, <1>10, <1>11, <1>12, <1>13,
     <1>14 DEF Next, Advance
<1>16. TypeOK'
  BY TypeStep DEF LInv
<1> QED
  BY <1>15, <1>16 DEF LInv, Rest

\* The variables of a handler process keep their types.
THEOREM TypeCorrect == Spec => []TypeOK
<1>1. LInv => TypeOK
  BY DEF LInv
<1> QED
  BY <1>1, LInit, LStep, PTL DEF Spec

\* In whatever order loads set the queue's name, get their broker's module, fail
\* and replace each other's readers, once none waits for a module the loop polls
\* the queue to which the reader in place subscribed.
THEOREM PollsWhatItSubscribed == Spec => []PolledIsSubscribed
<1>1. LInv => PolledIsSubscribed
  BY DEF LInv
<1> QED
  BY <1>1, LInit, LStep, PTL DEF Spec

\* No message is taken twice from the reader in place, nor one left there that an
\* earlier reader took.
THEOREM MessagesTakenOnce == Spec => []NotTakenTwice
<1>1. LInv => NotTakenTwice
  BY DEF LInv
<1> QED
  BY <1>1, LInit, LStep, PTL DEF Spec

-----------------------------------------------------------------------------
(* The event loop. *)

LEMMA LoopStep == TypeOK /\ OneLoop /\ [Next]_vars => OneLoop'
<1> SUFFICES ASSUME TypeOK, OneLoop, [Next]_vars PROVE OneLoop'
  OBVIOUS
<1> USE ReloadAssumption DEF OneLoop
<1>1. ASSUME NEW l \in Loads, StartEventLoop(l) PROVE OneLoop'
  BY <1>1 DEF StartEventLoop, TypeOK
<1>2. ASSUME StopEventLoop PROVE OneLoop'
  BY <1>2 DEF StopEventLoop
<1>3. CASE UNCHANGED <<loop, intervals>>
  BY <1>3
<1>4. ASSUME NEW l \in Loads, Advance(l) PROVE OneLoop'
  BY <1>1, <1>3, <1>4 DEF Advance, FetchConf, ApplyConf, NameQueue, OpenBroker,
     Listen, Subscribed, loopVars
<1>5. ASSUME NEW l \in Loads, SessionReady(l) \/ Die(l) \/ BrokerFails(l) PROVE OneLoop'
  BY <1>1, <1>3, <1>5 DEF SessionReady, Die, BrokerFails, loopVars
<1>6. ASSUME \/ CheckEvents
             \/ \E c \in Conf : SaveConf(c)
             \/ \E action \in {"reload", "delSession"}, name \in Queues :
                   Publish(action, name)
             \/ UNCHANGED vars
      PROVE OneLoop'
  BY <1>3, <1>6 DEF CheckEvents, SaveConf, Publish, vars, loopVars
<1> QED
  BY <1>2, <1>4, <1>5, <1>6 DEF Next

\* At most one interval ever runs, and stopEventLoop can clear it.
THEOREM LoopIsOne == Spec => []OneLoop
<1>1. Init => OneLoop
  BY DEF Init, OneLoop
<1> QED
  BY <1>1, LoopStep, TypeCorrect, PTL DEF Spec
=============================================================================
