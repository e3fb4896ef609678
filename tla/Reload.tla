------------------------------- MODULE Reload -------------------------------
(***************************************************************************)
(* How one handler process loads its configuration and listens to the      *)
(* message broker (packages/handler: init and msgActions).  A load is one  *)
(* call of reload(): load 0 is init()'s, load m the one that the broker's  *)
(* message m asked for.  Loads run concurrently: the interval that checks  *)
(* the broker does not wait for the check before.                          *)
(*                                                                         *)
(* One action is one JavaScript turn.  Of what reload puts in place, the   *)
(* module has what a later turn may meet again: the session accessor, the  *)
(* rules, and in tsv the reader and the name of the queue it is asked for. *)
(* The rest of tsv is set within one turn and read within one: some of it  *)
(* replaced, some only if the configuration gives it (keyH, https, port,   *)
(* maintenance, the headers of a virtual host), some added to what is      *)
(* there (headerList, vhostAlias).                                         *)
(***************************************************************************)
EXTENDS Integers, Sequences, FiniteSets

CONSTANTS
    Locs,      \* location patterns that rules are given for
    Queues,    \* names a queue of messages may have
    DefaultQueue,
    None,      \* JavaScript's null
    MayFail,   \* may backends, modules and the broker fail?
    MaxConf,   \* bound: configurations the manager saves
    MaxMsg     \* bound: messages published

ASSUME ReloadAssumption ==
    /\ MayFail \in BOOLEAN
    /\ MaxConf \in Nat \ {0} /\ MaxMsg \in Nat
    /\ None \notin Nat /\ None \notin Queues
    /\ DefaultQueue \in Queues

\* throws: where the turn that applies it throws, be it before the session
\* accessor (no portal, no storage), in the rules, or after them (headers, the
\* cookie's pattern).  queue: of messageBrokerOptions, if it names one.
Conf == [throws : {"early", "rules", "late", "never"}, locs : SUBSET Locs,
         queue : Queues \cup {None}]
Loads == 0..MaxMsg
LoadSt == {"none", "asked", "fetched", "session", "logger", "broker",
           "subscribing", "done", "failed"}

VARIABLES
    alive,      \* FALSE once an unhandled rejection ended the process
    confs,      \* configurations saved so far; the last is lastCfg()
    load,       \* per load: how far it is and the configuration it read
    acc,        \* sessionAcc: the load that built it
    ready,      \* loads whose session accessor has its backend
    rules,      \* per location: the configuration whose rule is tried first
    last,       \* the last load that touched tsv
    queueName,  \* eventQueueName: the queue the loop polls
    reader,     \* msgBrokerReader: the load that opened it; None for NoBroker
    topic,      \* per reader: the queue it subscribed to
    listening,  \* readers the broker sends messages to
    queue,      \* per reader: messages received and not yet taken
    msgs,       \* messages published
    loop,       \* eventLoopInterval: the load that set it, or None
    intervals,  \* intervals that have been set and not cleared
    stopped     \* stopEventLoop was called

tsvVars == <<acc, rules, last>>
nameVars == <<queueName, topic>>
brokerVars == <<reader, nameVars, listening, queue>>
loopVars == <<loop, intervals, stopped>>
vars == <<alive, confs, load, tsvVars, ready, brokerVars, msgs, loopVars>>

At(l, st) == alive /\ load[l].st = st
Goto(l, st) == load' = [load EXCEPT ![l].st = st]

-----------------------------------------------------------------------------
(* A load. *)

\* getConf asks for the last number, then for that configuration.
FetchConf(l) ==
    /\ At(l, "asked")
    /\ load' = [load EXCEPT ![l] = [st |-> "fetched", conf |-> Len(confs)]]
    /\ UNCHANGED <<alive, confs, tsvVars, ready, brokerVars, msgs, loopVars>>

\* A rule is pushed behind those of earlier loads and grant takes the first.
Pushed(locs, v) == [loc \in Locs |-> IF rules[loc] = 0 /\ loc \in locs
                                     THEN v ELSE rules[loc]]

\* What is pushed of the rules when the turn ends or throws: if one does not
\* compile, those before it stay.
Pushes(c) ==
    CASE c.throws = "early" -> {{}}
      [] c.throws = "rules" -> SUBSET c.locs
      [] OTHER -> {c.locs}

\* All that follows getConf in one turn: the session accessor is replaced before
\* its backend is there.
ApplyConf(l) ==
    /\ At(l, "fetched")
    /\ LET v == load[l].conf
           c == confs[v]
       IN  /\ Goto(l, IF c.throws = "never" THEN "session" ELSE "failed")
           /\ acc' = IF c.throws = "early" THEN acc ELSE l
           /\ \E pushed \in Pushes(c) : rules' = Pushed(pushed, v)
    /\ last' = l
    /\ UNCHANGED <<alive, confs, ready, brokerVars, msgs, loopVars>>

\* The accessor this load built, if its turn came that far, waits for its module.
Awaited(l) ==
    /\ load[l].st \notin {"none", "asked", "fetched"}
    /\ confs[load[l].conf].throws # "early"
    /\ l \notin ready

\* Mutants: the accessor gets its backend only if the load is still waiting; one
\* that was replaced meanwhile does not let its load go on.
SessionReadyIfWaiting(l) ==
    /\ alive /\ Awaited(l) /\ load[l].st = "session"
    /\ ready' = ready \cup {l}
    /\ Goto(l, "logger")
    /\ UNCHANGED <<alive, confs, tsvVars, brokerVars, msgs, loopVars>>

SessionReadyIfCurrent(l) ==
    /\ alive /\ Awaited(l)
    /\ ready' = ready \cup {l}
    /\ IF load[l].st = "session" /\ acc = l THEN Goto(l, "logger") ELSE UNCHANGED load
    /\ UNCHANGED <<alive, confs, tsvVars, brokerVars, msgs, loopVars>>

\* The backend's module is imported; a load that waits for it goes on.
SessionReady(l) ==
    /\ alive /\ Awaited(l)
    /\ ready' = ready \cup {l}
    /\ IF load[l].st = "session" THEN Goto(l, "logger") ELSE UNCHANGED load
    /\ UNCHANGED <<alive, confs, tsvVars, brokerVars, msgs, loopVars>>

\* Nobody catches a rejection of lastCfg, of load or of the accessor's ready; and
\* that of the logger's module is caught, only to be thrown again.
Die(l) ==
    /\ MayFail
    /\ At(l, "asked") \/ At(l, "fetched") \/ At(l, "logger") \/ (alive /\ Awaited(l))
    /\ alive' = FALSE
    /\ UNCHANGED <<confs, load, tsvVars, ready, brokerVars, msgs, loopVars>>

-----------------------------------------------------------------------------
(* The message broker and the event loop. *)

\* Mutant: there is no default.
NameGiven(c) == c.queue

Name(c) == IF c.queue = None THEN DefaultQueue ELSE c.queue

\* The logger is there: the queue's name is set, and the broker's module asked for.
NameQueue(l) ==
    /\ At(l, "logger")
    /\ Goto(l, "broker")
    /\ queueName' = Name(confs[load[l].conf])
    /\ UNCHANGED <<alive, confs, tsvVars, ready, reader, topic, listening, queue, msgs,
                   loopVars>>

\* Mutant: the reader subscribes to the queue of its own configuration.
OpenBrokerOwn(l) ==
    /\ At(l, "broker")
    /\ Goto(l, "subscribing")
    /\ reader' = l
    /\ topic' = [topic EXCEPT ![l] = Name(confs[load[l].conf])]
    /\ UNCHANGED <<alive, confs, tsvVars, ready, queueName, listening, queue, msgs,
                   loopVars>>

\* The module is there.  The new reader takes the place of the old one, which nobody
\* closes, and subscribes to the queue that has its name in tsv by now.
OpenBroker(l) ==
    /\ At(l, "broker")
    /\ Goto(l, "subscribing")
    /\ reader' = l
    /\ topic' = [topic EXCEPT ![l] = queueName]
    /\ UNCHANGED <<alive, confs, tsvVars, ready, queueName, listening, queue, msgs,
                   loopVars>>

\* The broker registers the reader; its answer is on the way.
Listen(l) ==
    /\ At(l, "subscribing") /\ l \notin listening
    /\ listening' = listening \cup {l}
    /\ UNCHANGED <<alive, confs, load, tsvVars, ready, reader, nameVars, queue, msgs,
                   loopVars>>

\* Mutant: an interval is set whether or not there is one.
StartEventLoopAgain(l) ==
    /\ loop' = l
    /\ intervals' = intervals \cup {l}

StartEventLoop(l) ==
    /\ loop' = IF loop = None THEN l ELSE loop
    /\ intervals' = IF loop = None THEN intervals \cup {l} ELSE intervals

\* The queue starts empty when the subscription is confirmed, whatever came before.
Subscribed(l) ==
    /\ At(l, "subscribing") /\ l \in listening
    /\ Goto(l, "done")
    /\ queue' = [queue EXCEPT ![l] = {}]
    /\ StartEventLoop(l)
    /\ UNCHANGED <<alive, confs, tsvVars, ready, reader, nameVars, listening, msgs,
                   stopped>>

\* Without a module or a connection the handler falls back on NoBroker, whose
\* package is taken to be installed.
BrokerFails(l) ==
    /\ MayFail
    /\ At(l, "broker") \/ (At(l, "subscribing") /\ l \notin listening)
    /\ Goto(l, "done")
    /\ reader' = None
    /\ StartEventLoop(l)
    /\ UNCHANGED <<alive, confs, tsvVars, ready, nameVars, listening, queue, msgs,
                   stopped>>

\* The interval asks the reader in place for a message of the queue of that name;
\* one that subscribed to another has none.
Polled == alive /\ loop # None /\ reader # None /\ topic[reader] = queueName

\* Mutant: a check waits for the load of the one before, and one that fails never
\* gives way.
CheckEventsBusy ==
    /\ Polled
    /\ \A l \in Loads : load[l].st \in {"none", "done"}
    /\ \E m \in queue[reader] :
          /\ \A k \in queue[reader] : m =< k
          /\ queue' = [queue EXCEPT ![reader] = @ \ {m}]
          /\ IF msgs[m] = "reload" THEN Goto(m, "asked") ELSE UNCHANGED load
    /\ UNCHANGED <<alive, confs, tsvVars, ready, reader, nameVars, listening, msgs,
                   loopVars>>

\* Mutant: the message is left in the queue until it is processed.
CheckEventsPeek ==
    /\ Polled
    /\ \E m \in queue[reader] :
          /\ \A k \in queue[reader] : m =< k
          /\ IF msgs[m] = "reload" THEN Goto(m, "asked") ELSE UNCHANGED load
    /\ UNCHANGED <<alive, confs, tsvVars, ready, brokerVars, msgs, loopVars>>

\* One message is taken, the oldest.
CheckEvents ==
    /\ Polled
    /\ \E m \in queue[reader] :
          /\ \A k \in queue[reader] : m =< k
          /\ queue' = [queue EXCEPT ![reader] = @ \ {m}]
          /\ IF msgs[m] = "reload" THEN Goto(m, "asked") ELSE UNCHANGED load
    /\ UNCHANGED <<alive, confs, tsvVars, ready, reader, nameVars, listening, msgs,
                   loopVars>>

StopEventLoop ==
    /\ alive /\ ~stopped
    /\ stopped' = TRUE
    /\ intervals' = intervals \ {loop}
    /\ loop' = None
    /\ UNCHANGED <<alive, confs, load, tsvVars, ready, brokerVars, msgs>>

-----------------------------------------------------------------------------
(* The manager saves a configuration; the portal publishes messages. *)

SaveConf(c) ==
    /\ Len(confs) < MaxConf
    /\ confs' = Append(confs, c)
    /\ UNCHANGED <<alive, load, tsvVars, ready, brokerVars, msgs, loopVars>>

Publish(action, name) ==
    /\ Len(msgs) < MaxMsg
    /\ msgs' = Append(msgs, action)
    /\ queue' = [l \in Loads |-> IF l \in listening /\ topic[l] = name
                                THEN queue[l] \cup {Len(msgs) + 1}
                                ELSE queue[l]]
    /\ UNCHANGED <<alive, confs, load, tsvVars, ready, reader, nameVars, listening,
                   loopVars>>

-----------------------------------------------------------------------------

Init ==
    /\ alive = TRUE
    /\ \E c \in Conf : confs = <<c>>
    /\ load = [l \in Loads |-> [st |-> IF l = 0 THEN "asked" ELSE "none", conf |-> 0]]
    /\ acc = None /\ ready = {} /\ last = None
    /\ rules = [loc \in Locs |-> 0]
    /\ queueName = DefaultQueue
    /\ reader = None /\ topic = [l \in Loads |-> None] /\ listening = {}
    /\ queue = [l \in Loads |-> {}]
    /\ msgs = <<>>
    /\ loop = None /\ intervals = {} /\ stopped = FALSE

Advance(l) ==
    \/ FetchConf(l) \/ ApplyConf(l)
    \/ NameQueue(l) \/ OpenBroker(l) \/ Listen(l) \/ Subscribed(l)

Next ==
    \/ \E l \in Loads : Advance(l) \/ SessionReady(l) \/ Die(l) \/ BrokerFails(l)
    \/ CheckEvents
    \/ StopEventLoop
    \/ \E c \in Conf : SaveConf(c)
    \/ \E action \in {"reload", "delSession"}, name \in Queues : Publish(action, name)

Spec == Init /\ [][Next]_vars

\* What a promise waits for happens or fails, and an interval fires.
Fairness ==
    /\ \A l \in Loads : /\ WF_vars(Advance(l) \/ BrokerFails(l))
                        /\ WF_vars(SessionReady(l))
    /\ WF_vars(CheckEvents)

FairSpec == Spec /\ Fairness

-----------------------------------------------------------------------------
(* Properties. *)

\* Every variable has its type, and no number points beyond what was saved or sent.
TypeOK ==
    /\ alive \in BOOLEAN /\ stopped \in BOOLEAN
    /\ confs \in Seq(Conf) /\ Len(confs) > 0
    /\ load \in [Loads -> [st : LoadSt, conf : 0..Len(confs)]]
    /\ rules \in [Locs -> 0..Len(confs)]
    /\ acc \in Loads \cup {None} /\ last \in Loads \cup {None}
    /\ reader \in Loads \cup {None} /\ loop \in Loads \cup {None}
    /\ queueName \in Queues /\ topic \in [Loads -> Queues \cup {None}]
    /\ ready \subseteq Loads /\ listening \subseteq Loads /\ intervals \subseteq Loads
    /\ msgs \in Seq({"reload", "delSession"}) /\ Len(msgs) =< MaxMsg
    /\ queue \in [Loads -> SUBSET (1..Len(msgs))]

\* However loads overlap and fail, and whether or not the loop was stopped in
\* between, at most one interval runs and stopEventLoop knows it.
OneLoop == intervals = {loop} \ {None}

\* A load sets the queue's name, waits for the broker's module and subscribes to
\* the queue that has the name by then, perhaps another load's.  In whatever order
\* their modules come, once no load waits for one, the queue that the loop polls
\* is the one to which the reader in place subscribed: the handler is not deaf.
PolledIsSubscribed ==
    reader # None /\ (\A l \in Loads : load[l].st # "broker") => topic[reader] = queueName

\* No message is acted on twice: checks overlap, and readers that were replaced
\* go on receiving copies of what the reader in place receives.
NotTakenTwice ==
    reader # None => \A m \in queue[reader] : load[m].st = "none"

\* The loads that were asked for end, well or not, or the process does.
LoadsEnd ==
    \A l \in Loads : load[l].st # "none" ~> load[l].st \in {"done", "failed"} \/ ~alive

\* The accessor in place has no backend for a while only: a load that fails
\* half-way does not leave the handler refusing every session.
SessionsBack == acc # None /\ acc \notin ready ~> acc \in ready \/ ~alive

\* A message that reached the reader in place is handled, unless that reader is
\* replaced by a later load or the loop is stopped.
MessagesHandled ==
    \A l \in Loads, m \in 1..MaxMsg :
        reader = l /\ load[l].st = "done" /\ m \in queue[l]
            ~> m \notin queue[l] \/ reader # l \/ stopped \/ ~alive

\* What msgActions says once a reload it asked for ended, "Configuration reloaded
\* via message broker": the rules in force are those of the configuration read.
InFlight(l) == load[l].st \notin {"none", "done", "failed"}

RulesReloaded ==
    alive /\ last # None /\ load[last].st = "done" /\ (\A l \in Loads : ~InFlight(l)) =>
        LET v == load[last].conf
        IN  \A loc \in Locs : rules[loc] = IF loc \in confs[v].locs THEN v ELSE 0
=============================================================================
