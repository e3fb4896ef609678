------------------------------ MODULE Handler ------------------------------
(***************************************************************************)
(* The access-control loop of the handler (packages/handler: handlerMain)  *)
(* over the session accessor (packages/session without its disk cache, the *)
(* way the handler builds it) and one session backend.  Several handler    *)
(* processes (Nodes) serve connections (Conns) that present session ids    *)
(* (Ids); the portal deletes sessions behind their back.                   *)
(*                                                                         *)
(* A JavaScript turn is one action: what the code does between two awaits  *)
(* is atomic, what it does after one sees whatever others did meanwhile.   *)
(***************************************************************************)
EXTENDS LimitedCache

CONSTANTS
    Conns,            \* connections; each carries one request at a time
    Ids,              \* session ids a cookie may hold
    Nodes,            \* handler processes over the same session store
    None,             \* JavaScript's null and undefined
    Backend,          \* kind of session backend: "file", "redis", "dbi" or "rest"
    BackendMayFail,   \* may a backend call be rejected?
    InternalCacheTTL, \* handlerInternalCache || 15
    MemTTL,           \* maxCacheTime (120 s in the code)
    CacheSize,        \* maxCacheSize (100 in the code)
    Timeout,          \* session lifetime of the configuration
    TimeoutActivity,  \* idle timeout of the configuration, 0 when off
    SeenInterval,     \* _lastSeen is rewritten when older (60 s in the code)
    Latency,          \* bound: seconds one backend call may take
    MaxTime           \* bound: the clock of a model stops here

Session == [id : Ids, utime : Nat, seen : Nat]   \* seen = 0: no _lastSeen
CacheEntry == [val : Session, at : Nat]
Memory == [Ids -> CacheEntry \cup {None}]
Slot == [id : Ids \cup {None}, sess : Session \cup {None}, at : Nat]
Touch == [node : Nodes, sess : Session, sent : Nat, st : {"sent", "applied", "orphan"}]
Request == [st : {"asked", "read"}, node : Nodes, id : Ids, start : Nat,
            sess : Session \cup {None}]
Reply == [st : {"granted", "inactive", "lost"}, id : Ids, start : Nat,
          sess : Session \cup {None}]

Gated == [st : {"open", "granted"}, id : Ids, start : Nat]   \* see GateOf

ASSUME NoneAssumption ==
    None \notin Ids \cup Session \cup CacheEntry \cup Request \cup Reply \cup Gated
ASSUME BackendAssumption == /\ Backend \in {"file", "redis", "dbi", "rest"}
                            /\ BackendMayFail \in BOOLEAN
ASSUME TimesAssumption ==
    /\ InternalCacheTTL \in Nat \ {0}
    /\ {MemTTL, Timeout, TimeoutActivity, SeenInterval, Latency, MaxTime} \subseteq Nat
ASSUME CacheAssumption == CacheSize \in Nat \ {0} /\ IsFiniteSet(Ids)

VARIABLES
    now,      \* Date.now() in seconds
    store,    \* sessions of the backend
    mem,      \* inMemoryCache of each node
    slot,     \* lastSessionId, lastSessionData, lastSessionTime of each node
    req,      \* the request a connection waits for, or the last answer it got;
              \* None also after a redirection to the portal, a 403 or a 503
    touches,  \* backend updates of _lastSeen that nobody awaits
    events,   \* delSession messages each node has received and not processed
    goneAt    \* when the portal deleted a session, 0 if it never did

vars == <<now, store, mem, slot, req, touches, events, goneAt>>

\* session-file writes the file and session-redis sets the key whether or not
\* it exists; session-dbi updates the rows that match; session-rest refuses.
UpdateCreates == Backend \in {"file", "redis"}

\* lastSessionTime outlives the data when a miss clears them; nothing reads it then.
\* Mutant: the time is cleared to null with the rest.
EmptySlotNullTime == [id |-> None, sess |-> None, at |-> None]
EmptySlot == [id |-> None, sess |-> None, at |-> 0]

InFlight(c) == req[c] # None /\ req[c].st \in {"asked", "read"}
Free(c) == ~InFlight(c)

Answer(c, st, request, sess) ==
    req' = [req EXCEPT ![c] = [st |-> st, id |-> request.id,
                               start |-> request.start, sess |-> sess]]

\* Any answer that lets nobody in: to the portal, 403 or 503.
Refuse(c) == req' = [req EXCEPT ![c] = None]

-----------------------------------------------------------------------------
(* retrieveSession's tests on the session it got, against the arrival time. *)

Expired(s, t) == t - s.utime > Timeout
Inactive(s, t) == TimeoutActivity > 0 /\ s.seen > 0 /\ t - s.seen > TimeoutActivity
NeedsTouch(s, t) == TimeoutActivity > 0 /\ s.seen > 0 /\ t - s.seen > SeenInterval
Touched(s, t) == IF NeedsTouch(s, t) THEN [s EXCEPT !.seen = t] ELSE s

\* Mutant: the update is sent on every request, not only when _lastSeen changed.
SentTouchesAlways(n, s, t) ==
    IF TimeoutActivity > 0 /\ s.seen > 0
    THEN {[node |-> n, sess |-> Touched(s, t), sent |-> now, st |-> "sent"]}
    ELSE {}

\* Mutant: what is sent is the session as it was before.
SentTouchesStale(n, s, t) ==
    IF NeedsTouch(s, t)
    THEN {[node |-> n, sess |-> s, sent |-> now, st |-> "sent"]}
    ELSE {}

\* The update that tells the backend of a new _lastSeen.
SentTouches(n, s, t) ==
    IF NeedsTouch(s, t)
    THEN {[node |-> n, sess |-> Touched(s, t), sent |-> now, st |-> "sent"]}
    ELSE {}

\* grant decides whatever the rules say: true, rejected (503), or false, which
\* also runs localUnlog (403, or the portal's logout).
Decide(c, request, s, m, sl) ==
    LET n == request.node
    IN  \/ /\ Answer(c, "granted", request, s) \/ Refuse(c)
           /\ mem' = [mem EXCEPT ![n] = m]
           /\ slot' = [slot EXCEPT ![n] = sl]
        \/ /\ Refuse(c)
           /\ mem' = [mem EXCEPT ![n] = CacheRemove(m, s.id, None)]
           /\ slot' = [slot EXCEPT ![n] = EmptySlot]

\* What retrieveSession and run do once sessionAcc.get resolved with s, m being
\* the node's memory cache, which holds that same object, and sl its slot.
Settle(c, request, s, m, sl) ==
    LET n == request.node
        t == request.start
        fresh == Touched(s, t)
    IN  \/ /\ Expired(s, t) \/ Inactive(s, t)
           /\ IF Expired(s, t) THEN Refuse(c) ELSE Answer(c, "inactive", request, None)
           /\ mem' = [mem EXCEPT ![n] = m]
           /\ slot' = [slot EXCEPT ![n] = sl]
           /\ UNCHANGED touches
        \/ /\ ~(Expired(s, t) \/ Inactive(s, t))
           /\ touches' = touches \cup SentTouches(n, s, t)
           /\ Decide(c, request, fresh, [m EXCEPT ![request.id].val = fresh],
                     [id |-> request.id, sess |-> fresh, at |-> t])

\* The process dies of an unhandled rejection and is started again.  An update
\* that has left may still reach the backend: an orphan, whose answer nobody hears.
Crash(n) ==
    /\ mem' = [mem EXCEPT ![n] = CacheReset(mem[n], None)]
    /\ slot' = [slot EXCEPT ![n] = EmptySlot]
    /\ \E left \in SUBSET {t \in touches : t.node = n /\ t.st # "applied"} :
          touches' = {t \in touches : t.node # n}
                        \cup {[t EXCEPT !.st = "orphan"] : t \in left}
    /\ req' = [c \in Conns |->
                 IF InFlight(c) /\ req[c].node = n
                 THEN [st |-> "lost", id |-> req[c].id, start |-> req[c].start, sess |-> None]
                 ELSE req[c]]

-----------------------------------------------------------------------------
(* A request arrives. *)

\* No Host header, maintenance, or no cookie: answered without a session.
ArriveWithoutSession(c) ==
    /\ Free(c)
    /\ Refuse(c)
    /\ UNCHANGED <<now, store, mem, slot, touches, events, goneAt>>

\* The location is marked skip: the slot is cleared on the way.
ArriveSkipped(c, n) ==
    /\ Free(c)
    /\ Refuse(c)
    /\ slot' = [slot EXCEPT ![n] = EmptySlot]
    /\ UNCHANGED <<now, store, mem, touches, events, goneAt>>

\* Mutants: the slot answers whoever asks; it never gets old.
SlotHitAnyId(n, id) ==
    /\ slot[n].sess # None
    /\ now - slot[n].at < InternalCacheTTL

SlotHitForever(n, id) ==
    /\ slot[n].id = id
    /\ slot[n].sess # None

SlotHit(n, id) ==
    /\ slot[n].id = id
    /\ slot[n].sess # None
    /\ now - slot[n].at < InternalCacheTTL

Arrival(n, id) == [st |-> "asked", node |-> n, id |-> id, start |-> now,
                   sess |-> None]

\* Mutant: a hit makes the slot younger.
ArriveSlotHitSliding(c, n, id) ==
    /\ Free(c)
    /\ SlotHit(n, id)
    /\ Decide(c, Arrival(n, id), slot[n].sess, mem[n], [slot[n] EXCEPT !.at = now])
    /\ UNCHANGED <<now, store, touches, events, goneAt>>

ArriveSlotHit(c, n, id) ==
    /\ Free(c)
    /\ SlotHit(n, id)
    /\ Decide(c, Arrival(n, id), slot[n].sess, mem[n], slot[n])
    /\ UNCHANGED <<now, store, touches, events, goneAt>>

ArriveMemHit(c, n, id) ==
    /\ Free(c)
    /\ ~SlotHit(n, id)
    /\ CacheHit(mem[n], id, None, now, MemTTL)
    /\ Settle(c, Arrival(n, id), mem[n][id].val, mem[n], EmptySlot)
    /\ UNCHANGED <<now, store, events, goneAt>>

ArriveMiss(c, n, id) ==
    /\ Free(c)
    /\ ~SlotHit(n, id)
    /\ ~CacheHit(mem[n], id, None, now, MemTTL)
    /\ req' = [req EXCEPT ![c] = Arrival(n, id)]
    /\ slot' = [slot EXCEPT ![n] = EmptySlot]
    /\ UNCHANGED <<now, store, mem, touches, events, goneAt>>

-----------------------------------------------------------------------------
(* The backend reads the session, then the answer reaches the handler. *)

StoreRead(c) ==
    /\ InFlight(c) /\ req[c].st = "asked"
    /\ req' = [req EXCEPT ![c].st = "read", ![c].sess = store[req[c].id]]
    /\ UNCHANGED <<now, store, mem, slot, touches, events, goneAt>>

\* Mutant: no backend's rejection is caught.
StoreFailUncaught(c) ==
    /\ BackendMayFail
    /\ InFlight(c) /\ req[c].st = "asked"
    /\ Crash(req[c].node)
    /\ UNCHANGED <<now, store, events, goneAt>>

\* session-dbi's get has no catch: its rejection is unhandled.
StoreFail(c) ==
    /\ BackendMayFail
    /\ InFlight(c) /\ req[c].st = "asked"
    /\ IF Backend = "dbi"
       THEN Crash(req[c].node)
       ELSE Refuse(c) /\ UNCHANGED <<mem, slot, touches>>
    /\ UNCHANGED <<now, store, events, goneAt>>

GetFound(c) ==
    /\ InFlight(c) /\ req[c].st = "read" /\ req[c].sess # None
    /\ LET r == req[c]
       IN  \E m \in CacheSet(mem[r.node], r.id, r.sess, None, now, CacheSize) :
              Settle(c, r, r.sess, m, slot[r.node])
    /\ UNCHANGED <<now, store, events, goneAt>>

\* session-redis resolves with null, which Session.get puts in the cache.
GetMissing(c) ==
    /\ InFlight(c) /\ req[c].st = "read" /\ req[c].sess = None
    /\ Refuse(c)
    /\ mem' = IF Backend = "redis" THEN [mem EXCEPT ![req[c].node][req[c].id] = None]
                                   ELSE mem
    /\ UNCHANGED <<now, store, slot, touches, events, goneAt>>

-----------------------------------------------------------------------------
(* The update of _lastSeen that retrieveSession starts and forgets. *)

TouchApply(t) ==
    /\ t \in touches /\ t.st \in {"sent", "orphan"} /\ Backend # "rest"
    /\ store' = IF store[t.sess.id] # None \/ UpdateCreates
                THEN [store EXCEPT ![t.sess.id] = t.sess] ELSE store
    /\ touches' = (touches \ {t})
                     \cup IF t.st = "sent" THEN {[t EXCEPT !.st = "applied"]} ELSE {}
    /\ UNCHANGED <<now, mem, slot, req, events, goneAt>>

TouchAnswer(t) ==
    /\ t \in touches /\ t.st = "applied"
    /\ \E m \in CacheSet(mem[t.node], t.sess.id, t.sess, None, now, CacheSize) :
          mem' = [mem EXCEPT ![t.node] = m]
    /\ touches' = touches \ {t}
    /\ UNCHANGED <<now, store, slot, req, events, goneAt>>

TouchRejected(t) ==
    /\ t \in touches /\ t.st = "sent"
    /\ Backend = "rest" \/ BackendMayFail
    /\ Crash(t.node)
    /\ UNCHANGED <<now, store, events, goneAt>>

-----------------------------------------------------------------------------
(* The portal and the event loop. *)

\* The broker delivers the deletion to some of the nodes only: a node without
\* a broker, or reconnecting to it, never hears of it.
Logout(id) ==
    /\ store[id] # None
    /\ store' = [store EXCEPT ![id] = None]
    /\ goneAt' = [goneAt EXCEPT ![id] = now]
    /\ \E heard \in SUBSET Nodes :
          events' = [n \in Nodes |-> IF n \in heard THEN events[n] \cup {id} ELSE events[n]]
    /\ UNCHANGED <<now, mem, slot, req, touches>>

\* Mutant: only the slot is cleared.
LocalUnlogSlotOnly(n, id) ==
    /\ slot' = [slot EXCEPT ![n] = EmptySlot]
    /\ UNCHANGED mem

\* The slot is cleared whatever it holds, the memory cache of this id.
LocalUnlog(n, id) ==
    /\ slot' = [slot EXCEPT ![n] = EmptySlot]
    /\ mem' = [mem EXCEPT ![n] = CacheRemove(mem[n], id, None)]

\* checkEvents takes one message; unlog and delSession run localUnlog on its id.
CheckEvents(n, id) ==
    /\ id \in events[n]
    /\ events' = [events EXCEPT ![n] = @ \ {id}]
    /\ LocalUnlog(n, id)
    /\ UNCHANGED <<now, store, req, touches, goneAt>>

\* Time passes, but no backend call outlives its bound.
Tick ==
    /\ now < MaxTime
    /\ \A c \in Conns : InFlight(c) => now < req[c].start + Latency
    /\ \A t \in touches : now < t.sent + Latency
    /\ now' = now + 1
    /\ UNCHANGED <<store, mem, slot, req, touches, events, goneAt>>

-----------------------------------------------------------------------------

Init ==
    /\ now = 1
    /\ \E held \in SUBSET Ids, seen \in IF TimeoutActivity > 0 THEN {0, 1} ELSE {0} :
          store = [id \in Ids |-> IF id \in held
                                 THEN [id |-> id, utime |-> 1, seen |-> seen]
                                 ELSE None]
    /\ mem = [n \in Nodes |-> [id \in Ids |-> None]]
    /\ slot = [n \in Nodes |-> EmptySlot]
    /\ req = [c \in Conns |-> None]
    /\ touches = {}
    /\ events = [n \in Nodes |-> {}]
    /\ goneAt = [id \in Ids |-> 0]

Next ==
    \/ \E c \in Conns : ArriveWithoutSession(c)
    \/ \E c \in Conns, n \in Nodes : ArriveSkipped(c, n)
    \/ \E c \in Conns, n \in Nodes, id \in Ids :
          \/ ArriveSlotHit(c, n, id)
          \/ ArriveMemHit(c, n, id)
          \/ ArriveMiss(c, n, id)
    \/ \E c \in Conns : StoreRead(c) \/ StoreFail(c) \/ GetFound(c) \/ GetMissing(c)
    \/ \E t \in touches : TouchApply(t) \/ TouchAnswer(t) \/ TouchRejected(t)
    \/ \E id \in Ids : Logout(id)
    \/ \E n \in Nodes, id \in Ids : CheckEvents(n, id)
    \/ Tick

Spec == Init /\ [][Next]_vars

\* The event loop of Node.js runs a ready callback, and a backend call ends.
Fairness ==
    \A c \in Conns : /\ WF_vars(StoreRead(c) \/ StoreFail(c))
                     /\ WF_vars(GetFound(c) \/ GetMissing(c))

FairSpec == Spec /\ Fairness

-----------------------------------------------------------------------------
(* Properties. *)

\* Every variable has its type, and what is kept under an id is a session.
TypeOK ==
    /\ now \in Nat
    /\ store \in [Ids -> Session \cup {None}]
    /\ mem \in [Nodes -> Memory]
    /\ slot \in [Nodes -> Slot]
    /\ req \in [Conns -> Request \cup Reply \cup {None}]
    /\ touches \subseteq Touch
    /\ events \in [Nodes -> SUBSET Ids]
    /\ goneAt \in [Ids -> Nat]

Answered(c, st) == req[c] # None /\ req[c].st = st

\* A request is let in on the session its own cookie names, however the slot,
\* the cache and concurrent requests of other users interleave.
NoCrossSession ==
    \A c \in Conns : Answered(c, "granted") => req[c].sess.id = req[c].id

\* The slot answers without looking at the age of the session, so a session
\* may outlive the configured lifetime, but by less than the slot's own.
SessionLifetime ==
    \A c \in Conns : Answered(c, "granted") =>
        req[c].start - req[c].sess.utime < Timeout + InternalCacheTTL

\* A deleted session still opens the door from the caches, but no longer than
\* one backend call, the memory cache's lifetime and the slot's together,
\* whether or not the node heard of the deletion.  (Without idle timeout.)
Grace == Latency + MemTTL + InternalCacheTTL

BoundedStaleness ==
    \A c \in Conns :
        Answered(c, "granted") /\ goneAt[req[c].id] # 0 =>
            req[c].start < goneAt[req[c].id] + Grace

Cached(n, id) == mem[n][id] # None \/ slot[n].id = id

\* No backend call of node n can still bring a copy of the session back.
Quiet(n, id) ==
    /\ \A c \in Conns : InFlight(c) /\ req[c].node = n /\ req[c].id = id
                          => req[c].sess = None
    /\ \A t \in touches : t.st = "orphan" \/ ~(t.node = n /\ t.sess.id = id)

\* localUnlog on a deleted session is final: once it ran, or whenever the node
\* has no copy, the node never serves that session again, provided no call
\* that left before is still on its way back (for how long what such a call brings
\* back is served, is the subject of BoundedStaleness).
UnlogIsFinal ==
    [][\A n \in Nodes, id \in Ids :
        /\ goneAt[id] # 0 /\ Quiet(n, id)
        /\ ~Cached(n, id) \/ (id \in events[n] /\ id \notin events'[n])
        => ~Cached(n, id)' /\ Quiet(n, id)']_vars

\* Two nodes may write _lastSeen in the wrong order, but the loss is no more
\* than the time the two calls of the slower one take.
LastSeenLoss ==
    [][\A id \in Ids : store[id] # None /\ store'[id] # None =>
          store[id].seen - store'[id].seen =< 2 * Latency]_vars

\* A user is refused for inactivity only after having been inactive.  Cached
\* copies of _lastSeen are old: the user may be refused early, by the minute in
\* which _lastSeen is not rewritten and the life of the slot.  And while the
\* update of a returning user's _lastSeen travels, another node may still read
\* the old one and keep it: for so long (Wavering) the user is let in here and
\* refused there, after an idle time just short of the timeout.  (While no
\* update is lost: see StoreFail, TouchRejected.)
IdleSlack == SeenInterval + InternalCacheTTL - 1 + 2 * Latency
Wavering == MemTTL + 4 * Latency

NoFalseInactivity ==
    \A c, d \in Conns :
        /\ Answered(c, "inactive") /\ Answered(d, "granted")
        /\ req[c].id = req[d].id /\ req[d].start + Wavering < req[c].start
        => req[c].start - req[d].start > TimeoutActivity - IdleSlack

\* A request that waits for the store is answered in the end, be it by a refusal,
\* even when calls to the backend, here files, fail: every backend but dbi hands
\* its failures on.  (dbi's get has no catch: see StoreFailUncaught.)
Lost(c) == Answered(c, "lost")
EveryRequestAnswered == \A c \in Conns : InFlight(c) ~> ~InFlight(c) /\ ~Lost(c)

\* The handler, its nodes and caches together, keeps the promise of SessionGate:
\* a connection is open while it waits, granted when it was let in.
GateOf(r) ==
    IF r = None THEN None
    ELSE CASE r.st \in {"asked", "read"} -> [st |-> "open", id |-> r.id, start |-> r.start]
           [] r.st = "granted" -> [st |-> "granted", id |-> r.id, start |-> r.start]
           [] OTHER -> None

Gate == INSTANCE SessionGate WITH gate <- [c \in Conns |-> GateOf(req[c])]

GateSpec == Gate!Spec
=============================================================================
