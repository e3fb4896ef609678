--------------------------- MODULE HandlerProofs ---------------------------
(* Theorems about Handler, for every value of its constants. *)
EXTENDS Handler, TLAPS

-----------------------------------------------------------------------------
(* The cache. *)

\* set leaves the new entry under its key, and under every other key the entry
\* it had or nothing.
LEMMA CacheSetKeeps ==
    ASSUME NEW cache \in Memory, NEW key \in Ids, NEW value, NEW t,
           NEW m \in CacheSet(cache, key, value, None, t, CacheSize)
    PROVE  /\ m = [k \in Ids |-> m[k]]
           /\ m[key] = Entry(value, t)
           /\ \A k \in Ids \ {key} : m[k] = cache[k] \/ m[k] = None
BY DEF CacheSet, Memory, Entry

LEMMA CacheSetType ==
    ASSUME NEW cache \in Memory, NEW key \in Ids, NEW value \in Session, NEW t \in Nat,
           NEW m \in CacheSet(cache, key, value, None, t, CacheSize)
    PROVE  m \in Memory
<1>1. Entry(value, t) \in CacheEntry
  BY DEF Entry, CacheEntry
<1>2. /\ m = [k \in Ids |-> m[k]]
      /\ m[key] = Entry(value, t)
      /\ \A k \in Ids \ {key} : m[k] = cache[k] \/ m[k] = None
  BY CacheSetKeeps
<1>3. \A k \in Ids : m[k] \in CacheEntry \cup {None}
  BY <1>1, <1>2 DEF Memory
<1> QED
  BY <1>2, <1>3 DEF Memory

-----------------------------------------------------------------------------
(* Types. *)

LEMMA EmptySlotType == EmptySlot \in Slot
BY DEF EmptySlot, Slot

LEMMA TouchedType ==
    ASSUME NEW s \in Session, NEW t \in Nat
    PROVE  /\ Touched(s, t) \in Session
           /\ Touched(s, t).id = s.id
           /\ Touched(s, t).utime = s.utime
BY DEF Touched, Session

\* The answer, the memory and the slot that Decide leaves are typed.
LEMMA DecideType ==
    ASSUME TypeOK, NEW c \in Conns, NEW r \in Request, NEW s \in Session,
           NEW m \in Memory, NEW sl \in Slot, Decide(c, r, s, m, sl)
    PROVE  /\ req' \in [Conns -> Request \cup Reply \cup {None}]
           /\ mem' \in [Nodes -> Memory]
           /\ slot' \in [Nodes -> Slot]
<1>1. r.node \in Nodes /\ r.id \in Ids /\ r.start \in Nat /\ s.id \in Ids
  BY DEF Request, Session
<1>2. CacheRemove(m, s.id, None) \in Memory
  BY DEF CacheRemove, Memory
<1>3. [st |-> "granted", id |-> r.id, start |-> r.start, sess |-> s] \in Reply
  BY <1>1 DEF Reply
<1>4. req' \in [Conns -> Request \cup Reply \cup {None}]
  BY <1>3 DEF Decide, Answer, Refuse, TypeOK
<1>5. mem' \in [Nodes -> Memory]
  BY <1>1, <1>2 DEF Decide, TypeOK
<1>6. slot' \in [Nodes -> Slot]
  BY <1>1, EmptySlotType DEF Decide, TypeOK
<1> QED
  BY <1>4, <1>5, <1>6

\* So are those that Settle leaves, and the update it may start.
LEMMA SettleType ==
    ASSUME TypeOK, NEW c \in Conns, NEW r \in Request, NEW s \in Session,
           NEW m \in Memory, m[r.id] # None, NEW sl \in Slot, Settle(c, r, s, m, sl)
    PROVE  /\ req' \in [Conns -> Request \cup Reply \cup {None}]
           /\ mem' \in [Nodes -> Memory]
           /\ slot' \in [Nodes -> Slot]
           /\ touches' \subseteq Touch
<1> DEFINE fresh == Touched(s, r.start)
<1>1. r.node \in Nodes /\ r.id \in Ids /\ r.start \in Nat
  BY DEF Request
<1>2. fresh \in Session
  BY <1>1, TouchedType
<1>3. CASE Expired(s, r.start) \/ Inactive(s, r.start)
  <2>1. [st |-> "inactive", id |-> r.id, start |-> r.start, sess |-> None] \in Reply
    BY <1>1 DEF Reply
  <2>2. touches' = touches /\ mem' = [mem EXCEPT ![r.node] = m]
                           /\ slot' = [slot EXCEPT ![r.node] = sl]
                           /\ (Refuse(c) \/ Answer(c, "inactive", r, None))
    BY <1>3 DEF Settle
  <2> QED
    BY <1>1, <2>1, <2>2 DEF TypeOK, Answer, Refuse
<1>4. CASE ~(Expired(s, r.start) \/ Inactive(s, r.start))
  <2>1. [m EXCEPT ![r.id].val = fresh] \in Memory
    BY <1>1, <1>2 DEF Memory, CacheEntry
  <2>2. [id |-> r.id, sess |-> fresh, at |-> r.start] \in Slot
    BY <1>1, <1>2 DEF Slot
  <2>3. [node |-> r.node, sess |-> fresh, sent |-> now, st |-> "sent"] \in Touch
    BY <1>1, <1>2 DEF Touch, TypeOK
  <2>4. touches' \subseteq Touch
    BY <1>4, <2>3 DEF Settle, SentTouches, TypeOK
  <2>5. Decide(c, r, fresh, [m EXCEPT ![r.id].val = fresh],
               [id |-> r.id, sess |-> fresh, at |-> r.start])
    BY <1>4 DEF Settle
  <2> QED
    BY <1>2, <2>1, <2>2, <2>4, <2>5, DecideType
<1> QED
  BY <1>3, <1>4

\* Every action, one by one, keeps the types.
LEMMA CrashType ==
    ASSUME TypeOK, NEW n \in Nodes, Crash(n)
    PROVE  /\ req' \in [Conns -> Request \cup Reply \cup {None}]
           /\ mem' \in [Nodes -> Memory]
           /\ slot' \in [Nodes -> Slot]
           /\ touches' \subseteq Touch
<1>1. CacheReset(mem[n], None) \in Memory
  BY DEF CacheReset, TypeOK, Memory
<1>2. \A c \in Conns : InFlight(c) => req[c] \in Request
  BY NoneAssumption DEF InFlight, TypeOK, Reply, Request
<1>3. \A c \in Conns : InFlight(c) =>
         [st |-> "lost", id |-> req[c].id, start |-> req[c].start, sess |-> None] \in Reply
  BY <1>2 DEF Request, Reply
<1>4. \A t \in Touch : [t EXCEPT !.st = "orphan"] \in Touch
  BY DEF Touch
<1>5. touches' \subseteq Touch
  <2>1. PICK left \in SUBSET {t \in touches : t.node = n /\ t.st # "applied"} :
          touches' = {t \in touches : t.node # n}
                        \cup {[t EXCEPT !.st = "orphan"] : t \in left}
    BY DEF Crash
  <2>2. left \subseteq Touch
    BY DEF TypeOK
  <2> QED
    BY <1>4, <2>1, <2>2 DEF TypeOK
<1> QED
  BY <1>1, <1>3, <1>5, EmptySlotType DEF Crash, TypeOK

LEMMA InFlightType ==
    ASSUME TypeOK, NEW c \in Conns, InFlight(c)
    PROVE  req[c] \in Request
BY NoneAssumption DEF InFlight, TypeOK, Reply, Request

LEMMA ArrivalType ==
    ASSUME TypeOK, NEW n \in Nodes, NEW id \in Ids
    PROVE  /\ Arrival(n, id) \in Request
           /\ Arrival(n, id).node = n
           /\ Arrival(n, id).id = id
           /\ Arrival(n, id).start = now
BY DEF Arrival, Request, TypeOK

\* Init and every action establish the types of the variables.
THEOREM TypeCorrect == Spec => []TypeOK
<1>1. Init => TypeOK
  <2> SUFFICES ASSUME Init PROVE TypeOK
    OBVIOUS
  <2>1. store \in [Ids -> Session \cup {None}]
    <3>1. PICK held \in SUBSET Ids, seen \in IF TimeoutActivity > 0 THEN {0, 1} ELSE {0} :
             store = [id \in Ids |-> IF id \in held
                                    THEN [id |-> id, utime |-> 1, seen |-> seen]
                                    ELSE None]
      BY DEF Init
    <3> QED
      BY <3>1 DEF Session
  <2> QED
    BY <2>1, EmptySlotType DEF Init, TypeOK, Memory
<1>2. ASSUME TypeOK, [Next]_vars PROVE TypeOK'
  <2> USE <1>2
  <2>1. CASE \E c \in Conns : ArriveWithoutSession(c)
    BY <2>1 DEF ArriveWithoutSession, Refuse, TypeOK
  <2>2. CASE \E c \in Conns, n \in Nodes : ArriveSkipped(c, n)
    BY <2>2, EmptySlotType DEF ArriveSkipped, Refuse, TypeOK
  <2>3. ASSUME NEW c \in Conns, NEW n \in Nodes, NEW id \in Ids, ArriveSlotHit(c, n, id)
        PROVE  TypeOK'
    <3>1. slot[n] \in Slot /\ slot[n].sess \in Session /\ mem[n] \in Memory
      BY <2>3 DEF ArriveSlotHit, SlotHit, TypeOK, Slot
    <3>2. Arrival(n, id) \in Request
      BY ArrivalType
    <3>3. Decide(c, Arrival(n, id), slot[n].sess, mem[n], slot[n])
      BY <2>3 DEF ArriveSlotHit
    <3> QED
      BY <2>3, <3>1, <3>2, <3>3, DecideType DEF ArriveSlotHit, TypeOK
  <2>4. ASSUME NEW c \in Conns, NEW n \in Nodes, NEW id \in Ids, ArriveMemHit(c, n, id)
        PROVE  TypeOK'
    <3>1. mem[n] \in Memory /\ mem[n][id] # None /\ mem[n][id].val \in Session
      BY <2>4 DEF ArriveMemHit, CacheHit, TypeOK, Memory, CacheEntry
    <3>2. Arrival(n, id) \in Request /\ mem[n][Arrival(n, id).id] # None
      BY <3>1, ArrivalType
    <3>3. Settle(c, Arrival(n, id), mem[n][id].val, mem[n], EmptySlot)
      BY <2>4 DEF ArriveMemHit
    <3> QED
      BY <2>4, <3>1, <3>2, <3>3, EmptySlotType, SettleType DEF ArriveMemHit, TypeOK
  <2>5. ASSUME NEW c \in Conns, NEW n \in Nodes, NEW id \in Ids, ArriveMiss(c, n, id)
        PROVE  TypeOK'
    BY <2>5, ArrivalType, EmptySlotType DEF ArriveMiss, TypeOK
  <2>6. ASSUME NEW c \in Conns, StoreRead(c)
        PROVE  TypeOK'
    <3>1. req[c] \in Request /\ store[req[c].id] \in Session \cup {None}
      BY <2>6, InFlightType DEF StoreRead, TypeOK, Request
    <3>2. [req[c] EXCEPT !.st = "read", !.sess = store[req[c].id]] \in Request
      BY <3>1 DEF Request
    <3> QED
      BY <2>6, <3>2 DEF StoreRead, TypeOK
  <2>7. ASSUME NEW c \in Conns, StoreFail(c)
        PROVE  TypeOK'
    <3>1. req[c].node \in Nodes
      BY <2>7, InFlightType DEF StoreFail, Request
    <3>2. CASE Backend = "dbi"
      BY <2>7, <3>1, <3>2, CrashType DEF StoreFail, TypeOK
    <3>3. CASE Backend # "dbi"
      BY <2>7, <3>3 DEF StoreFail, Refuse, TypeOK
    <3> QED
      BY <3>2, <3>3
  <2>8. ASSUME NEW c \in Conns, GetFound(c)
        PROVE  TypeOK'
    <3>1. req[c] \in Request
      BY <2>8, InFlightType DEF GetFound
    <3>2. /\ req[c].node \in Nodes /\ req[c].id \in Ids
          /\ req[c].sess \in Session
          /\ mem[req[c].node] \in Memory /\ slot[req[c].node] \in Slot /\ now \in Nat
      BY <2>8, <3>1 DEF GetFound, Request, TypeOK
    <3>3. PICK m \in CacheSet(mem[req[c].node], req[c].id, req[c].sess, None, now, CacheSize) :
             Settle(c, req[c], req[c].sess, m, slot[req[c].node])
      BY <2>8 DEF GetFound
    <3>4. m \in Memory /\ m[req[c].id] # None
      <4>1. m[req[c].id] = Entry(req[c].sess, now) /\ m \in Memory
        BY <3>2, CacheSetKeeps, CacheSetType
      <4>2. Entry(req[c].sess, now) \in CacheEntry
        BY <3>2 DEF Entry, CacheEntry
      <4> QED
        BY <4>1, <4>2, NoneAssumption
    <3> QED
      BY <2>8, <3>1, <3>2, <3>3, <3>4, SettleType DEF GetFound, TypeOK
  <2>9. ASSUME NEW c \in Conns, GetMissing(c)
        PROVE  TypeOK'
    <3>1. req[c].node \in Nodes /\ req[c].id \in Ids
      BY <2>9, InFlightType DEF GetMissing, Request
    <3>2. mem' \in [Nodes -> Memory]
      BY <2>9, <3>1 DEF GetMissing, TypeOK, Memory
    <3> QED
      BY <2>9, <3>2 DEF GetMissing, Refuse, TypeOK
  <2>10. ASSUME NEW t \in touches, TouchApply(t)
         PROVE  TypeOK'
    <3>1. t \in Touch /\ t.sess \in Session /\ t.sess.id \in Ids
      BY DEF TypeOK, Touch, Session
    <3>2. [t EXCEPT !.st = "applied"] \in Touch
      BY <3>1 DEF Touch
    <3> QED
      BY <2>10, <3>1, <3>2 DEF TouchApply, TypeOK
  <2>11. ASSUME NEW t \in touches, TouchAnswer(t)
         PROVE  TypeOK'
    <3>1. t.node \in Nodes /\ t.sess \in Session /\ t.sess.id \in Ids
      BY DEF TypeOK, Touch, Session
    <3>2. mem[t.node] \in Memory /\ now \in Nat
      BY <3>1 DEF TypeOK
    <3>3. PICK m \in CacheSet(mem[t.node], t.sess.id, t.sess, None, now, CacheSize) :
             mem' = [mem EXCEPT ![t.node] = m]
      BY <2>11 DEF TouchAnswer
    <3>4. m \in Memory
      BY <3>1, <3>2, CacheSetType
    <3> QED
      BY <2>11, <3>1, <3>3, <3>4 DEF TouchAnswer, TypeOK
  <2>12. ASSUME NEW t \in touches, TouchRejected(t)
         PROVE  TypeOK'
    <3>1. t.node \in Nodes
      BY DEF TypeOK, Touch
    <3> QED
      BY <2>12, <3>1, CrashType DEF TouchRejected, TypeOK
  <2>13. ASSUME NEW id \in Ids, Logout(id)
         PROVE  TypeOK'
    BY <2>13 DEF Logout, TypeOK
  <2>14. ASSUME NEW n \in Nodes, NEW id \in Ids, CheckEvents(n, id)
         PROVE  TypeOK'
    <3>1. CacheRemove(mem[n], id, None) \in Memory
      BY DEF CacheRemove, TypeOK, Memory
    <3> QED
      BY <2>14, <3>1, EmptySlotType DEF CheckEvents, LocalUnlog, TypeOK
  <2>15. CASE Tick
    BY <2>15 DEF Tick, TypeOK
  <2>16. CASE UNCHANGED vars
    BY <2>16 DEF vars, TypeOK
  <2> QED
    BY <2>1, <2>2, <2>3, <2>4, <2>5, <2>6, <2>7, <2>8, <2>9, <2>10, <2>11, <2>12,
       <2>13, <2>14, <2>15, <2>16 DEF Next
<1> QED
  BY <1>1, <1>2, PTL DEF Spec

-----------------------------------------------------------------------------
(* Whose session it is, and how old.  NoCrossSession and SessionLifetime    *)
(* speak of requests that were let in; the invariant says where their       *)
(* session can come from: every copy is kept under its own id, and the slot *)
(* only holds a session that was young enough when it was put there.        *)

MemOwn(m) == \A id \in Ids : m[id] # None => m[id].val.id = id

SlotOwn(sl) == sl.sess # None => /\ sl.id = sl.sess.id
                                 /\ sl.at - sl.sess.utime =< Timeout

Young(s, start) == start - s.utime < Timeout + InternalCacheTTL

ReqOwn(r) ==
    r # None =>
        /\ r.st \in {"asked", "read"} /\ r.sess # None => r.sess.id = r.id
        /\ r.st = "granted" => /\ r.sess # None
                               /\ r.sess.id = r.id
                               /\ Young(r.sess, r.start)

Own ==
    /\ \A id \in Ids : store[id] # None => store[id].id = id
    /\ \A n \in Nodes : MemOwn(mem[n])
    /\ \A n \in Nodes : SlotOwn(slot[n])
    /\ \A c \in Conns : ReqOwn(req[c])

LEMMA EmptyOwn ==
    /\ SlotOwn(EmptySlot)
    /\ ReqOwn(None)
    /\ \A m \in Memory : \A id \in Ids : MemOwn(m) => MemOwn(CacheRemove(m, id, None))
    /\ \A m \in Memory : MemOwn(CacheReset(m, None))
BY DEF SlotOwn, EmptySlot, ReqOwn, MemOwn, CacheRemove, CacheReset, Memory

LEMMA CacheSetOwn ==
    ASSUME NEW cache \in Memory, MemOwn(cache), NEW s \in Session, NEW t \in Nat,
           NEW m \in CacheSet(cache, s.id, s, None, t, CacheSize)
    PROVE  MemOwn(m)
<1>1. s.id \in Ids
  BY DEF Session
<1>2. m[s.id] = Entry(s, t) /\ \A k \in Ids \ {s.id} : m[k] = cache[k] \/ m[k] = None
  BY <1>1, CacheSetKeeps
<1> QED
  BY <1>1, <1>2 DEF MemOwn, Entry

LEMMA DecideOwn ==
    ASSUME TypeOK, Own, NEW c \in Conns, NEW r \in Request, NEW s \in Session,
           s.id = r.id, Young(s, r.start),
           NEW m \in Memory, MemOwn(m), NEW sl \in Slot, SlotOwn(sl),
           Decide(c, r, s, m, sl)
    PROVE  /\ \A n \in Nodes : MemOwn(mem'[n])
           /\ \A n \in Nodes : SlotOwn(slot'[n])
           /\ \A d \in Conns : ReqOwn(req'[d])
<1>1. r.node \in Nodes /\ s.id \in Ids
  BY DEF Request, Session
<1>2. ReqOwn([st |-> "granted", id |-> r.id, start |-> r.start, sess |-> s])
  BY NoneAssumption DEF ReqOwn, Session
<1>3. \A n \in Nodes : MemOwn(mem'[n])
  BY <1>1, EmptyOwn DEF Decide, TypeOK, Own
<1>4. \A n \in Nodes : SlotOwn(slot'[n])
  BY <1>1, EmptyOwn DEF Decide, TypeOK, Own
<1>5. \A d \in Conns : ReqOwn(req'[d])
  BY <1>2, EmptyOwn DEF Decide, Answer, Refuse, TypeOK, Own
<1> QED
  BY <1>3, <1>4, <1>5

LEMMA SettleOwn ==
    ASSUME TypeOK, Own, NEW c \in Conns, NEW r \in Request, NEW s \in Session,
           s.id = r.id,
           NEW m \in Memory, MemOwn(m), m[r.id] # None,
           NEW sl \in Slot, SlotOwn(sl), Settle(c, r, s, m, sl)
    PROVE  /\ \A n \in Nodes : MemOwn(mem'[n])
           /\ \A n \in Nodes : SlotOwn(slot'[n])
           /\ \A d \in Conns : ReqOwn(req'[d])
<1> DEFINE fresh == Touched(s, r.start)
<1>1. r.node \in Nodes /\ r.id \in Ids /\ r.start \in Nat
  BY DEF Request
<1>2. fresh \in Session /\ fresh.id = r.id /\ fresh.utime = s.utime
  BY <1>1, TouchedType
<1>3. CASE Expired(s, r.start) \/ Inactive(s, r.start)
  <2>1. ReqOwn([st |-> "inactive", id |-> r.id, start |-> r.start, sess |-> None])
    BY DEF ReqOwn
  <2>2. /\ mem' = [mem EXCEPT ![r.node] = m]
        /\ slot' = [slot EXCEPT ![r.node] = sl]
        /\ Refuse(c) \/ Answer(c, "inactive", r, None)
    BY <1>3 DEF Settle
  <2> QED
    BY <1>1, <2>1, <2>2, EmptyOwn DEF TypeOK, Own, Answer, Refuse
<1>4. CASE ~(Expired(s, r.start) \/ Inactive(s, r.start))
  <2>1. r.start - s.utime =< Timeout /\ s.utime \in Nat
    BY <1>1, <1>4, TimesAssumption DEF Expired, Session
  <2>2. Young(fresh, r.start)
    BY <1>1, <1>2, <2>1, TimesAssumption DEF Young
  <2>3. [m EXCEPT ![r.id].val = fresh] \in Memory /\ MemOwn([m EXCEPT ![r.id].val = fresh])
    BY <1>1, <1>2 DEF Memory, CacheEntry, MemOwn
  <2>4. /\ [id |-> r.id, sess |-> fresh, at |-> r.start] \in Slot
        /\ SlotOwn([id |-> r.id, sess |-> fresh, at |-> r.start])
    BY <1>1, <1>2, <2>1 DEF Slot, SlotOwn
  <2>5. Decide(c, r, fresh, [m EXCEPT ![r.id].val = fresh],
               [id |-> r.id, sess |-> fresh, at |-> r.start])
    BY <1>4 DEF Settle
  <2> HIDE DEF fresh
  <2> QED
    BY <1>2, <2>2, <2>3, <2>4, <2>5, DecideOwn
<1> QED
  BY <1>3, <1>4

LEMMA CrashOwn ==
    ASSUME TypeOK, Own, NEW n \in Nodes, Crash(n)
    PROVE  /\ \A k \in Nodes : MemOwn(mem'[k])
           /\ \A k \in Nodes : SlotOwn(slot'[k])
           /\ \A d \in Conns : ReqOwn(req'[d])
<1>1. MemOwn(CacheReset(mem[n], None))
  BY EmptyOwn DEF TypeOK
<1>2. \A d \in Conns : ReqOwn(req'[d])
  BY DEF Crash, Own, ReqOwn
<1> QED
  BY <1>1, <1>2, EmptyOwn DEF Crash, Own, TypeOK

LEMMA OwnInit == Init => Own
<1> SUFFICES ASSUME Init PROVE Own
  OBVIOUS
<1>1. \A id \in Ids : store[id] # None => store[id].id = id
  BY DEF Init
<1> QED
  BY <1>1, EmptyOwn DEF Init, Own, MemOwn

LEMMA OwnStep ==
    ASSUME TypeOK, Own, [Next]_vars
    PROVE  Own'
<1>1. CASE \E c \in Conns : ArriveWithoutSession(c)
  BY <1>1, EmptyOwn DEF ArriveWithoutSession, Refuse, TypeOK, Own
<1>2. CASE \E c \in Conns, n \in Nodes : ArriveSkipped(c, n)
  BY <1>2, EmptyOwn DEF ArriveSkipped, Refuse, TypeOK, Own
<1>3. ASSUME NEW c \in Conns, NEW n \in Nodes, NEW id \in Ids, ArriveSlotHit(c, n, id)
      PROVE  Own'
  <2>1. /\ slot[n] \in Slot /\ slot[n].sess \in Session /\ mem[n] \in Memory
        /\ slot[n].at \in Nat /\ slot[n].sess.utime \in Nat /\ now \in Nat
    BY <1>3 DEF ArriveSlotHit, SlotHit, TypeOK, Slot, Session
  <2>2. /\ Arrival(n, id) \in Request /\ Arrival(n, id).id = id
        /\ Arrival(n, id).start = now
    BY ArrivalType
  <2>3. SlotOwn(slot[n]) /\ MemOwn(mem[n])
    BY DEF Own
  <2>4. slot[n].id = id /\ slot[n].sess # None /\ now - slot[n].at < InternalCacheTTL
    BY <1>3 DEF ArriveSlotHit, SlotHit
  <2>5. slot[n].sess.id = id /\ Young(slot[n].sess, now)
    BY <2>1, <2>3, <2>4, TimesAssumption DEF SlotOwn, Young
  <2>6. Decide(c, Arrival(n, id), slot[n].sess, mem[n], slot[n])
    BY <1>3 DEF ArriveSlotHit
  <2>7. UNCHANGED store
    BY <1>3 DEF ArriveSlotHit
  <2> QED
    BY <2>1, <2>2, <2>3, <2>5, <2>6, <2>7, DecideOwn DEF Own
<1>4. ASSUME NEW c \in Conns, NEW n \in Nodes, NEW id \in Ids, ArriveMemHit(c, n, id)
      PROVE  Own'
  <2>1. mem[n] \in Memory /\ mem[n][id] # None /\ mem[n][id].val \in Session
    BY <1>4 DEF ArriveMemHit, CacheHit, TypeOK, Memory, CacheEntry
  <2>2. Arrival(n, id) \in Request /\ Arrival(n, id).id = id
    BY ArrivalType
  <2>3. MemOwn(mem[n]) /\ mem[n][id].val.id = id
    BY <2>1 DEF Own, MemOwn
  <2>4. Settle(c, Arrival(n, id), mem[n][id].val, mem[n], EmptySlot)
    BY <1>4 DEF ArriveMemHit
  <2>5. UNCHANGED store
    BY <1>4 DEF ArriveMemHit
  <2> QED
    BY <2>1, <2>2, <2>3, <2>4, <2>5, EmptySlotType, EmptyOwn, SettleOwn DEF Own
<1>5. ASSUME NEW c \in Conns, NEW n \in Nodes, NEW id \in Ids, ArriveMiss(c, n, id)
      PROVE  Own'
  <2>1. ReqOwn(Arrival(n, id))
    BY DEF ReqOwn, Arrival
  <2> QED
    BY <1>5, <2>1, EmptyOwn DEF ArriveMiss, Own, TypeOK
<1>6. ASSUME NEW c \in Conns, StoreRead(c)
      PROVE  Own'
  <2>1. req[c] \in Request /\ req[c].id \in Ids
    BY <1>6, InFlightType DEF StoreRead, Request
  <2>2. ReqOwn([req[c] EXCEPT !.st = "read", !.sess = store[req[c].id]])
    BY <2>1 DEF Own, ReqOwn, Request
  <2> QED
    BY <1>6, <2>2 DEF StoreRead, Own, TypeOK
<1>7. ASSUME NEW c \in Conns, StoreFail(c)
      PROVE  Own'
  <2>1. req[c].node \in Nodes
    BY <1>7, InFlightType DEF StoreFail, Request
  <2>2. CASE Backend = "dbi"
    BY <1>7, <2>1, <2>2, CrashOwn DEF StoreFail, Own
  <2>3. CASE Backend # "dbi"
    BY <1>7, <2>3, EmptyOwn DEF StoreFail, Refuse, Own, TypeOK
  <2> QED
    BY <2>2, <2>3
<1>8. ASSUME NEW c \in Conns, GetFound(c)
      PROVE  Own'
  <2>1. req[c] \in Request
    BY <1>8, InFlightType DEF GetFound
  <2>2. /\ req[c].node \in Nodes /\ req[c].id \in Ids
        /\ req[c].sess \in Session /\ req[c].sess.id = req[c].id
        /\ mem[req[c].node] \in Memory /\ slot[req[c].node] \in Slot /\ now \in Nat
        /\ MemOwn(mem[req[c].node]) /\ SlotOwn(slot[req[c].node])
    BY <1>8, <2>1 DEF GetFound, InFlight, Request, TypeOK, Own, ReqOwn
  <2>3. PICK m \in CacheSet(mem[req[c].node], req[c].id, req[c].sess, None, now, CacheSize) :
           Settle(c, req[c], req[c].sess, m, slot[req[c].node])
    BY <1>8 DEF GetFound
  <2>4. m \in Memory /\ MemOwn(m) /\ m[req[c].id] # None
    <3>1. m[req[c].id] = Entry(req[c].sess, now) /\ m \in Memory
      BY <2>2, CacheSetKeeps, CacheSetType
    <3>2. Entry(req[c].sess, now) \in CacheEntry
      BY <2>2 DEF Entry, CacheEntry
    <3>3. MemOwn(m)
      BY <2>2, CacheSetOwn
    <3> QED
      BY <3>1, <3>2, <3>3, NoneAssumption
  <2>5. UNCHANGED store
    BY <1>8 DEF GetFound
  <2> QED
    BY <2>1, <2>2, <2>3, <2>4, <2>5, SettleOwn DEF Own
<1>9. ASSUME NEW c \in Conns, GetMissing(c)
      PROVE  Own'
  <2>1. req[c].node \in Nodes /\ req[c].id \in Ids
    BY <1>9, InFlightType DEF GetMissing, Request
  <2>2. \A n \in Nodes : MemOwn(mem'[n])
    BY <1>9, <2>1 DEF GetMissing, TypeOK, Memory, Own, MemOwn
  <2> QED
    BY <1>9, <2>2, EmptyOwn DEF GetMissing, Refuse, TypeOK, Own
<1>10. ASSUME NEW t \in touches, TouchApply(t)
       PROVE  Own'
  <2>1. t.sess.id \in Ids
    BY DEF TypeOK, Touch, Session
  <2> QED
    BY <1>10, <2>1 DEF TouchApply, TypeOK, Own
<1>11. ASSUME NEW t \in touches, TouchAnswer(t)
       PROVE  Own'
  <2>1. t.node \in Nodes /\ t.sess \in Session /\ mem[t.node] \in Memory /\ now \in Nat
    BY DEF TypeOK, Touch
  <2>2. PICK m \in CacheSet(mem[t.node], t.sess.id, t.sess, None, now, CacheSize) :
           mem' = [mem EXCEPT ![t.node] = m]
    BY <1>11 DEF TouchAnswer
  <2>3. MemOwn(m)
    BY <2>1, CacheSetOwn DEF Own
  <2> QED
    BY <1>11, <2>1, <2>2, <2>3 DEF TouchAnswer, TypeOK, Own
<1>12. ASSUME NEW t \in touches, TouchRejected(t)
       PROVE  Own'
  <2>1. t.node \in Nodes
    BY DEF TypeOK, Touch
  <2> QED
    BY <1>12, <2>1, CrashOwn DEF TouchRejected, Own
<1>13. ASSUME NEW id \in Ids, Logout(id)
       PROVE  Own'
  BY <1>13 DEF Logout, TypeOK, Own
<1>14. ASSUME NEW n \in Nodes, NEW id \in Ids, CheckEvents(n, id)
       PROVE  Own'
  BY <1>14, EmptyOwn DEF CheckEvents, LocalUnlog, TypeOK, Own
<1>15. CASE Tick
  BY <1>15 DEF Tick, Own
<1>16. CASE UNCHANGED vars
  BY <1>16 DEF vars, Own
<1> QED
  BY <1>1, <1>2, <1>3, <1>4, <1>5, <1>6, <1>7, <1>8, <1>9, <1>10, <1>11, <1>12,
     <1>13, <1>14, <1>15, <1>16 DEF Next

THEOREM OwnInvariant == Spec => []Own
BY OwnInit, OwnStep, TypeCorrect, PTL DEF Spec

\* A request is let in on the session its own cookie names, and on no session
\* that outlived its lifetime by the life of the slot.
THEOREM OwnSession == Spec => [](NoCrossSession /\ SessionLifetime)
<1>1. Own => NoCrossSession /\ SessionLifetime
  BY DEF Own, ReqOwn, Young, Answered, NoCrossSession, SessionLifetime
<1> QED
  BY <1>1, OwnInvariant, PTL

\* No session outlives its lifetime by more than the life of the slot.
COROLLARY LifetimeEnds == Spec => []SessionLifetime
BY OwnSession, PTL

-----------------------------------------------------------------------------
(* How long a deleted session may still let a request in, when no idle      *)
(* timeout is configured.  BoundedStaleness is not inductive: the invariant *)
(* dates every copy against the deletion.  A read that found the session    *)
(* belongs to a request older than the deletion; what it puts in the memory *)
(* is at most Latency younger, and what the memory puts in the slot at most *)
(* MemTTL younger still.                                                    *)

\* t is no later than the deletion of id, give or take slack.
Before(id, t, slack) == goneAt[id] # 0 => t =< goneAt[id] + slack

MemDated(n) ==
    \A id \in Ids : mem[n][id] # None =>
        mem[n][id].at =< now /\ Before(id, mem[n][id].at, Latency)

SlotDated(n) ==
    slot[n].sess # None =>
        slot[n].at =< now /\ Before(slot[n].id, slot[n].at, Latency + MemTTL)

ReqDated(c) ==
    /\ InFlight(c) => /\ req[c].start =< now /\ now =< req[c].start + Latency
                      /\ req[c].sess # None => Before(req[c].id, req[c].start, 0)
    /\ Answered(c, "granted") =>
          /\ req[c].start =< now
          /\ Before(req[c].id, req[c].start, Grace - 1)

Dated ==
    /\ touches = {}
    /\ \A id \in Ids : goneAt[id] =< now
    /\ \A id \in Ids : store[id] # None => goneAt[id] = 0
    /\ \A n \in Nodes : MemDated(n)
    /\ \A n \in Nodes : SlotDated(n)
    /\ \A c \in Conns : ReqDated(c)

\* What Decide leaves is dated when the request and the copies it was decided
\* on were.
LEMMA DecideDated ==
    ASSUME TypeOK, Own, Dated, NEW c \in Conns, NEW r \in Request, NEW s \in Session,
           s.id = r.id, r.start =< now, Before(r.id, r.start, Grace - 1),
           NEW m \in Memory,
           \A id \in Ids : m[id] # None => m[id].at =< now /\ Before(id, m[id].at, Latency),
           NEW sl \in Slot,
           sl.sess # None => sl.at =< now /\ Before(sl.id, sl.at, Latency + MemTTL),
           Decide(c, r, s, m, sl), UNCHANGED <<now, goneAt>>
    PROVE  /\ \A n \in Nodes : MemDated(n)'
           /\ \A n \in Nodes : SlotDated(n)'
           /\ \A d \in Conns : ReqDated(d)'
<1>1. r.node \in Nodes /\ r.id \in Ids /\ s.id \in Ids
  BY DEF Request, Session
<1>2. \A n \in Nodes : MemDated(n)'
  <2> DEFINE rest == CacheRemove(m, s.id, None)
  <2>1. \A id \in Ids : rest[id] # None =>
            rest[id].at =< now /\ Before(id, rest[id].at, Latency)
    BY <1>1 DEF CacheRemove, Memory
  <2>2. mem' = [mem EXCEPT ![r.node] = m] \/ mem' = [mem EXCEPT ![r.node] = rest]
    BY DEF Decide
  <2> HIDE DEF rest
  <2> QED
    BY <1>1, <2>1, <2>2 DEF TypeOK, Dated, MemDated, Before
<1>3. \A n \in Nodes : SlotDated(n)'
  BY <1>1 DEF Decide, EmptySlot, TypeOK, Dated, SlotDated, Before
<1>4. CASE Answer(c, "granted", r, s)
  <2>1. \A d \in Conns : req'[d] = IF d = c THEN [st |-> "granted", id |-> r.id,
                                                 start |-> r.start, sess |-> s]
                                            ELSE req[d]
    BY <1>4 DEF Answer, TypeOK
  <2> QED
    BY <1>2, <1>3, <2>1 DEF Dated, ReqDated, InFlight, Answered, Before
<1>5. CASE Refuse(c)
  <2>1. \A d \in Conns : req'[d] = IF d = c THEN None ELSE req[d]
    BY <1>5 DEF Refuse, TypeOK
  <2> QED
    BY <1>2, <1>3, <2>1 DEF Dated, ReqDated, InFlight, Answered, Before
<1> QED
  BY <1>4, <1>5 DEF Decide

LEMMA SettleDated ==
    ASSUME TimeoutActivity = 0, TypeOK, Own, Dated,
           NEW c \in Conns, NEW r \in Request, NEW s \in Session,
           s.id = r.id, r.start =< now, Before(r.id, r.start, Latency + MemTTL),
           NEW m \in Memory, m[r.id] # None,
           \A id \in Ids : m[id] # None => m[id].at =< now /\ Before(id, m[id].at, Latency),
           NEW sl \in Slot,
           sl.sess # None => sl.at =< now /\ Before(sl.id, sl.at, Latency + MemTTL),
           Settle(c, r, s, m, sl), UNCHANGED <<now, goneAt>>
    PROVE  /\ touches' = {}
           /\ \A n \in Nodes : MemDated(n)'
           /\ \A n \in Nodes : SlotDated(n)'
           /\ \A d \in Conns : ReqDated(d)'
<1> DEFINE fresh == Touched(s, r.start)
<1>1. r.node \in Nodes /\ r.id \in Ids /\ r.start \in Nat
  BY DEF Request
<1>2. fresh \in Session /\ fresh.id = r.id
  BY <1>1, TouchedType
<1>3. touches' = {}
  BY DEF Settle, SentTouches, NeedsTouch, Dated
<1>4. CASE Expired(s, r.start) \/ Inactive(s, r.start)
  <2>1. /\ mem' = [mem EXCEPT ![r.node] = m]
        /\ slot' = [slot EXCEPT ![r.node] = sl]
        /\ Refuse(c) \/ Answer(c, "inactive", r, None)
    BY <1>4 DEF Settle
  <2>2. \A n \in Nodes : MemDated(n)'
    BY <1>1, <2>1 DEF TypeOK, Dated, MemDated, Before
  <2>3. \A n \in Nodes : SlotDated(n)'
    BY <1>1, <2>1 DEF TypeOK, Dated, SlotDated, Before
  <2>4. \A d \in Conns : ReqDated(d)'
    BY <2>1 DEF Answer, Refuse, TypeOK, Dated, ReqDated, InFlight, Answered, Before
  <2> QED
    BY <1>3, <2>2, <2>3, <2>4
<1>5. CASE ~(Expired(s, r.start) \/ Inactive(s, r.start))
  <2> DEFINE m2 == [m EXCEPT ![r.id].val = fresh]
             sl2 == [id |-> r.id, sess |-> fresh, at |-> r.start]
  <2>1. m2 \in Memory
    BY <1>1, <1>2 DEF Memory, CacheEntry
  <2>2. \A id \in Ids : m2[id] # None => m2[id].at =< now /\ Before(id, m2[id].at, Latency)
    BY <1>1, <1>2, NoneAssumption DEF Memory, CacheEntry
  <2>3. sl2 \in Slot
    BY <1>1, <1>2 DEF Slot
  <2>4. sl2.at =< now /\ Before(sl2.id, sl2.at, Latency + MemTTL)
    OBVIOUS
  <2>5. Decide(c, r, fresh, m2, sl2)
    BY <1>5 DEF Settle
  <2>6. Before(r.id, r.start, Grace - 1)
    BY <1>1, TimesAssumption DEF Before, Grace, TypeOK
  <2> HIDE DEF fresh, m2, sl2
  <2> QED
    BY <1>2, <1>3, <2>1, <2>2, <2>3, <2>4, <2>5, <2>6, DecideDated
<1> QED
  BY <1>4, <1>5

LEMMA CrashDated ==
    ASSUME TypeOK, Dated, NEW n \in Nodes, Crash(n), UNCHANGED <<now, goneAt>>
    PROVE  /\ touches' = {}
           /\ \A k \in Nodes : MemDated(k)'
           /\ \A k \in Nodes : SlotDated(k)'
           /\ \A d \in Conns : ReqDated(d)'
<1>1. touches' = {}
  BY DEF Crash, Dated
<1>2. \A k \in Nodes : MemDated(k)'
  BY DEF Crash, CacheReset, TypeOK, Memory, Dated, MemDated, Before
<1>3. \A k \in Nodes : SlotDated(k)'
  BY DEF Crash, EmptySlot, TypeOK, Dated, SlotDated, Before
<1>4. \A d \in Conns : ReqDated(d)'
  BY DEF Crash, Dated, ReqDated, InFlight, Answered, Before
<1> QED
  BY <1>1, <1>2, <1>3, <1>4

LEMMA RefuseDated ==
    ASSUME TypeOK, Dated, NEW c \in Conns, Refuse(c), UNCHANGED <<now, goneAt>>
    PROVE  \A d \in Conns : ReqDated(d)'
BY DEF Refuse, TypeOK, Dated, ReqDated, InFlight, Answered, Before

LEMMA DatedInit == Init => Dated
<1> SUFFICES ASSUME Init PROVE Dated
  OBVIOUS
<1>1. \A c \in Conns : ~InFlight(c) /\ ~Answered(c, "granted")
  BY DEF Init, InFlight, Answered
<1> QED
  BY <1>1 DEF Init, Dated, MemDated, SlotDated, ReqDated, EmptySlot

LEMMA DatedStep ==
    ASSUME TimeoutActivity = 0, TypeOK, Own, Dated, [Next]_vars
    PROVE  Dated'
<1>1. CASE \E c \in Conns : ArriveWithoutSession(c)
  <2>1. PICK c \in Conns : ArriveWithoutSession(c)
    BY <1>1
  <2> QED
    BY <2>1, RefuseDated DEF ArriveWithoutSession, Dated, MemDated, SlotDated, Before
<1>2. CASE \E c \in Conns, n \in Nodes : ArriveSkipped(c, n)
  <2>1. PICK c \in Conns, n \in Nodes : ArriveSkipped(c, n)
    BY <1>2
  <2>2. \A k \in Nodes : SlotDated(k)'
    BY <2>1 DEF ArriveSkipped, EmptySlot, TypeOK, Dated, SlotDated, Before
  <2> QED
    BY <2>1, <2>2, RefuseDated DEF ArriveSkipped, Dated, MemDated, Before
<1>3. ASSUME NEW c \in Conns, NEW n \in Nodes, NEW id \in Ids, ArriveSlotHit(c, n, id)
      PROVE  Dated'
  <2>1. /\ slot[n] \in Slot /\ slot[n].sess \in Session /\ mem[n] \in Memory
        /\ slot[n].at \in Nat /\ now \in Nat /\ goneAt[id] \in Nat
    BY <1>3 DEF ArriveSlotHit, SlotHit, TypeOK, Slot
  <2>2. /\ Arrival(n, id) \in Request /\ Arrival(n, id).id = id
        /\ Arrival(n, id).start = now
    BY ArrivalType
  <2>3. slot[n].id = id /\ slot[n].sess # None /\ now - slot[n].at < InternalCacheTTL
    BY <1>3 DEF ArriveSlotHit, SlotHit
  <2>4. slot[n].sess.id = id
    BY <2>3 DEF Own, SlotOwn
  <2>5. /\ slot[n].sess # None =>
              slot[n].at =< now /\ Before(slot[n].id, slot[n].at, Latency + MemTTL)
        /\ \A k \in Ids : mem[n][k] # None =>
              mem[n][k].at =< now /\ Before(k, mem[n][k].at, Latency)
    BY DEF Dated, SlotDated, MemDated
  <2>6. Before(id, now, Grace - 1)
    BY <2>1, <2>3, <2>5, TimesAssumption DEF Before, Grace
  <2>7. Decide(c, Arrival(n, id), slot[n].sess, mem[n], slot[n])
        /\ UNCHANGED <<now, store, touches, goneAt>>
    BY <1>3 DEF ArriveSlotHit
  <2>8. now =< now
    BY <2>1
  <2>9. /\ \A k \in Nodes : MemDated(k)'
        /\ \A k \in Nodes : SlotDated(k)'
        /\ \A d \in Conns : ReqDated(d)'
    BY <2>1, <2>2, <2>4, <2>5, <2>6, <2>7, <2>8, DecideDated
  <2> QED
    BY <2>7, <2>9 DEF Dated
<1>4. ASSUME NEW c \in Conns, NEW n \in Nodes, NEW id \in Ids, ArriveMemHit(c, n, id)
      PROVE  Dated'
  <2>1. /\ mem[n] \in Memory /\ mem[n][id] # None /\ mem[n][id].val \in Session
        /\ mem[n][id].at \in Nat /\ now \in Nat /\ goneAt[id] \in Nat
    BY <1>4 DEF ArriveMemHit, CacheHit, TypeOK, Memory, CacheEntry
  <2>2. /\ Arrival(n, id) \in Request /\ Arrival(n, id).id = id
        /\ Arrival(n, id).start = now
    BY ArrivalType
  <2>3. mem[n][id].val.id = id
    BY <2>1 DEF Own, MemOwn
  <2>4. \A k \in Ids : mem[n][k] # None =>
              mem[n][k].at =< now /\ Before(k, mem[n][k].at, Latency)
    BY DEF Dated, MemDated
  <2>5. now - mem[n][id].at =< MemTTL
    BY <1>4 DEF ArriveMemHit, CacheHit
  <2>6. Before(id, now, Latency + MemTTL)
    BY <2>1, <2>4, <2>5, TimesAssumption DEF Before
  <2>7. Settle(c, Arrival(n, id), mem[n][id].val, mem[n], EmptySlot)
        /\ UNCHANGED <<now, store, goneAt>>
    BY <1>4 DEF ArriveMemHit
  <2>8. EmptySlot.sess = None /\ now =< now
    BY <2>1 DEF EmptySlot
  <2>9. /\ touches' = {}
        /\ \A k \in Nodes : MemDated(k)'
        /\ \A k \in Nodes : SlotDated(k)'
        /\ \A d \in Conns : ReqDated(d)'
    BY <2>1, <2>2, <2>3, <2>4, <2>6, <2>7, <2>8, EmptySlotType, SettleDated
  <2> QED
    BY <2>7, <2>9 DEF Dated
<1>5. ASSUME NEW c \in Conns, NEW n \in Nodes, NEW id \in Ids, ArriveMiss(c, n, id)
      PROVE  Dated'
  <2>1. now \in Nat
    BY DEF TypeOK
  <2>2. \A d \in Conns : req'[d] = IF d = c THEN Arrival(n, id) ELSE req[d]
    BY <1>5 DEF ArriveMiss, TypeOK
  <2>3. \A d \in Conns : ReqDated(d)'
    BY <1>5, <2>1, <2>2, TimesAssumption
    DEF ArriveMiss, Arrival, Dated, ReqDated, InFlight, Answered, Before
  <2>4. \A k \in Nodes : SlotDated(k)'
    BY <1>5 DEF ArriveMiss, EmptySlot, TypeOK, Dated, SlotDated, Before
  <2> QED
    BY <1>5, <2>3, <2>4 DEF ArriveMiss, Dated, MemDated, Before
<1>6. ASSUME NEW c \in Conns, StoreRead(c)
      PROVE  Dated'
  <2>1. req[c] \in Request /\ req[c].id \in Ids
    BY <1>6, InFlightType DEF StoreRead, Request
  <2>2. \A d \in Conns : req'[d] = IF d = c
                                  THEN [req[c] EXCEPT !.st = "read", !.sess = store[req[c].id]]
                                  ELSE req[d]
    BY <1>6 DEF StoreRead, TypeOK
  <2>3. ReqDated(c)'
    <3> DEFINE r == [req[c] EXCEPT !.st = "read", !.sess = store[req[c].id]]
    <3>1. InFlight(c) /\ UNCHANGED <<now, store, goneAt>> /\ now \in Nat
      BY <1>6 DEF StoreRead, TypeOK
    <3>2. req[c].start =< now /\ now =< req[c].start + Latency
      BY <3>1 DEF Dated, ReqDated
    <3>3. r.st = "read" /\ r.id = req[c].id /\ r.start = req[c].start
                       /\ r.sess = store[req[c].id] /\ req[c].start \in Nat
      BY <2>1 DEF Request
    <3>4. r.sess # None => goneAt[r.id] = 0
      BY <2>1, <3>3 DEF Dated
    <3>5. req'[c] = r
      BY <2>2
    <3> HIDE DEF r
    <3>6. ~Answered(c, "granted")'
      BY <3>3, <3>5 DEF Answered
    <3> QED
      BY <3>1, <3>2, <3>3, <3>4, <3>5, <3>6 DEF ReqDated, Before
  <2>4. \A d \in Conns \ {c} : ReqDated(d)'
    BY <1>6, <2>2 DEF StoreRead, Dated, ReqDated, InFlight, Answered, Before
  <2> QED
    BY <1>6, <2>3, <2>4 DEF StoreRead, Dated, MemDated, SlotDated, Before
<1>7. ASSUME NEW c \in Conns, StoreFail(c)
      PROVE  Dated'
  <2>1. req[c].node \in Nodes
    BY <1>7, InFlightType DEF StoreFail, Request
  <2>2. CASE Backend = "dbi"
    <3>1. Crash(req[c].node) /\ UNCHANGED <<now, store, goneAt>>
      BY <1>7, <2>2 DEF StoreFail
    <3> QED
      BY <2>1, <3>1, CrashDated DEF Dated
  <2>3. CASE Backend # "dbi"
    <3>1. Refuse(c) /\ UNCHANGED <<now, store, mem, slot, touches, goneAt>>
      BY <1>7, <2>3 DEF StoreFail
    <3> QED
      BY <3>1, RefuseDated DEF Dated, MemDated, SlotDated, Before
  <2> QED
    BY <2>2, <2>3
<1>8. ASSUME NEW c \in Conns, GetFound(c)
      PROVE  Dated'
  <2> DEFINE r == req[c]
  <2>1. r \in Request
    BY <1>8, InFlightType DEF GetFound
  <2>2. /\ r.node \in Nodes /\ r.id \in Ids /\ r.start \in Nat
        /\ r.sess \in Session /\ r.sess.id = r.id
        /\ mem[r.node] \in Memory /\ slot[r.node] \in Slot
        /\ now \in Nat /\ goneAt[r.id] \in Nat
    BY <1>8, <2>1 DEF GetFound, InFlight, Request, TypeOK, Own, ReqOwn
  <2>3. r.start =< now /\ now =< r.start + Latency /\ Before(r.id, r.start, 0)
    BY <1>8, <2>2 DEF GetFound, Dated, ReqDated
  <2>4. Before(r.id, now, Latency) /\ Before(r.id, r.start, Latency + MemTTL)
    BY <2>2, <2>3, TimesAssumption DEF Before
  <2>5. /\ slot[r.node].sess # None =>
              /\ slot[r.node].at =< now
              /\ Before(slot[r.node].id, slot[r.node].at, Latency + MemTTL)
        /\ \A k \in Ids : mem[r.node][k] # None =>
              mem[r.node][k].at =< now /\ Before(k, mem[r.node][k].at, Latency)
    BY <2>2 DEF Dated, MemDated, SlotDated
  <2>6. PICK m \in CacheSet(mem[r.node], r.id, r.sess, None, now, CacheSize) :
           Settle(c, r, r.sess, m, slot[r.node])
    BY <1>8 DEF GetFound
  <2>7. /\ m[r.id] = Entry(r.sess, now) /\ m \in Memory
        /\ \A k \in Ids \ {r.id} : m[k] = mem[r.node][k] \/ m[k] = None
    BY <2>2, CacheSetKeeps, CacheSetType
  <2>8. m[r.id] # None
    <3>1. Entry(r.sess, now) \in CacheEntry
      BY <2>2 DEF Entry, CacheEntry
    <3> QED
      BY <2>7, <3>1, NoneAssumption
  <2>9. \A k \in Ids : m[k] # None => m[k].at =< now /\ Before(k, m[k].at, Latency)
    BY <2>2, <2>4, <2>5, <2>7 DEF Entry
  <2>10. UNCHANGED <<now, store, goneAt>>
    BY <1>8 DEF GetFound
  <2> HIDE DEF r
  <2>11. /\ touches' = {}
         /\ \A k \in Nodes : MemDated(k)'
         /\ \A k \in Nodes : SlotDated(k)'
         /\ \A d \in Conns : ReqDated(d)'
    BY <2>1, <2>2, <2>3, <2>4, <2>5, <2>6, <2>7, <2>8, <2>9, <2>10, SettleDated
  <2> QED
    BY <2>10, <2>11 DEF Dated
<1>9. ASSUME NEW c \in Conns, GetMissing(c)
      PROVE  Dated'
  <2>1. req[c].node \in Nodes /\ req[c].id \in Ids
    BY <1>9, InFlightType DEF GetMissing, Request
  <2>2. \A n \in Nodes : \A id \in Ids : mem'[n][id] = mem[n][id] \/ mem'[n][id] = None
    BY <1>9, <2>1 DEF GetMissing, TypeOK, Memory
  <2>3. \A n \in Nodes : MemDated(n)'
    BY <1>9, <2>2 DEF GetMissing, Dated, MemDated, Before
  <2> QED
    BY <1>9, <2>3, RefuseDated DEF GetMissing, Dated, SlotDated, Before
<1>10. ASSUME NEW t \in touches
       PROVE  FALSE
  BY DEF Dated
<1>11. ASSUME NEW id \in Ids, Logout(id)
       PROVE  Dated'
  <2>1. now \in Nat /\ goneAt[id] = 0
    BY <1>11 DEF Logout, TypeOK, Dated
  <2>2. /\ \A k \in Ids : goneAt'[k] = IF k = id THEN now ELSE goneAt[k]
        /\ \A k \in Ids : store'[k] = IF k = id THEN None ELSE store[k]
        /\ UNCHANGED <<now, mem, slot, req, touches>>
    BY <1>11 DEF Logout, TypeOK
  <2>3. \A k \in Ids : goneAt'[k] =< now'
    BY <2>1, <2>2 DEF Dated
  <2>4. \A n \in Nodes : MemDated(n)'
    <3>1. \A n \in Nodes : \A k \in Ids : mem[n][k] # None => mem[n][k].at \in Nat
      BY DEF TypeOK, Memory, CacheEntry
    <3> QED
      BY <2>1, <2>2, <3>1, TimesAssumption DEF Dated, MemDated, Before
  <2>5. \A n \in Nodes : SlotDated(n)'
    <3>1. \A n \in Nodes : slot[n].sess # None => slot[n].at \in Nat /\ slot[n].id \in Ids
      BY DEF TypeOK, Slot, Own, SlotOwn, Session
    <3> QED
      BY <2>1, <2>2, <3>1, TimesAssumption DEF Dated, SlotDated, Before
  <2>6. \A c \in Conns : ReqDated(c)'
    <3>1. \A c \in Conns : InFlight(c) \/ Answered(c, "granted") =>
             req[c].id \in Ids /\ req[c].start \in Nat
      BY DEF InFlight, Answered, TypeOK, Request, Reply
    <3> QED
      BY <2>1, <2>2, <3>1, TimesAssumption
      DEF Dated, ReqDated, InFlight, Answered, Before, Grace
  <2> QED
    BY <2>2, <2>3, <2>4, <2>5, <2>6 DEF Dated
<1>12. ASSUME NEW n \in Nodes, NEW id \in Ids, CheckEvents(n, id)
       PROVE  Dated'
  <2>1. \A k \in Nodes : MemDated(k)'
    BY <1>12 DEF CheckEvents, LocalUnlog, CacheRemove, TypeOK, Memory, Dated, MemDated, Before
  <2>2. \A k \in Nodes : SlotDated(k)'
    BY <1>12 DEF CheckEvents, LocalUnlog, EmptySlot, TypeOK, Dated, SlotDated, Before
  <2> QED
    BY <1>12, <2>1, <2>2 DEF CheckEvents, LocalUnlog, Dated, ReqDated, InFlight, Answered, Before
<1>13. CASE Tick
  <2>1. now \in Nat /\ now' = now + 1 /\ UNCHANGED <<store, mem, slot, req, touches, goneAt>>
    BY <1>13 DEF Tick, TypeOK
  <2>2. \A c \in Conns : ReqDated(c)'
    <3>1. \A c \in Conns : InFlight(c) \/ Answered(c, "granted") => req[c].start \in Nat
      BY DEF InFlight, Answered, TypeOK, Request, Reply
    <3>2. \A c \in Conns : InFlight(c) => now < req[c].start + Latency
      BY <1>13 DEF Tick
    <3> QED
      BY <2>1, <3>1, <3>2, TimesAssumption DEF Dated, ReqDated, InFlight, Answered, Before
  <2>3. \A n \in Nodes : MemDated(n)'
    <3>1. \A n \in Nodes : \A k \in Ids : mem[n][k] # None => mem[n][k].at \in Nat
      BY DEF TypeOK, Memory, CacheEntry
    <3> QED
      BY <2>1, <3>1 DEF Dated, MemDated, Before
  <2>4. \A n \in Nodes : SlotDated(n)'
    <3>1. \A n \in Nodes : slot[n].at \in Nat
      BY DEF TypeOK, Slot
    <3> QED
      BY <2>1, <3>1 DEF Dated, SlotDated, Before
  <2>5. \A id \in Ids : goneAt[id] \in Nat
    BY DEF TypeOK
  <2> QED
    BY <2>1, <2>2, <2>3, <2>4, <2>5 DEF Dated
<1>14. CASE UNCHANGED vars
  BY <1>14 DEF vars, Dated, MemDated, SlotDated, ReqDated, InFlight, Answered, Before
<1> QED
  BY <1>1, <1>2, <1>3, <1>4, <1>5, <1>6, <1>7, <1>8, <1>9, <1>10, <1>11, <1>12,
     <1>13, <1>14 DEF Next

THEOREM DatedInvariant ==
    ASSUME TimeoutActivity = 0
    PROVE  Spec => []Dated
BY DatedInit, DatedStep, TypeCorrect, OwnInvariant, PTL DEF Spec

\* Without idle timeout, a deleted session lets nobody in who arrives Grace or
\* more after the deletion.
THEOREM StalenessBounded ==
    ASSUME TimeoutActivity = 0
    PROVE  Spec => []BoundedStaleness
<1>1. TypeOK /\ Dated => BoundedStaleness
  <2> SUFFICES ASSUME TypeOK, Dated,
                      NEW c \in Conns, Answered(c, "granted"), goneAt[req[c].id] # 0
               PROVE  req[c].start < goneAt[req[c].id] + Grace
    BY DEF BoundedStaleness
  <2>1. req[c].id \in Ids /\ req[c].start \in Nat /\ goneAt[req[c].id] \in Nat
    BY DEF Answered, TypeOK, Request, Reply
  <2> QED
    BY <2>1, TimesAssumption DEF Dated, ReqDated, Before, Grace
<1> QED
  BY <1>1, TypeCorrect, DatedInvariant, PTL

-----------------------------------------------------------------------------
(* The store: where no update creates a session (a database, the REST        *)
(* server), one that is gone stays so; what comes after a logout needs that.  *)

LEMMA NotCreated ==
    ASSUME ~UpdateCreates, TypeOK, [Next]_vars, NEW id \in Ids, store[id] = None
    PROVE  store'[id] = None
<1>1. ASSUME NEW t \in touches, TouchApply(t)
      PROVE  store'[id] = None
  <2>1. store' = store \/ (store[t.sess.id] # None
                           /\ store' = [store EXCEPT ![t.sess.id] = t.sess])
    BY <1>1 DEF TouchApply
  <2> QED
    BY <2>1 DEF TypeOK
<1>2. ASSUME NEW gone \in Ids, Logout(gone)
      PROVE  store'[id] = None
  BY <1>2 DEF Logout, TypeOK
<1>3. CASE UNCHANGED store
  BY <1>3
<1>4. \/ \E t \in touches : TouchApply(t)
      \/ \E gone \in Ids : Logout(gone)
      \/ UNCHANGED store
  BY DEF Next, vars, ArriveWithoutSession, ArriveSkipped, ArriveSlotHit, ArriveMemHit,
         ArriveMiss, StoreRead, StoreFail, GetFound, GetMissing, TouchAnswer,
         TouchRejected, CheckEvents, Tick
<1> QED
  BY <1>1, <1>2, <1>3, <1>4

-----------------------------------------------------------------------------
(* Loss of _lastSeen.  Nobody orders the updates of one session, but each    *)
(* carries the arrival time of a request no older than one backend call when *)
(* the update left, and lands within one more; the store never dates from    *)
(* the future.  The invariant says just that.                                *)

InTime(t) == /\ t.sent =< now /\ now =< t.sent + Latency
             /\ t.sess.seen =< now
             /\ t.sent =< t.sess.seen + Latency

SeenInTime ==
    /\ \A id \in Ids : store[id] # None => store[id].seen =< now
    /\ \A c \in Conns : InFlight(c) => req[c].start =< now /\ now =< req[c].start + Latency
    /\ \A t \in touches : InTime(t)

\* No action but an arrival makes a connection wait, and none moves its arrival.
LEMMA WaitsOn ==
    ASSUME TypeOK, [Next]_vars, NEW c \in Conns, InFlight(c)'
    PROVE  \/ InFlight(c) /\ req'[c].start = req[c].start
           \/ req'[c].start = now
<1>1. ASSUME NEW d \in Conns, NEW r, NEW s, NEW st \in {"granted", "inactive"},
             Refuse(d) \/ Answer(d, st, r, s)
      PROVE  InFlight(c) /\ req'[c] = req[c]
  BY <1>1 DEF Refuse, Answer, InFlight, TypeOK
<1>2. ASSUME NEW d \in Conns, NEW r, NEW s, NEW m, NEW sl,
             Decide(d, r, s, m, sl) \/ Settle(d, r, s, m, sl)
      PROVE  InFlight(c) /\ req'[c] = req[c]
  <2>1. \/ Refuse(d) \/ Answer(d, "granted", r, s)
        \/ Answer(d, "granted", r, Touched(s, r.start)) \/ Answer(d, "inactive", r, None)
    BY <1>2 DEF Decide, Settle
  <2> QED
    BY <1>1, <2>1
<1>3. ASSUME NEW n \in Nodes, Crash(n)
      PROVE  InFlight(c) /\ req'[c] = req[c]
  BY <1>3 DEF Crash, InFlight, TypeOK
<1>4. ASSUME NEW d \in Conns, NEW n \in Nodes, NEW id \in Ids, ArriveMiss(d, n, id)
      PROVE  (InFlight(c) /\ req'[c] = req[c]) \/ req'[c].start = now
  BY <1>4 DEF ArriveMiss, Arrival, InFlight, TypeOK
<1>5. ASSUME NEW d \in Conns, StoreRead(d)
      PROVE  InFlight(c) /\ req'[c].start = req[c].start
  <2>1. CASE c = d
    <3>1. req[c] \in Request /\ InFlight(c)
      BY <1>5, <2>1, InFlightType DEF StoreRead
    <3>2. req'[c] = [req[c] EXCEPT !.st = "read", !.sess = store[req[c].id]]
      BY <1>5, <2>1 DEF StoreRead, TypeOK
    <3> QED
      BY <3>1, <3>2 DEF Request
  <2>2. CASE c # d
    BY <1>5, <2>2 DEF StoreRead, InFlight, TypeOK
  <2> QED
    BY <2>1, <2>2
<1>6. ASSUME NEW d \in Conns, StoreFail(d)
      PROVE  InFlight(c) /\ req'[c] = req[c]
  <2>1. req[d].node \in Nodes
    BY <1>6, InFlightType DEF StoreFail, Request
  <2> QED
    BY <1>1, <1>3, <1>6, <2>1 DEF StoreFail
<1>7. ASSUME NEW t \in touches, TouchRejected(t)
      PROVE  InFlight(c) /\ req'[c] = req[c]
  BY <1>3, <1>7 DEF TouchRejected, TypeOK, Touch
<1>8. ASSUME NEW d \in Conns,
             \/ ArriveWithoutSession(d) \/ GetMissing(d) \/ GetFound(d)
             \/ \E n \in Nodes : ArriveSkipped(d, n)
             \/ \E n \in Nodes, id \in Ids : ArriveSlotHit(d, n, id) \/ ArriveMemHit(d, n, id)
      PROVE  InFlight(c) /\ req'[c] = req[c]
  BY <1>1, <1>2, <1>8
  DEF ArriveWithoutSession, GetMissing, GetFound, ArriveSkipped, ArriveSlotHit, ArriveMemHit
<1>9. CASE UNCHANGED req
  BY <1>9 DEF InFlight
<1>10. \/ \E t \in touches : TouchRejected(t)
       \/ \E d \in Conns : \/ ArriveWithoutSession(d) \/ GetMissing(d) \/ GetFound(d)
                           \/ StoreRead(d) \/ StoreFail(d)
                           \/ \E n \in Nodes : ArriveSkipped(d, n)
                           \/ \E n \in Nodes, id \in Ids :
                                 \/ ArriveSlotHit(d, n, id) \/ ArriveMemHit(d, n, id)
                                 \/ ArriveMiss(d, n, id)
       \/ UNCHANGED req
  BY DEF Next, vars, TouchApply, TouchAnswer, Logout, CheckEvents, Tick
<1> QED
  BY <1>4, <1>5, <1>6, <1>7, <1>8, <1>9, <1>10

\* What Settle sends carries the request's arrival and leaves now.
LEMMA SettleInTime ==
    ASSUME TypeOK, SeenInTime, NEW c \in Conns, NEW r \in Request, NEW s \in Session,
           NEW m, NEW sl, Settle(c, r, s, m, sl), now' = now,
           r.start =< now, now =< r.start + Latency
    PROVE  \A t \in touches' : InTime(t)'
<1>1. now \in Nat /\ r.start \in Nat /\ Latency \in Nat
  BY TimesAssumption DEF TypeOK, Request
<1>2. touches' = touches \/ touches' = touches \cup SentTouches(r.node, s, r.start)
  BY DEF Settle
<1>3. ASSUME NEW t \in SentTouches(r.node, s, r.start)
      PROVE  t.sent = now /\ t.sess.seen = r.start
  <2>1. NeedsTouch(s, r.start)
    BY <1>3 DEF SentTouches
  <2>2. t = [node |-> r.node, sess |-> [s EXCEPT !.seen = r.start],
             sent |-> now, st |-> "sent"]
    BY <1>3, <2>1 DEF SentTouches, Touched
  <2> QED
    BY <2>2 DEF Session
<1> QED
  BY <1>1, <1>2, <1>3 DEF SeenInTime, InTime

\* A restart only loses updates or makes them orphans.
LEMMA CrashInTime ==
    ASSUME TypeOK, SeenInTime, NEW n \in Nodes, Crash(n), now' = now
    PROVE  \A t \in touches' : InTime(t)'
<1>1. PICK left \in SUBSET {t \in touches : t.node = n /\ t.st # "applied"} :
        touches' = {t \in touches : t.node # n}
                      \cup {[t EXCEPT !.st = "orphan"] : t \in left}
  BY DEF Crash
<1>2. \A t \in Touch : /\ [t EXCEPT !.st = "orphan"].sent = t.sent
                       /\ [t EXCEPT !.st = "orphan"].sess = t.sess
  BY DEF Touch
<1>3. ASSUME NEW u \in touches'
      PROVE  \E t \in touches : u.sent = t.sent /\ u.sess = t.sess
  <2>1. u \in touches \/ \E t \in left : u = [t EXCEPT !.st = "orphan"]
    BY <1>1
  <2>2. \A t \in left : t \in touches /\ t \in Touch
    BY DEF TypeOK
  <2> QED
    BY <1>2, <2>1, <2>2
<1> QED
  BY <1>3 DEF SeenInTime, InTime

LEMMA SeenInit == Init => SeenInTime
<1> SUFFICES ASSUME Init PROVE SeenInTime
  OBVIOUS
<1>1. PICK held \in SUBSET Ids, seen \in IF TimeoutActivity > 0 THEN {0, 1} ELSE {0} :
         store = [id \in Ids |-> IF id \in held
                                THEN [id |-> id, utime |-> 1, seen |-> seen]
                                ELSE None]
  BY DEF Init
<1>2. \A id \in Ids : store[id] # None => store[id].seen =< now
  BY <1>1 DEF Init
<1> QED
  BY <1>2 DEF Init, SeenInTime, InFlight

LEMMA SeenStep ==
    ASSUME TypeOK, SeenInTime, [Next]_vars
    PROVE  SeenInTime'
<1> DEFINE Waits == \A c \in Conns :
               InFlight(c) => req[c].start =< now /\ now =< req[c].start + Latency
<1>1. now \in Nat /\ Latency \in Nat
  BY TimesAssumption DEF TypeOK
<1>2. \A c \in Conns : InFlight(c) => req[c].start \in Nat
  BY InFlightType DEF Request
<1>3. ASSUME now' = now
      PROVE  Waits'
  BY <1>1, <1>2, <1>3, WaitsOn DEF SeenInTime
<1>4. ASSUME UNCHANGED <<now, store>>, \A t \in touches' : InTime(t)'
      PROVE  SeenInTime'
  BY <1>3, <1>4 DEF SeenInTime
<1>5. ASSUME UNCHANGED <<now, store, touches>>
      PROVE  SeenInTime'
  BY <1>4, <1>5 DEF SeenInTime, InTime
<1>6. ASSUME NEW c \in Conns, NEW n \in Nodes, NEW id \in Ids, ArriveMemHit(c, n, id)
      PROVE  SeenInTime'
  <2>1. mem[n][id].val \in Session
    BY <1>6 DEF ArriveMemHit, CacheHit, TypeOK, Memory, CacheEntry
  <2>2. /\ Settle(c, Arrival(n, id), mem[n][id].val, mem[n], EmptySlot)
        /\ UNCHANGED <<now, store>>
    BY <1>6 DEF ArriveMemHit
  <2>3. Arrival(n, id) \in Request /\ Arrival(n, id).start = now
    BY ArrivalType
  <2>4. \A t \in touches' : InTime(t)'
    BY <1>1, <2>1, <2>2, <2>3, SettleInTime
  <2> QED
    BY <1>4, <2>2, <2>4
<1>7. ASSUME NEW c \in Conns, StoreFail(c)
      PROVE  SeenInTime'
  <2>1. req[c].node \in Nodes /\ UNCHANGED <<now, store>>
    BY <1>7, InFlightType DEF StoreFail, Request
  <2>2. Crash(req[c].node) \/ UNCHANGED touches
    BY <1>7 DEF StoreFail
  <2> QED
    BY <1>4, <1>5, <2>1, <2>2, CrashInTime
<1>8. ASSUME NEW c \in Conns, GetFound(c)
      PROVE  SeenInTime'
  <2>1. /\ req[c] \in Request /\ req[c].sess \in Session /\ UNCHANGED <<now, store>>
        /\ req[c].start =< now /\ now =< req[c].start + Latency
    BY <1>8, InFlightType DEF GetFound, Request, SeenInTime
  <2>2. PICK m : Settle(c, req[c], req[c].sess, m, slot[req[c].node])
    BY <1>8 DEF GetFound
  <2>3. \A t \in touches' : InTime(t)'
    BY <2>1, <2>2, SettleInTime
  <2> QED
    BY <1>4, <2>1, <2>3
<1>9. ASSUME NEW t \in touches, TouchApply(t)
      PROVE  SeenInTime'
  <2>1. t \in Touch /\ InTime(t) /\ now' = now
    BY <1>9 DEF TouchApply, TypeOK, SeenInTime
  <2>2. \A id \in Ids : store'[id] # None => store'[id].seen =< now
    <3>1. store' = store \/ store' = [store EXCEPT ![t.sess.id] = t.sess]
      BY <1>9 DEF TouchApply
    <3> QED
      BY <2>1, <3>1 DEF SeenInTime, InTime, TypeOK
  <2>3. [t EXCEPT !.st = "applied"].sent = t.sent /\ [t EXCEPT !.st = "applied"].sess = t.sess
    BY <2>1 DEF Touch
  <2>4. \A u \in touches' : u \in touches \/ u = [t EXCEPT !.st = "applied"]
    BY <1>9 DEF TouchApply
  <2>5. \A u \in touches' : InTime(u)'
    BY <2>1, <2>3, <2>4 DEF SeenInTime, InTime
  <2> QED
    BY <1>3, <2>1, <2>2, <2>5 DEF SeenInTime
<1>10. ASSUME NEW t \in touches, TouchAnswer(t)
       PROVE  SeenInTime'
  BY <1>4, <1>10 DEF TouchAnswer, SeenInTime, InTime
<1>11. ASSUME NEW t \in touches, TouchRejected(t)
       PROVE  SeenInTime'
  <2>1. t.node \in Nodes /\ Crash(t.node) /\ UNCHANGED <<now, store>>
    BY <1>11 DEF TouchRejected, TypeOK, Touch
  <2> QED
    BY <1>4, <2>1, CrashInTime
<1>12. ASSUME NEW id \in Ids, Logout(id)
       PROVE  SeenInTime'
  <2>1. now' = now /\ touches' = touches
        /\ \A k \in Ids : store'[k] = None \/ store'[k] = store[k]
    BY <1>12 DEF Logout, TypeOK
  <2> QED
    BY <1>3, <2>1 DEF SeenInTime, InTime
<1>13. CASE Tick
  <2>1. now' = now + 1 /\ UNCHANGED <<store, req, touches>>
    BY <1>13 DEF Tick
  <2>2. Waits'
    BY <1>1, <1>2, <1>13, <2>1 DEF Tick, SeenInTime, InFlight
  <2>3. \A t \in touches : t.sent \in Nat /\ t.sess.seen \in Nat
    BY DEF TypeOK, Touch, Session
  <2>4. \A t \in touches' : InTime(t)'
    BY <1>1, <1>13, <2>1, <2>3 DEF Tick, SeenInTime, InTime
  <2>5. \A id \in Ids : store[id] # None => store[id].seen \in Nat
    BY DEF TypeOK, Session
  <2>6. \A id \in Ids : store'[id] # None => store'[id].seen =< now'
    BY <1>1, <2>1, <2>5 DEF SeenInTime
  <2> QED
    BY <2>2, <2>4, <2>6 DEF SeenInTime
<1>14. \/ \E c \in Conns, n \in Nodes, id \in Ids : ArriveMemHit(c, n, id)
       \/ \E c \in Conns : StoreFail(c) \/ GetFound(c)
       \/ \E t \in touches : TouchApply(t) \/ TouchAnswer(t) \/ TouchRejected(t)
       \/ \E id \in Ids : Logout(id)
       \/ Tick
       \/ UNCHANGED <<now, store, touches>>
  BY DEF Next, vars, ArriveWithoutSession, ArriveSkipped, ArriveSlotHit, ArriveMiss,
         StoreRead, GetMissing, CheckEvents
<1> QED
  BY <1>5, <1>6, <1>7, <1>8, <1>9, <1>10, <1>11, <1>12, <1>13, <1>14

\* The only step that gives a stored session another _lastSeen is an update
\* that lands, and it takes no more than two calls' time from it.
LEMMA LossStep ==
    ASSUME TypeOK, SeenInTime, [Next]_vars, NEW id \in Ids,
           store[id] # None, store'[id] # None
    PROVE  store[id].seen - store'[id].seen =< 2 * Latency
<1>1. now \in Nat /\ Latency \in Nat /\ store[id].seen \in Nat
  BY TimesAssumption DEF TypeOK, Session
<1>2. CASE store'[id] = store[id]
  BY <1>1, <1>2
<1>3. ASSUME NEW t \in touches, TouchApply(t)
      PROVE  store'[id] = store[id] \/ store'[id] = t.sess
  BY <1>3 DEF TouchApply, TypeOK
<1>4. ASSUME NEW t \in touches, store'[id] = t.sess
      PROVE  store[id].seen - store'[id].seen =< 2 * Latency
  <2>1. t.sent \in Nat /\ t.sess.seen \in Nat
    BY DEF TypeOK, Touch, Session
  <2> QED
    BY <1>1, <1>4, <2>1 DEF SeenInTime, InTime
<1>5. ASSUME NEW gone \in Ids, Logout(gone)
      PROVE  store'[id] = store[id]
  BY <1>5 DEF Logout, TypeOK
<1>6. \/ \E t \in touches : TouchApply(t)
      \/ \E gone \in Ids : Logout(gone)
      \/ UNCHANGED store
  BY DEF Next, vars, ArriveWithoutSession, ArriveSkipped, ArriveSlotHit, ArriveMemHit,
         ArriveMiss, StoreRead, StoreFail, GetFound, GetMissing, TouchAnswer,
         TouchRejected, CheckEvents, Tick
<1> QED
  BY <1>2, <1>3, <1>4, <1>5, <1>6

\* However the unawaited updates of several processes overtake each other, be
\* they orphans of a dead one, _lastSeen goes back by two backend calls at most.
THEOREM SeenLossBounded == Spec => LastSeenLoss
<1>1. TypeOK /\ SeenInTime /\ [Next]_vars
         => [\A id \in Ids : store[id] # None /\ store'[id] # None =>
               store[id].seen - store'[id].seen =< 2 * Latency]_vars
  BY LossStep
<1>2. Spec => []SeenInTime
  BY SeenInit, SeenStep, TypeCorrect, PTL DEF Spec
<1> QED
  BY <1>1, <1>2, TypeCorrect, PTL DEF Spec, LastSeenLoss

-----------------------------------------------------------------------------
(* Handler implements SessionGate when no idle timeout is configured: every *)
(* step is a step of the gate or leaves it alone.                           *)

LEMMA RefuseGate ==
    ASSUME TypeOK, NEW c \in Conns, Refuse(c), UNCHANGED <<now, goneAt>>
    PROVE  Gate!TurnAway({c})
<1>1. \A d \in Conns : req'[d] = IF d = c THEN None ELSE req[d]
  BY DEF Refuse, TypeOK
<1> QED
  BY <1>1 DEF Gate!TurnAway, GateOf

\* What Decide leaves is dated by the invariant of the next state.
LEMMA DecideGate ==
    ASSUME TypeOK, Dated', NEW c \in Conns, NEW r \in Request, NEW s \in Session,
           NEW m, NEW sl, Decide(c, r, s, m, sl), UNCHANGED <<now, goneAt>>,
           \/ ~InFlight(c) /\ r.start = now
           \/ InFlight(c) /\ r = req[c]
    PROVE  \/ Gate!TurnAway({c})
           \/ Gate!AdmitAtOnce(c, r.id)
           \/ Gate!Admit(c)
<1>1. r.id \in Ids /\ r.start \in Nat /\ goneAt[r.id] \in Nat /\ now \in Nat
  BY DEF Request, TypeOK
<1>2. CASE Refuse(c)
  BY <1>2, RefuseGate
<1>3. CASE Answer(c, "granted", r, s)
  <2> DEFINE reply == [st |-> "granted", id |-> r.id, start |-> r.start, sess |-> s]
  <2>1. \A d \in Conns : req'[d] = IF d = c THEN reply ELSE req[d]
    BY <1>3 DEF Answer, TypeOK
  <2>2. reply # None
    <3>1. reply \in Reply
      BY <1>1 DEF Reply
    <3> QED
      BY <3>1, NoneAssumption
  <2>3. GateOf(reply) = [st |-> "granted", id |-> r.id, start |-> r.start]
    BY <2>2 DEF GateOf
  <2>4. \A d \in Conns : GateOf(req'[d]) = IF d = c THEN GateOf(reply) ELSE GateOf(req[d])
    BY <2>1
  <2>5. Gate!Fresh(r.id, r.start)
    <3>1. Answered(c, "granted")' /\ req'[c].id = r.id /\ req'[c].start = r.start
      BY <2>1, <2>2 DEF Answered
    <3>2. Before(r.id, r.start, Grace - 1)'
      BY <3>1 DEF Dated, ReqDated
    <3> QED
      BY <1>1, <3>2, TimesAssumption DEF Before, Gate!Fresh, Grace
  <2>6. CASE ~InFlight(c) /\ r.start = now
    <3>1. ~Gate!Waiting(c)
      BY <2>6 DEF Gate!Waiting, GateOf, InFlight
    <3> QED
      BY <2>3, <2>4, <2>5, <2>6, <3>1 DEF Gate!AdmitAtOnce, Gate!Held
  <2>7. CASE InFlight(c) /\ r = req[c]
    <3>1. GateOf(req[c]) = [st |-> "open", id |-> r.id, start |-> r.start]
      BY <2>7 DEF GateOf, InFlight
    <3>2. GateOf(req[c]) \in Gated
      BY <1>1, <3>1 DEF Gated
    <3>3. Gate!Waiting(c)
      BY <3>1, <3>2, NoneAssumption DEF Gate!Waiting
    <3> QED
      <4> HIDE DEF reply
      <4>1. GateOf(req[c]).id = r.id /\ GateOf(req[c]).start = r.start
        BY <3>1
      <4>2. \A d \in Conns : GateOf(req'[d]) =
               IF d = c THEN Gate!Held("granted", GateOf(req[c]).id, GateOf(req[c]).start)
                        ELSE GateOf(req[d])
        BY <2>3, <2>4, <4>1 DEF Gate!Held
      <4>3. Gate!Fresh(GateOf(req[c]).id, GateOf(req[c]).start)
        BY <2>5, <4>1
      <4> QED
        BY <3>3, <4>2, <4>3 DEF Gate!Admit
  <2> QED
    BY <2>6, <2>7
<1> QED
  BY <1>2, <1>3 DEF Decide

LEMMA SettleGate ==
    ASSUME TimeoutActivity = 0, TypeOK, Dated', NEW c \in Conns, NEW r \in Request,
           NEW s \in Session, NEW m, NEW sl, Settle(c, r, s, m, sl),
           UNCHANGED <<now, goneAt>>,
           \/ ~InFlight(c) /\ r.start = now
           \/ InFlight(c) /\ r = req[c]
    PROVE  \/ Gate!TurnAway({c})
           \/ Gate!AdmitAtOnce(c, r.id)
           \/ Gate!Admit(c)
<1>1. ~Inactive(s, r.start)
  BY DEF Inactive
<1>2. CASE Expired(s, r.start)
  BY <1>1, <1>2, RefuseGate DEF Settle
<1>3. CASE ~Expired(s, r.start)
  <2>1. Touched(s, r.start) \in Session
    BY TouchedType DEF Request
  <2>2. Decide(c, r, Touched(s, r.start), [m EXCEPT ![r.id].val = Touched(s, r.start)],
               [id |-> r.id, sess |-> Touched(s, r.start), at |-> r.start])
    BY <1>1, <1>3 DEF Settle
  <2> QED
    BY <2>1, <2>2, DecideGate
<1> QED
  BY <1>2, <1>3

LEMMA CrashGate ==
    ASSUME TypeOK, NEW n \in Nodes, Crash(n), UNCHANGED <<now, goneAt>>
    PROVE  \E turned \in SUBSET Conns : Gate!TurnAway(turned)
<1> DEFINE turned == {c \in Conns : InFlight(c) /\ req[c].node = n}
<1>1. \A c \in turned : GateOf(req'[c]) = None
  BY DEF Crash, GateOf
<1>2. \A c \in Conns \ turned : req'[c] = req[c]
  BY DEF Crash
<1>3. Gate!TurnAway(turned)
  BY <1>1, <1>2 DEF Gate!TurnAway
<1> QED
  BY <1>3

LEMMA GateStep ==
    ASSUME TimeoutActivity = 0, TypeOK, Own, Dated, Dated', [Next]_vars
    PROVE  [Gate!Next]_Gate!vars
<1>1. ASSUME NEW c \in Conns, Refuse(c), UNCHANGED <<now, goneAt>>
      PROVE  Gate!Next
  BY <1>1, RefuseGate DEF Gate!Next
<1>2. ASSUME NEW c \in Conns, NEW n \in Nodes, NEW id \in Ids,
             ArriveSlotHit(c, n, id) \/ ArriveMemHit(c, n, id)
      PROVE  Gate!Next
  <2>1. /\ ~InFlight(c) /\ UNCHANGED <<now, goneAt>>
        /\ Arrival(n, id) \in Request
        /\ Arrival(n, id).id = id /\ Arrival(n, id).start = now
    BY <1>2, ArrivalType DEF ArriveSlotHit, ArriveMemHit, Free
  <2>2. CASE ArriveSlotHit(c, n, id)
    <3>1. slot[n].sess \in Session
      BY <2>2 DEF ArriveSlotHit, SlotHit, TypeOK, Slot
    <3>2. Decide(c, Arrival(n, id), slot[n].sess, mem[n], slot[n])
      BY <2>2 DEF ArriveSlotHit
    <3>3. \/ Gate!TurnAway({c}) \/ Gate!AdmitAtOnce(c, id) \/ Gate!Admit(c)
      BY <2>1, <3>1, <3>2, DecideGate
    <3> QED
      BY <3>3 DEF Gate!Next
  <2>3. CASE ArriveMemHit(c, n, id)
    <3>1. mem[n][id].val \in Session
      BY <2>3 DEF ArriveMemHit, CacheHit, TypeOK, Memory, CacheEntry
    <3>2. Settle(c, Arrival(n, id), mem[n][id].val, mem[n], EmptySlot)
      BY <2>3 DEF ArriveMemHit
    <3>3. \/ Gate!TurnAway({c}) \/ Gate!AdmitAtOnce(c, id) \/ Gate!Admit(c)
      BY <2>1, <3>1, <3>2, SettleGate
    <3> QED
      BY <3>3 DEF Gate!Next
  <2> QED
    BY <1>2, <2>2, <2>3
<1>3. ASSUME NEW c \in Conns, NEW n \in Nodes, NEW id \in Ids, ArriveMiss(c, n, id)
      PROVE  Gate!Next
  <2>1. ~Gate!Waiting(c)
    BY <1>3 DEF ArriveMiss, Free, InFlight, Gate!Waiting, GateOf
  <2>2. \A d \in Conns : req'[d] = IF d = c THEN Arrival(n, id) ELSE req[d]
    BY <1>3 DEF ArriveMiss, TypeOK
  <2>3. GateOf(Arrival(n, id)) = [st |-> "open", id |-> id, start |-> now]
    BY ArrivalType, NoneAssumption DEF GateOf, Arrival
  <2>4. \A d \in Conns : GateOf(req'[d]) = IF d = c THEN Gate!Held("open", id, now)
                                                 ELSE GateOf(req[d])
    BY <2>2, <2>3 DEF Gate!Held
  <2>5. Gate!Open(c, id)
    BY <1>3, <2>1, <2>4 DEF ArriveMiss, Gate!Open
  <2> QED
    BY <2>5 DEF Gate!Next
<1>4. ASSUME NEW c \in Conns, StoreRead(c)
      PROVE  UNCHANGED Gate!vars
  <2> DEFINE read == [req[c] EXCEPT !.st = "read", !.sess = store[req[c].id]]
  <2>1. req[c] \in Request /\ req[c] # None /\ req[c].st = "asked"
    BY <1>4, InFlightType DEF StoreRead, InFlight
  <2>2. read \in Request /\ read.st = "read" /\ read.id = req[c].id
        /\ read.start = req[c].start
    BY <2>1 DEF Request, TypeOK
  <2>3. GateOf(read) = GateOf(req[c])
    <3> HIDE DEF read
    <3> QED
      BY <2>1, <2>2, NoneAssumption DEF GateOf
  <2>4. \A d \in Conns : req'[d] = IF d = c THEN read ELSE req[d]
    BY <1>4 DEF StoreRead, TypeOK
  <2> QED
    <3> HIDE DEF read
    <3>1. \A d \in Conns : GateOf(req'[d]) = GateOf(req[d])
      BY <2>3, <2>4
    <3> QED
      BY <1>4, <3>1 DEF StoreRead, Gate!vars
<1>5. ASSUME NEW c \in Conns, StoreFail(c)
      PROVE  Gate!Next
  <2>1. req[c].node \in Nodes /\ UNCHANGED <<now, goneAt>>
    BY <1>5, InFlightType DEF StoreFail, Request
  <2>2. Crash(req[c].node) \/ Refuse(c)
    BY <1>5 DEF StoreFail
  <2> QED
    BY <1>1, <2>1, <2>2, CrashGate DEF Gate!Next
<1>6. ASSUME NEW c \in Conns, GetFound(c)
      PROVE  Gate!Next
  <2>1. /\ req[c] \in Request /\ InFlight(c) /\ UNCHANGED <<now, goneAt>>
        /\ req[c].sess \in Session
    BY <1>6, InFlightType DEF GetFound, Request
  <2>2. PICK m : Settle(c, req[c], req[c].sess, m, slot[req[c].node])
    BY <1>6 DEF GetFound
  <2>3. \/ Gate!TurnAway({c}) \/ Gate!AdmitAtOnce(c, req[c].id) \/ Gate!Admit(c)
    BY <2>1, <2>2, SettleGate
  <2> QED
    BY <2>1, <2>3 DEF Gate!Next, Request
<1>7. ASSUME NEW id \in Ids, Logout(id)
      PROVE  Gate!Next
  BY <1>7 DEF Logout, Gate!Next, Gate!Delete
<1>8. CASE Tick
  BY <1>8 DEF Tick, Gate!Next, Gate!Tick
<1>9. ASSUME NEW n \in Nodes, NEW id \in Ids, CheckEvents(n, id)
      PROVE  UNCHANGED Gate!vars
  BY <1>9 DEF CheckEvents, LocalUnlog, Gate!vars
<1>10. CASE UNCHANGED vars
  BY <1>10 DEF vars, Gate!vars
<1>11. \A t \in touches : FALSE
  BY DEF Dated
<1>12. ASSUME NEW c \in Conns,
              \/ ArriveWithoutSession(c) \/ GetMissing(c)
              \/ \E n \in Nodes : ArriveSkipped(c, n)
       PROVE  Gate!Next
  <2>1. Refuse(c) /\ UNCHANGED <<now, goneAt>>
    BY <1>12 DEF ArriveWithoutSession, GetMissing, ArriveSkipped
  <2> QED
    BY <1>1, <2>1
<1> QED
  BY <1>2, <1>3, <1>4, <1>5, <1>6, <1>7, <1>8, <1>9, <1>10, <1>11, <1>12 DEF Next

\* The handler keeps the promise of SessionGate.
THEOREM ImplementsGate ==
    ASSUME TimeoutActivity = 0
    PROVE  Spec => GateSpec
<1>1. Init => Gate!Init
  BY DEF Init, Gate!Init, GateOf
<1>2. TypeOK /\ Own /\ Dated /\ Dated' /\ [Next]_vars => [Gate!Next]_Gate!vars
  BY GateStep
<1> QED
  BY <1>1, <1>2, TypeCorrect, OwnInvariant, DatedInvariant, PTL DEF Spec, GateSpec, Gate!Spec

-----------------------------------------------------------------------------
(* localUnlog is final, unless an update may create a session: a node without *)
(* a copy of a deleted session, and with no call on its way that could bring  *)
(* one, never has one again.                                                  *)

\* The portal is the only one to delete sessions, and no update makes one again.
Gone == \A id \in Ids : goneAt[id] # 0 => store[id] = None

LEMMA GoneStep ==
    ASSUME ~UpdateCreates, TypeOK, Gone, [Next]_vars
    PROVE  Gone'
<1>1. CASE \E gone \in Ids : Logout(gone)
  BY <1>1 DEF Logout, Gone, TypeOK
<1>2. CASE UNCHANGED goneAt
  BY <1>2, NotCreated DEF Gone
<1>3. (\E gone \in Ids : Logout(gone)) \/ UNCHANGED goneAt
  BY DEF Next, vars, ArriveWithoutSession, ArriveSkipped, ArriveSlotHit, ArriveMemHit,
         ArriveMiss, StoreRead, StoreFail, GetFound, GetMissing, TouchApply,
         TouchAnswer, TouchRejected, CheckEvents, Tick
<1> QED
  BY <1>1, <1>2, <1>3

\* A session that the portal deleted is not in the store, for good.
THEOREM GoneInvariant ==
    ASSUME ~UpdateCreates
    PROVE  Spec => []Gone
<1>1. Init => Gone
  BY DEF Init, Gone
<1> QED
  BY <1>1, GoneStep, TypeCorrect, PTL DEF Spec

-----------------------------------------------------------------------------
(* The node n is clear of the session id, and stays so. *)

Clear(n, id) == ~Cached(n, id) /\ Quiet(n, id)

\* A decision on another session, or of another node, leaves the caches of n clear.
LEMMA DecideClear ==
    ASSUME TypeOK, NEW c \in Conns, NEW r \in Request, NEW s \in Session,
           NEW m \in Memory, NEW sl \in Slot, Decide(c, r, s, m, sl),
           NEW n \in Nodes, NEW id \in Ids, ~Cached(n, id),
           r.node = n => m[id] = None /\ sl.id # id
    PROVE  /\ ~Cached(n, id)'
           /\ \A d \in Conns : InFlight(d)' => d # c /\ req'[d] = req[d]
<1>1. r.node \in Nodes
  BY DEF Request
<1>2. mem'[n][id] = None
  <2>1. m[id] = None => CacheRemove(m, s.id, None)[id] = None
    BY DEF CacheRemove, Memory, Session
  <2> QED
    BY <1>1, <2>1 DEF Decide, Cached, TypeOK
<1>3. slot'[n].id # id
  BY <1>1, NoneAssumption DEF Decide, Cached, TypeOK, EmptySlot
<1>4. \A d \in Conns : InFlight(d)' => d # c /\ req'[d] = req[d]
  BY DEF Decide, Answer, Refuse, InFlight, TypeOK
<1> QED
  BY <1>2, <1>3, <1>4 DEF Cached

LEMMA SettleClear ==
    ASSUME TypeOK, NEW c \in Conns, NEW r \in Request, NEW s \in Session, s.id = r.id,
           NEW m \in Memory, m[r.id] # None, NEW sl \in Slot, Settle(c, r, s, m, sl),
           NEW n \in Nodes, NEW id \in Ids, Clear(n, id),
           r.node = n => m[id] = None /\ sl.id # id
    PROVE  Clear(n, id)'
<1> DEFINE fresh == Touched(s, r.start)
<1>1. r.node \in Nodes /\ r.id \in Ids /\ r.start \in Nat
  BY DEF Request
<1>2. r.node = n => r.id # id
  OBVIOUS
<1>3. fresh \in Session /\ fresh.id = r.id
  BY <1>1, TouchedType
<1>4. CASE Expired(s, r.start) \/ Inactive(s, r.start)
  <2>1. /\ mem' = [mem EXCEPT ![r.node] = m]
        /\ slot' = [slot EXCEPT ![r.node] = sl]
        /\ Refuse(c) \/ Answer(c, "inactive", r, None)
        /\ UNCHANGED touches
    BY <1>4 DEF Settle
  <2>2. ~Cached(n, id)'
    BY <1>1, <2>1 DEF Clear, Cached, TypeOK
  <2>3. \A d \in Conns : InFlight(d)' => req'[d] = req[d]
    BY <2>1 DEF Refuse, Answer, InFlight, TypeOK
  <2> QED
    BY <2>1, <2>2, <2>3 DEF Clear, Quiet, InFlight
<1>5. CASE ~(Expired(s, r.start) \/ Inactive(s, r.start))
  <2> DEFINE m2 == [m EXCEPT ![r.id].val = fresh]
             sl2 == [id |-> r.id, sess |-> fresh, at |-> r.start]
  <2>1. Decide(c, r, fresh, m2, sl2)
    BY <1>5 DEF Settle
  <2>2. touches' = touches \cup SentTouches(r.node, s, r.start)
    BY <1>5 DEF Settle
  <2>3. m2 \in Memory /\ (r.node = n => m2[id] = None)
    BY <1>1, <1>2, <1>3 DEF Memory, CacheEntry
  <2>4. sl2 \in Slot /\ sl2.id = r.id
    BY <1>1, <1>3 DEF Slot
  <2>5. \A t \in SentTouches(r.node, s, r.start) : t.node = r.node /\ t.sess.id = r.id
    BY <1>3 DEF SentTouches
  <2> HIDE DEF fresh, m2, sl2
  <2>6. /\ ~Cached(n, id)'
        /\ \A d \in Conns : InFlight(d)' => d # c /\ req'[d] = req[d]
    BY <1>2, <1>3, <2>1, <2>3, <2>4, DecideClear DEF Clear
  <2> QED
    BY <1>2, <2>2, <2>5, <2>6 DEF Clear, Quiet, InFlight
<1> QED
  BY <1>4, <1>5

LEMMA CrashClear ==
    ASSUME TypeOK, NEW k \in Nodes, Crash(k),
           NEW n \in Nodes, NEW id \in Ids, Clear(n, id)
    PROVE  Clear(n, id)'
<1>1. ~Cached(n, id)'
  BY NoneAssumption DEF Crash, CacheReset, EmptySlot, Clear, Cached, TypeOK, Memory
<1>2. \A d \in Conns : InFlight(d)' => InFlight(d) /\ req'[d] = req[d]
  BY DEF Crash, InFlight, TypeOK
<1>3. \A t \in touches' : t \in touches \/ t.st = "orphan"
  <2>1. PICK left \in SUBSET {t \in touches : t.node = k /\ t.st # "applied"} :
          touches' = {t \in touches : t.node # k}
                        \cup {[t EXCEPT !.st = "orphan"] : t \in left}
    BY DEF Crash
  <2>2. \A t \in left : [t EXCEPT !.st = "orphan"].st = "orphan"
    BY DEF TypeOK, Touch
  <2> QED
    BY <2>1, <2>2
<1> QED
  BY <1>1, <1>2, <1>3 DEF Clear, Quiet

\* What CacheSet does to another key.
LEMMA CacheSetClear ==
    ASSUME NEW cache \in Memory, NEW key \in Ids, NEW value, NEW t,
           NEW m \in CacheSet(cache, key, value, None, t, CacheSize),
           NEW id \in Ids, id # key, cache[id] = None
    PROVE  m[id] = None
BY CacheSetKeeps

LEMMA ClearStep ==
    ASSUME ~UpdateCreates, TypeOK, Own, Gone, [Next]_vars,
           NEW n \in Nodes, NEW id \in Ids, goneAt[id] # 0, Clear(n, id)
    PROVE  Clear(n, id)'
<1>1. ASSUME NEW c \in Conns, ArriveWithoutSession(c) \/ GetMissing(c)
      PROVE  Clear(n, id)'
  <2>1. Refuse(c) /\ UNCHANGED <<mem, slot, touches>>
    BY <1>1 DEF ArriveWithoutSession, GetMissing, UpdateCreates
  <2> QED
    BY <2>1 DEF Refuse, Clear, Cached, Quiet, InFlight, TypeOK
<1>2. ASSUME NEW c \in Conns, NEW k \in Nodes, ArriveSkipped(c, k)
      PROVE  Clear(n, id)'
  BY <1>2, NoneAssumption
     DEF ArriveSkipped, Refuse, EmptySlot, Clear, Cached, Quiet, InFlight, TypeOK
<1>3. ASSUME NEW c \in Conns, NEW k \in Nodes, NEW i \in Ids, ArriveSlotHit(c, k, i)
      PROVE  Clear(n, id)'
  <2>1. /\ slot[k] \in Slot /\ slot[k].sess \in Session /\ mem[k] \in Memory
    BY <1>3 DEF ArriveSlotHit, SlotHit, TypeOK, Slot
  <2>2. Arrival(k, i) \in Request /\ Arrival(k, i).node = k
    BY ArrivalType DEF Arrival
  <2>3. Decide(c, Arrival(k, i), slot[k].sess, mem[k], slot[k]) /\ UNCHANGED touches
    BY <1>3 DEF ArriveSlotHit
  <2>4. k = n => mem[k][id] = None /\ slot[k].id # id
    BY DEF Clear, Cached
  <2> QED
    BY <2>1, <2>2, <2>3, <2>4, DecideClear DEF Clear, Quiet, InFlight
<1>4. ASSUME NEW c \in Conns, NEW k \in Nodes, NEW i \in Ids, ArriveMemHit(c, k, i)
      PROVE  Clear(n, id)'
  <2>1. /\ mem[k] \in Memory /\ mem[k][i] # None /\ mem[k][i].val \in Session
        /\ mem[k][i].val.id = i
    BY <1>4 DEF ArriveMemHit, CacheHit, TypeOK, Memory, CacheEntry, Own, MemOwn
  <2>2. Arrival(k, i) \in Request /\ Arrival(k, i).node = k /\ Arrival(k, i).id = i
    BY ArrivalType DEF Arrival
  <2>3. Settle(c, Arrival(k, i), mem[k][i].val, mem[k], EmptySlot)
    BY <1>4 DEF ArriveMemHit
  <2>4. k = n => mem[k][id] = None /\ EmptySlot.id # id
    BY NoneAssumption DEF Clear, Cached, EmptySlot
  <2> QED
    BY <2>1, <2>2, <2>3, <2>4, EmptySlotType, SettleClear
<1>5. ASSUME NEW c \in Conns, NEW k \in Nodes, NEW i \in Ids, ArriveMiss(c, k, i)
      PROVE  Clear(n, id)'
  <2>1. ~Cached(n, id)'
    BY <1>5, NoneAssumption DEF ArriveMiss, EmptySlot, Clear, Cached, TypeOK
  <2>2. Arrival(k, i).sess = None
    BY DEF Arrival
  <2>3. \A d \in Conns : InFlight(d)' => req'[d].sess = None
                                         \/ (req'[d] = req[d] /\ InFlight(d))
    BY <1>5, <2>2 DEF ArriveMiss, InFlight, TypeOK
  <2> QED
    BY <1>5, <2>1, <2>3 DEF ArriveMiss, Clear, Quiet
<1>6. ASSUME NEW c \in Conns, StoreRead(c)
      PROVE  Clear(n, id)'
  <2>1. req[c] \in Request /\ store[id] = None
    BY <1>6, InFlightType DEF StoreRead, Gone
  <2>2. /\ req'[c].id = req[c].id /\ req'[c].sess = store[req[c].id]
        /\ \A d \in Conns \ {c} : req'[d] = req[d]
    BY <1>6, <2>1 DEF StoreRead, TypeOK, Request
  <2>3. \A d \in Conns : InFlight(d)' /\ req'[d].node = n /\ req'[d].id = id
                           => req'[d].sess = None
    BY <2>1, <2>2 DEF Clear, Quiet, InFlight
  <2> QED
    BY <1>6, <2>3 DEF StoreRead, Clear, Quiet, Cached, InFlight
<1>7. ASSUME NEW c \in Conns, StoreFail(c)
      PROVE  Clear(n, id)'
  <2>1. req[c].node \in Nodes
    BY <1>7, InFlightType DEF StoreFail, Request
  <2>2. CASE Crash(req[c].node)
    BY <2>1, <2>2, CrashClear
  <2>3. CASE Refuse(c) /\ UNCHANGED <<mem, slot, touches>>
    BY <2>3 DEF Refuse, Clear, Cached, Quiet, InFlight, TypeOK
  <2> QED
    BY <1>7, <2>2, <2>3 DEF StoreFail
<1>8. ASSUME NEW c \in Conns, GetFound(c)
      PROVE  Clear(n, id)'
  <2>1. req[c] \in Request
    BY <1>8, InFlightType DEF GetFound
  <2>2. /\ req[c].node \in Nodes /\ req[c].id \in Ids
        /\ req[c].sess \in Session /\ req[c].sess.id = req[c].id
    BY <1>8, <2>1 DEF GetFound, InFlight, Request, Own, ReqOwn
  <2>3. mem[req[c].node] \in Memory /\ slot[req[c].node] \in Slot /\ now \in Nat
    BY <2>2 DEF TypeOK
  <2>4. PICK m \in CacheSet(mem[req[c].node], req[c].id, req[c].sess, None, now, CacheSize) :
           Settle(c, req[c], req[c].sess, m, slot[req[c].node])
    BY <1>8 DEF GetFound
  <2>5. m \in Memory
    BY <2>2, <2>3, CacheSetType
  <2>6. m[req[c].id] # None
    <3>1. m[req[c].id] = Entry(req[c].sess, now)
      BY <2>2, <2>3, CacheSetKeeps
    <3>2. Entry(req[c].sess, now) \in CacheEntry
      BY <2>2, <2>3 DEF Entry, CacheEntry
    <3> QED
      BY <3>1, <3>2, NoneAssumption
  <2>7. req[c].node = n => req[c].id # id
    BY <1>8 DEF GetFound, Clear, Quiet
  <2>8. req[c].node = n => m[id] = None /\ slot[req[c].node].id # id
    BY <2>2, <2>3, <2>7, CacheSetClear DEF Clear, Cached
  <2> QED
    BY <2>1, <2>2, <2>3, <2>4, <2>5, <2>6, <2>8, SettleClear
<1>9. ASSUME NEW t \in touches, TouchApply(t)
      PROVE  Clear(n, id)'
  <2>1. \A u \in touches' : u \in touches
                            \/ (t.st = "sent" /\ u.node = t.node /\ u.sess = t.sess)
    BY <1>9 DEF TouchApply, TypeOK, Touch
  <2> QED
    BY <1>9, <2>1 DEF TouchApply, Clear, Quiet, Cached, InFlight
<1>10. ASSUME NEW t \in touches, TouchAnswer(t)
       PROVE  Clear(n, id)'
  <2>1. t.node \in Nodes /\ t.sess \in Session /\ t.sess.id \in Ids
    BY DEF TypeOK, Touch, Session
  <2>2. PICK m \in CacheSet(mem[t.node], t.sess.id, t.sess, None, now, CacheSize) :
           mem' = [mem EXCEPT ![t.node] = m]
    BY <1>10 DEF TouchAnswer
  <2>3. t.node = n => t.sess.id # id
    BY <1>10 DEF TouchAnswer, Clear, Quiet
  <2>4. mem'[n][id] = None
    BY <2>1, <2>2, <2>3, CacheSetClear DEF Clear, Cached, TypeOK
  <2> QED
    BY <1>10, <2>4 DEF TouchAnswer, Clear, Quiet, Cached, InFlight
<1>11. ASSUME NEW t \in touches, TouchRejected(t)
       PROVE  Clear(n, id)'
  <2>1. t.node \in Nodes
    BY DEF TypeOK, Touch
  <2> QED
    BY <1>11, <2>1, CrashClear DEF TouchRejected
<1>12. ASSUME NEW k \in Nodes, NEW i \in Ids, CheckEvents(k, i)
       PROVE  Clear(n, id)'
  BY <1>12, NoneAssumption DEF CheckEvents, LocalUnlog, CacheRemove, EmptySlot,
     Clear, Quiet, Cached, InFlight, TypeOK, Memory
<1>13. CASE UNCHANGED <<mem, slot, req, touches>>
  BY <1>13 DEF Clear, Quiet, Cached, InFlight
<1>14. ASSUME Tick \/ \E i \in Ids : Logout(i)
       PROVE  UNCHANGED <<mem, slot, req, touches>>
  BY <1>14 DEF Tick, Logout
<1> QED
  BY <1>1, <1>2, <1>3, <1>4, <1>5, <1>6, <1>7, <1>8, <1>9, <1>10, <1>11, <1>12,
     <1>13, <1>14 DEF Next, vars

\* The step that takes the message away is localUnlog, which empties both caches.
LEMMA UnlogClearsCopies ==
    ASSUME TypeOK, [Next]_vars, NEW n \in Nodes, NEW id \in Ids,
           id \in events[n], id \notin events'[n], Quiet(n, id)
    PROVE  Clear(n, id)'
<1>1. PICK k \in Nodes, i \in Ids : CheckEvents(k, i)
  <2>1. ASSUME NEW gone \in Ids, Logout(gone)
        PROVE  FALSE
    BY <2>1 DEF Logout
  <2>2. (\E k \in Nodes, i \in Ids : CheckEvents(k, i)) \/ UNCHANGED events
           \/ \E gone \in Ids : Logout(gone)
    BY DEF Next, vars, ArriveWithoutSession, ArriveSkipped, ArriveSlotHit, ArriveMemHit,
           ArriveMiss, StoreRead, StoreFail, GetFound, GetMissing, TouchApply,
           TouchAnswer, TouchRejected, Tick
  <2> QED
    BY <2>1, <2>2
<1>2. k = n /\ i = id
  BY <1>1 DEF CheckEvents, TypeOK
<1>3. mem'[n][id] = None
  BY <1>1, <1>2 DEF CheckEvents, LocalUnlog, CacheRemove, TypeOK, Memory
<1>4. slot'[n].id # id
  BY <1>1, <1>2, NoneAssumption DEF CheckEvents, LocalUnlog, EmptySlot, TypeOK
<1> QED
  BY <1>1, <1>3, <1>4 DEF CheckEvents, Clear, Cached, Quiet, InFlight

\* Once a node that has no call on its way for a deleted session ran localUnlog on
\* it, or has no copy of it, the node never serves that session again.
THEOREM UnlogLasts ==
    ASSUME ~UpdateCreates
    PROVE  Spec => UnlogIsFinal
<1>1. TypeOK /\ Own /\ Gone /\ [Next]_vars =>
         [\A n \in Nodes, id \in Ids :
            /\ goneAt[id] # 0 /\ Quiet(n, id)
            /\ ~Cached(n, id) \/ (id \in events[n] /\ id \notin events'[n])
            => ~Cached(n, id)' /\ Quiet(n, id)']_vars
  BY ClearStep, UnlogClearsCopies DEF Clear
<1> QED
  BY <1>1, TypeCorrect, OwnInvariant, GoneInvariant, PTL DEF Spec, UnlogIsFinal
=============================================================================
