----------------------------- MODULE IdleProofs -----------------------------
(***************************************************************************)
(* Who is refused for inactivity was inactive: NoFalseInactivity for any   *)
(* nodes, connections, sessions, times and latency, while no backend call  *)
(* fails.  The invariant, Founded, speaks of every _lastSeen that any copy *)
(* of a session shows (Shown): a copy misses only what is on its way to    *)
(* the store, or came after it was read (Covers).                          *)
(***************************************************************************)
EXTENDS HandlerProofs

\* No backend call fails, so no process dies and no update is lost.
Steady == Backend # "rest" /\ BackendMayFail = FALSE

\* Some copy of the session id has v as its _lastSeen.
Shown(id, v) ==
    \/ store[id] # None /\ store[id].seen = v
    \/ \E n \in Nodes : mem[n][id] # None /\ mem[n][id].val.seen = v
    \/ \E n \in Nodes : slot[n].sess # None /\ slot[n].id = id /\ slot[n].sess.seen = v
    \/ \E c \in Conns : /\ req[c] # None /\ req[c].sess # None
                        /\ req[c].id = id /\ req[c].sess.seen = v
    \/ \E t \in touches : t.sess.id = id /\ t.sess.seen = v

\* An update on its way to the store carries it.
Leaving(id, v) == \E t \in touches : t.st = "sent" /\ t.sess.id = id /\ t.sess.seen = v

-----------------------------------------------------------------------------
(* What a step does to the copies. *)

\* Nothing is copied: what there was stays or is forgotten.
Forgets ==
    /\ now' >= now /\ touches' = touches
    /\ \A id \in Ids : store'[id] = None \/ store'[id] = store[id]
    /\ \A n \in Nodes, id \in Ids : mem'[n][id] = None \/ mem'[n][id] = mem[n][id]
    /\ \A n \in Nodes : slot'[n].sess = None \/ slot'[n] = slot[n]
    /\ \A c \in Conns : \/ req'[c] = None
                        \/ req'[c] = req[c]
                        \/ req'[c].st = "asked" /\ req'[c].sess = None

\* The copy f of a session was young when a request of time t was let in on it.
Keeps(f, t) == TimeoutActivity > 0 /\ f.seen > 0 => t =< f.seen + SeenInterval

\* A request r of c met the copy s of its session, found in m, on its node.
Meets(c, r, s, m) ==
    /\ r \in Request /\ s \in Session /\ m \in Memory
    /\ s.id = r.id /\ m[r.id] # None /\ m[r.id].val = s
    /\ r.start =< now /\ now =< r.start + Latency
    /\ \/ m = mem[r.node] /\ r.start = now /\ now - m[r.id].at =< MemTTL
       \/ InFlight(c) /\ r = req[c] /\ r.sess = s /\ m[r.id].at = now

\* It leaves f of it: s, or s with a new _lastSeen that is sent to the store.
Leaves(c, r, s, m, f) ==
    /\ UNCHANGED <<now, store>>
    /\ f \in Session /\ f.id = r.id
    /\ \/ f.seen = s.seen
       \/ f.seen = r.start /\ 0 < s.seen /\ s.seen < r.start /\ Leaving(r.id, r.start)'
    /\ \A t \in touches : t \in touches'
    /\ \A t \in touches' : t \in touches \/ t.sess = f
    /\ \A n \in Nodes, id \in Ids :
          \/ mem'[n][id] = None
          \/ mem'[n][id] = mem[n][id]
          \/ id = r.id /\ mem'[n][id] = [val |-> f, at |-> m[r.id].at]
    /\ \A n \in Nodes :
          \/ slot'[n].sess = None
          \/ slot'[n] = slot[n]
          \/ slot'[n] = [id |-> r.id, sess |-> f, at |-> r.start] /\ Keeps(f, r.start)
    /\ \A d \in Conns :
          \/ req'[d] = None
          \/ req'[d] = req[d]
          \/ /\ d = c /\ Inactive(s, r.start)
             /\ req'[d] = [st |-> "inactive", id |-> r.id, start |-> r.start, sess |-> None]
          \/ /\ d = c /\ Keeps(f, r.start)
             /\ req'[d] = [st |-> "granted", id |-> r.id, start |-> r.start, sess |-> f]

LEMMA SettleLeaves ==
    ASSUME TypeOK, NEW c \in Conns, NEW r, NEW s, NEW m, NEW sl, Meets(c, r, s, m),
           sl = EmptySlot \/ sl = slot[r.node],
           \A k \in Ids \ {r.id} : m[k] = None \/ m[k] = mem[r.node][k],
           Settle(c, r, s, m, sl), UNCHANGED <<now, store>>
    PROVE  \E f : Leaves(c, r, s, m, f)
<1> DEFINE t == r.start
           fresh == Touched(s, t)
<1>1. /\ r.node \in Nodes /\ r.id \in Ids /\ t \in Nat /\ s \in Session /\ m \in Memory
      /\ s.id = r.id /\ m[r.id] # None /\ m[r.id].val = s
  BY DEF Meets, Request
<1>2. m[r.id] = [val |-> s, at |-> m[r.id].at]
  BY <1>1 DEF Memory, CacheEntry
<1>3. CASE Expired(s, t) \/ Inactive(s, t)
  <2>1. /\ mem' = [mem EXCEPT ![r.node] = m]
        /\ slot' = [slot EXCEPT ![r.node] = sl]
        /\ UNCHANGED touches
        /\ Refuse(c) \/ (Inactive(s, t) /\ Answer(c, "inactive", r, None))
    BY <1>3 DEF Settle
  <2>2. \A d \in Conns :
          \/ req'[d] = None
          \/ req'[d] = req[d]
          \/ /\ d = c /\ Inactive(s, t)
             /\ req'[d] = [st |-> "inactive", id |-> r.id, start |-> t, sess |-> None]
    BY <2>1 DEF Refuse, Answer, TypeOK
  <2>3. \A n \in Nodes, id \in Ids :
          \/ mem'[n][id] = None
          \/ mem'[n][id] = mem[n][id]
          \/ id = r.id /\ mem'[n][id] = [val |-> s, at |-> m[r.id].at]
    BY <1>1, <1>2, <2>1 DEF TypeOK
  <2>4. \A n \in Nodes : slot'[n].sess = None \/ slot'[n] = slot[n]
    BY <1>1, <2>1 DEF TypeOK, EmptySlot
  <2>5. Leaves(c, r, s, m, s)
    BY <1>1, <2>1, <2>2, <2>3, <2>4 DEF Leaves
  <2> QED
    BY <2>5
<1>4. CASE ~(Expired(s, t) \/ Inactive(s, t))
  <2> DEFINE mf == [m EXCEPT ![r.id].val = fresh]
             sf == [id |-> r.id, sess |-> fresh, at |-> t]
             gf == [st |-> "granted", id |-> r.id, start |-> t, sess |-> fresh]
  <2>1. /\ touches' = touches \cup SentTouches(r.node, s, t)
        /\ Decide(c, r, fresh, mf, sf)
    BY <1>4 DEF Settle
  <2>2. fresh \in Session /\ fresh.id = r.id
    BY <1>1, TouchedType
  <2>3. Keeps(fresh, t)
    BY <1>1, TimesAssumption DEF Keeps, Touched, NeedsTouch, Session
  <2>4. \/ fresh.seen = s.seen
        \/ fresh.seen = t /\ 0 < s.seen /\ s.seen < t /\ Leaving(r.id, t)'
    <3>1. CASE ~NeedsTouch(s, t)
      BY <3>1 DEF Touched
    <3>2. CASE NeedsTouch(s, t)
      <4>1. fresh.seen = t /\ 0 < s.seen /\ s.seen < t
        BY <1>1, <3>2, TimesAssumption DEF Touched, NeedsTouch, Session
      <4> DEFINE u == [node |-> r.node, sess |-> fresh, sent |-> now, st |-> "sent"]
      <4>2. u \in touches'
        BY <2>1, <3>2 DEF SentTouches
      <4>3. u.st = "sent" /\ u.sess = fresh
        OBVIOUS
      <4>4. Leaving(r.id, t)'
        BY <2>2, <4>1, <4>2, <4>3 DEF Leaving
      <4> QED
        BY <4>1, <4>4
    <3> QED
      BY <3>1, <3>2
  <2>5. \A u \in touches' : u \in touches \/ u.sess = fresh
    BY <2>1 DEF SentTouches
  <2>6. \A n \in Nodes, id \in Ids :
          \/ mem'[n][id] = None
          \/ mem'[n][id] = mem[n][id]
          \/ id = r.id /\ mem'[n][id] = [val |-> fresh, at |-> m[r.id].at]
    <3>1. mf[r.id] = [val |-> fresh, at |-> m[r.id].at] /\ \A k \in Ids \ {r.id} : mf[k] = m[k]
      BY <1>1, <1>2 DEF Memory
    <3>2. \A k \in Ids : CacheRemove(mf, fresh.id, None)[k] = mf[k]
                         \/ CacheRemove(mf, fresh.id, None)[k] = None
      BY <1>1 DEF CacheRemove, Memory
    <3>3. \/ mem' = [mem EXCEPT ![r.node] = mf]
          \/ mem' = [mem EXCEPT ![r.node] = CacheRemove(mf, fresh.id, None)]
      BY <2>1 DEF Decide
    <3> HIDE DEF mf
    <3> QED
      BY <1>1, <3>1, <3>2, <3>3 DEF TypeOK
  <2>7. \A n \in Nodes : slot'[n].sess = None \/ slot'[n] = slot[n] \/ slot'[n] = sf
    <3>1. slot' = [slot EXCEPT ![r.node] = sf] \/ slot' = [slot EXCEPT ![r.node] = EmptySlot]
      BY <2>1 DEF Decide
    <3> QED
      BY <1>1, <3>1 DEF TypeOK, EmptySlot
  <2>8. \A d \in Conns : req'[d] = None \/ req'[d] = req[d] \/ (d = c /\ req'[d] = gf)
    <3>1. Refuse(c) \/ Answer(c, "granted", r, fresh)
      BY <2>1 DEF Decide
    <3> QED
      BY <3>1 DEF Refuse, Answer, TypeOK
  <2>9. Leaves(c, r, s, m, fresh)
    BY <2>1, <2>2, <2>3, <2>4, <2>5, <2>6, <2>7, <2>8 DEF Leaves
  <2> QED
    BY <2>9
<1> QED
  BY <1>3, <1>4

\* Every step forgets, lets in from the slot, meets a copy, reads the store, or
\* is one of an update's.
LEMMA StepKinds ==
    ASSUME Steady, TypeOK, Own, SeenInTime, [Next]_vars
    PROVE  \/ Forgets
           \/ \E c \in Conns, n \in Nodes, id \in Ids : ArriveSlotHit(c, n, id)
           \/ \E c \in Conns : \E r, s, m, f : Meets(c, r, s, m) /\ Leaves(c, r, s, m, f)
           \/ \E c \in Conns : StoreRead(c)
           \/ \E t \in touches : TouchApply(t) \/ TouchAnswer(t)
<1>1. now \in Nat /\ Latency \in Nat
  BY TimesAssumption DEF TypeOK
<1>2. ASSUME NEW c \in Conns, ArriveWithoutSession(c)
      PROVE  Forgets
  BY <1>1, <1>2 DEF ArriveWithoutSession, Refuse, Forgets, TypeOK
<1>3. ASSUME NEW c \in Conns, NEW n \in Nodes, ArriveSkipped(c, n)
      PROVE  Forgets
  BY <1>1, <1>3 DEF ArriveSkipped, Refuse, Forgets, TypeOK, EmptySlot
<1>4. ASSUME NEW c \in Conns, NEW n \in Nodes, NEW id \in Ids, ArriveMiss(c, n, id)
      PROVE  Forgets
  BY <1>1, <1>4 DEF ArriveMiss, Forgets, TypeOK, EmptySlot, Arrival
<1>5. ASSUME NEW c \in Conns, GetMissing(c)
      PROVE  Forgets
  <2>1. req[c].node \in Nodes /\ req[c].id \in Ids
    BY <1>5, InFlightType DEF GetMissing, Request
  <2>2. \A n \in Nodes, id \in Ids : mem'[n][id] = None \/ mem'[n][id] = mem[n][id]
    BY <1>5, <2>1 DEF GetMissing, TypeOK, Memory
  <2> QED
    BY <1>1, <1>5, <2>2 DEF GetMissing, Refuse, Forgets, TypeOK
<1>6. ASSUME NEW id \in Ids, Logout(id)
      PROVE  Forgets
  BY <1>1, <1>6 DEF Logout, Forgets, TypeOK
<1>7. ASSUME NEW n \in Nodes, NEW id \in Ids, CheckEvents(n, id)
      PROVE  Forgets
  <2>1. \A k \in Nodes, j \in Ids : mem'[k][j] = None \/ mem'[k][j] = mem[k][j]
    BY <1>7 DEF CheckEvents, LocalUnlog, CacheRemove, TypeOK, Memory
  <2>2. \A k \in Nodes : slot'[k].sess = None \/ slot'[k] = slot[k]
    BY <1>7 DEF CheckEvents, LocalUnlog, EmptySlot, TypeOK
  <2> QED
    BY <1>1, <1>7, <2>1, <2>2 DEF CheckEvents, Forgets
<1>8. CASE Tick
  BY <1>1, <1>8 DEF Tick, Forgets
<1>9. CASE UNCHANGED vars
  BY <1>1, <1>9 DEF vars, Forgets
<1>10. ASSUME NEW c \in Conns, NEW n \in Nodes, NEW id \in Ids, ArriveMemHit(c, n, id)
       PROVE  \E r, s, m, f : Meets(c, r, s, m) /\ Leaves(c, r, s, m, f)
  <2> DEFINE r == Arrival(n, id)
             s == mem[n][id].val
  <2>1. mem[n] \in Memory /\ mem[n][id] # None /\ s \in Session /\ s.id = id
        /\ now - mem[n][id].at =< MemTTL
    BY <1>10 DEF ArriveMemHit, CacheHit, TypeOK, Memory, CacheEntry, Own, MemOwn
  <2>2. r \in Request /\ r.node = n /\ r.id = id /\ r.start = now
    BY ArrivalType
  <2>3. Settle(c, r, s, mem[n], EmptySlot) /\ UNCHANGED <<now, store>>
    BY <1>10 DEF ArriveMemHit
  <2> HIDE DEF r, s
  <2>4. s = mem[n][id].val
    BY DEF s
  <2>5. Meets(c, r, s, mem[n])
    BY <1>1, <2>1, <2>2, <2>4 DEF Meets
  <2>6. \E f : Leaves(c, r, s, mem[n], f)
    BY <2>2, <2>3, <2>5, SettleLeaves
  <2> QED
    BY <2>5, <2>6
<1>11. ASSUME NEW c \in Conns, GetFound(c)
       PROVE  \E r, s, m, f : Meets(c, r, s, m) /\ Leaves(c, r, s, m, f)
  <2> DEFINE r == req[c]
             s == req[c].sess
  <2>1. r \in Request /\ InFlight(c) /\ UNCHANGED <<now, store>>
        /\ r.start =< now /\ now =< r.start + Latency
    BY <1>11, InFlightType DEF GetFound, SeenInTime
  <2>2. /\ r.node \in Nodes /\ r.id \in Ids /\ s \in Session /\ s.id = r.id
        /\ mem[r.node] \in Memory
    BY <1>11, <2>1 DEF GetFound, InFlight, Request, TypeOK, Own, ReqOwn
  <2>3. PICK m \in CacheSet(mem[r.node], r.id, s, None, now, CacheSize) :
           Settle(c, r, s, m, slot[r.node])
    BY <1>11 DEF GetFound
  <2>4. /\ m \in Memory
        /\ m[r.id] = Entry(s, now)
        /\ \A k \in Ids \ {r.id} : m[k] = None \/ m[k] = mem[r.node][k]
    BY <1>1, <2>2, CacheSetKeeps, CacheSetType
  <2>5. m[r.id] # None /\ m[r.id].val = s /\ m[r.id].at = now
    <3>1. Entry(s, now) \in CacheEntry
      BY <1>1, <2>2 DEF Entry, CacheEntry
    <3> QED
      BY <2>4, <3>1, NoneAssumption DEF Entry
  <2>6. Meets(c, r, s, m)
    BY <2>1, <2>2, <2>4, <2>5 DEF Meets
  <2>7. \E f : Leaves(c, r, s, m, f)
    BY <2>1, <2>3, <2>4, <2>6, SettleLeaves
  <2> QED
    BY <2>6, <2>7
<1>12. ~\E c \in Conns : StoreFail(c)
  BY DEF StoreFail, Steady
<1>13. ~\E t \in touches : TouchRejected(t)
  BY DEF TouchRejected, Steady
<1> QED
  BY <1>2, <1>3, <1>4, <1>5, <1>6, <1>7, <1>8, <1>9, <1>10, <1>11, <1>12, <1>13 DEF Next

-----------------------------------------------------------------------------
(* The values of _lastSeen that are about. *)

\* A value made in this step: a request's arrival, replacing an earlier one.
Renewed(id, v) ==
    /\ v =< now /\ now =< v + Latency /\ v > 0 /\ now' = now
    /\ Leaving(id, v)'
    /\ \E w \in Nat : w > 0 /\ Shown(id, w)

\* Every value is typed.
LEMMA ShownType ==
    ASSUME TypeOK, NEW id \in Ids, NEW v, Shown(id, v)
    PROVE  v \in Nat
<1>1. CASE store[id] # None /\ store[id].seen = v
  BY <1>1 DEF TypeOK, Session
<1>2. ASSUME NEW n \in Nodes, mem[n][id] # None, mem[n][id].val.seen = v
      PROVE  v \in Nat
  BY <1>2 DEF TypeOK, Memory, CacheEntry, Session
<1>3. ASSUME NEW n \in Nodes, slot[n].sess # None, slot[n].sess.seen = v
      PROVE  v \in Nat
  BY <1>3 DEF TypeOK, Slot, Session
<1>4. ASSUME NEW c \in Conns, req[c] # None, req[c].sess # None, req[c].sess.seen = v
      PROVE  v \in Nat
  BY <1>4 DEF TypeOK, Request, Reply, Session
<1>5. ASSUME NEW t \in touches, t.sess.seen = v
      PROVE  v \in Nat
  BY <1>5 DEF TypeOK, Touch, Session
<1> QED
  BY <1>1, <1>2, <1>3, <1>4, <1>5 DEF Shown

\* A step shows no value that was not shown, but one it makes and sends.
LEMMA ShownStep ==
    ASSUME Steady, TypeOK, TypeOK', Own, SeenInTime, [Next]_vars,
           NEW id \in Ids, NEW v, Shown(id, v)'
    PROVE  Shown(id, v) \/ Renewed(id, v)
<1>1. CASE Forgets
  BY <1>1, ShownType DEF Forgets, Shown
<1>2. ASSUME NEW c \in Conns, NEW n \in Nodes, NEW k \in Ids, ArriveSlotHit(c, n, k)
      PROVE  Shown(id, v)
  <2>1. slot[n] \in Slot /\ slot[n].sess # None /\ slot[n].id = k
        /\ UNCHANGED <<store, touches>>
    BY <1>2 DEF ArriveSlotHit, SlotHit, TypeOK
  <2>2. Decide(c, Arrival(n, k), slot[n].sess, mem[n], slot[n])
    BY <1>2 DEF ArriveSlotHit
  <2>3. Arrival(n, k).node = n /\ Arrival(n, k).id = k
    BY ArrivalType
  <2>4. \A d \in Conns : \/ req'[d] = None \/ req'[d] = req[d]
                         \/ req'[d].id = k /\ req'[d].sess = slot[n].sess
    BY <2>2, <2>3 DEF Decide, Answer, Refuse, TypeOK
  <2>5. \A j \in Nodes : slot'[j].sess = None \/ slot'[j] = slot[j]
    BY <2>2, <2>3 DEF Decide, TypeOK, EmptySlot
  <2>6. \A j \in Nodes, i \in Ids : mem'[j][i] = None \/ mem'[j][i] = mem[j][i]
    <3>1. \A i \in Ids : LET cut == CacheRemove(mem[n], slot[n].sess.id, None)
                         IN  cut[i] = None \/ cut[i] = mem[n][i]
      BY DEF CacheRemove, TypeOK, Memory
    <3>2. \/ mem' = [mem EXCEPT ![n] = mem[n]]
          \/ mem' = [mem EXCEPT ![n] = CacheRemove(mem[n], slot[n].sess.id, None)]
      BY <2>2, <2>3 DEF Decide
    <3> QED
      BY <3>1, <3>2 DEF TypeOK
  <2> QED
    BY <2>1, <2>4, <2>5, <2>6 DEF Shown
<1>3. ASSUME NEW c \in Conns, NEW r, NEW s, NEW m, NEW f,
             Meets(c, r, s, m), Leaves(c, r, s, m, f)
      PROVE  Shown(id, v) \/ Renewed(id, v)
  <2>1. UNCHANGED <<now, store>> /\ r.id \in Ids /\ r.start \in Nat /\ s \in Session
        /\ r.start =< now /\ now =< r.start + Latency
    BY <1>3 DEF Meets, Leaves, Request
  <2>2. Shown(r.id, s.seen)
    <3>1. CASE m = mem[r.node] /\ m[r.id] # None /\ m[r.id].val = s /\ r.node \in Nodes
      BY <3>1 DEF Shown
    <3>2. CASE InFlight(c) /\ r = req[c] /\ r.sess = s
      BY <2>1, <3>2, NoneAssumption DEF Shown, InFlight
    <3> QED
      BY <1>3, <3>1, <3>2 DEF Meets, Request
  <2>3. Shown(id, v) \/ (id = r.id /\ v = f.seen)
    BY <1>3 DEF Leaves, Shown
  <2>4. CASE id = r.id /\ v = f.seen /\ f.seen = s.seen
    BY <2>2, <2>4
  <2>5. CASE id = r.id /\ v = r.start /\ 0 < s.seen /\ s.seen < r.start /\ Leaving(r.id, r.start)'
    <3>1. s.seen \in Nat
      BY <2>1 DEF Session
    <3> QED
      BY <2>1, <2>2, <2>5, <3>1 DEF Renewed
  <2> QED
    BY <1>3, <2>3, <2>4, <2>5 DEF Leaves
<1>4. ASSUME NEW c \in Conns, StoreRead(c)
      PROVE  Shown(id, v)
  <2>1. req[c] \in Request /\ req[c].id \in Ids /\ UNCHANGED <<store, mem, slot, touches>>
    BY <1>4, InFlightType DEF StoreRead, Request
  <2>2. \A d \in Conns : req'[d] = req[d] \/ (d = c /\ req'[d].id = req[c].id
                                                   /\ req'[d].sess = store[req[c].id])
    BY <1>4, <2>1 DEF StoreRead, TypeOK, Request
  <2> QED
    BY <2>1, <2>2 DEF Shown
<1>5. ASSUME NEW t \in touches, TouchApply(t)
      PROVE  Shown(id, v)
  <2>1. t \in Touch /\ t.sess.id \in Ids /\ UNCHANGED <<mem, slot, req>>
    BY <1>5 DEF TouchApply, TypeOK, Touch, Session
  <2>2. \A k \in Ids : store'[k] = store[k] \/ (k = t.sess.id /\ store'[k] = t.sess)
    BY <1>5, <2>1 DEF TouchApply, TypeOK
  <2>3. \A u \in touches' : u \in touches \/ u.sess = t.sess
    BY <1>5, <2>1 DEF TouchApply, Touch
  <2> QED
    BY <2>1, <2>2, <2>3 DEF Shown
<1>6. ASSUME NEW t \in touches, TouchAnswer(t)
      PROVE  Shown(id, v)
  <2>1. t \in Touch /\ t.node \in Nodes /\ t.sess \in Session /\ t.sess.id \in Ids
        /\ mem[t.node] \in Memory /\ now \in Nat /\ UNCHANGED <<store, slot, req>>
    BY <1>6 DEF TouchAnswer, TypeOK, Touch, Session
  <2>2. PICK m \in CacheSet(mem[t.node], t.sess.id, t.sess, None, now, CacheSize) :
          mem' = [mem EXCEPT ![t.node] = m]
    BY <1>6 DEF TouchAnswer
  <2>3. m[t.sess.id] = Entry(t.sess, now)
        /\ \A k \in Ids \ {t.sess.id} : m[k] = mem[t.node][k] \/ m[k] = None
    BY <2>1, CacheSetKeeps
  <2>4. \A n \in Nodes, k \in Ids :
           \/ mem'[n][k] = None \/ mem'[n][k] = mem[n][k]
           \/ k = t.sess.id /\ mem'[n][k].val = t.sess
    BY <2>1, <2>2, <2>3 DEF TypeOK, Entry
  <2>5. touches' \subseteq touches
    BY <1>6 DEF TouchAnswer
  <2> QED
    BY <2>1, <2>4, <2>5 DEF Shown
<1> QED
  BY <1>1, <1>2, <1>3, <1>4, <1>5, <1>6, StepKinds

-----------------------------------------------------------------------------
(* The invariant: how far behind each copy may be of the latest _lastSeen.   *)

\* The copy was taken from the store by a call that left at the time from: a
\* value that it is behind of by more than the store may lose was not there.
Covers(seen, from, v, slack) == v =< seen + 2 * Latency \/ from =< v + slack

StoreCovers(id) ==
    store[id] # None =>
        \A v \in Nat : Shown(id, v) => v =< store[id].seen + 2 * Latency \/ Leaving(id, v)

ReadCovers(c) ==
    InFlight(c) /\ req[c].sess # None =>
        \A v \in Nat : Shown(req[c].id, v) =>
            Covers(req[c].sess.seen, req[c].start, v, 2 * Latency)

MemCovers(n, id) ==
    mem[n][id] # None =>
        /\ mem[n][id].at =< now
        /\ \A v \in Nat : Shown(id, v) =>
              Covers(mem[n][id].val.seen, mem[n][id].at, v, 3 * Latency)

\* Who was refused for inactivity met a copy that old, or too late.
RefusalFounded(c) ==
    Answered(c, "inactive") =>
        /\ TimeoutActivity > 0 /\ req[c].start =< now
        /\ \A v \in Nat : Shown(req[c].id, v) =>
              /\ v > 0
              /\ \/ v + TimeoutActivity < req[c].start + 2 * Latency
                 \/ req[c].start =< v + MemTTL + 3 * Latency

\* Who was let in showed a _lastSeen of about that time.
GrantFounded(c) ==
    Answered(c, "granted") =>
        /\ req[c].sess.seen =< req[c].start + Latency
        /\ TimeoutActivity > 0 /\ req[c].sess.seen > 0 =>
              req[c].start < req[c].sess.seen + SeenInterval + InternalCacheTTL

SlotFounded(n) == slot[n].sess # None => Keeps(slot[n].sess, slot[n].at)

\* No _lastSeen is of the future, and all copies have one or none has.
Seens ==
    \A id \in Ids : \A v \in Nat : Shown(id, v) =>
        /\ v =< now
        /\ \A w \in Nat : Shown(id, w) => (v = 0 <=> w = 0)

Founded ==
    /\ Seens
    /\ \A id \in Ids : StoreCovers(id)
    /\ \A c \in Conns : ReadCovers(c) /\ RefusalFounded(c) /\ GrantFounded(c)
    /\ \A n \in Nodes : SlotFounded(n) /\ \A id \in Ids : MemCovers(n, id)

LEMMA FoundedInit == Init => Founded
<1> SUFFICES ASSUME Init PROVE Founded
  OBVIOUS
<1>1. PICK held \in SUBSET Ids, seen \in IF TimeoutActivity > 0 THEN {0, 1} ELSE {0} :
         store = [id \in Ids |-> IF id \in held
                                THEN [id |-> id, utime |-> 1, seen |-> seen]
                                ELSE None]
  BY DEF Init
<1>2. /\ now = 1 /\ touches = {}
      /\ \A n \in Nodes : slot[n].sess = None /\ \A id \in Ids : mem[n][id] = None
      /\ \A c \in Conns : req[c] = None
  BY DEF Init, EmptySlot
<1>3. seen \in {0, 1} /\ Latency \in Nat
  BY TimesAssumption
<1>4. \A id \in Ids : store[id] # None => store[id].seen = seen
  BY <1>1
<1>5. \A id \in Ids : \A v : Shown(id, v) => v = seen /\ store[id] # None
  BY <1>2, <1>4 DEF Shown
<1>6. Seens
  BY <1>2, <1>3, <1>5 DEF Seens
<1>7. \A id \in Ids : StoreCovers(id)
  BY <1>3, <1>4, <1>5 DEF StoreCovers
<1> QED
  BY <1>2, <1>6, <1>7
  DEF Founded, ReadCovers, RefusalFounded, GrantFounded, SlotFounded, MemCovers,
      InFlight, Answered

-----------------------------------------------------------------------------
(* Each part is kept. *)

\* An update on its way stays so until it lands.
LEMMA LeavingStep ==
    ASSUME Steady, TypeOK, Own, SeenInTime, [Next]_vars, NEW id \in Ids, NEW v, Leaving(id, v)
    PROVE  \/ Leaving(id, v)'
           \/ \E t \in touches : TouchApply(t) /\ t.sess.id = id /\ t.sess.seen = v
<1>1. PICK u \in touches : u.st = "sent" /\ u.sess.id = id /\ u.sess.seen = v
  BY DEF Leaving
<1>2. u \in touches' \/ TouchApply(u)
  <2>1. CASE Forgets
    BY <2>1 DEF Forgets
  <2>2. CASE \E c \in Conns, n \in Nodes, k \in Ids : ArriveSlotHit(c, n, k)
    BY <2>2 DEF ArriveSlotHit
  <2>3. CASE \E c \in Conns : \E r, s, m, f : Leaves(c, r, s, m, f)
    BY <2>3 DEF Leaves
  <2>4. CASE \E c \in Conns : StoreRead(c)
    BY <2>4 DEF StoreRead
  <2>5. ASSUME NEW t \in touches, TouchApply(t) \/ TouchAnswer(t)
        PROVE  u \in touches' \/ TouchApply(u)
    BY <1>1, <2>5 DEF TouchApply, TouchAnswer
  <2> QED
    BY <2>1, <2>2, <2>3, <2>4, <2>5, StepKinds
<1> QED
  BY <1>1, <1>2 DEF Leaving

\* The clock does not go back.
LEMMA ClockStep ==
    ASSUME TypeOK, [Next]_vars
    PROVE  now' \in Nat /\ now =< now'
<1>1. now' = now \/ Tick
  BY DEF Next, vars, ArriveWithoutSession, ArriveSkipped, ArriveSlotHit, ArriveMemHit,
         ArriveMiss, StoreRead, StoreFail, GetFound, GetMissing, TouchApply,
         TouchAnswer, TouchRejected, Logout, CheckEvents
<1> QED
  BY <1>1 DEF Tick, TypeOK

LEMMA SeensStep ==
    ASSUME Steady, TypeOK, TypeOK', Own, SeenInTime, Seens, [Next]_vars
    PROVE  Seens'
<1> SUFFICES ASSUME NEW id \in Ids, NEW v \in Nat, Shown(id, v)'
             PROVE  v =< now' /\ \A w \in Nat : Shown(id, w)' => (v = 0 <=> w = 0)
  BY DEF Seens
<1>1. now \in Nat /\ now' \in Nat /\ now =< now'
  BY ClockStep DEF TypeOK
<1>2. \A w \in Nat : Shown(id, w)' => Shown(id, w) \/ Renewed(id, w)
  BY ShownStep
<1> QED
  BY <1>1, <1>2 DEF Seens, Renewed

\* An update that lands is behind of no value by more than two calls.
LEMMA StoreCoversStep ==
    ASSUME Steady, TypeOK, TypeOK', Own, SeenInTime, Seens', Seens, NEW id \in Ids,
           StoreCovers(id), [Next]_vars
    PROVE  StoreCovers(id)'
<1> SUFFICES ASSUME store'[id] # None, NEW v \in Nat, Shown(id, v)'
             PROVE  v =< store'[id].seen + 2 * Latency \/ Leaving(id, v)'
  BY DEF StoreCovers
<1>1. now \in Nat /\ Latency \in Nat /\ v =< now'
  BY TimesAssumption DEF Seens, TypeOK
<1>2. ASSUME NEW t \in touches, TouchApply(t), t.sess.id = id, store'[id] = t.sess
      PROVE  v =< store'[id].seen + 2 * Latency
  <2>1. InTime(t) /\ t.sent \in Nat /\ t.sess.seen \in Nat /\ now' = now
    BY <1>2 DEF SeenInTime, TypeOK, Touch, Session, TouchApply
  <2> QED
    BY <1>1, <1>2, <2>1 DEF InTime
<1>3. CASE store'[id] = store[id]
  <2>1. CASE Renewed(id, v)
    BY <2>1 DEF Renewed
  <2>2. CASE Leaving(id, v)
    <3>1. ASSUME NEW t \in touches, TouchApply(t), t.sess.id = id, t.sess.seen = v
          PROVE  v =< store'[id].seen + 2 * Latency
      <4>1. store'[id] = t.sess
        BY <1>3, <3>1 DEF TouchApply, TypeOK
      <4> QED
        BY <1>2, <3>1, <4>1
    <3> QED
      BY <2>2, <3>1, LeavingStep
  <2>3. CASE Shown(id, v)
    BY <1>3, <2>2, <2>3 DEF StoreCovers
  <2> QED
    BY <2>1, <2>3, ShownStep
<1>4. store'[id] = store[id] \/ \E t \in touches : /\ TouchApply(t) /\ t.sess.id = id
                                                   /\ store'[id] = t.sess
  <2>1. CASE Forgets
    BY <2>1 DEF Forgets
  <2>2. CASE \E c \in Conns, n \in Nodes, k \in Ids : ArriveSlotHit(c, n, k)
    BY <2>2 DEF ArriveSlotHit
  <2>3. CASE \E c \in Conns : \E r, s, m, f : Leaves(c, r, s, m, f)
    BY <2>3 DEF Leaves
  <2>4. CASE \E c \in Conns : StoreRead(c)
    BY <2>4 DEF StoreRead
  <2>5. ASSUME NEW t \in touches, TouchApply(t)
        PROVE  store'[id] = store[id] \/ (t.sess.id = id /\ store'[id] = t.sess)
    BY <2>5 DEF TouchApply, TypeOK
  <2>6. ASSUME NEW t \in touches, TouchAnswer(t)
        PROVE  store'[id] = store[id]
    BY <2>6 DEF TouchAnswer
  <2> QED
    BY <2>1, <2>2, <2>3, <2>4, <2>5, <2>6, StepKinds
<1> QED
  BY <1>2, <1>3, <1>4

\* A read that missed a value on its way left before that had landed.
LEMMA ReadCoversStep ==
    ASSUME Steady, TypeOK, TypeOK', Own, SeenInTime, Founded, NEW c \in Conns, [Next]_vars
    PROVE  ReadCovers(c)'
<1> SUFFICES ASSUME InFlight(c)', req'[c].sess # None, NEW v \in Nat,
                    NEW id \in Ids, req'[c].id = id, Shown(id, v)'
             PROVE  Covers(req'[c].sess.seen, req'[c].start, v, 2 * Latency)
  <2>1. InFlight(c)' => req'[c].id \in Ids
    BY NoneAssumption DEF InFlight, TypeOK, Request, Reply
  <2> QED
    BY <2>1 DEF ReadCovers, Covers
<1>1. now \in Nat /\ Latency \in Nat
  BY TimesAssumption DEF TypeOK
<1>2. CASE req'[c] = req[c] /\ InFlight(c)
  <2>1. /\ req[c].id = id /\ req[c].start \in Nat /\ req[c].sess \in Session
        /\ req[c].start =< now /\ ReadCovers(c)
    BY <1>2, InFlightType DEF Request, SeenInTime, Founded
  <2>2. Shown(id, v) \/ Renewed(id, v)
    BY ShownStep
  <2> QED
    BY <1>1, <1>2, <2>1, <2>2 DEF ReadCovers, Covers, Renewed, Session
<1>3. CASE StoreRead(c)
  <2>1. /\ req[c].id \in Ids /\ req[c].start \in Nat /\ InFlight(c)
        /\ req[c].start =< now /\ UNCHANGED <<now, touches, store>>
    BY <1>3, InFlightType DEF StoreRead, Request, SeenInTime
  <2>2. /\ req[c].id = id /\ req'[c].start = req[c].start
        /\ req'[c].sess = store[id]
    BY <1>3, InFlightType DEF StoreRead, TypeOK, Request
  <2>3. store[id] \in Session
    BY <2>1, <2>2 DEF TypeOK
  <2>4. Shown(id, v) \/ Renewed(id, v)
    BY ShownStep
  <2>5. CASE Renewed(id, v)
    BY <1>1, <2>1, <2>2, <2>5 DEF Renewed, Covers
  <2>6. CASE v =< store[id].seen + 2 * Latency
    BY <2>2, <2>6 DEF Covers
  <2>7. CASE Leaving(id, v)
    <3>1. PICK t \in touches : t.sess.seen = v
      BY <2>7 DEF Leaving
    <3>2. InTime(t) /\ t.sent \in Nat
      BY DEF SeenInTime, TypeOK, Touch
    <3> QED
      BY <1>1, <2>1, <2>2, <3>1, <3>2 DEF InTime, Covers
  <2>8. StoreCovers(id) /\ store[id] # None
    BY <2>1, <2>2 DEF Founded
  <2> QED
    BY <2>4, <2>5, <2>6, <2>7, <2>8 DEF StoreCovers
<1>4. (req'[c] = req[c] /\ InFlight(c)) \/ StoreRead(c)
  <2>1. CASE Forgets
    BY <2>1 DEF Forgets, InFlight
  <2>2. ASSUME NEW d \in Conns, NEW n \in Nodes, NEW k \in Ids, ArriveSlotHit(d, n, k)
        PROVE  req'[c] = req[c]
    BY <2>2 DEF ArriveSlotHit, Decide, Answer, Refuse, TypeOK, InFlight
  <2>3. ASSUME NEW d \in Conns, NEW r, NEW s, NEW m, NEW f, Leaves(d, r, s, m, f)
        PROVE  req'[c] = req[c]
    BY <2>3 DEF Leaves, InFlight
  <2>4. ASSUME NEW d \in Conns, StoreRead(d)
        PROVE  req'[c] = req[c] \/ d = c
    BY <2>4 DEF StoreRead, TypeOK
  <2>5. ASSUME NEW t \in touches, TouchApply(t) \/ TouchAnswer(t)
        PROVE  req'[c] = req[c]
    BY <2>5 DEF TouchApply, TouchAnswer
  <2>6. req'[c] = req[c] => InFlight(c)
    BY DEF InFlight
  <2> QED
    BY <2>1, <2>2, <2>3, <2>4, <2>5, <2>6, StepKinds
<1> QED
  BY <1>2, <1>3, <1>4

\* The copy that a request meets covers every value as the call or the node did.
LEMMA MeetsCovers ==
    ASSUME TypeOK, Founded, SeenInTime, NEW c \in Conns, NEW r, NEW s, NEW m,
           Meets(c, r, s, m)
    PROVE  /\ r.id \in Ids /\ r.start \in Nat /\ s.seen \in Nat /\ m[r.id].at \in Nat
           /\ m[r.id].at =< now /\ Shown(r.id, s.seen)
           /\ \A v \in Nat : Shown(r.id, v) =>
                 /\ Covers(s.seen, m[r.id].at, v, 3 * Latency)
                 /\ Covers(s.seen, r.start, v, MemTTL + 3 * Latency)
<1>1. /\ r.id \in Ids /\ r.start \in Nat /\ r.node \in Nodes /\ s.seen \in Nat
      /\ m[r.id] \in CacheEntry /\ m[r.id].val = s /\ m[r.id].at \in Nat
      /\ now \in Nat /\ Latency \in Nat /\ MemTTL \in Nat
  BY TimesAssumption DEF Meets, Request, Session, Memory, CacheEntry, TypeOK
<1>2. CASE m = mem[r.node] /\ r.start = now /\ now - m[r.id].at =< MemTTL
  <2>1. MemCovers(r.node, r.id) /\ m[r.id] # None
    BY <1>1 DEF Founded, Meets
  <2>2. Shown(r.id, s.seen)
    BY <1>1, <1>2, <2>1 DEF Shown
  <2> QED
    BY <1>1, <1>2, <2>1, <2>2 DEF MemCovers, Covers
<1>3. CASE InFlight(c) /\ r = req[c] /\ r.sess = s /\ m[r.id].at = now
  <2>1. r.sess # None /\ req[c] # None
    BY <1>3, NoneAssumption DEF InFlight, Meets
  <2>2. ReadCovers(c) /\ Shown(r.id, s.seen)
    BY <1>3, <2>1 DEF Founded, Shown
  <2>3. now =< r.start + Latency
    BY DEF Meets
  <2> QED
    BY <1>1, <1>3, <2>1, <2>2, <2>3 DEF ReadCovers, Covers
<1> QED
  BY <1>2, <1>3 DEF Meets

LEMMA MemCoversStep ==
    ASSUME Steady, TypeOK, TypeOK', Own, SeenInTime, Seens', Founded,
           NEW n \in Nodes, NEW id \in Ids, [Next]_vars
    PROVE  MemCovers(n, id)'
<1> SUFFICES ASSUME mem'[n][id] # None
             PROVE  /\ mem'[n][id].at =< now'
                    /\ \A v \in Nat : Shown(id, v)' =>
                         Covers(mem'[n][id].val.seen, mem'[n][id].at, v, 3 * Latency)
  BY DEF MemCovers, Covers
<1>1. now \in Nat /\ Latency \in Nat /\ now' \in Nat /\ now =< now'
  BY ClockStep, TimesAssumption DEF TypeOK
<1>2. \A v \in Nat : Shown(id, v)' => v =< now' /\ (Shown(id, v) \/ Renewed(id, v))
  BY ShownStep DEF Seens
<1>3. CASE mem'[n][id] = mem[n][id]
  <2>1. MemCovers(n, id) /\ mem[n][id].at \in Nat /\ mem[n][id].val.seen \in Nat
    BY <1>3 DEF Founded, TypeOK, Memory, CacheEntry, Session
  <2> QED
    BY <1>1, <1>2, <1>3, <2>1 DEF MemCovers, Covers, Renewed
<1>4. ASSUME NEW c \in Conns, NEW r, NEW s, NEW m, NEW f,
             Meets(c, r, s, m), Leaves(c, r, s, m, f), id = r.id,
             mem'[n][id] = [val |-> f, at |-> m[r.id].at]
      PROVE  /\ mem'[n][id].at =< now'
             /\ \A v \in Nat : Shown(id, v)' =>
                  Covers(mem'[n][id].val.seen, mem'[n][id].at, v, 3 * Latency)
  <2>1. /\ r.id \in Ids /\ r.start \in Nat /\ s.seen \in Nat /\ m[r.id].at \in Nat
        /\ m[r.id].at =< now
        /\ \A v \in Nat : Shown(r.id, v) => Covers(s.seen, m[r.id].at, v, 3 * Latency)
    BY <1>4, MeetsCovers
  <2>2. now' = now /\ now =< r.start + Latency /\ f.seen \in Nat
    BY <1>4 DEF Leaves, Meets, Session
  <2>3. CASE f.seen = s.seen
    BY <1>1, <1>2, <1>4, <2>1, <2>2, <2>3 DEF Covers, Renewed
  <2>4. CASE f.seen = r.start
    BY <1>1, <1>2, <1>4, <2>1, <2>2, <2>4 DEF Covers
  <2> QED
    BY <1>4, <2>3, <2>4 DEF Leaves
<1>5. ASSUME NEW t \in touches, TouchAnswer(t), mem'[n][id] # mem[n][id]
      PROVE  mem'[n][id] = Entry(t.sess, now) /\ now' = now
  <2>1. t.node \in Nodes /\ t.sess \in Session /\ t.sess.id \in Ids /\ mem[t.node] \in Memory
    BY DEF TypeOK, Touch, Session
  <2>2. PICK m \in CacheSet(mem[t.node], t.sess.id, t.sess, None, now, CacheSize) :
          mem' = [mem EXCEPT ![t.node] = m]
    BY <1>5 DEF TouchAnswer
  <2>3. m[t.sess.id] = Entry(t.sess, now)
        /\ \A k \in Ids \ {t.sess.id} : m[k] = mem[t.node][k] \/ m[k] = None
    BY <2>1, CacheSetKeeps
  <2> QED
    BY <1>5, <2>1, <2>2, <2>3 DEF TypeOK, TouchAnswer
<1>6. ASSUME NEW t \in touches, mem'[n][id] = Entry(t.sess, now), now' = now
      PROVE  /\ mem'[n][id].at =< now'
             /\ \A v \in Nat : Shown(id, v)' =>
                  Covers(mem'[n][id].val.seen, mem'[n][id].at, v, 3 * Latency)
  <2>1. InTime(t) /\ t.sent \in Nat /\ t.sess.seen \in Nat
    BY DEF SeenInTime, TypeOK, Touch, Session
  <2> QED
    BY <1>1, <1>2, <1>6, <2>1 DEF InTime, Covers, Entry
<1>7. CASE Forgets
  BY <1>3, <1>7 DEF Forgets
<1>8. ASSUME NEW c \in Conns, NEW k \in Nodes, NEW i \in Ids, ArriveSlotHit(c, k, i)
      PROVE  mem'[n][id] = mem[n][id]
  <2>1. \A j \in Ids : LET cut == CacheRemove(mem[k], slot[k].sess.id, None)
                       IN  cut[j] = None \/ cut[j] = mem[k][j]
    BY DEF CacheRemove, TypeOK, Memory
  <2>2. \/ mem' = [mem EXCEPT ![k] = mem[k]]
        \/ mem' = [mem EXCEPT ![k] = CacheRemove(mem[k], slot[k].sess.id, None)]
    BY <1>8, ArrivalType DEF ArriveSlotHit, Decide
  <2> QED
    BY <2>1, <2>2 DEF TypeOK
<1>9. CASE \E c \in Conns : StoreRead(c)
  BY <1>3, <1>9 DEF StoreRead
<1>10. CASE \E t \in touches : TouchApply(t)
  BY <1>3, <1>10 DEF TouchApply
<1>11. ASSUME NEW c \in Conns, NEW r, NEW s, NEW m, NEW f, Leaves(c, r, s, m, f)
       PROVE  \/ mem'[n][id] = mem[n][id]
              \/ id = r.id /\ mem'[n][id] = [val |-> f, at |-> m[r.id].at]
  BY <1>11 DEF Leaves
<1>12. CASE \E c \in Conns : \E r, s, m, f : Meets(c, r, s, m) /\ Leaves(c, r, s, m, f)
  <2>1. PICK c \in Conns : \E r, s, m, f : Meets(c, r, s, m) /\ Leaves(c, r, s, m, f)
    BY <1>12
  <2>2. PICK r, s, m, f : Meets(c, r, s, m) /\ Leaves(c, r, s, m, f)
    BY <2>1
  <2> QED
    BY <1>3, <1>4, <1>11, <2>2
<1>13. CASE \E t \in touches : TouchAnswer(t)
  BY <1>3, <1>5, <1>6, <1>13
<1>14. CASE \E c \in Conns, k \in Nodes, i \in Ids : ArriveSlotHit(c, k, i)
  BY <1>3, <1>8, <1>14
<1> QED
  BY <1>7, <1>9, <1>10, <1>12, <1>13, <1>14, StepKinds

\* Who is refused for inactivity was so on a copy that was old enough.
LEMMA RefusalFoundedStep ==
    ASSUME Steady, TypeOK, TypeOK', Own, SeenInTime, Founded, NEW c \in Conns, [Next]_vars
    PROVE  RefusalFounded(c)'
<1> DEFINE Right(start, v) == /\ v > 0
                              /\ \/ v + TimeoutActivity < start + 2 * Latency
                                 \/ start =< v + MemTTL + 3 * Latency
<1> SUFFICES ASSUME Answered(c, "inactive")', NEW id \in Ids, req'[c].id = id
             PROVE  /\ TimeoutActivity > 0 /\ req'[c].start =< now'
                    /\ \A v \in Nat : Shown(id, v)' => Right(req'[c].start, v)
  <2>1. Answered(c, "inactive")' => req'[c].id \in Ids
    BY DEF Answered, TypeOK, Request, Reply
  <2> QED
    BY <2>1 DEF RefusalFounded
<1>1. /\ now \in Nat /\ now' \in Nat /\ now =< now'
      /\ Latency \in Nat /\ MemTTL \in Nat /\ TimeoutActivity \in Nat
  BY ClockStep, TimesAssumption DEF TypeOK
<1>2. \A v \in Nat : Shown(id, v)' => Shown(id, v) \/ Renewed(id, v)
  BY ShownStep
<1>3. CASE req'[c] = req[c]
  <2>1. req[c].start \in Nat /\ Answered(c, "inactive") /\ RefusalFounded(c)
    BY <1>3 DEF Answered, TypeOK, Request, Reply, Founded
  <2> QED
    BY <1>1, <1>2, <1>3, <2>1 DEF RefusalFounded, Renewed
<1>4. ASSUME NEW r, NEW s, NEW m, NEW f, Meets(c, r, s, m), Leaves(c, r, s, m, f),
             Inactive(s, r.start), r.id = id, req'[c].start = r.start
      PROVE  /\ TimeoutActivity > 0 /\ req'[c].start =< now'
             /\ \A v \in Nat : Shown(id, v)' => Right(req'[c].start, v)
  <2>1. /\ r.start \in Nat /\ s.seen \in Nat /\ Shown(id, s.seen) /\ r.start =< now
        /\ \A v \in Nat : Shown(id, v) => Covers(s.seen, r.start, v, MemTTL + 3 * Latency)
    BY <1>4, MeetsCovers DEF Meets
  <2>2. TimeoutActivity > 0 /\ s.seen > 0 /\ r.start - s.seen > TimeoutActivity
    BY <1>4 DEF Inactive
  <2>3. \A v \in Nat : Shown(id, v) => v > 0
    BY <2>1, <2>2 DEF Founded, Seens
  <2> QED
    BY <1>1, <1>2, <1>4, <2>1, <2>2, <2>3 DEF Covers, Renewed
<1>5. ASSUME NEW d \in Conns, NEW r, NEW s, NEW m, NEW f,
             Meets(d, r, s, m), Leaves(d, r, s, m, f), req'[c] # req[c]
      PROVE  d = c /\ Inactive(s, r.start) /\ r.id = id /\ req'[c].start = r.start
  BY <1>5 DEF Leaves, Answered
<1>6. CASE \E d \in Conns : \E r, s, m, f : Meets(d, r, s, m) /\ Leaves(d, r, s, m, f)
  <2>1. PICK d \in Conns : \E r, s, m, f : Meets(d, r, s, m) /\ Leaves(d, r, s, m, f)
    BY <1>6
  <2>2. PICK r, s, m, f : Meets(d, r, s, m) /\ Leaves(d, r, s, m, f)
    BY <2>1
  <2> QED
    BY <1>3, <1>4, <1>5, <2>2
<1>7. CASE Forgets
  BY <1>3, <1>7 DEF Forgets, Answered
<1>8. ASSUME NEW d \in Conns, NEW n \in Nodes, NEW k \in Ids, ArriveSlotHit(d, n, k)
      PROVE  req'[c] = req[c]
  BY <1>8 DEF ArriveSlotHit, Decide, Answer, Refuse, TypeOK, Answered
<1>9. ASSUME NEW d \in Conns, StoreRead(d)
      PROVE  req'[c] = req[c]
  <2>1. req[d] \in Request
    BY <1>9, InFlightType DEF StoreRead
  <2> QED
    BY <1>9, <2>1 DEF StoreRead, TypeOK, Answered, Request
<1>10. ASSUME NEW t \in touches, TouchApply(t) \/ TouchAnswer(t)
       PROVE  req'[c] = req[c]
  BY <1>10 DEF TouchApply, TouchAnswer
<1> QED
  BY <1>3, <1>6, <1>7, <1>8, <1>9, <1>10, StepKinds

\* Who is let in shows a _lastSeen of about then, from the slot or from elsewhere.
LEMMA GrantFoundedStep ==
    ASSUME Steady, TypeOK, TypeOK', Own, SeenInTime, Founded, Seens', NEW c \in Conns,
           [Next]_vars
    PROVE  GrantFounded(c)'
<1> SUFFICES ASSUME Answered(c, "granted")' PROVE GrantFounded(c)'
  BY DEF GrantFounded
<1>1. /\ now \in Nat /\ Latency \in Nat /\ SeenInterval \in Nat
      /\ InternalCacheTTL \in Nat \ {0}
  BY TimesAssumption DEF TypeOK
<1>2. CASE req'[c] = req[c]
  BY <1>2 DEF Founded, GrantFounded, Answered
<1>3. ASSUME NEW r, NEW s, NEW m, NEW f, Meets(c, r, s, m), Leaves(c, r, s, m, f),
             Keeps(f, r.start), req'[c].sess = f, req'[c].start = r.start
      PROVE  GrantFounded(c)'
  <2>1. r.start \in Nat /\ r.id \in Ids /\ s.seen \in Nat /\ Shown(r.id, s.seen)
    BY <1>3, MeetsCovers
  <2>3. now =< r.start + Latency /\ f.seen \in Nat
    BY <1>3 DEF Meets, Leaves, Session
  <2>2. s.seen =< now
    BY <2>1 DEF Founded, Seens
  <2> QED
    BY <1>1, <1>3, <2>1, <2>2, <2>3 DEF Leaves, GrantFounded, Keeps
<1>4. ASSUME NEW d \in Conns, NEW r, NEW s, NEW m, NEW f,
             Leaves(d, r, s, m, f), req'[c] # req[c]
      PROVE  d = c /\ Keeps(f, r.start) /\ req'[c].sess = f /\ req'[c].start = r.start
  BY <1>4 DEF Leaves, Answered
<1>5. CASE \E d \in Conns : \E r, s, m, f : Meets(d, r, s, m) /\ Leaves(d, r, s, m, f)
  <2>1. PICK d \in Conns : \E r, s, m, f : Meets(d, r, s, m) /\ Leaves(d, r, s, m, f)
    BY <1>5
  <2>2. PICK r, s, m, f : Meets(d, r, s, m) /\ Leaves(d, r, s, m, f)
    BY <2>1
  <2> QED
    BY <1>2, <1>3, <1>4, <2>2
<1>6. ASSUME NEW d \in Conns, NEW n \in Nodes, NEW id \in Ids, ArriveSlotHit(d, n, id),
             req'[c] # req[c]
      PROVE  GrantFounded(c)'
  <2>1. /\ slot[n].sess \in Session /\ slot[n].sess # None /\ slot[n].id = id
        /\ slot[n].at \in Nat /\ now - slot[n].at < InternalCacheTTL
    BY <1>6 DEF ArriveSlotHit, SlotHit, TypeOK, Slot
  <2>2. req'[c].sess = slot[n].sess /\ req'[c].start = now
    BY <1>6, ArrivalType DEF ArriveSlotHit, Decide, Answer, Refuse, TypeOK, Answered
  <2>3. SlotFounded(n) /\ Shown(id, slot[n].sess.seen) /\ slot[n].sess.seen \in Nat
    BY <2>1 DEF Founded, Shown, Session
  <2>4. slot[n].sess.seen =< now
    BY <2>3 DEF Founded, Seens
  <2> QED
    BY <1>1, <2>1, <2>2, <2>3, <2>4 DEF SlotFounded, Keeps, GrantFounded
<1>7. CASE Forgets
  BY <1>2, <1>7 DEF Forgets, Answered
<1>8. ASSUME NEW d \in Conns, StoreRead(d)
      PROVE  req'[c] = req[c]
  <2>1. req[d] \in Request
    BY <1>8, InFlightType DEF StoreRead
  <2> QED
    BY <1>8, <2>1 DEF StoreRead, TypeOK, Answered, Request
<1>9. ASSUME NEW t \in touches, TouchApply(t) \/ TouchAnswer(t)
      PROVE  req'[c] = req[c]
  BY <1>9 DEF TouchApply, TouchAnswer
<1> QED
  BY <1>2, <1>5, <1>6, <1>7, <1>8, <1>9, StepKinds

LEMMA SlotFoundedStep ==
    ASSUME Steady, TypeOK, Own, SeenInTime, Founded, NEW n \in Nodes, [Next]_vars
    PROVE  SlotFounded(n)'
<1>1. CASE slot'[n] = slot[n] \/ slot'[n].sess = None
  BY <1>1 DEF Founded, SlotFounded, Keeps
<1>2. ASSUME NEW c \in Conns, NEW r, NEW s, NEW m, NEW f, Leaves(c, r, s, m, f)
      PROVE  SlotFounded(n)'
  <2>1. CASE slot'[n] = [id |-> r.id, sess |-> f, at |-> r.start] /\ Keeps(f, r.start)
    BY <2>1 DEF SlotFounded, Keeps
  <2> QED
    BY <1>1, <1>2, <2>1 DEF Leaves
<1>3. CASE Forgets
  BY <1>1, <1>3 DEF Forgets
<1>4. ASSUME NEW d \in Conns, NEW k \in Nodes, NEW id \in Ids, ArriveSlotHit(d, k, id)
      PROVE  slot'[n] = slot[n] \/ slot'[n].sess = None
  BY <1>4, ArrivalType DEF ArriveSlotHit, Decide, TypeOK, EmptySlot
<1>5. CASE \E c \in Conns : StoreRead(c)
  BY <1>1, <1>5 DEF StoreRead
<1>6. CASE \E t \in touches : TouchApply(t) \/ TouchAnswer(t)
  BY <1>1, <1>6 DEF TouchApply, TouchAnswer
<1> QED
  BY <1>1, <1>2, <1>3, <1>4, <1>5, <1>6, StepKinds

\* While no backend call fails, the invariant holds for any times and latency.
THEOREM FoundedInvariant ==
    ASSUME Backend # "rest", BackendMayFail = FALSE
    PROVE  Spec => []Founded
<1>1. Steady
  BY DEF Steady
<1>2. TypeOK /\ TypeOK' /\ Own /\ SeenInTime /\ Founded /\ [Next]_vars => Founded'
  <2> SUFFICES ASSUME TypeOK, TypeOK', Own, SeenInTime, Founded, [Next]_vars
               PROVE  Founded'
    OBVIOUS
  <2>1. Seens'
    BY <1>1, SeensStep DEF Founded
  <2>2. \A id \in Ids : StoreCovers(id)'
    BY <1>1, <2>1, StoreCoversStep DEF Founded
  <2>3. \A c \in Conns : ReadCovers(c)' /\ RefusalFounded(c)' /\ GrantFounded(c)'
    BY <1>1, <2>1, ReadCoversStep, RefusalFoundedStep, GrantFoundedStep
  <2>4. \A n \in Nodes : SlotFounded(n)' /\ \A id \in Ids : MemCovers(n, id)'
    BY <1>1, <2>1, SlotFoundedStep, MemCoversStep
  <2> QED
    BY <2>1, <2>2, <2>3, <2>4 DEF Founded
<1>3. Spec => []SeenInTime
  BY SeenInit, SeenStep, TypeCorrect, PTL DEF Spec
<1> QED
  BY <1>2, <1>3, FoundedInit, TypeCorrect, OwnInvariant, PTL DEF Spec

\* While no backend call fails, nobody is refused for inactivity within the idle
\* timeout of being let in, less IdleSlack, but for the time that an update
\* travels and what was read before it landed is kept.
THEOREM InactivityIsReal ==
    ASSUME Backend # "rest", BackendMayFail = FALSE
    PROVE  Spec => []NoFalseInactivity
<1>1. TypeOK /\ Own /\ Founded => NoFalseInactivity
  <2> SUFFICES ASSUME TypeOK, Own, Founded, NEW c \in Conns, NEW d \in Conns,
                      Answered(c, "inactive"), Answered(d, "granted"),
                      req[c].id = req[d].id, req[d].start + Wavering < req[c].start
               PROVE  req[c].start - req[d].start > TimeoutActivity - IdleSlack
    BY DEF NoFalseInactivity
  <2> DEFINE v == req[d].sess.seen
  <2>1. /\ req[c].start \in Nat /\ req[d].start \in Nat /\ req[d].id \in Ids
        /\ Latency \in Nat /\ MemTTL \in Nat /\ TimeoutActivity \in Nat
        /\ SeenInterval \in Nat /\ InternalCacheTTL \in Nat
    BY TimesAssumption DEF Answered, TypeOK, Request, Reply
  <2>2. Shown(req[d].id, v) /\ v \in Nat
    BY <2>1 DEF Own, ReqOwn, Answered, Shown, TypeOK, Request, Reply, Session
  <2>3. v > 0 /\ \/ v + TimeoutActivity < req[c].start + 2 * Latency
                 \/ req[c].start =< v + MemTTL + 3 * Latency
    BY <2>2 DEF Founded, RefusalFounded
  <2>4. v =< req[d].start + Latency /\ req[d].start < v + SeenInterval + InternalCacheTTL
    BY <2>3 DEF Founded, RefusalFounded, GrantFounded
  <2> QED
    BY <2>1, <2>2, <2>3, <2>4 DEF Wavering, IdleSlack
<1> QED
  BY <1>1, FoundedInvariant, OwnInvariant, TypeCorrect, PTL
=============================================================================
