--------------------------- MODULE SessionProofs ---------------------------
(***************************************************************************)
(* What Session promises for any number of processes, calls and contents,  *)
(* whatever the lifetimes of the caches and the delays.  The invariant     *)
(* dates every copy of the session: an entry of a cache was in the store   *)
(* one answer before it was set, and an update that is under way carries   *)
(* what a get could resolve with when it was sent.                         *)
(***************************************************************************)
EXTENDS Session, TLAPS

Entries(contents, ttl) == {Empty} \cup [is : contents, age : 0..ttl]
Stages(at, contents) == [at : at, node : Nodes, content : contents, age : 0..Latency]
Typed == {Idle} \cup Stages({"reading", "asked"}, {Nothing})
                \cup Stages({"read"}, Contents \cup {Null})
                \cup Stages({"resolved", "sent", "applied", "late"}, Contents)

StorageTyped == /\ backend \in Backends /\ store \in Contents \cup {Nothing}
                /\ stands \in 0..Cap /\ held \in [Contents -> 0..Cap]
CachesTyped == /\ mem \in [Nodes -> Entries(Contents, MemTTL)]
               /\ disk \in Entries(Contents, DiskTTL)
               /\ queue \in [Nodes -> Entries(Contents \cup {Null}, DiskTTL)]
CallsTyped == calls \in [Calls -> Typed]

LEMMA TypeParts == TypeOK <=> StorageTyped /\ CachesTyped /\ CallsTyped
  BY DEF TypeOK, StorageTyped, CachesTyped, CallsTyped, Typed, Entries, Stages

\* What is in the store has been there until now, and what is not was not there
\* since the last change.
StoreRight == /\ store \in Contents => held[store] = 0
              /\ \A c \in Contents : c # store => stands =< held[c]

\* How long ago, by h, the store held what is in an entry, and in a call.
EntryRight(entry, h) == entry.is \in Contents => h[entry.is] =< Latency + entry.age
CallRight(call, h) ==
    /\ call.at \in {"read", "applied"} /\ call.content \in Contents
         => h[call.content] =< call.age
    /\ call.at = "resolved" => h[call.content] =< Bound
    /\ call.at \in {"sent", "late"} => h[call.content] =< Bound + call.age

EntriesRight == Current => /\ EntryRight(disk, held)
                           /\ \A n \in Nodes : EntryRight(mem[n], held)
                           /\ \A n \in Nodes : EntryRight(queue[n], held)
CallsRight == Current => \A k \in Calls : CallRight(calls[k], held)

\* The inductive invariant.
Dated == StoreRight /\ EntriesRight /\ CallsRight
SInv == StorageTyped /\ CachesTyped /\ CallsTyped /\ Dated

\* What a step does to the storage: it may only make contents younger, and a dbi
\* table that lost the session does not get it back.
Renewed == /\ StorageTyped' /\ StoreRight' /\ (Current' => Current)
           /\ \A c \in Contents : held'[c] =< held[c]

-----------------------------------------------------------------------------
(* The parts of a step. *)

LEMMA BoundIs == Bound \in Nat /\ Bound >= Latency + MemTTL /\ Bound >= Latency + DiskTTL
  BY SessionAssumption DEF Bound, Longer

LEMMA StoredRenews ==
    ASSUME SInv, NEW content \in Contents \cup {Nothing}, Stored(content),
           store # Nothing \/ Creates
    PROVE  Renewed /\ (content \in Contents => held'[content] = 0)
<1> USE SessionAssumption DEF SInv, StorageTyped
<1>1. StorageTyped'
  BY DEF Stored
<1>2. \A c \in Contents : held'[c] = IF c = content \/ c = store THEN 0 ELSE held[c]
  BY DEF Stored
<1>3. StoreRight'
  <2>1. store' \in Contents => held'[store'] = 0
    BY <1>2 DEF Stored
  <2>2. ASSUME NEW c \in Contents, c # store' PROVE stands' =< held'[c]
    <3>1. CASE content = store
      BY <3>1, <2>2, <1>2 DEF Stored, Dated, StoreRight
    <3>2. CASE content # store
      BY <3>2, <2>2, <1>2 DEF Stored
    <3> QED
      BY <3>1, <3>2
  <2> QED
    BY <2>1, <2>2 DEF StoreRight
<1>4. Current
  BY DEF Current, Creates
<1>5. \A c \in Contents : held'[c] =< held[c]
  BY <1>2
<1> QED
  BY <1>1, <1>2, <1>3, <1>4, <1>5 DEF Renewed

LEMMA SameRenews ==
    ASSUME SInv, UNCHANGED Storage
    PROVE  Renewed /\ held' = held
<1>1. /\ backend' = backend /\ store' = store /\ stands' = stands /\ held' = held
  BY DEF Storage
<1>2. Current' <=> Current
  BY <1>1 DEF Current, Creates
<1>3. StorageTyped' /\ StoreRight'
  BY <1>1 DEF SInv, Dated, StorageTyped, StoreRight
<1>4. \A c \in Contents : held'[c] =< held[c]
  BY <1>1 DEF SInv, StorageTyped
<1> QED
  BY <1>1, <1>2, <1>3, <1>4 DEF Renewed

\* Written by an update: either way, and then it is what the store holds, but for
\* a session that is gone from a dbi table or from rest.
LEMMA WrittenRenews ==
    ASSUME SInv, NEW content \in Contents, Written(content)
    PROVE  Renewed /\ (Current' /\ backend # "rest" => held'[content] = 0)
<1>1. CASE store # Nothing \/ Creates
  BY <1>1, StoredRenews DEF Written
<1>2. CASE ~(store # Nothing \/ Creates)
  <2>1. UNCHANGED Storage
    BY <1>2 DEF Written
  <2>2. ~(Current' /\ backend # "rest")
    BY <1>2, <2>1, SessionAssumption DEF Current, Creates, Storage, SInv, StorageTyped
  <2> QED
    BY <2>1, <2>2, SameRenews
<1> QED
  BY <1>1, <1>2

\* What was dated stays so if nothing but the storage changes.
LEMMA EntryKept ==
    ASSUME SInv, Renewed, NEW ttl \in Nat, NEW entry \in Entries(Contents \cup {Null}, ttl),
           EntryRight(entry, held)
    PROVE  EntryRight(entry, held')
<1>1. SUFFICES ASSUME entry.is \in Contents PROVE held'[entry.is] =< Latency + entry.age
  BY DEF EntryRight
<1>2. entry.age \in Nat /\ held[entry.is] =< Latency + entry.age
  BY <1>1 DEF EntryRight, Entries, Empty, Entry
<1>3. held[entry.is] \in Nat /\ held'[entry.is] \in Nat /\ held'[entry.is] =< held[entry.is]
  BY <1>1 DEF SInv, Renewed, StorageTyped
<1> QED
  BY <1>2, <1>3, SessionAssumption

LEMMA CachesKept ==
    ASSUME SInv, Renewed, UNCHANGED Caches
    PROVE  CachesTyped' /\ EntriesRight'
<1>1. mem' = mem /\ disk' = disk /\ queue' = queue
  BY DEF Caches
<1>2. CachesTyped'
  BY <1>1 DEF SInv, CachesTyped
<1>3. ASSUME Current' PROVE EntryRight(disk', held')
  BY <1>1, <1>3, EntryKept, SessionAssumption
     DEF SInv, Dated, CachesTyped, EntriesRight, Renewed, Entries
<1>4. ASSUME Current', NEW n \in Nodes PROVE EntryRight(mem'[n], held')
  BY <1>1, <1>4, EntryKept, SessionAssumption
     DEF SInv, Dated, CachesTyped, EntriesRight, Renewed, Entries
<1>5. ASSUME Current', NEW n \in Nodes PROVE EntryRight(queue'[n], held')
  BY <1>1, <1>5, EntryKept, SessionAssumption
     DEF SInv, Dated, CachesTyped, EntriesRight, Renewed
<1> QED
  BY <1>2, <1>3, <1>4, <1>5 DEF EntriesRight

\* Which kind of call is at a stage.
LEMMA StageOf ==
    ASSUME NEW call \in Typed
    PROVE  /\ call.at \in {"reading", "asked"} => call \in Stages({"reading", "asked"}, {Nothing})
           /\ call.at = "read" => call \in Stages({"read"}, Contents \cup {Null})
           /\ call.at \in {"resolved", "sent", "applied", "late"}
                => call \in Stages({"resolved", "sent", "applied", "late"}, Contents)
           /\ call # Idle => call.node \in Nodes /\ call.age \in 0..Latency
  BY DEF Typed, Stages, Idle, Stage

LEMMA CallKept ==
    ASSUME SInv, Renewed, NEW call \in Typed, CallRight(call, held)
    PROVE  CallRight(call, held')
<1>1. call.age \in Nat
  BY SessionAssumption DEF Typed, Stages, Idle, Stage
<1>2. \A c \in Contents : held[c] \in Nat /\ held'[c] \in Nat /\ held'[c] =< held[c]
  BY DEF SInv, Renewed, StorageTyped
<1>3. call.at \in {"resolved", "sent", "late"} => call.content \in Contents
  BY DEF Typed, Stages, Idle, Stage
<1> QED
  BY <1>1, <1>2, <1>3, BoundIs DEF CallRight

LEMMA CallsKept ==
    ASSUME SInv, Renewed, UNCHANGED calls
    PROVE  CallsTyped' /\ CallsRight'
<1>1. ASSUME Current', NEW k \in Calls PROVE CallRight(calls'[k], held')
  BY <1>1, CallKept DEF SInv, Dated, CallsTyped, CallsRight, Renewed
<1> QED
  BY <1>1 DEF SInv, CallsTyped, CallsRight

LEMMA CallBecomes ==
    ASSUME SInv, Renewed, NEW k \in Calls, NEW call \in Typed, Becomes(k, call),
           Current' => CallRight(call, held')
    PROVE  CallsTyped' /\ CallsRight'
<1>1. \A j \in Calls : calls'[j] = IF j = k THEN call ELSE calls[j]
  BY DEF SInv, CallsTyped, Becomes
<1>2. CallsTyped'
  BY DEF SInv, CallsTyped, Becomes
<1>3. ASSUME Current', NEW j \in Calls PROVE CallRight(calls'[j], held')
  BY <1>1, <1>3, CallKept DEF SInv, Dated, CallsTyped, CallsRight, Renewed
<1> QED
  BY <1>2, <1>3 DEF CallsRight

LEMMA IdleIsFine == Idle \in Typed /\ \A h : CallRight(Idle, h)
  BY DEF Idle, Stage, Typed, CallRight

LEMMA EmptyIsFine ==
    \A h : EntryRight(Empty, h)
  BY SessionAssumption DEF EntryRight, Empty, Entry

\* Both caches get what the store held within one answer.
LEMMA FillKeeps ==
    ASSUME SInv, UNCHANGED Storage, NEW n \in Nodes, NEW content \in Contents \cup {Null},
           Current /\ content \in Contents => held[content] =< Latency, Fill(n, content)
    PROVE  CachesTyped' /\ EntriesRight'
<1> USE SessionAssumption
<1> DEFINE entry == Entry(content, 0)
           inMem == IF content = Null THEN Empty ELSE entry
<1>1. held' = held /\ (Current' <=> Current) /\ disk' = disk
  BY DEF Storage, Current, Creates, Fill
<1>2. /\ entry \in Entries(Contents \cup {Null}, DiskTTL)
      /\ inMem \in Entries(Contents, MemTTL)
  BY DEF Entries, Entry, Empty
<1>3. ASSUME Current PROVE EntryRight(entry, held) /\ EntryRight(inMem, held)
  BY <1>3, EmptyIsFine DEF EntryRight, Entry
<1> HIDE DEF entry
<1>4. /\ mem' = [mem EXCEPT ![n] = inMem]
      /\ queue' = [queue EXCEPT ![n] = entry] \/ queue' = queue
  BY DEF Fill, Queued, entry
<1> HIDE DEF inMem
<1>5. CachesTyped'
  BY <1>1, <1>2, <1>4 DEF SInv, CachesTyped
<1>6. ASSUME Current, NEW m \in Nodes
      PROVE  EntryRight(mem'[m], held) /\ EntryRight(queue'[m], held)
  <2>1. EntryRight(mem[m], held) /\ EntryRight(queue[m], held)
    BY <1>6 DEF SInv, Dated, EntriesRight
  <2>2. mem'[m] = IF m = n THEN inMem ELSE mem[m]
    BY <1>4 DEF SInv, CachesTyped
  <2>3. queue'[m] = entry \/ queue'[m] = queue[m]
    BY <1>4 DEF SInv, CachesTyped
  <2> QED
    BY <1>3, <1>6, <2>1, <2>2, <2>3
<1>7. EntriesRight'
  BY <1>1, <1>6 DEF SInv, Dated, EntriesRight
<1> QED
  BY <1>5, <1>7

\* A process loses what it has cached, and perhaps what it has queued.
LEMMA DropKeeps ==
    ASSUME SInv, UNCHANGED Storage, NEW n \in Nodes, mem' = [mem EXCEPT ![n] = Empty],
           queue' = [queue EXCEPT ![n] = Empty] \/ queue' = queue, disk' = disk
    PROVE  CachesTyped' /\ EntriesRight'
<1>1. held' = held /\ (Current' <=> Current)
  BY DEF Storage, Current, Creates
<1>2. /\ Empty \in Entries(Contents, MemTTL)
      /\ Empty \in Entries(Contents \cup {Null}, DiskTTL)
  BY DEF Entries
<1>3. CachesTyped'
  <2>1. mem' \in [Nodes -> Entries(Contents, MemTTL)]
    BY <1>2 DEF SInv, CachesTyped
  <2>2. queue' \in [Nodes -> Entries(Contents \cup {Null}, DiskTTL)]
    BY <1>2 DEF SInv, CachesTyped
  <2> QED
    BY <2>1, <2>2 DEF SInv, CachesTyped
<1>4. ASSUME Current, NEW m \in Nodes
      PROVE  EntryRight(mem'[m], held) /\ EntryRight(queue'[m], held)
  <2>1. EntryRight(mem[m], held) /\ EntryRight(queue[m], held) /\ EntryRight(Empty, held)
    BY <1>4, EmptyIsFine DEF SInv, Dated, EntriesRight
  <2>2. mem'[m] = Empty \/ mem'[m] = mem[m]
    BY DEF SInv, CachesTyped
  <2>3. queue'[m] = Empty \/ queue'[m] = queue[m]
    BY DEF SInv, CachesTyped
  <2> QED
    BY <2>1, <2>2, <2>3
<1>5. EntriesRight'
  BY <1>1, <1>4 DEF SInv, Dated, EntriesRight
<1> QED
  BY <1>3, <1>5

\* The process is gone with its calls, but for the updates it had sent.
LEMMA DiesKeeps ==
    ASSUME SInv, NEW n \in Nodes, Dies(n)
    PROVE  SInv'
<1>1. UNCHANGED Storage /\ Renewed /\ held' = held /\ (Current' => Current)
  BY SameRenews DEF Dies, Renewed
<1>2. CachesTyped' /\ EntriesRight'
  BY <1>1, DropKeeps DEF Dies
<1>3. ASSUME NEW k \in Calls
      PROVE  \/ calls'[k] = calls[k]
             \/ calls'[k] = Idle
             \/ calls[k].at = "sent" /\ calls'[k] = [calls[k] EXCEPT !.at = "late"]
  BY DEF Dies
<1>4. ASSUME NEW k \in Calls PROVE calls'[k] \in Typed
  <2>1. calls[k] \in Typed
    BY DEF SInv, CallsTyped
  <2>2. CASE calls[k].at = "sent" /\ calls'[k] = [calls[k] EXCEPT !.at = "late"]
    <3>1. calls[k] \in Stages({"resolved", "sent", "applied", "late"}, Contents)
      BY <2>1, <2>2, StageOf
    <3>2. calls'[k] \in Stages({"resolved", "sent", "applied", "late"}, Contents)
      BY <2>2, <3>1 DEF Stages
    <3> QED
      BY <3>2 DEF Typed
  <2> QED
    BY <1>3, <2>1, <2>2, IdleIsFine
<1>5. CallsTyped'
  BY <1>4 DEF CallsTyped, Dies
<1>6. ASSUME Current', NEW k \in Calls PROVE CallRight(calls'[k], held')
  <2>1. CallRight(calls[k], held') /\ calls[k] \in Typed
    BY <1>1, <1>6 DEF SInv, Dated, CallsRight, CallsTyped
  <2>2. CASE calls'[k] = calls[k] \/ calls'[k] = Idle
    BY <2>1, <2>2, IdleIsFine
  <2>3. CASE calls[k].at = "sent" /\ calls'[k] = [calls[k] EXCEPT !.at = "late"]
    <3>1. /\ calls'[k].at = "late" /\ calls'[k].content = calls[k].content
          /\ calls'[k].age = calls[k].age
      BY <2>1, <2>3 DEF Typed, Stages, Idle, Stage
    <3> QED
      BY <2>1, <2>3, <3>1 DEF CallRight
  <2> QED
    BY <1>3, <2>2, <2>3
<1> QED
  BY <1>1, <1>2, <1>5, <1>6 DEF SInv, Dated, CallsRight, Renewed

-----------------------------------------------------------------------------
(* The steps. *)

\* A step that leaves the caches and the storage alone.
LEMMA CallOnly ==
    ASSUME SInv, UNCHANGED <<Storage, Caches>>, NEW k \in Calls, NEW call \in Typed,
           Becomes(k, call), Current => CallRight(call, held)
    PROVE  SInv'
<1>1. UNCHANGED Storage /\ UNCHANGED Caches
  BY DEF Storage, Caches
<1>2. Renewed /\ held' = held /\ (Current' => Current)
  BY <1>1, SameRenews DEF Renewed
<1>3. CachesTyped' /\ EntriesRight'
  BY <1>1, <1>2, CachesKept
<1>4. CallsTyped' /\ CallsRight'
  BY <1>2, CallBecomes
<1> QED
  BY <1>2, <1>3, <1>4 DEF SInv, Dated, Renewed

LEMMA GetKeeps ==
    ASSUME SInv, NEW k \in Calls,
           \/ \E n \in Nodes : GetMemory(k, n) \/ GetMissed(k, n)
           \/ Found(k) \/ NotFound(k)
    PROVE  SInv'
<1> USE SessionAssumption
<1>1. ASSUME NEW n \in Nodes, GetMemory(k, n) PROVE SInv'
  <2> DEFINE call == Stage("resolved", n, mem[n].is, 0)
  <2>1. mem[n] \in [is : Contents, age : 0..MemTTL]
    BY <1>1 DEF SInv, CachesTyped, Entries, GetMemory
  <2>2. call \in Typed
    BY <2>1 DEF Typed, Stages, Stage
  <2>3. Current => CallRight(call, held)
    <3>1. Current => held[mem[n].is] =< Latency + mem[n].age
      BY <2>1 DEF SInv, Dated, EntriesRight, EntryRight
    <3>2. held[mem[n].is] \in Nat
      BY <2>1 DEF SInv, StorageTyped
    <3>3. Current => held[mem[n].is] =< Bound
      BY <2>1, <3>1, <3>2, BoundIs
    <3> QED
      BY <3>3 DEF CallRight, Stage
  <2> QED
    BY <1>1, <2>2, <2>3, CallOnly DEF GetMemory
<1>2. ASSUME NEW n \in Nodes, GetMissed(k, n) PROVE SInv'
  <2> DEFINE call == Stage(IF LocalCache THEN "reading" ELSE "asked", n, Nothing, 0)
  <2>1. call \in Typed /\ CallRight(call, held)
    BY DEF Typed, Stages, Stage, CallRight
  <2> QED
    BY <1>2, <2>1, CallOnly DEF GetMissed
<1>3. ASSUME Found(k) PROVE SInv'
  <2> DEFINE call == [calls[k] EXCEPT !.at = "resolved", !.content = disk.is]
  <2>1. disk \in [is : Contents, age : 0..DiskTTL]
    BY <1>3 DEF SInv, CachesTyped, Entries, Found
  <2>0. calls[k] \in Stages({"reading", "asked"}, {Nothing})
    BY <1>3, StageOf DEF SInv, CallsTyped, Found
  <2>2. call \in Typed /\ call.at = "resolved" /\ call.content = disk.is
    BY <2>0, <2>1 DEF Typed, Stages
  <2>3. Current => CallRight(call, held)
    <3>1. Current => held[disk.is] =< Latency + disk.age
      BY <2>1 DEF SInv, Dated, EntriesRight, EntryRight
    <3>2. held[disk.is] \in Nat
      BY <2>1 DEF SInv, StorageTyped
    <3>3. Current => held[disk.is] =< Bound
      BY <2>1, <3>1, <3>2, BoundIs
    <3> QED
      BY <2>2, <3>3 DEF CallRight
  <2> HIDE DEF call
  <2>4. Becomes(k, call) /\ UNCHANGED <<Storage, Caches>>
    BY <1>3 DEF Found, call
  <2> QED
    BY <2>2, <2>3, <2>4, CallOnly
<1>4. ASSUME NotFound(k) PROVE SInv'
  <2> DEFINE call == [calls[k] EXCEPT !.at = "asked"]
  <2>1. call \in Typed /\ call.at = "asked"
    BY <1>4 DEF SInv, CallsTyped, Typed, Stages, Idle, Stage, NotFound
  <2>2. CallRight(call, held)
    BY <2>1 DEF CallRight
  <2> HIDE DEF call
  <2>3. Becomes(k, call) /\ UNCHANGED <<Storage, Caches>>
    BY <1>4 DEF NotFound, call
  <2> QED
    BY <2>1, <2>2, <2>3, CallOnly
<1> QED
  BY <1>1, <1>2, <1>3, <1>4


LEMMA BackendKeeps ==
    ASSUME SInv, NEW k \in Calls, BackendReads(k) \/ BackendRefuses(k) \/ Answered(k)
    PROVE  SInv'
<1> USE SessionAssumption
<1>1. ASSUME BackendReads(k) PROVE SInv'
  <2> DEFINE got == IF store = Nothing THEN Null ELSE store
             call == [calls[k] EXCEPT !.at = "read", !.content = got]
  <2>1. calls[k] \in Stages({"reading", "asked"}, {Nothing})
    BY <1>1, StageOf DEF SInv, CallsTyped, BackendReads
  <2>2. got \in Contents \cup {Null}
    BY DEF SInv, StorageTyped
  <2>3. got \in Contents => held[got] = 0
    BY DEF SInv, Dated, StoreRight
  <2> HIDE DEF got
  <2>a. call \in Stages({"read"}, Contents \cup {Null})
    BY <2>1, <2>2 DEF Stages
  <2>b. call.at = "read" /\ call.content = got /\ call.age \in Nat
    BY <2>1, <2>a DEF Stages
  <2>4. /\ call \in Typed /\ call.at = "read" /\ call.content = got /\ call.age \in Nat
    BY <2>a, <2>b DEF Typed
  <2> HIDE DEF call
  <2>5. CallRight(call, held)
    BY <2>3, <2>4 DEF CallRight
  <2>6. Becomes(k, call) /\ UNCHANGED <<Storage, Caches>>
    BY <1>1 DEF BackendReads, call, got
  <2> QED
    BY <2>4, <2>5, <2>6, CallOnly
<1>2. ASSUME BackendRefuses(k) PROVE SInv'
  BY <1>2, IdleIsFine, CallOnly DEF BackendRefuses
<1>3. ASSUME Answered(k) PROVE SInv'
  <2> DEFINE content == calls[k].content
             call == IF content = Null THEN Idle ELSE [calls[k] EXCEPT !.at = "resolved"]
  <2>1. calls[k] \in Stages({"read"}, Contents \cup {Null})
    BY <1>3, StageOf DEF SInv, CallsTyped, Answered
  <2>2. /\ content \in Contents \cup {Null} /\ calls[k].node \in Nodes
        /\ calls[k].age \in 0..Latency
    BY <2>1 DEF Stages
  <2>3. Current /\ content \in Contents => held[content] =< calls[k].age
    BY <1>3 DEF SInv, Dated, CallsRight, CallRight, Answered
  <2>4. content \in Contents => held[content] \in Nat
    BY DEF SInv, StorageTyped
  <2>5. Current /\ content \in Contents => held[content] =< Latency
    BY <2>2, <2>3, <2>4
  <2>6. UNCHANGED Storage /\ Fill(calls[k].node, content) /\ Becomes(k, call)
    BY <1>3 DEF Answered
  <2>7. call \in Typed
    BY <2>1, IdleIsFine DEF Typed, Stages
  <2>8. Current => CallRight(call, held)
    <3>1. CASE content = Null
      BY <3>1, IdleIsFine
    <3>2. CASE content # Null
      <4>1. call.at = "resolved" /\ call.content = content
        BY <2>1, <3>2 DEF Stages
      <4> QED
        BY <2>2, <2>4, <2>5, <3>2, <4>1, BoundIs DEF CallRight
    <3> QED
      BY <3>1, <3>2
  <2> HIDE DEF content, call
  <2>9. Renewed /\ held' = held /\ (Current' => Current)
    BY <2>6, SameRenews DEF Renewed
  <2>10. CachesTyped' /\ EntriesRight'
    BY <2>2, <2>5, <2>6, FillKeeps
  <2>11. CallsTyped' /\ CallsRight'
    BY <2>6, <2>7, <2>8, <2>9, CallBecomes
  <2> QED
    BY <2>9, <2>10, <2>11 DEF SInv, Dated, Renewed
<1> QED
  BY <1>1, <1>2, <1>3

LEMMA SentIsTyped ==
    ASSUME NEW call \in Stages({"resolved", "sent", "applied", "late"}, Contents)
    PROVE  [call EXCEPT !.at = "sent", !.age = 0]
             \in Stages({"resolved", "sent", "applied", "late"}, Contents)
<1> DEFINE sent == [call EXCEPT !.at = "sent"]
<1>1. sent \in Stages({"resolved", "sent", "applied", "late"}, Contents)
  BY DEF Stages
<1>2. 0 \in 0..Latency
  BY SessionAssumption
<1> HIDE DEF sent
<1>3. [sent EXCEPT !.age = 0] \in Stages({"resolved", "sent", "applied", "late"}, Contents)
  BY <1>1, <1>2 DEF Stages
<1>4. [call EXCEPT !.at = "sent", !.age = 0] = [sent EXCEPT !.age = 0]
  BY DEF sent, Stages
<1> QED
  BY <1>3, <1>4

LEMMA UpdateKeeps ==
    ASSUME SInv, NEW k \in Calls,
           \/ Keep(k) \/ Update(k) \/ Apply(k) \/ Updated(k) \/ Late(k) \/ Rejected(k)
    PROVE  SInv'
<1> USE SessionAssumption
<1> DEFINE content == calls[k].content
<1>a. ASSUME calls[k].at \in {"resolved", "sent", "applied", "late"}
      PROVE  /\ calls[k] \in Stages({"resolved", "sent", "applied", "late"}, Contents)
             /\ content \in Contents /\ held[content] \in Nat
             /\ calls[k].age \in 0..Latency /\ calls[k].node \in Nodes
  <2>1. calls[k] \in Stages({"resolved", "sent", "applied", "late"}, Contents)
    BY <1>a, StageOf DEF SInv, CallsTyped
  <2> QED
    BY <2>1 DEF Stages, SInv, StorageTyped
<1>1. ASSUME Keep(k) PROVE SInv'
  BY <1>1, IdleIsFine, CallOnly DEF Keep
<1>2. ASSUME Update(k) PROVE SInv'
  <2> DEFINE call == [calls[k] EXCEPT !.at = "sent", !.age = 0]
  <2>1. call \in Typed /\ call.at = "sent" /\ call.age = 0 /\ call.content = content
    <3>1. calls[k] \in Stages({"resolved", "sent", "applied", "late"}, Contents)
      BY <1>2, <1>a DEF Update
    <3>2. call \in Stages({"resolved", "sent", "applied", "late"}, Contents)
      BY <3>1, SentIsTyped
    <3>3. call.at = "sent" /\ call.age = 0
      BY <3>1 DEF Stages
    <3>4. call.content = content
      BY <3>1 DEF Stages
    <3> QED
      BY <3>2, <3>3, <3>4 DEF Typed
  <2>2. Current => held[content] =< Bound
    BY <1>2 DEF SInv, Dated, CallsRight, CallRight, Update
  <2>3. Becomes(k, call) /\ UNCHANGED <<Storage, Caches>>
    BY <1>2 DEF Update
  <2> HIDE DEF call
  <2>4. Current => CallRight(call, held)
    BY <2>1, <2>2, BoundIs DEF CallRight
  <2> QED
    BY <2>1, <2>3, <2>4, CallOnly
<1>3. ASSUME Apply(k) PROVE SInv'
  <2> DEFINE call == [calls[k] EXCEPT !.at = "applied"]
  <2>1. /\ call \in Typed /\ call.at = "applied" /\ call.content = content
        /\ call.age \in Nat /\ content \in Contents
    BY <1>3, <1>a DEF Apply, Typed, Stages
  <2>2. Written(content) /\ Becomes(k, call) /\ UNCHANGED Caches /\ backend # "rest"
    BY <1>3 DEF Apply
  <2> HIDE DEF call, content
  <2>3. Renewed /\ (Current' => held'[content] = 0)
    BY <2>1, <2>2, WrittenRenews
  <2>4. Current' => CallRight(call, held')
    BY <2>1, <2>3 DEF CallRight
  <2>5. CachesTyped' /\ EntriesRight'
    BY <2>2, <2>3, CachesKept
  <2>6. CallsTyped' /\ CallsRight'
    BY <2>1, <2>2, <2>3, <2>4, CallBecomes
  <2> QED
    BY <2>3, <2>5, <2>6 DEF SInv, Dated, Renewed
<1>4. ASSUME Updated(k) PROVE SInv'
  <2>1. content \in Contents /\ held[content] \in Nat /\ calls[k].age \in 0..Latency
        /\ calls[k].node \in Nodes
    BY <1>4, <1>a DEF Updated
  <2>2. Current => held[content] =< Latency
    BY <1>4, <2>1 DEF SInv, Dated, CallsRight, CallRight, Updated
  <2>3. UNCHANGED Storage /\ Fill(calls[k].node, content) /\ Becomes(k, Idle)
    BY <1>4 DEF Updated
  <2> HIDE DEF content
  <2>4. Renewed /\ held' = held /\ (Current' => Current)
    BY <2>3, SameRenews DEF Renewed
  <2>5. CachesTyped' /\ EntriesRight'
    BY <2>1, <2>2, <2>3, FillKeeps
  <2>6. CallsTyped' /\ CallsRight'
    BY <2>3, <2>4, IdleIsFine, CallBecomes
  <2> QED
    BY <2>4, <2>5, <2>6 DEF SInv, Dated, Renewed
<1>5. ASSUME Late(k) PROVE SInv'
  <2>1. content \in Contents
    BY <1>5, <1>a DEF Late
  <2>2. /\ Written(content) \/ UNCHANGED Storage
        /\ Becomes(k, Idle) /\ UNCHANGED Caches
    BY <1>5 DEF Late
  <2> HIDE DEF content
  <2>3. Renewed
    BY <2>1, <2>2, WrittenRenews, SameRenews
  <2>4. CachesTyped' /\ EntriesRight'
    BY <2>2, <2>3, CachesKept
  <2>5. CallsTyped' /\ CallsRight'
    BY <2>2, <2>3, IdleIsFine, CallBecomes
  <2> QED
    BY <2>3, <2>4, <2>5 DEF SInv, Dated, Renewed
<1>6. ASSUME Rejected(k) PROVE SInv'
  <2>1. calls[k].node \in Nodes /\ Dies(calls[k].node)
    BY <1>6, <1>a DEF Rejected
  <2> QED
    BY <2>1, DiesKeeps
<1> QED
  BY <1>1, <1>2, <1>3, <1>4, <1>5, <1>6

LEMMA NodeKeeps ==
    ASSUME SInv, NEW n \in Nodes, NodeStep(n)
    PROVE  SInv'
<1> USE SessionAssumption
<1>1. ASSUME WriteFile(n) PROVE SInv'
  <2>1. UNCHANGED Storage /\ UNCHANGED calls /\ mem' = mem
    BY <1>1 DEF WriteFile, Storage
  <2>2. Renewed /\ held' = held /\ (Current' => Current)
    BY <2>1, SameRenews DEF Renewed
  <2>3. queue[n] \in [is : Contents \cup {Null}, age : 0..DiskTTL]
    BY <1>1 DEF WriteFile, SInv, CachesTyped, Entries
  <2>4. disk' \in Entries(Contents, DiskTTL)
    BY <1>1, <2>3 DEF WriteFile, Entries
  <2>5. queue' = [queue EXCEPT ![n] = Empty]
    BY <1>1 DEF WriteFile
  <2>6. Empty \in Entries(Contents \cup {Null}, DiskTTL)
    BY DEF Entries
  <2>7. CachesTyped'
    BY <2>1, <2>4, <2>5, <2>6 DEF SInv, CachesTyped
  <2>8. ASSUME Current PROVE EntryRight(disk', held)
    BY <1>1, <2>8, EmptyIsFine DEF WriteFile, SInv, Dated, EntriesRight
  <2>9. ASSUME Current, NEW m \in Nodes PROVE EntryRight(queue'[m], held)
    <3>1. queue'[m] = Empty \/ queue'[m] = queue[m]
      BY <2>5 DEF SInv, CachesTyped
    <3> QED
      BY <2>9, <3>1, EmptyIsFine DEF SInv, Dated, EntriesRight
  <2>10. EntriesRight'
    BY <2>1, <2>2, <2>8, <2>9 DEF SInv, Dated, EntriesRight
  <2>11. CallsTyped' /\ CallsRight'
    BY <2>1, <2>2, CallsKept
  <2> QED
    BY <2>2, <2>7, <2>10, <2>11 DEF SInv, Dated, Renewed
<1>2. ASSUME ClearMemory(n) \/ Close(n) PROVE SInv'
  <2>1. /\ UNCHANGED Storage /\ UNCHANGED calls /\ disk' = disk
        /\ mem' = [mem EXCEPT ![n] = Empty]
        /\ queue' = [queue EXCEPT ![n] = Empty] \/ queue' = queue
    BY <1>2 DEF ClearMemory, Close, Storage
  <2>2. CachesTyped' /\ EntriesRight' /\ Renewed
    BY <2>1, DropKeeps, SameRenews
  <2>3. CallsTyped' /\ CallsRight'
    BY <2>1, <2>2, CallsKept
  <2> QED
    BY <2>2, <2>3 DEF SInv, Dated, Renewed
<1>3. ASSUME Crash(n) PROVE SInv'
  BY <1>3, DiesKeeps DEF Crash
<1> QED
  BY <1>1, <1>2, <1>3 DEF NodeStep

LEMMA ClearKeeps == SInv /\ ClearLocalCache => SInv'
<1> SUFFICES ASSUME SInv, ClearLocalCache PROVE SInv'
  OBVIOUS
<1>1. /\ UNCHANGED Storage /\ UNCHANGED calls /\ mem' = mem /\ queue' = queue
      /\ disk' = Empty
  BY DEF ClearLocalCache, Storage
<1>2. Renewed /\ held' = held /\ (Current' => Current)
  BY <1>1, SameRenews DEF Renewed
<1>3. CachesTyped'
  BY <1>1 DEF SInv, CachesTyped, Entries
<1>4. EntriesRight'
  BY <1>1, <1>2, EmptyIsFine DEF SInv, Dated, EntriesRight
<1>5. CallsTyped' /\ CallsRight'
  BY <1>1, <1>2, CallsKept
<1> QED
  BY <1>2, <1>3, <1>4, <1>5 DEF SInv, Dated, Renewed

LEMMA PortalKeeps ==
    ASSUME SInv, NEW content \in Contents \cup {Nothing}, PortalWrites(content)
    PROVE  SInv'
<1>1. Renewed
  BY StoredRenews DEF PortalWrites
<1>2. UNCHANGED Caches /\ UNCHANGED calls
  BY DEF PortalWrites, Caches
<1>3. CachesTyped' /\ EntriesRight' /\ CallsTyped' /\ CallsRight'
  BY <1>1, <1>2, CachesKept, CallsKept
<1> QED
  BY <1>1, <1>3 DEF SInv, Dated, Renewed

\* An entry grows as old as its content has been gone for, or expires.
LEMMA EntryAges ==
    ASSUME SInv, Tick, NEW contents, NEW ttl \in Nat, contents \subseteq Contents \cup {Null},
           NEW entry \in Entries(contents, ttl)
    PROVE  /\ Aged(entry, ttl) \in Entries(contents, ttl)
           /\ EntryRight(entry, held) => EntryRight(Aged(entry, ttl), held')
<1> USE SessionAssumption
<1>1. CASE entry = Empty \/ entry.age >= ttl
  <2>1. Aged(entry, ttl) = Empty
    BY <1>1 DEF Aged
  <2> QED
    BY <2>1, EmptyIsFine DEF Entries
<1>2. CASE ~(entry = Empty \/ entry.age >= ttl)
  <2> DEFINE aged == [entry EXCEPT !.age = @ + 1]
  <2>1. Aged(entry, ttl) = aged
    BY <1>2 DEF Aged
  <2>2. entry \in [is : contents, age : 0..ttl] /\ entry.age < ttl
    BY <1>2 DEF Entries
  <2>3. /\ aged \in [is : contents, age : 0..ttl] /\ aged.is = entry.is
        /\ aged.age = entry.age + 1 /\ entry.age \in Nat
    BY <2>2
  <2> HIDE DEF aged
  <2>4. \A c \in Contents : held'[c] =< held[c] + 1 /\ held[c] \in Nat /\ held'[c] \in Nat
    BY DEF Tick, Older, SInv, StorageTyped
  <2> QED
    BY <2>1, <2>3, <2>4 DEF Entries, EntryRight
<1> QED
  BY <1>1, <1>2

LEMMA TickKeeps == SInv /\ Tick => SInv'
<1> SUFFICES ASSUME SInv, Tick PROVE SInv'
  OBVIOUS
<1> USE SessionAssumption
<1>1. store' = store /\ backend' = backend /\ (Current' <=> Current)
  BY DEF Tick, Current, Creates
<1>2. stands' = Older(stands) /\ stands \in 0..Cap /\ held \in [Contents -> 0..Cap]
  BY DEF Tick, SInv, StorageTyped
<1>3. \A c \in Contents : held'[c] = IF c = store THEN 0 ELSE Older(held[c])
  BY DEF Tick
<1>4. StorageTyped'
  BY <1>1, <1>2 DEF Tick, Older, SInv, StorageTyped
<1>5. StoreRight'
  <2>1. store' \in Contents => held'[store'] = 0
    BY <1>1, <1>3
  <2>2. ASSUME NEW c \in Contents, c # store' PROVE stands' =< held'[c]
    <3>1. stands =< held[c] /\ held[c] \in 0..Cap
      BY <1>1, <1>2, <2>2 DEF SInv, Dated, StoreRight
    <3> QED
      BY <1>1, <1>2, <1>3, <2>2, <3>1 DEF Older
  <2> QED
    BY <2>1, <2>2 DEF StoreRight
<1>6. ASSUME NEW n \in Nodes
      PROVE  /\ mem'[n] \in Entries(Contents, MemTTL)
             /\ queue'[n] \in Entries(Contents \cup {Null}, DiskTTL)
             /\ Current => EntryRight(mem'[n], held') /\ EntryRight(queue'[n], held')
  <2>1. mem'[n] = Aged(mem[n], MemTTL) /\ queue'[n] = Aged(queue[n], DiskTTL)
    BY DEF Tick
  <2>2. /\ mem[n] \in Entries(Contents, MemTTL)
        /\ queue[n] \in Entries(Contents \cup {Null}, DiskTTL)
    BY DEF SInv, CachesTyped
  <2>3. Current => EntryRight(mem[n], held) /\ EntryRight(queue[n], held)
    BY DEF SInv, Dated, EntriesRight
  <2>4. /\ Aged(mem[n], MemTTL) \in Entries(Contents, MemTTL)
        /\ EntryRight(mem[n], held) => EntryRight(Aged(mem[n], MemTTL), held')
    BY <2>2, EntryAges
  <2>5. /\ Aged(queue[n], DiskTTL) \in Entries(Contents \cup {Null}, DiskTTL)
        /\ EntryRight(queue[n], held) => EntryRight(Aged(queue[n], DiskTTL), held')
    BY <2>2, EntryAges
  <2> QED
    BY <2>1, <2>3, <2>4, <2>5
<1>7. /\ disk' \in Entries(Contents, DiskTTL)
      /\ Current => EntryRight(disk', held')
  <2>1. disk' = Aged(disk, DiskTTL) /\ disk \in Entries(Contents, DiskTTL)
    BY DEF Tick, SInv, CachesTyped
  <2>2. /\ Aged(disk, DiskTTL) \in Entries(Contents, DiskTTL)
        /\ EntryRight(disk, held) => EntryRight(Aged(disk, DiskTTL), held')
    BY <2>1, EntryAges
  <2> QED
    BY <2>1, <2>2 DEF SInv, Dated, EntriesRight
<1>8. CachesTyped'
  <2>1. mem' = [n \in Nodes |-> mem'[n]] /\ queue' = [n \in Nodes |-> queue'[n]]
    BY DEF Tick
  <2> QED
    BY <1>6, <1>7, <2>1 DEF CachesTyped
<1>9. EntriesRight'
  BY <1>1, <1>6, <1>7 DEF EntriesRight
<1>10. ASSUME NEW k \in Calls
       PROVE  calls'[k] \in Typed /\ (Current => CallRight(calls'[k], held'))
  <2> DEFINE call == calls[k]
             aged == [call EXCEPT !.age = @ + 1]
  <2>1. call \in Typed /\ ~Urgent(call)
    BY DEF SInv, CallsTyped, Tick
  <2>2. CASE call = Idle
    BY <2>2, IdleIsFine DEF Tick
  <2>3. CASE call # Idle
    <3>1. calls'[k] = aged
      BY <2>3 DEF Tick
    <3>2. /\ call \in Stages({"asked"}, {Nothing}) \cup Stages({"read"}, Contents \cup {Null})
                        \cup Stages({"sent", "applied", "late"}, Contents)
          /\ call.age < Latency
      BY <2>1, <2>3 DEF Typed, Stages, Urgent
    <3>3. Current => CallRight(call, held)
      BY DEF SInv, Dated, CallsRight
    <3> HIDE DEF call
    <3>4. /\ aged \in Typed /\ aged.at = call.at /\ aged.content = call.content
          /\ aged.age = call.age + 1 /\ call.age \in Nat /\ call.at # "resolved"
          /\ call.at \in {"sent", "late", "applied"} => call.content \in Contents
      BY <3>2 DEF Typed, Stages
    <3> HIDE DEF aged
    <3>5. \A c \in Contents :
              held'[c] =< held[c] + 1 /\ held[c] \in Nat /\ held'[c] \in Nat
      BY <1>2, <1>3 DEF Older
    <3>6. Current => CallRight(aged, held')
      BY <3>3, <3>4, <3>5, BoundIs DEF CallRight
    <3> QED
      BY <3>1, <3>4, <3>6
  <2> QED
    BY <2>2, <2>3
<1>11. CallsTyped'
  <2>1. calls' = [k \in Calls |-> calls'[k]]
    BY DEF Tick
  <2> QED
    BY <1>10, <2>1 DEF CallsTyped
<1>12. CallsRight'
  BY <1>1, <1>10 DEF CallsRight
<1> QED
  BY <1>4, <1>5, <1>8, <1>9, <1>11, <1>12 DEF SInv, Dated

-----------------------------------------------------------------------------
(* The invariant, and what follows. *)

LEMMA InitSInv == Init => SInv
<1> SUFFICES ASSUME Init PROVE SInv
  OBVIOUS
<1> USE SessionAssumption
<1>1. StorageTyped
  BY DEF Init, StorageTyped
<1>2. CachesTyped
  BY DEF Init, CachesTyped, Entries
<1>3. CallsTyped
  BY DEF Init, CallsTyped, Typed
<1>4. StoreRight
  BY DEF Init, StoreRight
<1>5. EntriesRight
  BY EmptyIsFine DEF Init, EntriesRight
<1>6. CallsRight
  BY IdleIsFine DEF Init, CallsRight
<1> QED
  BY <1>1, <1>2, <1>3, <1>4, <1>5, <1>6 DEF SInv, Dated

LEMMA NextSInv == SInv /\ [Next]_vars => SInv'
<1> SUFFICES ASSUME SInv, [Next]_vars PROVE SInv'
  OBVIOUS
<1>1. ASSUME NEW k \in Calls, CallStep(k) PROVE SInv'
  BY <1>1, GetKeeps, BackendKeeps, UpdateKeeps DEF CallStep
<1>2. ASSUME NEW n \in Nodes, NodeStep(n) PROVE SInv'
  BY <1>2, NodeKeeps
<1>3. CASE ClearLocalCache
  BY <1>3, ClearKeeps
<1>4. ASSUME NEW content \in Contents \cup {Nothing}, PortalWrites(content) PROVE SInv'
  BY <1>4, PortalKeeps
<1>5. CASE Tick
  BY <1>5, TickKeeps
<1>6. CASE UNCHANGED vars
  <2>1. UNCHANGED Storage /\ UNCHANGED Caches /\ UNCHANGED calls
    BY <1>6 DEF vars, Storage, Caches
  <2>2. Renewed
    BY <2>1, SameRenews
  <2> QED
    BY <2>1, <2>2, CachesKept, CallsKept DEF SInv, Dated, Renewed
<1> QED
  BY <1>1, <1>2, <1>3, <1>4, <1>5, <1>6 DEF Next

LEMMA AlwaysSInv == Spec => []SInv
  BY InitSInv, NextSInv, PTL DEF Spec

\* Every variable of the accessor has its type, whatever the lifetimes and delays.
THEOREM AccessorTyped == Spec => []TypeOK
<1>1. SInv => TypeOK
  BY TypeParts DEF SInv
<1> QED
  BY <1>1, AlwaysSInv, PTL

\* get resolves with nothing that the store has not held within the lifetime of one
\* cache and one answer, however many processes share and refresh the caches.
THEOREM ResolvesRecent == Spec => []Recent
<1>1. SInv => Recent
  BY DEF SInv, Dated, CallsRight, CallRight, Recent
<1> QED
  BY <1>1, AlwaysSInv, PTL

\* What has stood for longer than that and two answers, no update of a handler
\* replaces, and a session that has been gone for as long, none brings back.
THEOREM HandlersAreLate == Spec => StandsFirm
<1> DEFINE Hazard == (\E k \in Calls : Apply(k) \/ Late(k)) /\ store' # store
<1>1. ASSUME SInv, NEW k \in Calls, Apply(k) \/ Late(k), store' # store
      PROVE  stands =< Bound + Latency
  <2> DEFINE content == calls[k].content
  <2>1. calls[k] \in Stages({"resolved", "sent", "applied", "late"}, Contents)
    BY <1>1, StageOf DEF SInv, CallsTyped, Apply, Late
  <2>2. content \in Contents /\ calls[k].age \in 0..Latency
    BY <2>1 DEF Stages
  <2>3. (store # Nothing \/ Creates) /\ store' = content
    BY <1>1 DEF Apply, Late, Written, Stored, Storage
  <2>4. held[content] =< Bound + calls[k].age
    BY <1>1, <2>3 DEF SInv, Dated, CallsRight, CallRight, Current, Creates, Apply, Late
  <2>5. stands =< held[content]
    BY <1>1, <2>2, <2>3 DEF SInv, Dated, StoreRight
  <2>6. stands \in Nat /\ held[content] \in Nat
    BY <1>1, <2>2 DEF SInv, StorageTyped
  <2> HIDE DEF content
  <2> QED
    BY <2>2, <2>4, <2>5, <2>6, BoundIs, SessionAssumption
<1>2. SInv /\ [Next]_vars => [Hazard => stands =< Bound + Latency]_vars
  BY <1>1
<1> QED
  BY <1>2, AlwaysSInv, PTL DEF Spec, StandsFirm

=============================================================================
