------------------------------ MODULE Session ------------------------------
(***************************************************************************)
(* packages/session: one session behind the accessor, with both its caches *)
(* (in memory, per process; on disk, shared by the processes of a host)    *)
(* and the backend that the portal writes to, which the handlers write to  *)
(* as well: retrieveSession updates the session it got, whatever became of *)
(* it meanwhile.  A content is what the portal wrote; _lastSeen, all that  *)
(* a handler changes in it, is left out.  There is no clock: everything    *)
(* has an age, counted up to Cap.  node-persist and limited-cache, which   *)
(* are not in the repository, are modelled from their use.  Backends write *)
(* a session at once, so that of files, which empties its file first, is   *)
(* left out.                                                               *)
(***************************************************************************)
EXTENDS Naturals

CONSTANTS
    Nodes,        \* processes of one host
    Calls,        \* gets in flight at a time
    Contents,     \* what the portal may write
    Nothing,      \* there is no session, no entry, nobody
    Null,         \* what redis answers when there is no session
    Backends,     \* configured types of session storage
    LocalCache,   \* whether there is a cache on disk
    MemTTL, DiskTTL,
    Latency,      \* bound: a backend answers, and node-persist writes, within it
    Cap           \* ages are not told apart from here on

Longer(s, t) == IF s > t THEN s ELSE t

\* How old a content may be that get resolves with.
Bound == Latency + Longer(MemTTL, DiskTTL)

ASSUME SessionAssumption ==
    /\ Nothing \notin Contents /\ Null \notin Contents /\ Nothing # Null
    /\ Backends \subseteq {"redis", "dbi", "rest"}
    /\ LocalCache \in BOOLEAN
    /\ MemTTL \in Nat /\ DiskTTL \in Nat /\ Latency \in Nat /\ Latency =< DiskTTL
    /\ Cap \in Nat /\ Cap > Bound + Latency

VARIABLES
    backend,    \* the type of the storage
    store,      \* what it holds
    stands,     \* for how long it has held that
    held,       \* for each content, since when it does not hold it
    mem,        \* per process, its entry in inMemoryCache
    disk,       \* the entry in localCache
    queue,      \* per process, what node-persist has yet to write to disk
    calls       \* the gets in flight, and the updates they led to

vars == <<backend, store, stands, held, mem, disk, queue, calls>>

Storage == <<backend, store, stands, held>>
Caches == <<mem, disk, queue>>

Older(age) == IF age < Cap THEN age + 1 ELSE Cap

\* An entry of a cache.  In the queue, null is written like anything else.
Entry(content, age) == [is |-> content, age |-> age]
Empty == Entry(Nothing, 0)

\* The stages of a get: reading the file of the local cache, asked the backend,
\* read there, resolved; then of an update: sent, applied,
\* and late if the process that sent it has died.
Stage(at, n, content, age) == [at |-> at, node |-> n, content |-> content, age |-> age]
Idle == Stage("idle", Nothing, Nothing, 0)

Becomes(k, call) == calls' = [calls EXCEPT ![k] = call]

\* redis writes the session whether it is there or not, dbi only updates a row, and
\* rest has no update.
Creates == backend = "redis"

-----------------------------------------------------------------------------
(* The caches. *)

\* queueWriteFile: of several writes to one file, the last is made.
Queued(n, content) ==
    IF LocalCache THEN [queue EXCEPT ![n] = Entry(content, 0)] ELSE queue

\* Both caches are set; nothing waits for the second.  null counts as absent in
\* the first, and so does what is expired.
Fill(n, content) ==
    /\ mem' = [mem EXCEPT ![n] = IF content = Null THEN Empty ELSE Entry(content, 0)]
    /\ queue' = Queued(n, content)
    /\ UNCHANGED disk

WriteFile(n) ==
    /\ queue[n] # Empty
    /\ disk' = IF queue[n].is = Null THEN Empty ELSE queue[n]
    /\ queue' = [queue EXCEPT ![n] = Empty]
    /\ UNCHANGED <<Storage, mem, calls>>

\* clearMemoryCache, and clearAllMemoryCache for the one session there is; and
\* limited-cache makes room for others.
ClearMemory(n) ==
    /\ mem' = [mem EXCEPT ![n] = Empty]
    /\ UNCHANGED <<Storage, disk, queue, calls>>

\* clearLocalCache: the file is removed at once, past the queue; that it fails is
\* ignored.  clearAllCaches is the one and then, not at once, the other, whatever
\* happens in between.
ClearLocalCache ==
    /\ LocalCache
    /\ disk' = Empty
    /\ UNCHANGED <<Storage, mem, queue, calls>>

\* close: what is queued is not written any more.  (What is set later is not either,
\* until the process exits; the model lets it be written.)
Close(n) ==
    /\ mem' = [mem EXCEPT ![n] = Empty]
    /\ queue' = [queue EXCEPT ![n] = Empty]
    /\ UNCHANGED <<Storage, disk, calls>>

-----------------------------------------------------------------------------
(* get. *)

GetMemory(k, n) ==
    /\ calls[k] = Idle /\ mem[n] # Empty
    /\ Becomes(k, Stage("resolved", n, mem[n].is, 0))
    /\ UNCHANGED <<Storage, Caches>>

GetMissed(k, n) ==
    /\ calls[k] = Idle /\ mem[n] = Empty
    /\ Becomes(k, Stage(IF LocalCache THEN "reading" ELSE "asked", n, Nothing, 0))
    /\ UNCHANGED <<Storage, Caches>>

\* Mutant: what the local cache answers is put in the memory cache.
FoundFills(k) ==
    /\ calls[k].at = "reading" /\ disk # Empty
    /\ Becomes(k, [calls[k] EXCEPT !.at = "resolved", !.content = disk.is])
    /\ mem' = [mem EXCEPT ![calls[k].node] = Entry(disk.is, 0)]
    /\ UNCHANGED <<Storage, disk, queue>>

\* What the local cache answers is not put in the memory cache.
Found(k) ==
    /\ calls[k].at = "reading" /\ disk # Empty
    /\ Becomes(k, [calls[k] EXCEPT !.at = "resolved", !.content = disk.is])
    /\ UNCHANGED <<Storage, Caches>>

NotFound(k) ==
    /\ calls[k].at = "reading" /\ disk = Empty
    /\ Becomes(k, [calls[k] EXCEPT !.at = "asked"])
    /\ UNCHANGED <<Storage, Caches>>

\* Only redis answers that there is no session; the others refuse.
BackendReads(k) ==
    /\ calls[k].at = "asked"
    /\ store # Nothing \/ backend = "redis"
    /\ Becomes(k, [calls[k] EXCEPT !.at = "read",
                                   !.content = IF store = Nothing THEN Null ELSE store])
    /\ UNCHANGED <<Storage, Caches>>

\* No session, or no backend.  (A dbi table that cannot be read is an error nobody
\* listens to: see Crash.)
BackendRefuses(k) ==
    /\ calls[k].at = "asked"
    /\ Becomes(k, Idle)
    /\ UNCHANGED <<Storage, Caches>>

\* Mutant: null is cached like a session.
AnsweredNull(k) ==
    /\ calls[k].at = "read"
    /\ Becomes(k, [calls[k] EXCEPT !.at = "resolved"])
    /\ mem' = [mem EXCEPT ![calls[k].node] = Entry(calls[k].content, 0)]
    /\ queue' = Queued(calls[k].node, calls[k].content)
    /\ UNCHANGED <<Storage, disk>>

\* A get that resolves with null ends in an exception of its caller.
Answered(k) ==
    LET call == calls[k]
    IN  /\ call.at = "read"
        /\ Fill(call.node, call.content)
        /\ Becomes(k, IF call.content = Null THEN Idle
                                             ELSE [call EXCEPT !.at = "resolved"])
        /\ UNCHANGED Storage

-----------------------------------------------------------------------------
(* update, which retrieveSession calls in the turn in which get resolves. *)

Keep(k) ==
    /\ calls[k].at = "resolved"
    /\ Becomes(k, Idle)
    /\ UNCHANGED <<Storage, Caches>>

Update(k) ==
    /\ calls[k].at = "resolved"
    /\ Becomes(k, [calls[k] EXCEPT !.at = "sent", !.age = 0])
    /\ UNCHANGED <<Storage, Caches>>

\* The store becomes content; it has no more held what it held since now.
Stored(content) ==
    /\ store' = content
    /\ stands' = IF content = store THEN stands ELSE 0
    /\ held' = [c \in Contents |-> IF c = content \/ c = store THEN 0 ELSE held[c]]
    /\ UNCHANGED backend

Written(content) ==
    IF store # Nothing \/ Creates THEN Stored(content) ELSE UNCHANGED Storage

Apply(k) ==
    /\ calls[k].at = "sent" /\ backend # "rest"
    /\ Written(calls[k].content)
    /\ Becomes(k, [calls[k] EXCEPT !.at = "applied"])
    /\ UNCHANGED Caches

Updated(k) ==
    /\ calls[k].at = "applied"
    /\ Fill(calls[k].node, calls[k].content)
    /\ Becomes(k, Idle)
    /\ UNCHANGED Storage

\* The backend may get to it when nobody waits any more, or never.
Late(k) ==
    /\ calls[k].at = "late"
    /\ Written(calls[k].content) \/ UNCHANGED Storage
    /\ Becomes(k, Idle)
    /\ UNCHANGED Caches

\* The process is no more, and another one takes its place: what it had sent may
\* still arrive.
Dies(n) ==
    /\ mem' = [mem EXCEPT ![n] = Empty]
    /\ queue' = [queue EXCEPT ![n] = Empty]
    /\ calls' = [k \in Calls |->
                    IF calls[k].at = "late" \/ calls[k].node # n
                    THEN calls[k]
                    ELSE IF calls[k].at = "sent" /\ backend # "rest"
                         THEN [calls[k] EXCEPT !.at = "late"]
                         ELSE Idle]
    /\ UNCHANGED <<Storage, disk>>

Crash(n) == Dies(n)

\* Mutant: what is rejected is sent again.
RejectedAgain(k) ==
    /\ calls[k].at \in {"sent", "applied"}
    /\ Becomes(k, [calls[k] EXCEPT !.at = "sent", !.age = 0])
    /\ UNCHANGED <<Storage, Caches>>

\* Nobody listens to what becomes of an update: a rejection, whether the backend
\* got to it or not, ends the process.
Rejected(k) ==
    /\ calls[k].at \in {"sent", "applied"}
    /\ Dies(calls[k].node)

-----------------------------------------------------------------------------
(* The portal, and time. *)

\* It writes a session that is there, or deletes it; an id is not used again.
PortalWrites(content) ==
    /\ store # Nothing /\ content # store
    /\ Stored(content)
    /\ UNCHANGED <<Caches, calls>>

Aged(entry, ttl) ==
    IF entry = Empty \/ entry.age >= ttl THEN Empty ELSE [entry EXCEPT !.age = @ + 1]

\* An answer, an update or a queued write takes Latency at most; reading the file
\* of a local cache, less than a tick; and a get that resolves, no time.
Urgent(call) ==
    \/ call.at \in {"reading", "resolved"}
    \/ call.at \in {"asked", "read", "sent", "applied", "late"} /\ call.age >= Latency

\* What has expired in a cache is as good as absent.
Tick ==
    /\ \A k \in Calls : ~Urgent(calls[k])
    /\ \A n \in Nodes : queue[n] # Empty => queue[n].age < Latency
    /\ stands' = Older(stands)
    /\ held' = [c \in Contents |-> IF c = store THEN 0 ELSE Older(held[c])]
    /\ mem' = [n \in Nodes |-> Aged(mem[n], MemTTL)]
    /\ disk' = Aged(disk, DiskTTL)
    /\ queue' = [n \in Nodes |-> Aged(queue[n], DiskTTL)]
    /\ calls' = [k \in Calls |->
                    IF calls[k] = Idle THEN Idle ELSE [calls[k] EXCEPT !.age = @ + 1]]
    /\ UNCHANGED <<backend, store>>

Init ==
    /\ backend \in Backends
    /\ store \in Contents
    /\ stands = Cap
    /\ held = [c \in Contents |-> IF c = store THEN 0 ELSE Cap]
    /\ mem = [n \in Nodes |-> Empty]
    /\ disk = Empty
    /\ queue = [n \in Nodes |-> Empty]
    /\ calls = [k \in Calls |-> Idle]

CallStep(k) ==
    \/ \E n \in Nodes : GetMemory(k, n) \/ GetMissed(k, n)
    \/ Found(k) \/ NotFound(k)
    \/ BackendReads(k) \/ BackendRefuses(k) \/ Answered(k)
    \/ Keep(k) \/ Update(k)
    \/ Apply(k) \/ Updated(k) \/ Late(k) \/ Rejected(k)

NodeStep(n) ==
    \/ WriteFile(n) \/ ClearMemory(n) \/ Close(n) \/ Crash(n)

Next ==
    \/ \E k \in Calls : CallStep(k)
    \/ \E n \in Nodes : NodeStep(n)
    \/ ClearLocalCache
    \/ \E content \in Contents \cup {Nothing} : PortalWrites(content)
    \/ Tick

Spec == Init /\ [][Next]_vars

-----------------------------------------------------------------------------
(* Properties. *)

\* Every variable has its type.
TypeOK ==
    LET Entries(contents, ttl) == {Empty} \cup [is : contents, age : 0..ttl]
        Stages(at, contents) == [at : at, node : Nodes, content : contents, age : 0..Latency]
    IN  /\ backend \in Backends
        /\ store \in Contents \cup {Nothing}
        /\ stands \in 0..Cap
        /\ held \in [Contents -> 0..Cap]
        /\ mem \in [Nodes -> Entries(Contents, MemTTL)]
        /\ disk \in Entries(Contents, DiskTTL)
        /\ queue \in [Nodes -> Entries(Contents \cup {Null}, DiskTTL)]
        /\ calls \in [Calls -> {Idle} \cup Stages({"reading", "asked"}, {Nothing})
                               \cup Stages({"read"}, Contents \cup {Null})
                               \cup Stages({"resolved", "sent", "applied", "late"}, Contents)]

\* The session is there, or updates do not live on without it: only those of a
\* dbi table pass over a deleted session and then fill the caches all the same.
\* (redis writes it again, and those of rest are rejected.)
Current == store # Nothing \/ backend # "dbi"

\* However the caches of several processes fill each other through the updates,
\* get resolves with what the store held at most the lifetime of one cache (and
\* one answer) before; unless the session is deleted from a dbi table: there the
\* updates of a user who stays active keep it alive in the caches.
Recent ==
    Current => \A k \in Calls : calls[k].at = "resolved" => held[calls[k].content] =< Bound

\* A handler changes what the store holds, whether it puts back a content that
\* the portal replaced or a session that the portal deleted, only soon after the
\* last change: what has stood for longer is safe from the handlers.
StandsFirm ==
    [][ (\E k \in Calls : Apply(k) \/ Late(k)) /\ store' # store
        => stands =< Bound + Latency ]_vars
=============================================================================
