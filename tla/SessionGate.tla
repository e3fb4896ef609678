---------------------------- MODULE SessionGate ----------------------------
(***************************************************************************)
(* What the handler promises its site about deleted sessions: a request is *)
(* let in on a session that exists, or was deleted less than Grace before  *)
(* the request arrived.  No cache, no node and no store appear here.       *)
(***************************************************************************)
EXTENDS Integers

CONSTANTS Conns, Ids, None, Grace

VARIABLES
    now,     \* the time
    goneAt,  \* when each session was deleted, 0 if it was not
    gate     \* per connection: None, or the request it holds or was let in with

vars == <<now, goneAt, gate>>

Held(st, id, start) == [st |-> st, id |-> id, start |-> start]

\* May a request of that time still be let in with this session?
Fresh(id, start) == goneAt[id] = 0 \/ start < goneAt[id] + Grace

Waiting(c) == gate[c] # None /\ gate[c].st = "open"

Open(c, id) ==
    /\ ~Waiting(c)
    /\ gate' = [gate EXCEPT ![c] = Held("open", id, now)]
    /\ UNCHANGED <<now, goneAt>>

\* Let in at once, or after having waited.
AdmitAtOnce(c, id) ==
    /\ ~Waiting(c)
    /\ Fresh(id, now)
    /\ gate' = [gate EXCEPT ![c] = Held("granted", id, now)]
    /\ UNCHANGED <<now, goneAt>>

Admit(c) ==
    /\ Waiting(c)
    /\ Fresh(gate[c].id, gate[c].start)
    /\ gate' = [gate EXCEPT ![c] = Held("granted", gate[c].id, gate[c].start)]
    /\ UNCHANGED <<now, goneAt>>

\* Some connections are turned away, or their process died.
TurnAway(turned) ==
    /\ gate' = [c \in Conns |-> IF c \in turned THEN None ELSE gate[c]]
    /\ UNCHANGED <<now, goneAt>>

Delete(id) ==
    /\ goneAt' = [goneAt EXCEPT ![id] = now]
    /\ UNCHANGED <<now, gate>>

Tick == now' = now + 1 /\ UNCHANGED <<goneAt, gate>>

Init ==
    /\ now = 1
    /\ goneAt = [id \in Ids |-> 0]
    /\ gate = [c \in Conns |-> None]

Next ==
    \/ \E c \in Conns, id \in Ids : Open(c, id) \/ AdmitAtOnce(c, id)
    \/ \E c \in Conns : Admit(c)
    \/ \E turned \in SUBSET Conns : TurnAway(turned)
    \/ \E id \in Ids : Delete(id)
    \/ Tick

Spec == Init /\ [][Next]_vars
=============================================================================
