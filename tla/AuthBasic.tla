----------------------------- MODULE AuthBasic -----------------------------
(***************************************************************************)
(* HTTP Basic on one handler process (packages/handler: handlerAuthBasic). *)
(* The id of a session is a hash of the credentials, so an id stands for   *)
(* the credentials too.  fetchId leaves them in pendingAuth for            *)
(* retrieveSession, which asks the portal for the session if there is none.*)
(*                                                                         *)
(* The lookup of a session is one asynchronous step here; what its caches  *)
(* add is the matter of Handler.                                           *)
(***************************************************************************)

CONSTANTS
    Conns,     \* connections; each carries one request at a time
    Ids,       \* session ids
    Basic,     \* ids that are the hash of credentials with a user in them
    Valid,     \* credentials the portal accepts
    None,      \* JavaScript's undefined
    MayFail    \* may the store and the portal fail?

ASSUME BasicAssumption ==
    /\ Valid \subseteq Basic /\ Basic \subseteq Ids
    /\ None \notin Conns
    /\ MayFail \in BOOLEAN

VARIABLES
    store,     \* ids of the sessions that exist
    pending,   \* pendingAuth: per id, the connection whose address it holds
    req        \* per connection: how far its request is, or its answer

vars == <<store, pending, req>>

Request == [st : {"idle", "lookup", "creating", "again", "granted", "refused"},
            id : Ids, creds : BOOLEAN, asked : BOOLEAN]

Waiting(c) == req[c].st \in {"lookup", "creating", "again"}
Goto(c, st) == req' = [req EXCEPT ![c].st = st]

\* An entry that is not in the map is undefined.
Forget(id) == pending' = [pending EXCEPT ![id] = None]

-----------------------------------------------------------------------------

\* fetchId, then the start of retrieveSession.  Without credentials the id is
\* that of a cookie, which may be one that credentials have too.
Arrive(c, id, creds) ==
    /\ ~Waiting(c)
    /\ creds => id \in Basic
    /\ req' = [req EXCEPT ![c] = [st |-> "lookup", id |-> id, creds |-> creds,
                                 asked |-> FALSE]]
    /\ pending' = IF creds THEN [pending EXCEPT ![id] = c] ELSE pending
    /\ UNCHANGED store

\* Mutant: the credentials are forgotten on the way to the portal only.
FoundKeeps(c) ==
    /\ req[c].st = "lookup" /\ req[c].id \in store
    /\ Goto(c, "granted")
    /\ UNCHANGED <<store, pending>>

Found(c) ==
    /\ req[c].st = "lookup" /\ req[c].id \in store
    /\ Goto(c, "granted")
    /\ Forget(req[c].id)
    /\ UNCHANGED store

LookupFails(c) == req[c].st = "lookup" /\ (MayFail \/ req[c].id \notin store)

\* Mutant: retrieveSession returns without rejecting.
GiveUpSilently(c) ==
    /\ LookupFails(c)
    /\ pending[req[c].id] = None
    /\ UNCHANGED vars

\* No session, and another request took the credentials, or there are none.
GiveUp(c) ==
    /\ LookupFails(c)
    /\ pending[req[c].id] = None
    /\ Goto(c, "refused")
    /\ UNCHANGED <<store, pending>>

AskPortal(c) ==
    /\ LookupFails(c)
    /\ pending[req[c].id] # None
    /\ req' = [req EXCEPT ![c].st = "creating", ![c].asked = TRUE]
    /\ Forget(req[c].id)
    /\ UNCHANGED store

PortalAccepts(c) ==
    /\ req[c].st = "creating" /\ req[c].id \in Valid
    /\ store' = store \cup {req[c].id}
    /\ Goto(c, "again")
    /\ UNCHANGED pending

PortalRefuses(c) ==
    /\ req[c].st = "creating" /\ (MayFail \/ req[c].id \notin Valid)
    /\ Goto(c, "refused")
    /\ UNCHANGED <<store, pending>>

FoundAgain(c) ==
    /\ req[c].st = "again" /\ req[c].id \in store
    /\ Goto(c, "granted")
    /\ UNCHANGED <<store, pending>>

\* Mutant: the rejection of the second lookup is swallowed, and its session undefined.
LostAgainUndefined(c) ==
    /\ req[c].st = "again" /\ (MayFail \/ req[c].id \notin store)
    /\ Goto(c, None)
    /\ UNCHANGED <<store, pending>>

LostAgain(c) ==
    /\ req[c].st = "again" /\ (MayFail \/ req[c].id \notin store)
    /\ Goto(c, "refused")
    /\ UNCHANGED <<store, pending>>

\* The session ends, at the portal or by its lifetime.
Expire(id) ==
    /\ id \in store
    /\ store' = store \ {id}
    /\ UNCHANGED <<pending, req>>

-----------------------------------------------------------------------------

Init ==
    /\ store \in SUBSET (Ids \ Basic)
    /\ pending = [id \in Ids |-> None]
    /\ \E id \in Ids : req = [c \in Conns |-> [st |-> "idle", id |-> id,
                                             creds |-> FALSE, asked |-> FALSE]]

Retrieve(c) ==
    \/ Found(c) \/ GiveUp(c) \/ AskPortal(c)
    \/ PortalAccepts(c) \/ PortalRefuses(c)
    \/ FoundAgain(c) \/ LostAgain(c)

Next ==
    \/ \E c \in Conns, id \in Ids, creds \in BOOLEAN : Arrive(c, id, creds)
    \/ \E c \in Conns : Retrieve(c)
    \/ \E id \in Ids : Expire(id)

Spec == Init /\ [][Next]_vars

\* The store and the portal answer, be it with an error.
FairSpec == Spec /\ \A c \in Conns : WF_vars(Retrieve(c))

-----------------------------------------------------------------------------
(* Properties. *)

\* Every variable has its type.
TypeOK ==
    /\ store \subseteq Ids
    /\ pending \in [Ids -> Conns \cup {None}]
    /\ req \in [Conns -> Request]

\* Credentials stay in memory only while the request that brought them waits for
\* its first lookup, however many requests share them; so the address told to
\* the portal is that of a client that waits for this very session.
PendingIsWaiting ==
    \A id \in Ids, c \in Conns :
        pending[id] = c => req[c].st = "lookup" /\ req[c].id = id /\ req[c].creds

\* Every request is answered.
Answered == \A c \in Conns : Waiting(c) ~> ~Waiting(c)

\* What the head of handlerAuthBasic.ts says, "If not, asking the portal to create
\* it": where every request brings credentials, none is refused before the portal
\* was asked about them.
AskedBeforeRefused ==
    (\A c \in Conns : req[c].creds \/ req[c].st = "idle") =>
        \A c \in Conns : req[c].st = "refused" => req[c].asked
=============================================================================
