--------------------------- MODULE AuthBasicProofs ---------------------------
(***************************************************************************)
(* What AuthBasic promises for any number of connections, credentials and  *)
(* failures of the portal.                                                 *)
(***************************************************************************)
EXTENDS AuthBasic, TLAPS

BInv == TypeOK /\ PendingIsWaiting

LEMMA InitBInv == Init => BInv
<1> SUFFICES ASSUME Init PROVE BInv
  OBVIOUS
<1> USE BasicAssumption
<1>1. TypeOK
  BY DEF Init, TypeOK, Request
<1>2. PendingIsWaiting
  BY DEF Init, PendingIsWaiting
<1> QED
  BY <1>1, <1>2 DEF BInv

LEMMA NextBInv == BInv /\ [Next]_vars => BInv'
<1> SUFFICES ASSUME BInv, [Next]_vars PROVE BInv'
  OBVIOUS
<1> USE BasicAssumption
<1>1. ASSUME NEW c \in Conns, NEW id \in Ids, NEW creds \in BOOLEAN, Arrive(c, id, creds)
      PROVE  BInv'
  <2>1. TypeOK'
    BY <1>1 DEF BInv, TypeOK, Request, Arrive
  <2>2. PendingIsWaiting'
    BY <1>1 DEF BInv, TypeOK, Request, PendingIsWaiting, Arrive, Waiting
  <2> QED
    BY <2>1, <2>2 DEF BInv
<1>2. ASSUME NEW c \in Conns, Found(c)
      PROVE  BInv'
  <2>1. TypeOK'
    BY <1>2 DEF BInv, TypeOK, Request, Found, Goto, Forget
  <2>2. PendingIsWaiting'
    BY <1>2 DEF BInv, TypeOK, Request, PendingIsWaiting, Found, Goto, Forget
  <2> QED
    BY <2>1, <2>2 DEF BInv
<1>3. ASSUME NEW c \in Conns, GiveUp(c)
      PROVE  BInv'
  <2>1. TypeOK'
    BY <1>3 DEF BInv, TypeOK, Request, GiveUp, Goto, LookupFails
  <2>2. PendingIsWaiting'
    BY <1>3 DEF BInv, TypeOK, Request, PendingIsWaiting, GiveUp, Goto, LookupFails
  <2> QED
    BY <2>1, <2>2 DEF BInv
<1>4. ASSUME NEW c \in Conns, AskPortal(c)
      PROVE  BInv'
  <2>1. TypeOK'
    BY <1>4 DEF BInv, TypeOK, Request, AskPortal, Goto, Forget
  <2>2. PendingIsWaiting'
    BY <1>4 DEF BInv, TypeOK, Request, PendingIsWaiting, AskPortal, Goto, Forget
  <2> QED
    BY <2>1, <2>2 DEF BInv
<1>5. ASSUME NEW c \in Conns, PortalAccepts(c)
      PROVE  BInv'
  <2>1. TypeOK'
    BY <1>5 DEF BInv, TypeOK, Request, PortalAccepts, Goto
  <2>2. PendingIsWaiting'
    BY <1>5 DEF BInv, TypeOK, Request, PendingIsWaiting, PortalAccepts, Goto
  <2> QED
    BY <2>1, <2>2 DEF BInv
<1>6. ASSUME NEW c \in Conns, PortalRefuses(c)
      PROVE  BInv'
  <2>1. TypeOK'
    BY <1>6 DEF BInv, TypeOK, Request, PortalRefuses, Goto
  <2>2. PendingIsWaiting'
    BY <1>6 DEF BInv, TypeOK, Request, PendingIsWaiting, PortalRefuses, Goto
  <2> QED
    BY <2>1, <2>2 DEF BInv
<1>7. ASSUME NEW c \in Conns, FoundAgain(c)
      PROVE  BInv'
  <2>1. TypeOK'
    BY <1>7 DEF BInv, TypeOK, Request, FoundAgain, Goto
  <2>2. PendingIsWaiting'
    BY <1>7 DEF BInv, TypeOK, Request, PendingIsWaiting, FoundAgain, Goto
  <2> QED
    BY <2>1, <2>2 DEF BInv
<1>8. ASSUME NEW c \in Conns, LostAgain(c)
      PROVE  BInv'
  <2>1. TypeOK'
    BY <1>8 DEF BInv, TypeOK, Request, LostAgain, Goto
  <2>2. PendingIsWaiting'
    BY <1>8 DEF BInv, TypeOK, Request, PendingIsWaiting, LostAgain, Goto
  <2> QED
    BY <2>1, <2>2 DEF BInv
<1>9. ASSUME NEW id \in Ids, Expire(id)
      PROVE  BInv'
  BY <1>9 DEF BInv, TypeOK, PendingIsWaiting, Expire
<1>10. CASE UNCHANGED vars
  BY <1>10 DEF BInv, TypeOK, PendingIsWaiting, vars
<1> QED
  BY <1>1, <1>2, <1>3, <1>4, <1>5, <1>6, <1>7, <1>8, <1>9, <1>10 DEF Next, Retrieve

LEMMA AlwaysBInv == Spec => []BInv
<1> QED
  BY InitBInv, NextBInv, PTL DEF Spec

\* Every variable has its type.
THEOREM TypeCorrect == Spec => []TypeOK
<1>1. BInv => TypeOK
  BY DEF BInv
<1> QED
  BY <1>1, AlwaysBInv, PTL

\* However many requests share credentials, handlerAuthBasic keeps them in memory
\* only while the request that brought them last waits for its first lookup.
THEOREM CredentialsForgotten == Spec => []PendingIsWaiting
<1>1. BInv => PendingIsWaiting
  BY DEF BInv
<1> QED
  BY <1>1, AlwaysBInv, PTL
=============================================================================
