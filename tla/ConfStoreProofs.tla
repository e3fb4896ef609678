--------------------------- MODULE ConfStoreProofs ---------------------------
(***************************************************************************)
(* Proofs about ConfStore, for any number of clients, saves and            *)
(* configurations.  What is said of the order of numbers is said of the    *)
(* databases and the REST server, and of the backends that sort numbers as *)
(* text as long as they hold fewer than ten configurations (Sorted).       *)
(***************************************************************************)
EXTENDS ConfStore, TLAPS

ClientRecord == [st : Stages, num : Nat, text : BOOLEAN, got : Seq(Authors),
                 force : BOOLEAN, fixed : BOOLEAN, new : Nat, over : BOOLEAN]

-----------------------------------------------------------------------------
(* The store has the numbers from 1 to its largest, and lastCfg answers one  *)
(* of them; where numbers sort as numbers it answers the largest.            *)

Numeric == Databases \cup {"rest"}

Sorted == kind \in Numeric \/ DOMAIN conf \subseteq 1..9

LEMMA LatestOfInterval == ASSUME NEW k \in Nat \ {0} PROVE Latest(1..k) = k
<1>1. k \in 1..k /\ \A m \in 1..k : m <= k
  OBVIOUS
<1>2. \A n \in 1..k : (\A m \in 1..k : m <= n) => n = k
  OBVIOUS
<1> QED
  BY <1>1, <1>2 DEF Latest

\* In the order of text the last of 1..k is k or, for some k above it, 9.
LEMMA LatestAsTextOfInterval ==
    ASSUME NEW k \in Nat \ {0}
    PROVE  /\ LatestAsText(1..k) \in 1..k
           /\ k < 10 => LatestAsText(1..k) = k
<1>1. CASE k < 10
  <2>1. \A n \in 1..k : TextKey(n) = 11 * n
    BY <1>1 DEF TextKey
  <2>2. k \in 1..k /\ \A m \in 1..k : TextKey(m) <= TextKey(k)
    BY <2>1
  <2>3. \A n \in 1..k : (\A m \in 1..k : TextKey(m) <= TextKey(n)) => n = k
    BY <2>1
  <2> QED
    BY <2>2, <2>3 DEF LatestAsText
<1>2. CASE k >= 10
  <2>1. \A n \in 1..k : n < 10 => TextKey(n) <= TextKey(9)
    BY DEF TextKey
  <2>2. \A n \in 1..k : n >= 10 => TextKey(n) <= TextKey(k)
    <3> SUFFICES ASSUME NEW n \in 1..k, n >= 10 PROVE TextKey(n) <= TextKey(k)
      OBVIOUS
    <3>1. n \div 10 <= k \div 10 /\ (n \div 10 = k \div 10 => n % 10 <= k % 10)
      BY <1>2
    <3>2. n % 10 \in 0..9 /\ k % 10 \in 0..9 /\ n \div 10 \in Nat /\ k \div 10 \in Nat
      BY <1>2
    <3> QED
      BY <1>2, <3>1, <3>2 DEF TextKey
  <2>3. 9 \in 1..k /\ k \in 1..k /\ TextKey(9) \in Nat /\ TextKey(k) \in Nat
    BY <1>2 DEF TextKey
  <2>4. \A n \in 1..k : TextKey(n) \in Nat
    BY DEF TextKey
  <2>5. \E n \in 1..k : \A m \in 1..k : TextKey(m) <= TextKey(n)
    <3>1. CASE TextKey(9) <= TextKey(k)
      BY <2>1, <2>2, <2>3, <2>4, <3>1
    <3>2. CASE TextKey(k) <= TextKey(9)
      BY <2>1, <2>2, <2>3, <2>4, <3>2
    <3> QED
      BY <2>3, <3>1, <3>2
  <2> QED
    BY <1>2, <2>5 DEF LatestAsText
<1> QED
  BY <1>1, <1>2

\* The numbers in use have no gap, and the last one is known.
NoGap == \E k \in Nat \ {0} : DOMAIN conf = 1..k

Top == Latest(DOMAIN conf)

LEMMA TopIs == NoGap => Top \in Nat \ {0} /\ DOMAIN conf = 1..Top
  BY LatestOfInterval DEF NoGap, Top

\* What lastCfg answers is in the store; it is the largest number if they sort.
LEMMA LastCfgIs ==
    ASSUME NoGap, kind \in Kinds
    PROVE  LastCfg \in 1..Top /\ (Sorted => LastCfg = Top)
<1>1. Top \in Nat \ {0} /\ DOMAIN conf = 1..Top
  BY TopIs
<1>2. CASE kind \in AsText
  <2>1. LastCfg = LatestAsText(1..Top)
    BY <1>1, <1>2 DEF LastCfg
  <2>2. Sorted => Top < 10
    BY <1>1, <1>2 DEF Sorted, AsText, Files, Numeric, Databases
  <2> QED
    BY <1>1, <2>1, <2>2, LatestAsTextOfInterval
<1>3. CASE kind \notin AsText
  BY <1>1, <1>3, LatestOfInterval DEF LastCfg
<1> QED
  BY <1>2, <1>3

\* What a client read or saves is not behind what was answered when its call
\* began.
NotBehind(r, f) ==
  /\ r.st \in {"loading", "has"} => r.num >= f
  /\ (r.st \in {"storing", "writing", "saved"} /\ ~r.force) =>
        /\ r.num >= f
        /\ ~r.fixed => r.new > f

\* The numbers a client has are in the store, or next to it.
RecordInv(r, f) ==
  /\ f <= acked
  /\ r.st \in {"loading", "has", "checking"} => r.num \in DOMAIN conf
  /\ r.st \in {"storing", "writing", "saved"} => r.new \in 1..(Top + 1)
  /\ r.st = "saved" \/ (r.st = "writing" /\ r.over) => r.new \in DOMAIN conf
  /\ Sorted => NotBehind(r, f)

ClientInv(c) == RecordInv(cl[c], floor[c])

CInv == /\ TypeOK /\ NoGap
        /\ acked \in DOMAIN conf
        /\ \A c \in Clients : ClientInv(c)

-----------------------------------------------------------------------------
(* The initial state. *)

LEMMA InvInit == Init => CInv
<1> SUFFICES ASSUME Init PROVE CInv
  OBVIOUS
<1>1. <<>> \in Seq(Authors) /\ <<Old>> \in Seq(Authors)
  BY DEF Authors
<1>2. Idle \in ClientRecord /\ Idle.st = "idle"
  BY <1>1 DEF Idle, ClientRecord, Stages
<1>3. DOMAIN conf = 1..Before /\ \A n \in DOMAIN conf : conf[n] = <<Old>>
  BY DEF Init
<1>4. Before \in Nat \ {0}
  BY ConfAssumption
<1>5. /\ cl \in [Clients -> ClientRecord]
      /\ \A c \in Clients : cl[c].st = "idle"
  BY <1>2 DEF Init
<1>6. keyed \in BOOLEAN /\ kind \in Kinds
  BY DEF Init
<1>7. /\ acked = Before /\ floor \in [Clients -> Nat]
      /\ \A c \in Clients : floor[c] = 0
  BY DEF Init
<1>8. TypeOK
  <2>1. DOMAIN conf \subseteq Nat \ {0}
    BY <1>3, <1>4
  <2>2. \A n \in DOMAIN conf : conf[n] \in Seq(Authors)
    BY <1>1, <1>3
  <2>3. acked \in Nat /\ clash \subseteq Nat
    BY <1>4, <1>7 DEF Init
  <2> QED
    BY <1>5, <1>6, <1>7, <2>1, <2>2, <2>3 DEF TypeOK, ClientRecord
<1>9. NoGap
  BY <1>3, <1>4 DEF NoGap
<1>10. \A c \in Clients : ClientInv(c)
  <2>1. \A c \in Clients : floor[c] <= acked
    BY <1>4, <1>7
  <2> QED
    BY <1>5, <2>1 DEF ClientInv, RecordInv, NotBehind
<1> QED
  BY <1>3, <1>4, <1>6, <1>7, <1>8, <1>9, <1>10 DEF CInv

-----------------------------------------------------------------------------
(* The steps. *)

\* What is left of TypeOK and ClientInv when one client's record changes and the
\* store does not.
LEMMA RecordStep ==
  ASSUME CInv, UNCHANGED <<kind, keyed, conf, acked>>, clash' \subseteq Nat,
         NEW c \in Clients, NEW r \in ClientRecord, NEW f \in Nat,
         Become(c, r), floor' = [floor EXCEPT ![c] = f], RecordInv(r, f)
  PROVE  CInv'
<1>1. cl \in [Clients -> ClientRecord] /\ floor \in [Clients -> Nat]
  BY DEF CInv, TypeOK, ClientRecord
<1>2. /\ cl' \in [Clients -> ClientRecord] /\ floor' \in [Clients -> Nat]
      /\ cl'[c] = r /\ floor'[c] = f
      /\ \A d \in Clients \ {c} : cl'[d] = cl[d] /\ floor'[d] = floor[d]
  BY <1>1 DEF Become
<1>3. TypeOK'
  BY <1>2 DEF CInv, TypeOK, ClientRecord
<1>4. NoGap' /\ Top' = Top /\ DOMAIN conf' = DOMAIN conf /\ Sorted' = Sorted
  BY DEF CInv, NoGap, Top, Sorted
<1>5. \A d \in Clients \ {c} : ClientInv(d)'
  BY <1>2, <1>4 DEF CInv, ClientInv, RecordInv, NotBehind
<1>6. ClientInv(c)'
  BY <1>2, <1>4 DEF ClientInv, RecordInv, NotBehind
<1> QED
  BY <1>3, <1>4, <1>5, <1>6 DEF CInv

\* What is left of them when a number that is there, or the next, is stored.
LEMMA StoreStep ==
  ASSUME CInv, NEW c \in Clients, NEW content \in Seq(Authors),
         cl[c].st \in {"storing", "writing"}, Put(cl[c].new, content),
         NEW st \in {"writing", "saved", "failed"}, cl' = [cl EXCEPT ![c].st = st],
         acked' = acked \/ (acked' = cl[c].new /\ cl[c].new > acked),
         UNCHANGED <<kind, keyed, floor, clash>>
  PROVE  CInv'
<1> DEFINE n == cl[c].new
<1>1. cl \in [Clients -> ClientRecord] /\ floor \in [Clients -> Nat] /\ acked \in Nat
  BY DEF CInv, TypeOK, ClientRecord
<1>2. n \in 1..(Top + 1) /\ Top \in Nat \ {0} /\ DOMAIN conf = 1..Top
  BY TopIs DEF CInv, ClientInv, RecordInv
<1>3. DOMAIN conf' = DOMAIN conf \cup {n}
  BY DEF Put
<1>4. \A m \in DOMAIN conf' : conf'[m] \in Seq(Authors)
  BY DEF Put, CInv, TypeOK
<1>5. PICK k \in Nat \ {0} : DOMAIN conf' = 1..k /\ Top <= k
  <2>1. CASE n = Top + 1
    <3>1. DOMAIN conf' = 1..(Top + 1)
      BY <1>2, <1>3, <2>1
    <3> QED
      BY <1>2, <3>1
  <2>2. CASE n # Top + 1
    <3>1. DOMAIN conf' = 1..Top
      BY <1>2, <1>3, <2>2
    <3> QED
      BY <1>2, <3>1
  <2> QED
    BY <2>1, <2>2
<1>6. NoGap' /\ Top' = k /\ n \in 1..k
  BY <1>3, <1>5, LatestOfInterval DEF NoGap, Top
<1>13. Sorted' => Sorted
  BY <1>3 DEF Sorted
<1>7. acked' \in Nat /\ acked <= acked' /\ acked' \in DOMAIN conf'
  BY <1>1, <1>2, <1>3 DEF CInv
<1>9. /\ cl' \in [Clients -> ClientRecord]
      /\ \A d \in Clients \ {c} : cl'[d] = cl[d]
      /\ cl'[c] = [cl[c] EXCEPT !.st = st]
  BY <1>1 DEF ClientRecord, Stages
<1>10. TypeOK'
  BY <1>1, <1>4, <1>5, <1>7, <1>9 DEF CInv, TypeOK, ClientRecord
<1>11. \A d \in Clients \ {c} : ClientInv(d)'
  <2> SUFFICES ASSUME NEW d \in Clients \ {c} PROVE ClientInv(d)'
    OBVIOUS
  <2>1. ClientInv(d) /\ cl'[d] = cl[d] /\ cl[d] \in ClientRecord /\ floor[d] \in Nat
    BY <1>1, <1>9 DEF CInv
  <2> QED
    BY <1>1, <1>2, <1>5, <1>6, <1>7, <1>13, <2>1
       DEF ClientInv, RecordInv, NotBehind, ClientRecord
<1>12. ClientInv(c)'
  <2>1. ClientInv(c) /\ cl[c] \in ClientRecord /\ floor[c] \in Nat
    BY <1>1 DEF CInv
  <2>2. /\ cl'[c].st = st /\ cl'[c].new = cl[c].new /\ cl'[c].num = cl[c].num
        /\ cl'[c].force = cl[c].force /\ cl'[c].fixed = cl[c].fixed
    BY <1>1, <1>9 DEF ClientRecord
  <2> QED
    BY <1>1, <1>2, <1>5, <1>6, <1>7, <1>13, <2>1, <2>2
       DEF ClientInv, RecordInv, NotBehind
<1> QED
  BY <1>6, <1>7, <1>10, <1>11, <1>12 DEF CInv

\* Whether its store is answered or not, a client has then saved or failed.
LEMMA AnsweredIs ==
  ASSUME CInv, NEW c \in Clients, Answered(c)
  PROVE  /\ \E st \in {"saved", "failed"} : cl' = [cl EXCEPT ![c].st = st]
         /\ acked' = acked \/ (acked' = cl[c].new /\ cl[c].new > acked)
BY DEF Answered, Become

LEMMA ManagerStep == CInv /\ ManagerSaves => CInv'
<1> SUFFICES ASSUME CInv, ManagerSaves PROVE CInv'
  OBVIOUS
<1>1. /\ cl \in [Clients -> ClientRecord] /\ floor \in [Clients -> Nat]
      /\ acked \in 1..Top /\ Top \in Nat \ {0} /\ DOMAIN conf = 1..Top
  BY TopIs DEF CInv, TypeOK, ClientRecord
<1>2. /\ Put(Top + 1, <<Old>>) /\ acked' = Top + 1
      /\ kind' = kind /\ keyed' = keyed /\ cl' = cl /\ floor' = floor /\ clash' = clash
  BY DEF ManagerSaves, Top
<1>3. DOMAIN conf' = 1..(Top + 1)
  BY <1>1, <1>2 DEF Put
<1>4. <<Old>> \in Seq(Authors)
  BY DEF Authors
<1>5. \A n \in DOMAIN conf' : conf'[n] \in Seq(Authors)
  BY <1>2, <1>4 DEF Put, CInv, TypeOK
<1>6. NoGap' /\ Top' = Top + 1
  BY <1>1, <1>3, LatestOfInterval DEF NoGap, Top
<1>7. TypeOK'
  BY <1>1, <1>2, <1>3, <1>5 DEF CInv, TypeOK
<1>9. Sorted' => Sorted
  BY <1>1, <1>2, <1>3 DEF Sorted
<1>8. \A c \in Clients : ClientInv(c)'
  <2> SUFFICES ASSUME NEW c \in Clients PROVE ClientInv(c)'
    OBVIOUS
  <2>1. ClientInv(c) /\ cl'[c] = cl[c] /\ cl[c] \in ClientRecord
        /\ floor'[c] = floor[c] /\ floor[c] \in Nat
    BY <1>1, <1>2 DEF CInv
  <2> QED
    BY <1>1, <1>2, <1>3, <1>6, <1>9, <2>1
       DEF ClientInv, RecordInv, NotBehind, ClientRecord
<1> QED
  BY <1>1, <1>2, <1>3, <1>6, <1>7, <1>8 DEF CInv

LEMMA InvStep == CInv /\ [Next]_vars => CInv'
<1> SUFFICES ASSUME CInv, [Next]_vars PROVE CInv'
  OBVIOUS
<1>1. /\ cl \in [Clients -> ClientRecord] /\ floor \in [Clients -> Nat]
      /\ acked \in Nat /\ acked \in 1..Top /\ clash \subseteq Nat
      /\ Top \in Nat \ {0} /\ DOMAIN conf = 1..Top
      /\ LastCfg \in 1..Top /\ (Sorted => LastCfg = Top)
  BY TopIs, LastCfgIs DEF CInv, TypeOK, ClientRecord
<1>2. \A c \in Clients : RecordInv(cl[c], floor[c]) /\ cl[c] \in ClientRecord
  BY <1>1 DEF CInv, ClientInv
<1>3. CASE UNCHANGED vars
  <2>1. CInv' <=> CInv
    BY <1>3 DEF vars, CInv, TypeOK, NoGap, ClientInv, RecordInv, NotBehind, Sorted, Top
  <2> QED
    BY <2>1
<1>0. CASE ManagerSaves
  BY <1>0, ManagerStep
<1> SUFFICES ASSUME NEW c \in Clients, ClientStep(c) PROVE CInv'
  BY <1>0, <1>3 DEF Next
<1> DEFINE r == cl[c]
           f == floor[c]
<1>4. /\ r \in ClientRecord /\ RecordInv(r, f) /\ f \in Nat /\ f <= acked
      /\ UNCHANGED floor => floor' = [floor EXCEPT ![c] = f]
  BY <1>1, <1>2 DEF RecordInv
<1> HIDE DEF f
<1>5. CASE GetConf(c)
  <2> DEFINE s == [r EXCEPT !.st = "asking"]
  <2>1. s \in ClientRecord /\ s.st = "asking"
    BY <1>1, <1>4 DEF ClientRecord, Stages
  <2>2. /\ Become(c, s) /\ UNCHANGED <<kind, keyed, conf, acked>> /\ clash' \subseteq Nat
        /\ floor' = [floor EXCEPT ![c] = acked]
    BY <1>1, <1>4, <1>5 DEF GetConf
  <2> HIDE DEF s
  <2>3. RecordInv(s, acked)
    BY <1>1, <1>4, <1>5, <2>1 DEF RecordInv, NotBehind, GetConf
  <2> QED
    BY <1>1, <1>4, <2>1, <2>2, <2>3, RecordStep
<1>6. CASE GetLast(c)
  <2> DEFINE s == [r EXCEPT !.st = "loading", !.num = LastCfg]
  <2>0. LastCfg \in Nat
    BY <1>1
  <2>1. s \in ClientRecord /\ s.st = "loading" /\ s.num = LastCfg
    BY <1>4, <2>0 DEF ClientRecord, Stages
  <2>2. /\ Become(c, s) /\ UNCHANGED <<kind, keyed, conf, acked>> /\ clash' \subseteq Nat
        /\ floor' = [floor EXCEPT ![c] = f]
    BY <1>1, <1>4, <1>6 DEF GetLast
  <2> HIDE DEF s
  <2>3. RecordInv(s, f)
    BY <1>1, <1>4, <1>6, <2>1 DEF RecordInv, NotBehind, GetLast
  <2> QED
    BY <1>1, <1>4, <2>1, <2>2, <2>3, RecordStep
<1>7. CASE Load(c)
  <2> DEFINE s == [r EXCEPT !.st = "has", !.got = conf[r.num], !.text = NumberIsText]
  <2>0. NumberIsText \in BOOLEAN
    BY DEF NumberIsText
  <2>1. r.num \in DOMAIN conf /\ conf[r.num] \in Seq(Authors)
    BY <1>4, <1>7 DEF Load, CInv, TypeOK
  <2>2. s \in ClientRecord /\ s.st = "has" /\ s.num = r.num
    BY <1>1, <1>4, <2>0, <2>1 DEF ClientRecord, Stages
  <2>3. /\ Become(c, s) /\ UNCHANGED <<kind, keyed, conf, acked>> /\ clash' \subseteq Nat
        /\ floor' = [floor EXCEPT ![c] = f]
    BY <1>1, <1>4, <1>7 DEF Load
  <2> HIDE DEF s
  <2>4. RecordInv(s, f)
    BY <1>1, <1>4, <1>7, <2>1, <2>2 DEF RecordInv, NotBehind, Load
  <2> QED
    BY <1>1, <1>4, <2>2, <2>3, <2>4, RecordStep
<1>8. CASE LoadRejected(c) \/ CallFails(c)
  <2> DEFINE s == [r EXCEPT !.st = "failed"]
  <2>1. s \in ClientRecord /\ s.st = "failed"
    BY <1>1, <1>4 DEF ClientRecord, Stages
  <2>2. /\ Become(c, s) /\ UNCHANGED <<kind, keyed, conf, acked>> /\ clash' \subseteq Nat
        /\ floor' = [floor EXCEPT ![c] = f]
    BY <1>1, <1>4, <1>8 DEF LoadRejected, CallFails, ClientRecord
  <2> HIDE DEF s
  <2>3. RecordInv(s, f)
    BY <1>1, <1>4, <1>8, <2>1 DEF RecordInv, NotBehind, LoadRejected, CallFails
  <2> QED
    BY <1>1, <1>4, <2>1, <2>2, <2>3, RecordStep
<1>9. ASSUME NEW force \in BOOLEAN, NEW fixed \in BOOLEAN, SaveConf(c, force, fixed)
      PROVE  CInv'
  <2> DEFINE num == IF r.st = "saved" THEN r.new ELSE r.num
             s == [r EXCEPT !.st = "checking", !.num = num, !.got = <<>>,
                            !.force = force, !.fixed = fixed]
  <2>0. r.st \in {"has", "saved"}
    BY <1>9 DEF SaveConf
  <2>1. <<>> \in Seq(Authors) /\ num \in Nat /\ num \in DOMAIN conf
    BY <1>4, <2>0 DEF RecordInv, ClientRecord
  <2>2. s \in ClientRecord /\ s.st = "checking" /\ s.num = num
    BY <1>1, <1>4, <2>1 DEF ClientRecord, Stages
  <2>3. /\ Become(c, s) /\ UNCHANGED <<kind, keyed, conf, acked>> /\ clash' \subseteq Nat
        /\ floor' = [floor EXCEPT ![c] = acked]
    BY <1>1, <1>4, <1>9 DEF SaveConf
  <2> HIDE DEF s
  <2>4. RecordInv(s, acked)
    BY <1>1, <2>1, <2>2 DEF RecordInv, NotBehind
  <2> QED
    BY <1>1, <1>4, <2>2, <2>3, <2>4, RecordStep
<1>10. CASE Stale(c)
  <2> DEFINE s == [r EXCEPT !.st = "stale"]
  <2>1. s \in ClientRecord /\ s.st = "stale"
    BY <1>1, <1>4 DEF ClientRecord, Stages
  <2>2. /\ Become(c, s) /\ UNCHANGED <<kind, keyed, conf, acked>> /\ clash' \subseteq Nat
        /\ floor' = [floor EXCEPT ![c] = f]
    BY <1>1, <1>4, <1>10 DEF Stale
  <2> HIDE DEF s
  <2>3. RecordInv(s, f)
    BY <1>1, <1>4, <1>10, <2>1 DEF RecordInv, NotBehind, Stale
  <2> QED
    BY <1>1, <1>4, <2>1, <2>2, <2>3, RecordStep
<1>11. CASE Number(c)
  <2> DEFINE s == [r EXCEPT !.st = "storing", !.new = NewNumber(c),
                            !.text = @ /\ r.fixed]
  <2>1. /\ r.num \in 1..Top /\ NewNumber(c) \in 1..(Top + 1)
        /\ NewNumber(c) \in Nat
        /\ Sorted /\ ~r.fixed => NewNumber(c) = Top + 1
    BY <1>1, <1>4, <1>11 DEF Number, NewNumber, RecordInv
  <2>2. s \in ClientRecord /\ s.st = "storing" /\ s.new = NewNumber(c)
        /\ s.num = r.num /\ s.force = r.force /\ s.fixed = r.fixed
    BY <1>1, <1>4, <2>1 DEF ClientRecord, Stages
  <2>3. /\ Become(c, s) /\ UNCHANGED <<kind, keyed, conf, acked>> /\ clash' \subseteq Nat
        /\ floor' = [floor EXCEPT ![c] = f]
    BY <1>1, <1>4, <1>11, <2>1 DEF Number
  <2> HIDE DEF s
  <2>4. RecordInv(s, f)
    BY <1>1, <1>4, <1>11, <2>1, <2>2 DEF RecordInv, NotBehind, Number, IsLast
  <2> QED
    BY <1>1, <1>4, <2>2, <2>3, <2>4, RecordStep
<1>12. CASE Open(c)
  <2>1. <<>> \in Seq(Authors)
    OBVIOUS
  <2>2. /\ r.st = "storing" /\ Put(r.new, <<>>) /\ cl' = [cl EXCEPT ![c].st = "writing"]
        /\ UNCHANGED <<kind, keyed, acked, floor, clash>>
    BY <1>1, <1>12 DEF Open, Become
  <2> QED
    BY <2>1, <2>2, StoreStep
<1>17. CASE Write(c)
  <2>1. PICK text \in Written(r.new, c) : Put(r.new, text)
    BY <1>17 DEF Write
  <2>2. text \in Seq(Authors)
    <3>1. <<c>> \in Seq(Authors)
      BY DEF Authors
    <3>2. ASSUME r.new \in DOMAIN conf, conf[r.new] # <<>>
          PROVE  <<c, conf[r.new][1]>> \in Seq(Authors)
      <4>1. conf[r.new] \in Seq(Authors)
        BY <3>2 DEF CInv, TypeOK
      <4>2. conf[r.new][1] \in Authors
        BY <3>2, <4>1
      <4> QED
        BY <4>2 DEF Authors
    <3> QED
      BY <2>1, <3>1, <3>2 DEF Written
  <2>3. r.st = "writing" /\ Answered(c) /\ UNCHANGED <<kind, keyed, floor, clash>>
    BY <1>17 DEF Write
  <2> QED
    BY <2>1, <2>2, <2>3, AnsweredIs, StoreStep
<1>13. CASE AskAgain(c)
  <2> DEFINE s == [r EXCEPT !.st = "writing", !.over = (r.new = LastCfg)]
  <2>1. s \in ClientRecord /\ s.st = "writing" /\ s.new = r.new
        /\ s.num = r.num /\ s.force = r.force /\ s.fixed = r.fixed
        /\ (s.over => r.new = LastCfg)
    BY <1>1, <1>4 DEF ClientRecord, Stages
  <2>2. /\ Become(c, s) /\ UNCHANGED <<kind, keyed, conf, acked>> /\ clash' \subseteq Nat
        /\ floor' = [floor EXCEPT ![c] = f]
    BY <1>1, <1>4, <1>13 DEF AskAgain, ClientRecord
  <2> HIDE DEF s
  <2>3. RecordInv(s, f)
    BY <1>1, <1>4, <1>13, <2>1 DEF RecordInv, NotBehind, AskAgain
  <2> QED
    BY <1>1, <1>4, <2>1, <2>2, <2>3, RecordStep
<1>14. CASE Replace(c)
  <2>1. <<c>> \in Seq(Authors)
    BY DEF Authors
  <2>2. ASSUME r.new \in DOMAIN conf
        PROVE  [i \in DOMAIN conf[r.new] |-> c] \in Seq(Authors)
    <3>1. conf[r.new] \in Seq(Authors)
      BY <2>2 DEF CInv, TypeOK
    <3>2. DOMAIN conf[r.new] = 1..Len(conf[r.new]) /\ Len(conf[r.new]) \in Nat
      BY <3>1
    <3> QED
      BY <3>2 DEF Authors
  <2>3. PICK content \in Seq(Authors) : Put(r.new, content)
    BY <1>14, <2>1, <2>2 DEF Replace
  <2>4. r.st = "writing" /\ Answered(c) /\ UNCHANGED <<kind, keyed, floor, clash>>
    BY <1>14 DEF Replace
  <2> QED
    BY <2>3, <2>4, AnsweredIs, StoreStep
<1>15. CASE Insert(c)
  <2>1. Inserted(r.new, c) \in Seq(Authors)
    <3>1. c \in Authors /\ <<c>> \in Seq(Authors)
      BY DEF Authors
    <3>2. \A n \in DOMAIN conf : Append(conf[n], c) \in Seq(Authors)
      BY <3>1 DEF CInv, TypeOK
    <3> QED
      BY <3>1, <3>2 DEF Inserted
  <2> QED
    BY <1>15, <2>1, AnsweredIs, StoreStep DEF Insert
<1>16. CASE StartOver(c)
  <2> DEFINE s == Idle
  <2>1. Idle \in ClientRecord /\ Idle.st = "idle"
    <3>1. <<>> \in Seq(Authors)
      OBVIOUS
    <3> QED
      BY <3>1 DEF Idle, ClientRecord, Stages
  <2>2. s \in ClientRecord /\ s.st = "idle"
    BY <1>1, <1>4, <2>1 DEF ClientRecord, Stages
  <2>3. /\ Become(c, s) /\ UNCHANGED <<kind, keyed, conf, acked>> /\ clash' \subseteq Nat
        /\ floor' = [floor EXCEPT ![c] = 0]
    BY <1>1, <1>4, <1>16 DEF StartOver
  <2> HIDE DEF s
  <2>4. RecordInv(s, 0)
    BY <1>1, <1>4, <1>16, <2>1, <2>2 DEF RecordInv, NotBehind, StartOver
  <2> QED
    BY <1>1, <1>4, <2>2, <2>3, <2>4, RecordStep
<1> QED
  BY <1>5, <1>6, <1>7, <1>8, <1>9, <1>10, <1>11, <1>12, <1>13, <1>14, <1>15, <1>16,
     <1>17 DEF ClientStep

\* The store has all numbers from 1 to the last, and a client at work knows
\* numbers as recent as its call, if they sort.
THEOREM NumbersInvariant == Spec => []CInv
<1> QED
  BY InvInit, InvStep, PTL DEF Spec

\* The type invariant, for every backend and any number of configurations.
THEOREM TypeCorrect == Spec => []TypeOK
<1>1. CInv => TypeOK
  BY DEF CInv
<1> QED
  BY <1>1, NumbersInvariant, PTL

\* A getConf that begins when a save has been answered reads that one's number
\* or a later one, of every backend while its numbers sort.
THEOREM FreshWhileSorted == Spec => [](Sorted => FreshRead)
<1>1. CInv /\ Sorted => FreshRead
  BY DEF CInv, ClientInv, RecordInv, NotBehind, FreshRead
<1> QED
  BY <1>1, NumbersInvariant, PTL

\* A save without "force" that begins when another has been answered does not
\* overwrite that one's configuration, of every backend while its numbers sort.
THEOREM NotBlindWhileSorted == Spec => [](Sorted => NoBlindSave)
<1>1. CInv /\ Sorted => NoBlindSave
  BY DEF CInv, ClientInv, RecordInv, NotBehind, NoBlindSave
<1> QED
  BY <1>1, NumbersInvariant, PTL

\* With the databases and the REST server they always do.
LEMMA AlwaysSorted == ASSUME Kinds \subseteq Numeric PROVE CInv => Sorted
  BY DEF CInv, TypeOK, Sorted

\* With these, a getConf never reads what was replaced before it began.
COROLLARY ReadsAreFresh == ASSUME Kinds \subseteq Numeric PROVE Spec => []FreshRead
<1>1. CInv => Sorted
  BY AlwaysSorted
<1> QED
  BY <1>1, FreshWhileSorted, NumbersInvariant, PTL

\* With these, a save without "force" never overwrites what it has not seen.
COROLLARY SavesAreNotBlind == ASSUME Kinds \subseteq Numeric PROVE Spec => []NoBlindSave
<1>1. CInv => Sorted
  BY AlwaysSorted
<1> QED
  BY <1>1, NotBlindWhileSorted, NumbersInvariant, PTL

-----------------------------------------------------------------------------
(* Saves that nothing got in the way of. *)

Writes(c, n) == cl[c].st = "writing" /\ cl[c].new = n

\* Two clients that save one number clash; a number in which no clash is, is one
\* configuration but for the file that is being written.
LoneInv ==
  /\ \A c, d \in Clients : \A n \in Nat : Saves(c, n) /\ Saves(d, n) => c = d \/ n \in clash
  /\ \A n \in DOMAIN conf \ clash :
        Len(conf[n]) = 1 \/ (kind \in Files /\ \E c \in Clients : Writes(c, n))
  /\ \A c \in Clients : \A n \in Nat \ clash : Writes(c, n) =>
        /\ kind \in Files => n \in DOMAIN conf /\ conf[n] = <<>>
        /\ kind \in Databases /\ ~cl[c].over => n \notin DOMAIN conf

LEMMA LoneInit == Init => LoneInv
<1> SUFFICES ASSUME Init PROVE LoneInv
  OBVIOUS
<1>1. \A c \in Clients : cl[c].st = "idle"
  BY DEF Init, Idle
<1>2. \A n \in DOMAIN conf : Len(conf[n]) = 1
  BY DEF Init
<1> QED
  BY <1>1, <1>2 DEF LoneInv, Saves, Writes

\* A client that does not write goes on, or one whose failure is recorded.
LEMMA LoneRecord ==
  ASSUME LoneInv, DOMAIN cl = Clients, UNCHANGED <<kind, conf>>, clash \subseteq clash',
         NEW c \in Clients, NEW r, Become(c, r), r.st \notin {"storing", "writing"},
         kind \in Files /\ cl[c].st = "writing" => cl[c].new \in clash'
  PROVE  LoneInv'
<1>1. cl'[c] = r /\ \A d \in Clients \ {c} : cl'[d] = cl[d]
  BY DEF Become
<1>2. /\ \A n : ~Saves(c, n)' /\ ~Writes(c, n)'
      /\ \A d \in Clients \ {c} : \A n : /\ Saves(d, n)' <=> Saves(d, n)
                                         /\ Writes(d, n)' <=> Writes(d, n)
  BY <1>1 DEF Saves, Writes
<1>3. \A d, e \in Clients : \A n \in Nat :
          Saves(d, n)' /\ Saves(e, n)' => d = e \/ n \in clash'
  BY <1>2 DEF LoneInv
<1>4. \A n \in DOMAIN conf' \ clash' :
          Len(conf'[n]) = 1 \/ (kind' \in Files /\ \E d \in Clients : Writes(d, n)')
  <2> SUFFICES ASSUME NEW n \in DOMAIN conf \ clash', kind \in Files,
                      NEW d \in Clients, Writes(d, n)
               PROVE  \E e \in Clients : Writes(e, n)'
    BY DEF LoneInv
  <2>1. d # c
    BY DEF Writes
  <2> QED
    BY <1>2, <2>1
<1>5. \A d \in Clients : \A n \in Nat \ clash' : Writes(d, n)' =>
          /\ kind' \in Files => n \in DOMAIN conf' /\ conf'[n] = <<>>
          /\ kind' \in Databases /\ ~cl'[d].over => n \notin DOMAIN conf'
  BY <1>1, <1>2 DEF LoneInv
<1> QED
  BY <1>3, <1>4, <1>5 DEF LoneInv

\* A client that writes its number, alone, leaves it whole or a file open.
LEMMA LonePut ==
  ASSUME LoneInv, cl \in [Clients -> ClientRecord], UNCHANGED <<kind, clash>>,
         NEW c \in Clients, NEW content, NEW st \in {"writing", "saved", "failed"},
         cl[c].st \in {"storing", "writing"}, cl' = [cl EXCEPT ![c].st = st],
         Put(cl[c].new, content),
         st = "writing" => kind \in Files /\ content = <<>>,
         st # "writing" /\ cl[c].new \notin clash => Len(content) = 1
  PROVE  LoneInv'
<1> DEFINE n == cl[c].new
<1>1. n \in Nat /\ Saves(c, n)
  BY DEF ClientRecord, Saves
<1>2. /\ cl'[c].st = st /\ cl'[c].new = n /\ cl'[c].over = cl[c].over
      /\ \A d \in Clients \ {c} : cl'[d] = cl[d]
  BY DEF ClientRecord
<1>3. /\ DOMAIN conf' = DOMAIN conf \cup {n} /\ conf'[n] = content
      /\ \A m \in DOMAIN conf \ {n} : conf'[m] = conf[m]
  BY DEF Put
<1>4. /\ \A d \in Clients : \A m \in Nat : Saves(d, m)' => Saves(d, m)
      /\ \A d \in Clients \ {c} : \A m : Writes(d, m)' <=> Writes(d, m)
      /\ \A m : Writes(c, m)' => m = n /\ st = "writing"
  BY <1>1, <1>2 DEF Saves, Writes
<1> HIDE DEF n
<1>5. \A d, e \in Clients : \A m \in Nat :
          Saves(d, m)' /\ Saves(e, m)' => d = e \/ m \in clash'
  BY <1>4 DEF LoneInv
<1>6. \A m \in DOMAIN conf' \ clash' :
          Len(conf'[m]) = 1 \/ (kind' \in Files /\ \E d \in Clients : Writes(d, m)')
  <2> SUFFICES ASSUME NEW m \in DOMAIN conf' \ clash'
               PROVE  Len(conf'[m]) = 1 \/ (kind' \in Files /\ \E d \in Clients : Writes(d, m)')
    OBVIOUS
  <2>1. CASE m = n /\ st = "writing"
    BY <1>2, <2>1 DEF Writes
  <2>2. CASE m = n /\ st # "writing"
    BY <1>3, <2>2 DEF n
  <2>3. CASE m # n
    <3>1. m \in DOMAIN conf \ clash /\ conf'[m] = conf[m]
      BY <1>3, <2>3
    <3>2. ~Writes(c, m)
      BY <2>3 DEF Writes, n
    <3> QED
      BY <1>4, <3>1, <3>2 DEF LoneInv
  <2> QED
    BY <2>1, <2>2, <2>3
<1>7. \A d \in Clients : \A m \in Nat \ clash' : Writes(d, m)' =>
          /\ kind' \in Files => m \in DOMAIN conf' /\ conf'[m] = <<>>
          /\ kind' \in Databases /\ ~cl'[d].over => m \notin DOMAIN conf'
  <2> SUFFICES ASSUME NEW d \in Clients, NEW m \in Nat \ clash, Writes(d, m)'
               PROVE  /\ kind \in Files => m \in DOMAIN conf' /\ conf'[m] = <<>>
                      /\ kind \in Databases /\ ~cl'[d].over => m \notin DOMAIN conf'
    OBVIOUS
  <2>1. CASE d = c
    BY <1>3, <1>4, <2>1 DEF Files, Databases
  <2>2. CASE d # c
    <3>1. Writes(d, m) /\ Saves(d, m) /\ cl'[d] = cl[d]
      BY <1>2, <1>4, <2>2 DEF Saves, Writes
    <3>2. m # n
      BY <1>1, <2>2, <3>1 DEF LoneInv
    <3> QED
      BY <1>3, <3>1, <3>2 DEF LoneInv
  <2> QED
    BY <2>1, <2>2
<1> QED
  BY <1>5, <1>6, <1>7 DEF LoneInv

LEMMA LoneStep == CInv /\ LoneInv /\ [Next]_vars => LoneInv'
<1> SUFFICES ASSUME CInv, LoneInv, [Next]_vars PROVE LoneInv'
  OBVIOUS
<1>1. /\ cl \in [Clients -> ClientRecord] /\ DOMAIN cl = Clients
      /\ Top \in Nat \ {0} /\ DOMAIN conf = 1..Top
      /\ kind \in Databases => LastCfg = Top
  BY TopIs, LastCfgIs DEF CInv, TypeOK, ClientRecord, Sorted, Numeric
<1>2. CASE UNCHANGED vars
  BY <1>2 DEF vars, LoneInv, Saves, Writes
<1>3. CASE ManagerSaves
  <2>1. /\ kind \notin Files /\ kind \notin Databases
        /\ UNCHANGED <<kind, cl, clash>> /\ \E n : Put(n, <<Old>>)
    BY <1>3 DEF ManagerSaves, ReadOnly, Files, Databases
  <2>2. \A n \in DOMAIN conf' \ clash : Len(conf'[n]) = 1
    BY <2>1 DEF Put, LoneInv
  <2> QED
    BY <2>1, <2>2 DEF LoneInv, Saves, Writes
<1> SUFFICES ASSUME NEW c \in Clients, ClientStep(c) PROVE LoneInv'
  BY <1>2, <1>3 DEF Next
<1> DEFINE n == cl[c].new
<1>4. /\ cl[c] \in ClientRecord /\ n \in Nat
      /\ RecordInv(cl[c], floor[c])
  BY <1>1 DEF ClientRecord, CInv, ClientInv
<1>5. CASE \/ GetConf(c) \/ GetLast(c) \/ Load(c) \/ LoadRejected(c) \/ Stale(c)
           \/ CallFails(c) \/ StartOver(c)
           \/ \E force, fixed \in BOOLEAN : SaveConf(c, force, fixed)
  <2>1. PICK r : Become(c, r) /\ r.st \notin {"storing", "writing"}
    <3>1. \A st \in Stages : [cl[c] EXCEPT !.st = st].st = st
      BY <1>4 DEF ClientRecord
    <3>2. CASE \/ GetConf(c) \/ LoadRejected(c) \/ Stale(c) \/ CallFails(c)
      BY <3>1, <3>2 DEF GetConf, LoadRejected, Stale, CallFails, Stages
    <3>3. CASE GetLast(c)
      <4>1. [cl[c] EXCEPT !.st = "loading", !.num = LastCfg].st = "loading"
        BY <1>4 DEF ClientRecord
      <4> QED
        BY <3>3, <4>1 DEF GetLast
    <3>4. CASE Load(c)
      <4>1. [cl[c] EXCEPT !.st = "has", !.got = conf[cl[c].num],
                          !.text = NumberIsText].st = "has"
        BY <1>4 DEF ClientRecord
      <4> QED
        BY <3>4, <4>1 DEF Load
    <3>5. CASE StartOver(c)
      BY <3>5 DEF StartOver, Idle
    <3>6. ASSUME NEW force \in BOOLEAN, NEW fixed \in BOOLEAN, SaveConf(c, force, fixed)
          PROVE  \E r : Become(c, r) /\ r.st \notin {"storing", "writing"}
      <4> DEFINE num == IF cl[c].st = "saved" THEN n ELSE cl[c].num
                 s == [cl[c] EXCEPT !.st = "checking", !.num = num, !.got = <<>>,
                                    !.force = force, !.fixed = fixed]
      <4>1. Become(c, s)
        BY <3>6 DEF SaveConf
      <4>2. s.st = "checking"
        BY <1>4 DEF ClientRecord
      <4> QED
        BY <4>1, <4>2
    <3> QED
      BY <1>5, <3>2, <3>3, <3>4, <3>5, <3>6
  <2>2. UNCHANGED <<kind, conf>> /\ clash \subseteq clash'
    BY <1>5 DEF GetConf, GetLast, Load, LoadRejected, Stale, CallFails, StartOver, SaveConf
  <2>3. kind \in Files /\ cl[c].st = "writing" => n \in clash'
    BY <1>5 DEF GetConf, GetLast, Load, LoadRejected, Stale, CallFails, StartOver, SaveConf
  <2> QED
    BY <1>1, <2>1, <2>2, <2>3, LoneRecord
<1>6. CASE Number(c)
  <2> DEFINE k == NewNumber(c)
             s == [cl[c] EXCEPT !.st = "storing", !.new = k, !.text = @ /\ cl[c].fixed]
  <2>1. /\ Become(c, s) /\ UNCHANGED <<kind, conf>> /\ clash \subseteq clash'
        /\ (\E d \in Clients : Saves(d, k)) => k \in clash'
        /\ cl[c].st = "checking"
    BY <1>6 DEF Number
  <2>2. s.st = "storing" /\ s.new = k
    BY <1>4 DEF ClientRecord
  <2>3. cl'[c] = s /\ \A d \in Clients \ {c} : cl'[d] = cl[d]
    BY <1>1, <2>1 DEF Become
  <2> HIDE DEF s, k
  <2>4. /\ \A m : (Saves(c, m)' => m = k) /\ ~Writes(c, m)' /\ ~Writes(c, m)
        /\ \A d \in Clients \ {c} : \A m : /\ Saves(d, m)' <=> Saves(d, m)
                                           /\ Writes(d, m)' <=> Writes(d, m)
    BY <2>1, <2>2, <2>3 DEF Saves, Writes
  <2>5. \A d, e \in Clients : \A m \in Nat :
            Saves(d, m)' /\ Saves(e, m)' => d = e \/ m \in clash'
    BY <2>1, <2>4 DEF LoneInv
  <2>6. \A m \in DOMAIN conf' \ clash' :
            Len(conf'[m]) = 1 \/ (kind' \in Files /\ \E d \in Clients : Writes(d, m)')
    <3> SUFFICES ASSUME NEW m \in DOMAIN conf \ clash, kind \in Files,
                        NEW d \in Clients, Writes(d, m)
                 PROVE  \E e \in Clients : Writes(e, m)'
      BY <2>1 DEF LoneInv
    <3> QED
      BY <2>4
  <2>7. \A d \in Clients : \A m \in Nat \ clash' : Writes(d, m)' =>
            /\ kind' \in Files => m \in DOMAIN conf' /\ conf'[m] = <<>>
            /\ kind' \in Databases /\ ~cl'[d].over => m \notin DOMAIN conf'
    BY <2>1, <2>3, <2>4 DEF LoneInv
  <2> QED
    BY <2>5, <2>6, <2>7 DEF LoneInv
<1>7. CASE AskAgain(c)
  <2> DEFINE s == [cl[c] EXCEPT !.st = "writing", !.over = (n = LastCfg)]
  <2>1. /\ kind \in Databases /\ cl[c].st = "storing" /\ Become(c, s)
        /\ UNCHANGED <<kind, conf>> /\ clash \subseteq clash'
        /\ n < LastCfg => n \in clash'
    BY <1>7 DEF AskAgain
  <2>2. s.st = "writing" /\ s.new = n /\ (s.over <=> n = LastCfg)
    BY <1>4 DEF ClientRecord
  <2>3. cl'[c] = s /\ \A d \in Clients \ {c} : cl'[d] = cl[d]
    BY <1>1, <2>1 DEF Become
  <2> HIDE DEF s
  <2>4. /\ \A d \in Clients : \A m : Saves(d, m)' <=> Saves(d, m)
        /\ \A d \in Clients \ {c} : \A m : Writes(d, m)' <=> Writes(d, m)
        /\ \A m : Writes(c, m)' => m = n
    BY <2>1, <2>2, <2>3 DEF Saves, Writes
  <2>5. kind \notin Files /\ LastCfg = Top
    BY <1>1, <2>1 DEF Files, Databases
  <2>6. n \in clash' \/ s.over \/ n \notin DOMAIN conf
    BY <1>1, <1>4, <2>1, <2>2, <2>5
  <2>7. \A d, e \in Clients : \A m \in Nat :
            Saves(d, m)' /\ Saves(e, m)' => d = e \/ m \in clash'
    BY <2>1, <2>4 DEF LoneInv
  <2>8. \A m \in DOMAIN conf' \ clash' : Len(conf'[m]) = 1
    BY <2>1, <2>5 DEF LoneInv
  <2>9. \A d \in Clients : \A m \in Nat \ clash' : Writes(d, m)' =>
            (kind' \in Databases /\ ~cl'[d].over => m \notin DOMAIN conf')
    BY <2>1, <2>3, <2>4, <2>6 DEF LoneInv
  <2> QED
    BY <2>1, <2>5, <2>7, <2>8, <2>9 DEF LoneInv
<1>8. CASE Open(c)
  <2>1. /\ kind \in Files /\ cl[c].st = "storing" /\ Put(n, <<>>)
        /\ cl' = [cl EXCEPT ![c].st = "writing"] /\ UNCHANGED <<kind, clash>>
    BY <1>1, <1>8 DEF Open, Become
  <2> QED
    BY <1>1, <2>1, LonePut
<1>9. CASE Write(c) \/ Replace(c) \/ Insert(c)
  <2>1. /\ cl[c].st = "writing" /\ UNCHANGED <<kind, clash>>
        /\ \E st \in {"saved", "failed"} : cl' = [cl EXCEPT ![c].st = st]
    BY <1>9, AnsweredIs DEF Write, Replace, Insert
  <2>2. n \notin clash => \A m \in {n} :
            /\ kind \in Files => m \in DOMAIN conf /\ conf[m] = <<>>
            /\ kind \in Databases /\ ~cl[c].over => m \notin DOMAIN conf
            /\ kind \notin Files /\ m \in DOMAIN conf => Len(conf[m]) = 1
    BY <1>4, <2>1 DEF LoneInv, Writes
  <2>3. \E content : Put(n, content) /\ (n \notin clash => Len(content) = 1)
    <3>1. CASE Write(c)
      BY <2>2, <3>1 DEF Write, Written
    <3>2. CASE Insert(c)
      BY <2>2, <3>2 DEF Insert, Inserted
    <3>3. CASE Replace(c)
      <4>1. kind \in Databases /\ kind \notin Files /\ n \in DOMAIN conf
        BY <1>4, <3>3 DEF Replace, RecordInv, Databases, Files
      <4>2. n \notin clash => Len([i \in DOMAIN conf[n] |-> c]) = 1
        <5> SUFFICES ASSUME n \notin clash PROVE Len([i \in DOMAIN conf[n] |-> c]) = 1
          OBVIOUS
        <5>1. Len(conf[n]) = 1 /\ conf[n] \in Seq(Authors)
          BY <2>2, <4>1 DEF CInv, TypeOK
        <5>2. DOMAIN conf[n] = 1..1
          BY <5>1
        <5> QED
          BY <5>2
      <4> QED
        BY <3>3, <4>1, <4>2 DEF Replace
    <3> QED
      BY <1>9, <3>1, <3>2, <3>3
  <2> QED
    BY <1>1, <2>1, <2>3, LonePut
<1> QED
  BY <1>5, <1>6, <1>7, <1>8, <1>9 DEF ClientStep

\* Whatever the backend and however saves overlap and fail, every number up to the
\* latest is one configuration, but for those where two saves met, or one failed
\* half-way.
THEOREM WholeUnlessClash == Spec => []LoneSavesAreWhole
<1>1. CInv /\ LoneInv => LoneSavesAreWhole
  <2> SUFFICES ASSUME CInv, LoneInv, NEW n \in 1..Latest(DOMAIN conf), n \notin clash
               PROVE  \/ kind \in Files /\ \E c \in Clients : Writes(c, n)
                      \/ n \in DOMAIN conf /\ Len(conf[n]) = 1
    BY DEF LoneSavesAreWhole, Writes
  <2>1. n \in DOMAIN conf
    BY TopIs DEF CInv, Top
  <2> QED
    BY <2>1 DEF LoneInv
<1> QED
  BY <1>1, LoneInit, LoneStep, NumbersInvariant, PTL DEF Spec

=============================================================================
