------------------------------ MODULE ConfStore ------------------------------
(***************************************************************************)
(* The numbered configurations (conf/src/index.ts) over the stores that    *)
(* can save one: files in JSON or YAML (conf-file, conf-yaml) and the two  *)
(* layouts of a database (conf-cdbi: a row per configuration; conf-rdbi: a *)
(* row per field); and over those that only read what another program      *)
(* saves (conf-ldap, conf-mongodb, conf-rest).  A client calls getConf,    *)
(* may then edit what it got and call saveConf, and starts over.  Handlers *)
(* only read; the clients that save are scripts or two administrators.     *)
(*                                                                         *)
(* A configuration is reduced to its author.  What a number holds is a     *)
(* sequence: of the rows (or sets of rows) in a database, of the pieces of *)
(* text in a file.  One element is one whole configuration; an empty       *)
(* sequence is a file that is open and not yet written.                    *)
(***************************************************************************)
EXTENDS Integers, Sequences, FiniteSets

CONSTANTS
  Clients,     \* the callers of getConf and saveConf
  Old,         \* the author of the configurations there from the start
  Before,      \* how many of these there are, numbered from 1
  MaxNum,      \* bound: no save begins when this number is in use,
  MaxRows,     \* bound: ... or a number has more rows, or pieces, than this
  Kinds        \* the backends tried, each in behaviours of its own

ASSUME ConfAssumption ==
  /\ Before \in Nat \ {0} /\ MaxNum \in Nat /\ MaxRows \in Nat
  /\ Old \notin Clients
  /\ Kinds \subseteq {"file", "yaml", "cdbi", "rdbi", "ldap", "mongodb", "rest"}

VARIABLES
  kind,    \* the backend: type of section "configuration" in lemonldap-ng.ini
  keyed,   \* the table of a database has a primary key
  conf,    \* what the store holds, by number
  cl,      \* what each client is at
  acked,   \* history: the largest number whose save was answered
  floor,   \* history: acked when the client's current call began
  clash    \* history: numbers that a save has found another one in the way of,
           \* or has left half-written

vars == <<kind, keyed, conf, cl, acked, floor, clash>>

Files == {"file", "yaml"}
Databases == {"cdbi", "rdbi"}

\* store of these always rejects.
ReadOnly == {"ldap", "mongodb", "rest"}

Authors == Clients \cup {Old}

\* getConf: idle, asking (lastCfg), loading, has.
\* saveConf: checking (lastCfg), storing, writing, saved.
\* stale: saveConf returned -1 inside the promise, which never settles;
\* failed: a call was rejected and nobody catches it.
\* num: cfgNum of the configuration it has; text: it is of type string.
Stages == {"idle", "asking", "loading", "has", "checking", "storing",
           "writing", "saved", "stale", "failed"}

Idle == [st |-> "idle", num |-> 0, text |-> FALSE, got |-> <<>>, force |-> FALSE,
         fixed |-> FALSE, new |-> 0, over |-> FALSE]

TypeOK ==
  /\ kind \in Kinds /\ keyed \in BOOLEAN
  /\ DOMAIN conf \subseteq Nat \ {0}
  /\ \A n \in DOMAIN conf : conf[n] \in Seq(Authors)
  /\ cl \in [Clients -> [st : Stages, num : Nat, text : BOOLEAN, got : Seq(Authors),
                         force : BOOLEAN, fixed : BOOLEAN, new : Nat,
                         over : BOOLEAN]]
  /\ acked \in Nat
  /\ floor \in [Clients -> Nat]
  /\ clash \subseteq Nat

-----------------------------------------------------------------------------
\* The store.

\* Array.prototype.sort without a comparison orders numbers as text: 1, 10,
\* 11, ..., 19, 2, 20, ...  (numbers of one or two digits).
TextKey(n) == IF n < 10 THEN 11 * n ELSE 11 * (n \div 10) + (n % 10) + 1

\* Mutant: the order of available() reversed.
LatestMutant(S) == CHOOSE n \in S : \A m \in S : n <= m

Latest(S) == CHOOSE n \in S : \A m \in S : m <= n

LatestAsText(S) == CHOOSE n \in S : \A m \in S : TextKey(m) <= TextKey(n)

\* MongoDB sorts its documents by _id, which is text.
AsText == Files \cup {"ldap", "mongodb"}

\* lastCfg: available().pop(), max(cfgNum) of the databases, or what the
\* portal's REST server says is the latest.
LastCfg == IF kind \in AsText THEN LatestAsText(DOMAIN conf)
           ELSE Latest(DOMAIN conf)

Put(n, content) ==
  conf' = [m \in DOMAIN conf \cup {n} |-> IF m = n THEN content ELSE conf[m]]

\* What the rows of number n are after an insertion by c.
Inserted(n, c) == IF n \in DOMAIN conf THEN Append(conf[n], c) ELSE <<c>>

\* writeFile writes from the beginning of a file that was emptied when it was
\* opened.  If another call has written meanwhile, what its text has more than
\* the new one remains behind it.
Written(n, c) == {<<c>>} \cup
  (IF n \in DOMAIN conf /\ conf[n] # <<>> THEN {<<c, conf[n][1]>>} ELSE {})

-----------------------------------------------------------------------------
Init ==
  /\ kind \in Kinds
  /\ keyed \in IF kind \in Databases THEN BOOLEAN ELSE {FALSE}
  /\ conf = [n \in 1..Before |-> <<Old>>]
  /\ cl = [c \in Clients |-> Idle]
  /\ acked = Before
  /\ floor = [c \in Clients |-> 0]
  /\ clash = {}

\* Client c goes on with some fields of its record changed.
Become(c, r) == cl' = [cl EXCEPT ![c] = r]

\* getConf is called: the request of lastCfg leaves.
GetConf(c) ==
  /\ cl[c].st = "idle"
  /\ Become(c, [cl[c] EXCEPT !.st = "asking"])
  /\ floor' = [floor EXCEPT ![c] = acked]
  /\ UNCHANGED <<kind, keyed, conf, acked, clash>>

\* The backend answers lastCfg, and getConf asks to load this number.
GetLast(c) ==
  /\ cl[c].st = "asking"
  /\ Become(c, [cl[c] EXCEPT !.st = "loading", !.num = LastCfg])
  /\ UNCHANGED <<kind, keyed, conf, acked, floor, clash>>

\* What load may find under n that it does not reject: text that JSON.parse
\* accepts is whole, yaml.load accepts most beginnings and mixtures of texts;
\* the query of conf-cdbi wants one row; that of conf-rdbi merges all rows; the
\* others get the one entry, document or answer of this number.
Loadable(n) ==
  CASE kind \in {"file", "cdbi"} \cup ReadOnly -> Len(conf[n]) = 1
    [] kind = "rdbi" -> Len(conf[n]) > 0
    [] kind = "yaml" -> TRUE

\* conf-rdbi reads its fields from a column of text and conf-ldap from values
\* of text, so that the number of a configuration they loaded is a string.
NumberIsText == kind \in {"rdbi", "ldap"}

\* The backend answers load, and getConf is resolved.
Load(c) ==
  LET n == cl[c].num IN
  /\ cl[c].st = "loading"
  /\ n \in DOMAIN conf /\ Loadable(n)
  /\ Become(c, [cl[c] EXCEPT !.st = "has", !.got = conf[n], !.text = NumberIsText])
  /\ UNCHANGED <<kind, keyed, conf, acked, floor, clash>>

\* load rejects, or resolves what getConf cannot use; getConf has no catch.
LoadRejected(c) ==
  LET n == cl[c].num IN
  /\ cl[c].st = "loading"
  /\ ~(n \in DOMAIN conf /\ Loadable(n)) \/ (kind = "yaml" /\ Len(conf[n]) # 1)
  /\ Become(c, [cl[c] EXCEPT !.st = "failed"])
  /\ UNCHANGED <<kind, keyed, conf, acked, floor, clash>>

\* saveConf is called with the configuration of getConf, edited, or with the one
\* that it saved, whose number saveConf has changed.
SaveConf(c, force, fixed) ==
  /\ MaxNum \notin DOMAIN conf /\ \A n \in DOMAIN conf : Len(conf[n]) <= MaxRows
  /\ cl[c].st \in {"has", "saved"}
  /\ LET num == IF cl[c].st = "saved" THEN cl[c].new ELSE cl[c].num
     IN  Become(c, [cl[c] EXCEPT !.st = "checking", !.num = num, !.got = <<>>,
                                 !.force = force, !.fixed = fixed])
  /\ floor' = [floor EXCEPT ![c] = acked]
  /\ UNCHANGED <<kind, keyed, conf, acked, clash>>

\* Mutant: the number is not compared.
IsLastMutant(c) == ~cl[c].text

\* conf.cfgNum === last.
IsLast(c) == ~cl[c].text /\ cl[c].num = LastCfg

\* The backend answers lastCfg to saveConf.
Stale(c) ==
  /\ cl[c].st = "checking"
  /\ ~cl[c].force /\ ~IsLast(c)
  /\ Become(c, [cl[c] EXCEPT !.st = "stale"])
  /\ UNCHANGED <<kind, keyed, conf, acked, floor, clash>>

\* Mutant: the length of available() once its last number is popped.
NewNumberMutant(c) == IF cl[c].fixed THEN cl[c].num
                      ELSE Cardinality(DOMAIN conf \ {LastCfg})

NewNumber(c) == IF cl[c].fixed THEN cl[c].num ELSE LastCfg + 1

\* A client is about to write number n, or is writing it.
Saves(c, n) == cl[c].st \in {"storing", "writing"} /\ cl[c].new = n

Number(c) ==
  LET n == NewNumber(c) IN
  /\ cl[c].st = "checking"
  /\ cl[c].force \/ IsLast(c)
  /\ Become(c, [cl[c] EXCEPT !.st = "storing", !.new = n, !.text = @ /\ cl[c].fixed])
  /\ clash' = IF \E d \in Clients : Saves(d, n) THEN clash \cup {n} ELSE clash
  /\ UNCHANGED <<kind, keyed, conf, acked, floor>>

\* FileConf.store: the file is opened, which empties it ...
Open(c) ==
  /\ kind \in Files
  /\ cl[c].st = "storing"
  /\ Put(cl[c].new, <<>>)
  /\ Become(c, [cl[c] EXCEPT !.st = "writing"])
  /\ UNCHANGED <<kind, keyed, acked, floor, clash>>

\* A store that ends is answered, or its answer is lost.
Answered(c) ==
  \/ /\ Become(c, [cl[c] EXCEPT !.st = "saved"])
     /\ acked' = IF cl[c].new > acked THEN cl[c].new ELSE acked
  \/ /\ Become(c, [cl[c] EXCEPT !.st = "failed"])
     /\ UNCHANGED acked

\* ... and then written.
Write(c) ==
  /\ kind \in Files
  /\ cl[c].st = "writing"
  /\ \E text \in Written(cl[c].new, c) : Put(cl[c].new, text)
  /\ Answered(c)
  /\ UNCHANGED <<kind, keyed, floor, clash>>

\* Mutant: the number is not compared, and what is saved always inserted.
AskAgainMutant(c) ==
  /\ kind \in Databases
  /\ cl[c].st = "storing"
  /\ Become(c, [cl[c] EXCEPT !.st = "writing", !.over = FALSE])
  /\ clash' = IF cl[c].new < LastCfg THEN clash \cup {cl[c].new} ELSE clash
  /\ UNCHANGED <<kind, keyed, conf, acked, floor>>

\* store of a database asks for lastCfg again, to insert or to replace.
AskAgain(c) ==
  /\ kind \in Databases
  /\ cl[c].st = "storing"
  /\ Become(c, [cl[c] EXCEPT !.st = "writing", !.over = (cl[c].new = LastCfg)])
  /\ clash' = IF cl[c].new < LastCfg THEN clash \cup {cl[c].new} ELSE clash
  /\ UNCHANGED <<kind, keyed, conf, acked, floor>>

\* conf-cdbi updates the rows of this number; conf-rdbi deletes and inserts
\* them in a transaction.
Replace(c) ==
  /\ kind \in Databases
  /\ cl[c].st = "writing" /\ cl[c].over
  /\ Put(cl[c].new, IF kind = "cdbi" /\ cl[c].new \in DOMAIN conf
                    THEN [i \in DOMAIN conf[cl[c].new] |-> c] ELSE <<c>>)
  /\ Answered(c)
  /\ UNCHANGED <<kind, keyed, floor, clash>>

Insert(c) ==
  /\ kind \in Databases
  /\ cl[c].st = "writing" /\ ~cl[c].over
  /\ keyed => cl[c].new \notin DOMAIN conf
  /\ Put(cl[c].new, Inserted(cl[c].new, c))
  /\ Answered(c)
  /\ UNCHANGED <<kind, keyed, floor, clash>>

\* A call to the backend is rejected: an insertion under a number that is taken
\* and a store that is not implemented always, any other by an error of its
\* own.  A file whose writing fails stays as it was opened.
CallFails(c) ==
  /\ cl[c].st \in {"asking", "loading", "checking", "storing", "writing"}
  /\ Become(c, [cl[c] EXCEPT !.st = "failed"])
  /\ clash' = IF kind \in Files /\ cl[c].st = "writing"
              THEN clash \cup {cl[c].new} ELSE clash
  /\ UNCHANGED <<kind, keyed, conf, acked, floor>>

\* The caller is done, or is a new process after an unhandled rejection.
StartOver(c) ==
  /\ cl[c].st \in {"has", "saved", "stale", "failed"}
  /\ Become(c, Idle)
  /\ floor' = [floor EXCEPT ![c] = 0]
  /\ UNCHANGED <<kind, keyed, conf, acked, clash>>

\* LemonLDAP::NG's manager, another program, saves the next configuration in a
\* store where saveConf cannot.
ManagerSaves ==
  LET next == Latest(DOMAIN conf) + 1 IN
  /\ kind \in ReadOnly
  /\ MaxNum \notin DOMAIN conf
  /\ Put(next, <<Old>>)
  /\ acked' = next
  /\ UNCHANGED <<kind, keyed, cl, floor, clash>>

ClientStep(c) ==
  \/ GetConf(c) \/ GetLast(c) \/ Load(c) \/ LoadRejected(c)
  \/ \E force, fixed \in BOOLEAN : SaveConf(c, force, fixed)
  \/ Stale(c) \/ Number(c)
  \/ Open(c) \/ Write(c)
  \/ AskAgain(c) \/ Replace(c) \/ Insert(c)
  \/ CallFails(c) \/ StartOver(c)

Next == ManagerSaves \/ \E c \in Clients : ClientStep(c)

Spec == Init /\ [][Next]_vars

-----------------------------------------------------------------------------
\* Every number up to the latest can be read as one configuration.  store asks
\* again which number is the last, and updates or inserts on what it is told;
\* files are emptied before they are written.  Neither harms a number unless two
\* saves have it at a time, a save "cfgNumFixed" finds a later one in its database,
\* or a file's writing failed (conf-cdbi/src/index.ts 10-29, conf-file 89-106).
LoneSavesAreWhole ==
  \A n \in 1..Latest(DOMAIN conf) :
    \/ n \in clash
    \/ kind \in Files /\ \E c \in Clients : cl[c].st = "writing" /\ cl[c].new = n
    \/ n \in DOMAIN conf /\ Len(conf[n]) = 1

\* A getConf that begins when a save has been answered reads that one's number
\* or a later one: what the portal and the handlers load after the message
\* "reload" is not what they had before (conf/src/index.ts 55-59).  That it can be
\* read is the subject of LoneSavesAreWhole.
FreshRead ==
  \A c \in Clients : cl[c].st = "has" => cl[c].num >= floor[c]

\* A save without "force" that begins when another has been answered is based
\* on that configuration or a later one, and does not take its number: it does
\* not overwrite what its caller could have read (conf/src/index.ts 111-118).
\* Two saves that overlap may still take the same number, the later silently.  With
\* conf-rdbi and conf-ldap, what getConf returned is never saved so (NumberIsText).
NoBlindSave ==
  \A c \in Clients :
    (cl[c].st \in {"storing", "writing", "saved"} /\ ~cl[c].force) =>
      /\ cl[c].num >= floor[c]
      /\ ~cl[c].fixed => cl[c].new > floor[c]

\* "Bug: bad conf order in fileConf when cfgNum>9" (CHANGELOG.md, 0.2.8): the
\* last configuration is the one with the largest number, for files as well
\* (conf-file/src/index.ts available and lastCfg).
NumericOrder == \A n \in DOMAIN conf : Len(conf[n]) = 1 => n <= LastCfg

=============================================================================
