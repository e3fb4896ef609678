-------------------------- MODULE EntryPointProofs --------------------------
(***************************************************************************)
(* What the handlers of all classes promise about the session id they take *)
(* from a request, for any clocks, values and texts.  EntryPoint is shown  *)
(* to implement AuthBasic, Tokens and Crypto, each of which is then proved *)
(* about on its own.                                                       *)
(***************************************************************************)
EXTENDS EntryPoint, AuthBasicProofs, SequenceTheorems

-----------------------------------------------------------------------------
(* Tokens: a stamp is the time of the making, rounded down to the second. *)

Stamped(value) ==
    /\ 1000 * value.stamp =< value.made
    /\ value.made < 1000 * value.stamp + 1000
    /\ value.kind = "cda" => value.hosts = {}

TInv ==
    /\ clock \in Nat
    /\ minted \subseteq Value
    /\ \A value \in minted : Stamped(value)

\* Rounding down to the second loses less than one.
LEMMA StampRounds ==
    ASSUME NEW ms \in Nat
    PROVE  /\ Stamp(ms) \in Nat
           /\ 1000 * Stamp(ms) =< ms /\ ms < 1000 * Stamp(ms) + 1000
  BY DEF Stamp

LEMMA MintTInv ==
    ASSUME TInv, NEW kind \in {"service", "cda"}, NEW id \in Sids,
           NEW hosts \in SUBSET Vhosts, NEW skew \in Skews, Mint(kind, id, hosts, skew)
    PROVE  TInv'
<1> DEFINE made == clock + skew
           value == [kind |-> kind, id |-> id, hosts |-> hosts,
                     stamp |-> Stamp(made), made |-> made]
<1>1. made \in Nat
  BY TokensAssumption DEF Mint, TInv
<1> HIDE DEF made
<1>2. Stamp(made) \in Nat /\ 1000 * Stamp(made) =< made /\ made < 1000 * Stamp(made) + 1000
  BY <1>1, StampRounds
<1>3. value \in Value /\ Stamped(value)
  BY <1>1, <1>2 DEF Value, Stamped, Mint
<1>4. minted' = minted \cup {value} /\ clock' = clock
  BY DEF Mint, made
<1> HIDE DEF value
<1> QED
  BY <1>3, <1>4 DEF TInv, Stamped

LEMMA NextTInv == TInv /\ [TokenNext]_tokenVars => TInv'
<1> SUFFICES ASSUME TInv, [TokenNext]_tokenVars PROVE TInv'
  OBVIOUS
<1>1. CASE FetchService
  BY <1>1 DEF FetchService, FetchServiceAccepted, FetchServiceRefused, FetchCookie, TInv,
     Stamped
<1>2. CASE FetchCDA
  BY <1>2 DEF FetchCDA, FetchCDAUrl, FetchCDAJar, FetchCDANeither, TInv, Stamped
<1>3. CASE FetchOAuth2
  BY <1>3 DEF FetchOAuth2, FetchBearer, FetchCookie, TInv, Stamped
<1>4. CASE Surroundings
  <2>1. CASE Jump
    <3>1. minted' = minted /\ clock' > clock
          /\ clock' \in Makings \cup {value.made + age : value \in minted, age \in Ages}
      BY <2>1 DEF Jump
    <3>2. \A value \in minted, age \in Ages : value.made + age \in Int
      BY TokensAssumption DEF TInv, Value
    <3>3. clock' \in Int
      BY <3>1, <3>2, TokensAssumption
    <3>4. clock' \in Nat
      BY <3>1, <3>3 DEF TInv
    <3> QED
      BY <3>1, <3>4 DEF TInv, Stamped
  <2> QED
    BY <1>4, <2>1, MintTInv DEF Surroundings
<1>5. CASE UNCHANGED tokenVars
  BY <1>5 DEF tokenVars, TInv, Stamped
<1> QED
  BY <1>1, <1>2, <1>3, <1>4, <1>5 DEF TokenNext

LEMMA InitTInv == TokenInit => TInv
  BY TokensAssumption DEF TokenInit, TInv

-----------------------------------------------------------------------------
(* The windows.  An answer is forgotten when time passes, so each need only *)
(* be checked where an answer is given.                                     *)

\* A service token whose stamp is in the interval is of the age it should be,
\* and one whose stamp is not was too old or came too early.
LEMMA ServiceNumbers ==
    ASSUME NEW t \in Nat, NEW stamp \in Nat, NEW made \in Nat,
           1000 * stamp =< made, made < 1000 * stamp + 1000
    PROVE  /\ 1000 * stamp >= t - 30000 /\ 1000 * stamp =< t => t - made > -1000 /\ t - made =< 30000
           /\ ~(1000 * stamp >= t - 30000 /\ 1000 * stamp =< t)
                => t - made > 29000 \/ t - made < 0
  OBVIOUS

LEMMA CDANumbers ==
    ASSUME NEW t \in Nat, NEW sec \in Nat, NEW stamp \in Nat, NEW made \in Nat,
           1000 * stamp =< made, made < 1000 * stamp + 1000,
           1000 * sec =< t, t < 1000 * sec + 1000
    PROVE  /\ sec - stamp =< 120 /\ stamp =< sec + 10 => t - made > -11000 /\ t - made < 121000
           /\ t - made >= -10000 /\ t - made =< 120000
                => sec - stamp =< 120 /\ stamp =< sec + 10
  OBVIOUS

LEMMA ServiceAges ==
    ASSUME TInv, NEW value \in minted
    PROVE  /\ ServiceFresh(value) => Age(value) > -1000 /\ Age(value) =< 30000
           /\ ~ServiceFresh(value) => Age(value) > 29000 \/ Age(value) < 0
<1>1. value.stamp \in Nat /\ value.made \in Nat /\ clock \in Nat
      /\ 1000 * value.stamp =< value.made /\ value.made < 1000 * value.stamp + 1000
  BY DEF TInv, Value, Stamped
<1> QED
  BY <1>1, ServiceNumbers DEF ServiceFresh, Age

LEMMA CDAAges ==
    ASSUME TInv, NEW value \in minted
    PROVE  /\ CDAFresh(value) => Age(value) > -11000 /\ Age(value) < 121000
           /\ Age(value) >= -10000 /\ Age(value) =< 120000 => CDAFresh(value)
<1>1. value.stamp \in Nat /\ value.made \in Nat /\ clock \in Nat
      /\ 1000 * value.stamp =< value.made /\ value.made < 1000 * value.stamp + 1000
  BY DEF TInv, Value, Stamped
<1>2. clock \div 1000 \in Nat /\ 1000 * (clock \div 1000) =< clock
      /\ clock < 1000 * (clock \div 1000) + 1000
  BY <1>1
<1> QED
  BY <1>1, <1>2, CDANumbers DEF CDAFresh, Age

WInv == TInv /\ ServiceWindow /\ CDAWindow

LEMMA NextWInv == WInv /\ [TokenNext]_tokenVars => WInv'
<1> SUFFICES ASSUME WInv, [TokenNext]_tokenVars PROVE WInv'
  OBVIOUS
<1> USE NothingAssumption
<1>1. TInv' /\ TInv
  BY NextTInv DEF WInv
<1>2. ASSUME NEW value \in Carried, NEW host \in Vhosts, FetchServiceAccepted(value, host)
      PROVE  ServiceWindow' /\ CDAWindow'
  <2>1. value \in minted /\ value \in Value /\ Age(value) > -1000 /\ Age(value) =< 30000
    BY <1>1, <1>2, ServiceAges DEF FetchServiceAccepted, ServiceAccepts, TInv
  <2>2. Age(value)' = Age(value)
    BY <1>2 DEF FetchServiceAccepted, Age
  <2> QED
    BY <1>2, <2>1, <2>2 DEF FetchServiceAccepted, ServiceAccepts, Fetched, ServiceWindow,
       CDAWindow
<1>3. ASSUME NEW value \in Carried, NEW host \in Vhosts, FetchServiceRefused(value, host)
      PROVE  ServiceWindow' /\ CDAWindow'
  <2>1. Age(value)' = Age(value) /\ fetched'.by = "service"
        /\ fetched'.value = value /\ fetched'.from = "portal" /\ fetched'.host = host
    BY <1>3 DEF FetchServiceRefused, Fetched, Age
  <2>2. ASSUME value \in Value, host \in value.hosts
        PROVE  Age(value) > 29000 \/ Age(value) < 0
    <3>1. value \in minted
      BY <2>2 DEF Carried
    <3>2. value.kind = "service"
      BY <1>1, <2>2, <3>1 DEF TInv, Stamped, Value
    <3> QED
      BY <1>1, <1>3, <2>2, <3>1, <3>2, ServiceAges DEF FetchServiceRefused, ServiceAccepts
  <2> QED
    BY <2>1, <2>2 DEF ServiceWindow, CDAWindow
<1>4. ASSUME NEW url \in Carried, NEW jar \in Carried, NEW host \in Vhosts,
             \/ FetchCDAUrl(url, jar, host)
             \/ FetchCDAJar(url, jar, host)
             \/ \E cookie \in Cookie : FetchCDANeither(url, jar, host, cookie)
      PROVE  ServiceWindow' /\ CDAWindow'
  <2> DEFINE Maybe(value) == value \in Value /\ value.kind = "cda"
                                /\ Age(value) > -11000 /\ Age(value) < 121000
             Surely(value) == value \in Value /\ value.kind = "cda"
                                /\ Age(value) >= -10000 /\ Age(value) =< 120000
  <2>1. fetched'.by = "cda" /\ fetched'.value = url
        /\ fetched'.jar = jar /\ clock' = clock
    BY <1>4 DEF FetchCDAUrl, FetchCDAJar, FetchCDANeither, Fetched, FetchedFromCookie
  <2>2. /\ fetched'.from = "url" => CDAAccepts(url) /\ fetched'.id = url.id
        /\ fetched'.from = "jar" => CDAAccepts(jar) /\ fetched'.id = jar.id
        /\ fetched'.from # "url" => ~CDAAccepts(url)
        /\ fetched'.from \in {"cookie", "portal"} => ~CDAAccepts(jar)
    BY <1>4 DEF FetchCDAUrl, FetchCDAJar, FetchCDANeither, Fetched, FetchedFromCookie
  <2>3. ASSUME NEW value \in Carried
        PROVE  (CDAAccepts(value) => Maybe(value)) /\ (Surely(value) => CDAAccepts(value))
    <3>1. value \in Value => value \in minted
      BY <2>3 DEF Carried
    <3> QED
      BY <1>1, <3>1, CDAAges DEF CDAAccepts, TInv
  <2>4. \A value : Age(value)' = Age(value)
    BY <2>1 DEF Age
  <2>5. CDAWindow'
    BY <2>1, <2>2, <2>3, <2>4 DEF CDAWindow
  <2> QED
    BY <2>1, <2>5 DEF ServiceWindow
<1>5. ASSUME NEW cookie \in Cookie, NEW host \in Vhosts, FetchCookie(cookie, host)
      PROVE  ServiceWindow' /\ CDAWindow'
  BY <1>5 DEF FetchCookie, FetchedFromCookie, Fetched, ServiceWindow, CDAWindow
<1>6. ASSUME NEW bearer \in Sids \cup {Nothing}, NEW host \in Vhosts, FetchBearer(bearer, host)
      PROVE  ServiceWindow' /\ CDAWindow'
  BY <1>6 DEF FetchBearer, Fetched, ServiceWindow, CDAWindow
<1>7. ASSUME fetched' = fetched, clock' = clock
      PROVE  ServiceWindow' /\ CDAWindow'
  <2>1. \A value : Age(value)' = Age(value)
    BY <1>7 DEF Age
  <2>2. ServiceWindow'
    BY <1>7, <2>1 DEF WInv, ServiceWindow
  <2>3. CDAWindow'
    BY <1>7, <2>1 DEF WInv, CDAWindow
  <2> QED
    BY <2>2, <2>3
<1>8. ASSUME fetched'.by = "none"
      PROVE  ServiceWindow' /\ CDAWindow'
  BY <1>8 DEF ServiceWindow, CDAWindow
<1>9. ServiceWindow' /\ CDAWindow'
  <2>1. CASE FetchService
    BY <1>2, <1>3, <1>5, <2>1 DEF FetchService
  <2>2. CASE FetchCDA
    BY <1>4, <2>2 DEF FetchCDA
  <2>3. CASE FetchOAuth2
    BY <1>5, <1>6, <2>3 DEF FetchOAuth2
  <2>4. CASE Surroundings
    <3>1. (fetched' = fetched /\ clock' = clock) \/ fetched'.by = "none"
      BY <2>4 DEF Surroundings, Mint, Jump, NoAnswer
    <3> QED
      BY <1>7, <1>8, <3>1
  <2>5. CASE UNCHANGED tokenVars
    BY <1>7, <2>5 DEF tokenVars
  <2> QED
    BY <2>1, <2>2, <2>3, <2>4, <2>5 DEF TokenNext
<1> QED
  BY <1>1, <1>9 DEF WInv

LEMMA InitWInv == TokenInit => WInv
  BY InitTInv DEF TokenInit, WInv, ServiceWindow, CDAWindow, NoAnswer

-----------------------------------------------------------------------------
(* Crypto. *)

\* The first of the padding's NULs is the first of a padded plain text.
LEMMA PaddingFound ==
    ASSUME NEW text \in Seq(Nat), Plain(text)
    PROVE  /\ Pad(text) \in Seq(Nat) /\ FirstNul(Pad(text)) = Len(text) + 1
           /\ Len(Pad(text)) > Len(text)
           /\ \A i \in 1..Len(text) : Pad(text)[i] = text[i]
<1> DEFINE n == Block - (Len(text) % Block)
           bytes == Pad(text)
           first == Len(text) + 1
<1>1. n \in Nat \ {0}
  BY BlockAssumption
<1> HIDE DEF n
<1>2. Nuls(n) \in Seq(Nat) /\ Len(Nuls(n)) = n /\ \A i \in 1..n : Nuls(n)[i] = 0
  BY <1>1 DEF Nuls
<1>3. bytes = text \o Nuls(n)
  BY DEF Pad, n
<1> HIDE DEF bytes
<1>4. /\ bytes \in Seq(Nat) /\ Len(bytes) = Len(text) + n
      /\ \A i \in 1..Len(text) : bytes[i] = text[i]
      /\ bytes[first] = 0 /\ first \in 1..Len(bytes)
  <2> DEFINE nuls == Nuls(n)
  <2>1. nuls \in Seq(Nat) /\ Len(nuls) = n /\ nuls[1] = 0
    BY <1>1, <1>2
  <2> HIDE DEF nuls
  <2>2. bytes = text \o nuls
    BY <1>3 DEF nuls
  <2>3. /\ bytes \in Seq(Nat) /\ Len(bytes) = Len(text) + n
        /\ \A i \in 1..(Len(text) + n) :
              bytes[i] = IF i =< Len(text) THEN text[i] ELSE nuls[i - Len(text)]
    BY <2>1, <2>2, ConcatProperties, ZenonT(30)
  <2>0. Len(text) \in Nat
    OBVIOUS
  <2> HIDE DEF bytes
  <2>4. \A i \in 1..Len(text) : bytes[i] = text[i]
    BY <1>1, <2>3, <2>0
  <2>5. first \in 1..Len(bytes)
    BY <1>1, <2>0, <2>3
  <2>6. bytes[first] = nuls[first - Len(text)]
    BY <1>1, <2>0, <2>3
  <2> QED
    BY <2>1, <2>3, <2>4, <2>5, <2>6
<1>5. \A j \in 1..(first - 1) : bytes[j] # 0
  BY <1>4 DEF Plain
<1>6. \A i \in 1..Len(bytes) :
          bytes[i] = 0 /\ (\A j \in 1..(i - 1) : bytes[j] # 0) => i = first
  BY <1>4, <1>5
<1>7. FirstNul(bytes) = first
  BY <1>4, <1>5, <1>6 DEF FirstNul
<1> QED
  BY <1>1, <1>4, <1>7 DEF bytes

\* decrypt undoes encrypt on every plain text, whatever the length of a block.
LEMMA PadUnpad ==
    ASSUME NEW text \in Seq(Nat), Plain(text)
    PROVE  Unpad(Pad(text)) = text
<1> DEFINE bytes == Pad(text)
           kept == SubSeq(bytes, 1, Len(text) + 1)
<1>1. /\ bytes \in Seq(Nat) /\ FirstNul(bytes) = Len(text) + 1
      /\ Len(bytes) > Len(text) /\ \A i \in 1..Len(text) : bytes[i] = text[i]
  BY PaddingFound
<1>2. Len(text) > 0
  BY DEF Plain
<1> HIDE DEF bytes
<1>3. /\ kept \in Seq(Nat) /\ Len(kept) = Len(text) + 1
      /\ \A i \in 1..Len(text) : kept[i] = text[i]
  BY <1>1
<1>4. Unpad(bytes) = SubSeq(kept, 1, Len(kept) - 1)
  BY <1>1, <1>2 DEF Unpad
<1> HIDE DEF kept
<1>5. SubSeq(kept, 1, Len(kept) - 1) = text
  BY <1>3
<1> QED
  BY <1>4, <1>5 DEF bytes

\* A block of NULs is all that becomes of the empty text, less the last one.
LEMMA EmptyIsLost == Len(Unpad(Pad(<<>>))) = Block - 1
<1>1. Pad(<<>>) = Nuls(Block)
  BY BlockAssumption DEF Pad, Nuls
<1>2. Nuls(Block) \in Seq(Nat) /\ Len(Nuls(Block)) = Block
      /\ \A i \in 1..Block : Nuls(Block)[i] = 0
  BY BlockAssumption DEF Nuls
<1>3. ~(FirstNul(Nuls(Block)) > 1)
  <2>1. 1 \in 1..Len(Nuls(Block)) /\ Nuls(Block)[1] = 0
    BY <1>2, BlockAssumption
  <2>2. \A i \in 1..Len(Nuls(Block)) :
            (\A j \in 1..(i - 1) : Nuls(Block)[j] # 0) => i = 1
    BY <1>2, <2>1, BlockAssumption
  <2>3. \A j \in 1..(1 - 1) : Nuls(Block)[j] # 0
    OBVIOUS
  <2> QED
    BY <2>1, <2>2, <2>3 DEF FirstNul
<1>4. Unpad(Pad(<<>>)) = SubSeq(Nuls(Block), 1, Block - 1)
  BY <1>1, <1>2, <1>3 DEF Unpad
<1> QED
  BY <1>2, <1>4, BlockAssumption

SealedRight == /\ sealed.text \in Texts \cup {<<>>} /\ sealed.back = Unpad(Pad(sealed.text))

LEMMA SealedRoundTrip == SealedRight => RoundTrip
<1> SUFFICES ASSUME SealedRight PROVE RoundTrip
  OBVIOUS
<1>1. sealed.text \in Seq(Nat)
  <2>1. <<>> \in Seq(Nat)
    OBVIOUS
  <2>2. CASE sealed.text = <<>>
    BY <2>1, <2>2
  <2>3. CASE sealed.text \in Texts
    BY <2>3, TextsAssumption
  <2> QED
    BY <2>2, <2>3 DEF SealedRight
<1>2. Plain(sealed.text) => sealed.back = sealed.text
  BY <1>1, PadUnpad DEF SealedRight
<1>3. sealed.text = <<>> => Len(sealed.back) = Block - 1
  BY EmptyIsLost DEF SealedRight
<1> QED
  BY <1>2, <1>3, BlockAssumption DEF RoundTrip

-----------------------------------------------------------------------------
(* EntryPoint. *)

\* Whatever class the type names, a process does no more than AuthBasic, and no
\* more than Tokens.
THEOREM ImplementsBasic == EntrySpec => Spec
<1>1. EntryInit => Init
  BY DEF EntryInit
<1>2. [EntryNext]_entryVars => [Next]_vars
  BY DEF EntryNext, entryVars, StartHandler, ServeBasic, ServeTokens, ServeRules
<1> QED
  BY <1>1, <1>2, PTL DEF EntrySpec, Spec

THEOREM ImplementsTokens == EntrySpec => TokenSpec
<1>1. EntryInit => TokenInit
  BY DEF EntryInit
<1>2. [EntryNext]_entryVars => [TokenNext]_tokenVars
  <2>1. CASE ServeTokens
    BY <2>1 DEF ServeTokens, TokenNext, FetchService, Cookies
  <2> QED
    BY <2>1 DEF EntryNext, entryVars, StartHandler, ServeBasic, ServeRules
<1> QED
  BY <1>1, <1>2, PTL DEF EntrySpec, TokenSpec

\* A service token opens its virtual hosts and no session but its own, in its window
\* and, but for the rounding, all through it; whatever the clocks of the makers say.
THEOREM ServiceTokens == EntrySpec => []ServiceWindow
<1>1. WInv => ServiceWindow
  BY DEF WInv
<1> QED
  BY <1>1, InitWInv, NextWInv, ImplementsTokens, PTL DEF TokenSpec

\* The same of the cross-domain values.
THEOREM CrossDomainValues == EntrySpec => []CDAWindow
<1>1. WInv => CDAWindow
  BY DEF WInv
<1> QED
  BY <1>1, InitWInv, NextWInv, ImplementsTokens, PTL DEF TokenSpec

\* In a process of any class, credentials are forgotten in time.
THEOREM EntryForgets == EntrySpec => []PendingIsWaiting
  BY ImplementsBasic, CredentialsForgotten, PTL

\* decrypt gives back every plain text that rules encrypt, for any block size.
THEOREM TextsComeBack == EntrySpec => []RoundTrip
<1>1. EntryInit => SealedRight
  BY DEF EntryInit, CryptoInit, SealedRight
<1>2. SealedRight /\ [EntryNext]_entryVars => SealedRight'
  BY DEF EntryNext, entryVars, StartHandler, ServeBasic, ServeTokens, ServeRules,
     CryptoNext, Seal, SealedRight
<1> QED
  BY <1>1, <1>2, SealedRoundTrip, PTL DEF EntrySpec
=============================================================================
