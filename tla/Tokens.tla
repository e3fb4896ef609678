------------------------------- MODULE Tokens -------------------------------
(***************************************************************************)
(* Where the handlers for services, other domains and OAuth2 take the      *)
(* session id from (packages/handler: fetchId of handlerServiceToken,      *)
(* handlerCDA with cda, handlerOAuth2): an encrypted value stamped with    *)
(* the time in seconds by another process, whose clock is not quite the    *)
(* handler's, or a bearer token.  What becomes of the id afterwards is the *)
(* matter of Handler.  Times are in milliseconds, stamps in seconds.       *)
(***************************************************************************)
EXTENDS Integers, FiniteSets

CONSTANTS
    Sids,       \* session ids
    Vhosts,     \* virtual hosts of the handler
    Nothing,    \* no header, no cookie, no parameter; the empty id
    Garbage,    \* a value that decrypt refuses; the bare id of a session is one
    Makings,    \* bound: the times at which values are made
    Ages,       \* bound: how old a value is when requests come in
    Skews,      \* by how much a maker's clock may be ahead of the handler's
    MaxMinted   \* bound: values in circulation

ASSUME TokensAssumption ==
    /\ Makings \subseteq Nat /\ Ages \subseteq Int /\ Skews \subseteq Int
    /\ MaxMinted \in Nat
    /\ \A t \in Makings, s \in Skews : t + s >= 0

\* made is what the clock of the maker said; it is not in the value.
Value == [kind : {"service", "cda"}, id : Sids, hosts : SUBSET Vhosts,
          stamp : Nat, made : Nat]

\* Which handler answered a request, from what, and what the request carried.
Fetching == [by : {"main", "service", "cda", "bearer"},
             from : {"portal", "cookie", "value", "url", "jar", "bearer"},
             id : Sids \cup {Nothing}, value : Value \cup {Nothing, Garbage},
             jar : Value \cup {Nothing, Garbage}, host : Vhosts]

\* Nobody was answered yet.
NoAnswer == [by |-> "none", from |-> "portal", id |-> Nothing, value |-> Nothing,
             jar |-> Nothing, host |-> Nothing]


ASSUME NothingAssumption ==
    /\ Nothing \notin Sids /\ Nothing # Garbage
    /\ {Nothing, Garbage} \cap Value = {}

VARIABLES
    clock,     \* Date.now() of the handler
    minted,    \* the values made so far; anyone may hold them
    fetched    \* fetchId's last answer at this time, and to which request

tokenVars == <<clock, minted, fetched>>

Carried == minted \cup {Nothing, Garbage}
Cookie == Sids \cup {Nothing}

\* The answer of a handler to a request for host with a value and a CDA cookie.
Fetched(by, from, id, value, jar, host) ==
    fetched' = [by |-> by, from |-> from, id |-> id, value |-> value, jar |-> jar,
                host |-> host]

FetchedFromCookie(by, cookie, value, jar, host) ==
    Fetched(by, IF cookie = Nothing THEN "portal" ELSE "cookie", cookie, value, jar, host)

-----------------------------------------------------------------------------
(* Making values. *)

\* The code has both Math.trunc and Math.floor; the times are not negative.
Stamp(ms) == ms \div 1000

\* A rule calls token(id, hosts...), or the portal makes a cross-domain value.
Mint(kind, id, hosts, skew) ==
    /\ clock \in Makings
    /\ Cardinality(minted) < MaxMinted
    /\ kind = "cda" => hosts = {}
    /\ minted' = minted \cup {[kind |-> kind, id |-> id, hosts |-> hosts,
                               stamp |-> Stamp(clock + skew), made |-> clock + skew]}
    /\ UNCHANGED <<clock, fetched>>

-----------------------------------------------------------------------------
(* fetchId of the service token handler. *)

\* Mutant: the age is counted in whole seconds.
ServiceFreshWhole(value) ==
    /\ (clock \div 1000) - value.stamp =< 30
    /\ value.stamp =< clock \div 1000

\* The interval is [now - 30 s, now], and now has its milliseconds.
ServiceFresh(value) ==
    /\ 1000 * value.stamp >= clock - 30000
    /\ 1000 * value.stamp =< clock

\* A cross-domain value lacks the third element.
ServiceAccepts(value, host) ==
    /\ value \in minted /\ value.kind = "service"
    /\ ServiceFresh(value)
    /\ host \in value.hosts

FetchServiceAccepted(value, host) ==
    /\ ServiceAccepts(value, host)
    /\ Fetched("service", "value", value.id, value, Nothing, host)
    /\ UNCHANGED <<clock, minted>>

\* A cookie does not make up for a value that is refused.
FetchServiceRefused(value, host) ==
    /\ value # Nothing /\ ~ServiceAccepts(value, host)
    /\ Fetched("service", "portal", Nothing, value, Nothing, host)
    /\ UNCHANGED <<clock, minted>>

-----------------------------------------------------------------------------
(* fetchId of the cross-domain handler. *)

\* Mutant: the skew is allowed at the other end.
CDAFreshOtherEnd(value) ==
    /\ (clock \div 1000) - value.stamp =< 120 + 10
    /\ value.stamp =< clock \div 1000

\* parseCDACookie: 120 s old at most, and 10 s ahead.
CDAFresh(value) ==
    /\ (clock \div 1000) - value.stamp =< 120
    /\ value.stamp =< (clock \div 1000) + 10

\* A service token has its id where the time should be.
CDAAccepts(value) ==
    /\ value \in minted /\ value.kind = "cda"
    /\ CDAFresh(value)

\* The parameter of the URL first, the CDA cookie next.
FetchCDAUrl(url, jar, host) ==
    /\ CDAAccepts(url)
    /\ Fetched("cda", "url", url.id, url, jar, host)
    /\ UNCHANGED <<clock, minted>>

FetchCDAJar(url, jar, host) ==
    /\ ~CDAAccepts(url) /\ CDAAccepts(jar)
    /\ Fetched("cda", "jar", jar.id, url, jar, host)
    /\ UNCHANGED <<clock, minted>>

FetchCDANeither(url, jar, host, cookie) ==
    /\ ~CDAAccepts(url) /\ ~CDAAccepts(jar)
    /\ FetchedFromCookie("cda", cookie, url, jar, host)
    /\ UNCHANGED <<clock, minted>>

-----------------------------------------------------------------------------
(* fetchId of the OAuth2 handler, and the one they all extend. *)

\* An opaque token is the id; a JWT names it, or is of no use.
FetchBearer(bearer, host) ==
    /\ Fetched("bearer", IF bearer = Nothing THEN "portal" ELSE "bearer", bearer,
               Nothing, Nothing, host)
    /\ UNCHANGED <<clock, minted>>

FetchCookie(cookie, host) ==
    /\ FetchedFromCookie("main", cookie, Nothing, Nothing, host)
    /\ UNCHANGED <<clock, minted>>

-----------------------------------------------------------------------------

Jump ==
    /\ clock' \in Makings \cup {value.made + age : value \in minted, age \in Ages}
    /\ clock' > clock
    /\ fetched' = NoAnswer
    /\ UNCHANGED minted

TokenInit ==
    /\ clock \in Makings /\ \A t \in Makings : clock =< t
    /\ minted = {}
    /\ fetched = NoAnswer

\* What each class of handler does with a request that comes in.
FetchService ==
    \/ \E value \in Carried, host \in Vhosts :
          FetchServiceAccepted(value, host) \/ FetchServiceRefused(value, host)
    \/ \E cookie \in Cookie, host \in Vhosts : FetchCookie(cookie, host)

FetchCDA ==
    \E url \in Carried, jar \in Carried, host \in Vhosts :
        \/ FetchCDAUrl(url, jar, host)
        \/ FetchCDAJar(url, jar, host)
        \/ \E cookie \in Cookie : FetchCDANeither(url, jar, host, cookie)

FetchOAuth2 ==
    \/ \E bearer \in Sids \cup {Nothing}, host \in Vhosts : FetchBearer(bearer, host)
    \/ \E cookie \in Cookie, host \in Vhosts : FetchCookie(cookie, host)

\* Time and the makers of values.
Surroundings ==
    \/ \E kind \in {"service", "cda"}, id \in Sids, hosts \in SUBSET Vhosts, skew \in Skews :
          Mint(kind, id, hosts, skew)
    \/ Jump

TokenNext == FetchService \/ FetchCDA \/ FetchOAuth2 \/ Surroundings

TokenSpec == TokenInit /\ [][TokenNext]_tokenVars

-----------------------------------------------------------------------------
(* Properties. *)

\* Every variable has its type.
TokenTypeOK ==
    /\ clock \in Nat
    /\ minted \subseteq Value
    /\ fetched \in {NoAnswer} \cup Fetching

\* How old the value was, on the two clocks, when it came.
Age(value) == clock - value.made

\* A service token opens the virtual hosts it names for 30 s after it was made,
\* and no session but its own.  Both clocks being rounded differently, it may be
\* refused in the last of these seconds; a maker's clock that is ahead by a
\* millisecond may cost the token its first second, and by one second always does.
ServiceWindow ==
    LET value == fetched.value
    IN  fetched.by = "service" /\ value \in Value =>
          /\ fetched.from = "value" =>
               /\ fetched.host \in value.hosts /\ fetched.id = value.id
               /\ value.kind = "service" /\ Age(value) > -1000 /\ Age(value) =< 30000
          /\ fetched.from = "portal" =>
               \/ fetched.host \notin value.hosts
               \/ Age(value) > 29000 \/ Age(value) < 0

\* A cross-domain value opens its session and no other, for 120 s at least and
\* less than 121 s, from a clock that may be 10 s ahead but not 11: that of the
\* parameter, or of the CDA cookie if there is no such parameter; and the standard
\* cookie counts only if neither surely does.  What the handler itself puts in the
\* CDA cookie is never such a value, so a login lasts no longer than the parameter.
CDAWindow ==
    LET Opens(value) == value \in Value /\ value.kind = "cda"
        Surely(value) == Opens(value) /\ Age(value) >= -10000 /\ Age(value) =< 120000
        Maybe(value) == Opens(value) /\ Age(value) > -11000 /\ Age(value) < 121000
    IN  fetched.by = "cda" =>
          /\ fetched.from = "url" => Maybe(fetched.value) /\ fetched.id = fetched.value.id
          /\ fetched.from = "jar" => Maybe(fetched.jar) /\ fetched.id = fetched.jar.id
          /\ fetched.from # "url" => ~Surely(fetched.value)
          /\ fetched.from \in {"cookie", "portal"} => ~Surely(fetched.jar)
=============================================================================
