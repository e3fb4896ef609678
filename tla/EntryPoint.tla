----------------------------- MODULE EntryPoint -----------------------------
(***************************************************************************)
(* packages/handler/src/index.ts: init makes the one handler of a process, *)
(* of the class that its type names, and every request goes to it.  The    *)
(* classes differ in where they take the session id from: AuthBasic and    *)
(* Tokens say how, and this module which of the two a request meets.  The  *)
(* rules, which are the same in all of them, may use the cipher (Crypto).  *)
(***************************************************************************)
EXTENDS AuthBasic, Tokens, Crypto

CONSTANT Types    \* types that an application may ask for

VARIABLE class    \* the class of currentHandler, "none" before init

entryVars == <<class, vars, tokenVars, sealed>>

\* ServiceTokenST is the name under which DevOpsST is known.
KnownHandlers ==
    [Main |-> "Main", DevOps |-> "DevOps", ServiceToken |-> "ServiceToken",
     ServiceTokenST |-> "DevOpsST", OAuth2 |-> "OAuth2", AuthBasic |-> "AuthBasic",
     CDA |-> "CDA"]

\* Any other type is a package to import, of which the repository has none:
\* init is rejected, and no handler made.
StartHandler(type) ==
    /\ class = "none"
    /\ class' = IF type \in DOMAIN KnownHandlers THEN KnownHandlers[type] ELSE class
    /\ UNCHANGED <<vars, tokenVars, sealed>>

Cookies == \E cookie \in Cookie, host \in Vhosts : FetchCookie(cookie, host)

ServeBasic == class = "AuthBasic" /\ Next /\ UNCHANGED <<class, tokenVars, sealed>>

\* Without the configuration key cda the cross-domain handler is the main one.
ServeTokens ==
    /\ \/ class \in {"ServiceToken", "DevOpsST"} /\ (FetchService \/ Surroundings)
       \/ class = "OAuth2" /\ FetchOAuth2
       \/ class = "CDA" /\ (FetchCDA \/ Cookies \/ Surroundings)
       \/ class \in {"Main", "DevOps"} /\ Cookies
    /\ UNCHANGED <<class, vars, sealed>>

\* Bound: the rules of one class only are followed.
ServeRules == class = "Main" /\ CryptoNext /\ UNCHANGED <<class, vars, tokenVars>>

EntryInit == class = "none" /\ Init /\ TokenInit /\ CryptoInit

EntryNext ==
    \/ \E type \in Types : StartHandler(type)
    \/ ServeBasic
    \/ ServeTokens
    \/ ServeRules

EntrySpec ==
    /\ EntryInit /\ [][EntryNext]_entryVars
    /\ \A c \in Conns : WF_vars(Retrieve(c))
=============================================================================
