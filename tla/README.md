# A formal model of node-lemonldap-ng-handler

This directory holds TLA+ specifications of the LemonLDAP::NG handler for
Node.js, the TLC configurations that check them on small instances, and proofs
for the TLA+ proof system (TLAPS). The code modelled is under `src/packages`;
paths below are relative to that directory. `PROJECT.json` maps every
definition to the lines it stands for.

Contents: [the system](#the-system), [conventions](#how-the-models-read),
[modules](#modules), [runs](#runs), [fairness](#fairness), [proofs](#proofs),
[findings](#findings), [limits](#what-is-not-modelled), [plan](#plan).

## The system

A *handler* sits in front of protected web applications. For each HTTP request
it looks for a session id (a cookie, or a hash of HTTP Basic credentials), gets
the session, applies the rules of the virtual host, adds headers and lets the
request through, or answers 403, 503 or a redirection to the *portal*. The
portal, which is another program, creates and deletes sessions in a store that
all handlers read, and publishes messages on a broker. The *manager*, another
program too, saves numbered configurations.

The process is single-threaded: what runs between two `await`s is atomic, and
the difficulties come from what other requests, other messages, other
processes and the clock do at an `await`.

| Component | State | Operations | Talks to |
|---|---|---|---|
| access control (`handler/src/handlerMain.ts`) | one *slot*: last session id, data and time; `sessionAcc`, `tsv` | `run`, `retrieveSession`, `grant`, `sendHeaders`, `forbidden`, `goToPortal`, `localUnlog` | session accessor; shares `tsv` with the loader |
| configuration load and broker set-up (`handler/src/init.ts`) | `tsv` (rules, headers, portal, cookie pattern, reader and writer of the broker), `sessionAcc`, `eventLoopInterval` | constructor, `reload`, `msgBrokerInit`, `startEventLoop`, `stopEventLoop`, `checkEvents`, `publishEvent` | configuration accessor, session accessor, broker |
| messages (`handler/src/msgActions.ts`) | none | `processMessage`: `reload`, `unlog`, `newSession`, `delSession`, `ping` | calls `reload` and `localUnlog` of the handler |
| HTTP Basic (`handler/src/handlerAuthBasic.ts`) | `pendingAuth`: credentials per session id | `fetchId`, `retrieveSession`, `createSession` | portal (REST) |
| DevOps (`handler/src/handlerDevOps*.ts`) | rules fetched per virtual host, and when | `loadVhostConfig`, `grant` | the application's `/rules.json` |
| OAuth2, service token, CDA (`handler/src/handlerOAuth2.ts`, `handlerServiceToken.ts`, `handlerCDA.ts`, `cda.ts`) | none | `fetchId`: checks of tokens, time windows and cookies | session accessor, crypto |
| session accessor (`session`) | memory cache (100 entries, 120 s), optional disk cache, `backend`, `ready` | `get`, `update`, `clearMemoryCache`, `clearLocalCache`, `clearAllMemoryCache`, `close` | one session backend |
| session backends (`session-*`) | a connection | `get`, `update` | file, SQL, Redis, REST or LDAP store |
| configuration accessor (`conf`) | the backend | `getConf`, `getLocalConf`, `saveConf` | one configuration backend |
| configuration backends (`conf-*`) | a connection | `available`, `lastCfg`, `load`, `store` | file, YAML, SQL, LDAP, MongoDB or REST store |
| message brokers (`message-broker-*`) | queues per channel, subscriptions, connection or poll timer | `publish`, `subscribe`, `getNextMessage`, `waitForNextMessage`, `close` | PostgreSQL, Redis, a web endpoint, or nothing |
| crypto, safelib, jwt, perl-dbi, logger | none | pure functions and logging | |

What is hard, and what makes each component correct:

* **Access control.** A session has up to four copies (store, memory cache,
  slot, calls on their way), and a second node has its own three. The portal
  deletes sessions behind the handler's back; the message about it may be late
  or lost. Correct: a user is let in on his own session only; a session
  outlives its lifetime or its deletion by a known time at most; `localUnlog`
  is final but for calls on their way; the unawaited write of `_lastSeen`
  does not set the clock of idleness back by more than the calls take; an active user is not taken for idle, but for the time in
  which word of his activity travels; each request is answered.
* **Configuration load.** `reload` changes `tsv` in place and may throw in the
  middle; loads overlap, because the interval does not wait for the check
  before. Correct: each load ends; a session accessor put in place gets its
  backend; one interval runs; it asks for the queue to which the reader in
  place has subscribed, whichever loads set the one and the other; messages of
  that reader are handled, once; a reload replaces the rules (it does not, see
  Findings).
* **HTTP Basic.** `pendingAuth` is shared by the requests with the same
  credentials, over two or three `await`s. Correct: credentials do not stay in
  memory; each request is answered; the portal is asked before good credentials are refused (it is not
  always, see Findings).
* **Brokers.** Lost connections, a subscribe refused or repeated, overlapping
  polls. Correct: a message is taken at most once, over a connection in the
  order of publication; one published after `subscribe` was resolved is taken,
  unless its connection or answer is lost.
* **Configuration stores.** Two writers, in-place writes, stores that ask again
  which number is the last. Correct: saves that do not get in each other's way
  leave every number one configuration; what is read is no older than the last
  save answered before; a save without `force` is not blind to those answered
  before it; the last configuration is the one with the largest number (with files it is not, see
  Findings).
* **Session accessor.** Two caches, one of them shared by the processes of a
  host, each set without waiting by whatever call comes back; handlers write
  what they read back to the store that the portal writes to. Correct: `get`
  resolves with nothing older than one cache and one call make it, however
  many copies of copies there are; a handler replaces what is in the store only
  soon after it got there.
* **DevOps.** The rules are asked of the application while a user waits.
  Correct: he is answered (he is not, see Findings).
* **Tokens, CDA, crypto.** Windows between two clocks, rounded differently, and
  a padding that is not the standard one. Correct: a value opens its own
  session in its window and, but for the rounding, all through it; what was
  encrypted comes back.

`PROJECT.json` lists under `hazards` every place in this code we know to be
hard to test, with the properties that watch it or the reason why none does.

## How the models read

One action is one JavaScript turn: the code from one `await` (or callback) to
the next, all it calls included. What happens at a backend, at the portal or at
the broker is an action of its own, so a call has the moments *sent*, *done
there* and *answered*. Data is reduced to what the properties distinguish:
sessions to their id and two times, rules to a yes or no, a configuration to
how far it lets a load go. Operators named with "Mutant" in their comment are
not used by the specifications: each is a plausible bug in the definition after
it, for which TLC does find the property of a run violated.

## Modules

### LimitedCache, Handler, SessionGate, MCHandler, HandlerProofs, IdleProofs

`LimitedCache` is the library `limited-cache` as `session/src/index.ts` uses
it: entries with an age, the lifetime tested on `get`, the eviction of any
other entries when the cache is full. The library is not part of the
repository; `CacheSet` allows any set of evicted entries that its policy could
choose.

`Handler` is `handlerMain.ts` over the session accessor and a store, on several
nodes. Variables: `store`; per node `mem` (`inMemoryCache`), `slot`
(`lastSessionId`, `lastSessionData`, `lastSessionTime`) and `events`
(`delSession` messages received); per connection `req`; `touches` (updates of
`_lastSeen` on their way); `now`; and `goneAt`, a record of deletions for the
properties.

| Action | Code |
|---|---|
| `ArriveWithoutSession`, `ArriveSkipped` | `run` without a cookie; an unprotected location, which clears the slot |
| `ArriveSlotHit` | `run` and `retrieveSession` up to the answer from the slot, the rules applied in the same turn |
| `ArriveMemHit`, `ArriveMiss` | the slot emptied, `Session.get` from the memory cache or on its way to the backend |
| `StoreRead`, `StoreFail` | the backend reads the session, or its call is rejected |
| `GetFound`, `GetMissing` | the answer: memory cache, tests of lifetime and idleness against the *arrival* time, `_lastSeen`, slot, rules (`Settle`, `Decide`) |
| `TouchApply`, `TouchAnswer`, `TouchRejected` | the unawaited `sessionAcc.update` at the backend, its answer (which caches the session again), its rejection |
| `Logout` | the portal deletes a session; any subset of the nodes receives the message |
| `CheckEvents` | the event loop takes a message and runs `localUnlog` |
| `Tick` | a second passes |

Facts of the code one may not expect, all in the model:

* `grant` that says no runs `localUnlog` through `forbidden`, so it empties the
  slot and the cache entry (`Decide`).
* The session in the memory cache, in the slot and in the hands of `update` is
  one object. The model copies it at `NeedsTouch`; the copies agree as long as
  `SeenInterval >= 2 * Latency` (60 s in the code against the time of a call).
* `session-dbi`'s `get` has no `catch`, and nobody awaits `sessionAcc.update`:
  a rejection there is unhandled and ends the process (Node.js 15 and later).
  `Crash` is that end and the start of a new process: caches empty, requests
  of the node lost. An update that had left may still reach the backend (an
  "orphan"), where it does the same as any other.
* With `session-file` and `session-redis` an update creates the session if it
  was deleted meanwhile; with `session-dbi` it does not; `session-rest` always
  refuses it (`UpdateCreates`, `TouchRejected`).
* Session ids are random and never used again: `Logout` removes a session for
  good.
* `Tick` does not pass while a backend call is `Latency` old. That bound is an
  assumption on the environment, not on the code, which sets no timeout.

`SessionGate` is the promise without caches, nodes or a store: a connection is
open, granted or neither, and a request may be admitted on a deleted session
only if it arrived before `Grace = Latency + MemTTL + InternalCacheTTL` was
over (about 135 s plus one call with the code's numbers). `Handler` implements it
under the mapping `gate <- [c |-> GateOf(req[c])]` (`GateSpec`).

`MCHandler` adds the symmetry set.

### Session, MCSession, SessionProofs

`Session` is the accessor of `session/src/index.ts` with both its caches, for
one session: several processes of a host, each with its `inMemoryCache`, over
one directory of `node-persist`, and a store. `Handler` has the accessor as the
handler builds it, without the cache on disk; here the cache on disk is there,
and the content of the session counts instead of its times. There is no clock:
entries and calls have an age.

| Variable | Code |
|---|---|
| `backend`, `store` | the type of the backend, and the content it holds |
| `stands`, `held` | for the properties: for how long it has held that; how long ago it held each content |
| `mem`, `disk`, `queue` | `inMemoryCache` per process; `localCache`; the writes that `node-persist` has queued |
| `calls` | per call: in `get` (reading the disk, asked, read), resolved, in `update` (sent, applied), or late: sent by a process that is no more |

`GetMemory`, `GetMissed`, `Found`, `NotFound`, `BackendReads`, `BackendRefuses`
and `Answered` are `get`; `Update` is the call that `retrieveSession` makes of
`update` in the turn in which `get` resolves, and `Keep` that it makes none;
`Apply`, `Updated`, `Rejected` and `Late` are what becomes of it. `WriteFile`
is the queue of `node-persist`. `ClearMemory`, `ClearLocalCache`, `Close` are the
functions of those names, `Crash` the end of a process, `PortalWrites` a change
or a deletion by the portal.

Facts of the code in the model: what the disk answers is not put in memory; an
update caches what the caller has, not what the store holds; redis answers
`null` for a session that is not there, which is cached (as an absence) and
ends in an exception of the caller; a failed update, or any with the REST
backend, ends the process, since nobody listens.

A session deleted from a database stays in the caches as long as a user is
active, because an update finds no row and fills the caches all the same:
`Recent` excuses it (`Current`). Two busy processes may exchange an old and a
new content for ever, each writing back what the other wrote before; each step
is soon after the last, and `StandsFirm` speaks of what has stood for longer.

The backend of files is left out here: `writeFile` empties a file before it
writes it, so two updates, or a crash, may leave a session nobody can read.

### Tokens, Crypto, EntryPoint, MCEntryPoint, EntryPointProofs

`Tokens` is where the handlers that are not the main one take the session id
from. `Mint` makes a value: a service token (`token` of `safelib`, called by a
rule) or a cross-domain value (made by the portal with `createCDACookie`, which
the handler exports and does not use), by a clock that is off by some skew.
`FetchServiceAccepted` and `FetchServiceRefused` are `fetchId` of
`handlerServiceToken.ts`; `FetchCDAUrl`, `FetchCDAJar` and `FetchCDANeither`
that of `handlerCDA.ts`, with `parseCDACookie`; `FetchBearer` that of
`handlerOAuth2.ts`, where an opaque token is the id and a JWT names it;
`FetchCookie` the one they extend. `Jump` moves the clock to a moment in which
some value has an age of the boundaries.

Facts of the code in the model: a token's second is truncated, and the handler
compares it with its clock in milliseconds; a service token that is refused is
not made up for by a cookie, a cross-domain value is; the cookie that
`sendHeaders` of `handlerCDA.ts` prepares for the next request holds the bare
session id (and `setCDACookie` does nothing), so `parseCDACookie` refuses it
(`Garbage`); the OAuth2 handler's second accessor is never made, because
nothing sets `tsv.oidcStorageModule`.

`Crypto` is the padding of `packages/crypto`: always at least one zero byte,
cut by `decrypt` at the first zero byte that is not the first byte, and one
character further. AES and SHA-256 are taken for what they promise.

`EntryPoint` is `handler/src/index.ts`: `init` chooses the class, and what the
process then does is `AuthBasic`'s next step, or those of `Tokens` that the class
has. It `EXTENDS` all three, and implements `AuthBasic` and `Tokens`
(theorems).

### DevOps

`DevOps` is `grant` and `loadVhostConfig` of `handlerDevOps.ts`: `default` and
`fresh` are `tsv.defaultCondition` and whether `tsv.lastVhostUpdate` is less than
600 s ago; a grant finds its rules at hand (`GrantCached`), has no URL to ask
(`GrantBadUrl`), or asks (`Load`) and is answered (`ResponseEnds`) or not
(`ConnectionFails`). A response that is an object without rules renews the time
and not the default condition, so a virtual host without one in the
configuration asks for ever. The rules of `RULES_URL` are kept under the name of
its host, not of the virtual host that asked. In the ES module build
`require` is not defined: the load is rejected at once and `grant` calls itself
for ever; the model is that of the CommonJS build.

### Reload, ReloadProofs

`Reload` is one process that loads its configuration at start and at each
`reload` message. Load 0 is `init`'s, load *m* that of message *m*. A load goes
through `asked` (the configuration accessor reads the last number, then the
configuration), `fetched`, one turn that applies it, `session` (waits for the
accessor's `ready`), `logger`, `broker` (waits for the broker's module),
`subscribing`, `done`; or `failed`.

| Variable | Code |
|---|---|
| `confs` | configurations saved by the manager; the last is `lastCfg()` |
| `acc`, `ready` | `sessionAcc`; the loads whose accessor has its backend |
| `rules` | per location, the configuration whose rule is tried first |
| `queueName`, `topic` | `tsv.eventQueueName`; the queue that each reader subscribed to |
| `reader`, `listening`, `queue` | `tsv.msgBrokerReader`; readers the broker knows; their queues |
| `loop`, `intervals`, `stopped` | `eventLoopInterval`; the intervals that really run; `stopEventLoop` called |

`ApplyConf` is what `reload` does in the turn after `getConf`: a
configuration's `throws` says whether that turn ends or throws before it makes
the session accessor (no portal, no storage), in the rules, or after them (a
header or the cookie's pattern does not compile). Of `tsv` the model has what
a later turn may meet in a state that another load left: the rules, the reader
and the name of its queue. The other fields are set within one turn and read
within one, and are not all replaced: `keyH`, `https`, `port` and `maintenance`
only if the configuration gives them, `safe` and the headers of a virtual host
only if it has some, `headerList` and `vhostAlias` only grow. `NameQueue` is
the turn in which the logger is there, `OpenBroker` the one in which the
broker's module is: between the two another load may change the name. `SessionReady` is the import of the session module, which a
failed load's accessor goes through too. `BrokerFails` is the fallback on
`NoBroker`, by whichever load; its package is taken to be installed. `CheckEvents` is the interval. `Die` is a
rejection nobody catches (`lastCfg` and `load` in `conf`, `sessionAcc.ready`,
the logger's, which `init.ts:293` catches and throws again);
it ends the behaviour, since a new process starts from `Init`.

### AuthBasic, AuthBasicProofs

`AuthBasic` is `handlerAuthBasic.ts`: `pending` is `pendingAuth`, reduced to
the connection whose request left its credentials and address there; a request
is in its first `lookup`, `creating` (at the portal) or in the lookup `again`.
The session id is a hash of the credentials, so one stands for the other; a
request may also bring such an id in a cookie, without credentials. The lookup
is one asynchronous step (its caches are `Handler`'s subject), and `Expire`
removes sessions at any time.

### ConfStore, MCConfStore, ConfStoreProofs

`ConfStore` is `getConf` and `saveConf` of `conf/src/index.ts` over the backends
that can save: files in JSON and YAML, and a database with a row per
configuration (`cdbi`) or a row per field (`rdbi`); and over those whose `store`
always rejects (`ReadOnly`): LDAP, MongoDB and the portal's REST server. The
backend, and whether the table has a primary key, are chosen in `Init`. `conf` is what the store
holds by number: a sequence of authors, one of which is a whole configuration;
the empty sequence is a file opened and not yet written, two elements are the
rows, or the text, of two saves that overlapped. `clash`, for the properties, has
the numbers that a save found another one in the way of (two saves are at them
at a time, or a database has a later one), and those whose file failed to be
written.

| Action | Code |
|---|---|
| `GetConf`, `GetLast`, `Load`, `LoadRejected` | `getConf`: `lastCfg`, then `load`, which may reject what it finds (`Loadable`) |
| `SaveConf`, `Stale`, `Number` | `saveConf` up to the call of `store`: with or without `force` and `cfgNumFixed`, for what `getConf` returned or for what was saved before |
| `Open`, `Write` | `FileConf.store`: `writeFile` empties the file and then writes it |
| `AskAgain`, `Replace`, `Insert` | `store` of the databases: `lastCfg` again, then an update (a deletion and insertions in one transaction for `rdbi`) or an insertion |
| `ManagerSaves` | another program saves where `store` rejects |
| `CallFails`, `StartOver` | a rejection, which neither `getConf` nor `saveConf` catches; the caller's next attempt |

Facts of the code in the model: a save of a stale configuration returns -1 from
a `then` callback, so its promise never settles (`Stale`); `rdbi` and
`ldap` read `cfgNum` as text, so for what they loaded `conf.cfgNum !== last`
always and a save without `force` is not made until one with it has put a
number in the place of the text (`NumberIsText`, `IsLast`, `Number`); two saves that
overlap take the same number; YAML accepts a half-written file (`Loadable`).
Files and LDAP sort their numbers with `Array.prototype.sort`, which compares
text, and MongoDB sorts by an `_id` that is text (`AsText`); `TextKey` is that
order for numbers of up to two digits.

### Channel, Broker, BrokerProofs

`Channel` is the promise of `getNextMessage`: what is taken was published, once,
and, if the channel is ordered, in the order of publication. `Broker` is the
object that `msgBrokerInit` makes for reading, of each of the three kinds, and
implements `Channel` with `ordered <- kind # "web"` (`ChannelSpec`).

| Variable | Code |
|---|---|
| `conn` | pg's `client` and `connected`, Redis' `subscriber`; whether the server sends it the channel's messages; whether its handler is registered |
| `wire` | messages the server has sent over it |
| `held`, `poll`, `polling` | messages the web server holds; the polls on their way; `pollTimer` |
| `call`, `subscribed` | where the call of `subscribe` is; `subscriptions` |
| `queue`, `taken` | `messageQueue`; what `getNextMessage` returned |
| `intact`, `due` | for the properties: no connection failed that the object does not mend; messages that have to be taken |

`Subscribe`, `Connected`, `ConnectFails`, `Listen`, `Confirm` and `ListenFails`
are `subscribe` with `ensureConnected`; `Receive` is the notification; `Drop`
and `Reconnect` are the connection's end and, for Redis, its return; `Poll`,
`Serve`, `Answer` and `PollFails` are one poll of the interval; `Close` and
`CloseWeb` are `close`, which the handler never calls but the interface has.

Facts of the code in the model: after a connection error pg's object hears
nothing more, because `subscriptions` still has the channel and a second
`subscribe` returns before `LISTEN` (its `reconnect` option is never used); a
Redis subscriber whose first `connect()` failed is kept without its handler of
messages; the queue is made anew when the subscription is confirmed, and what
came in the same packet is lost; polls that overlap change the order.

## Runs

Times are those of two workers on a small machine.

| Run | Shows | Size |
|---|---|---|
| `handler_stale` | `TypeOK`, `NoCrossSession`, `BoundedStaleness`, the refinement `GateSpec` and, with calls that fail, `EveryRequestAnswered` | 680 k states, 140 s |
| `handler_touch` | `SessionLifetime`, `LastSeenLoss`, `UnlogIsFinal` while backend calls fail and processes restart | 2.3 M states, 120 s |
| `handler_idle` | `NoFalseInactivity` across two nodes | 930 k states, 30 s |
| `session` | `TypeOK`, `Recent`, `StandsFirm` over three backends and both caches | 5.4 M states, 180 s |
| `reload` | `TypeOK`, `OneLoop`, `PolledIsSubscribed`, `NotTakenTwice`, `LoadsEnd`, `SessionsBack`, `MessagesHandled` | 206 k states, 55 s |
| `reload_rules` | violation of `RulesReloaded` (finding) | |
| `entry_point` | `TypeOK`, `PendingIsWaiting`, `Answered` of HTTP Basic, `ServiceWindow`, `CDAWindow`, `RoundTrip` | 260 k states, 60 s |
| `auth_twice` | violation of `AskedBeforeRefused` (finding) | |
| `devops` | violation of `RulesAnswer` (finding) | |
| `conf_store` | `TypeOK`, `LoneSavesAreWhole`, `FreshRead`, `NoBlindSave` over seven backends | 3.5 M states, 35 s |
| `conf_order` | violation of `NumericOrder` (finding) | |
| `broker` | `TypeOK`, `NoneForgotten`, the refinement `ChannelSpec`, `Heard` for three brokers | 72 k states, 13 s |

Why the bounds are enough:

* `handler_stale`: two connections and two ids make one user meet the other's
  slot and evict the other's entry from a cache of one. The slot's lifetime is
  2 so that it differs from the memory cache's and the call's (1). `Grace` is 4
  and the clock stops at 5: a session deleted at 1 or before may be asked for
  after its `Grace`, and later deletions only repeat this one. One node
  suffices, because nodes share only the store and the times are of one node's
  caches; lost messages are in. The file backend's calls may fail, which is
  what `EveryRequestAnswered` needs; no symmetry is used, since the run has a
  liveness property.
* `handler_touch` needs the idle timeout and one id; two connections of a node
  race an update with a deletion, and the clock reaches past the lifetime and
  the slot (`Timeout + InternalCacheTTL`). `handler_idle` has two nodes, because
  that is what makes a node's `_lastSeen` old; the clock reaches past timeout,
  cache and slot. Calls take no second in it (`Latency = 0`: what is asked in a
  second is answered in it, in any order); that they may is what the theorem
  adds, whose invariant TLC went through with two nodes and `Latency = 1` before
  it was proved. With one node, no idle second forgiven (`SeenInterval = 0`)
  and `Latency = 1`, TLC refutes the property with `MemTTL` or `MemTTL + Latency`
  in place of `Wavering`; that `4 * Latency` is the least is not claimed. With
  the code's numbers `Wavering` is 120 s and some, `IdleSlack` 74 s; the property
  says something of idle timeouts longer than both together. Without `Wavering`
  it is false as soon as a call takes a second: a user comes back just in time,
  is let in, and his next click reads the `_lastSeen` of before.
* `session`: two processes hand a content on to each other through the disk and
  the store, by two calls at a time, and two contents tell old from new. The
  disk's lifetime (2) differs from the memory's and a call's (1); ages are
  counted up to 5, past `Bound + Latency`, and behaviours are not bounded
  otherwise. One session is enough because nothing here mixes ids, which
  `handler_stale` covers.
* `reload`: the first load and two messages overlap in every way, two
  configurations tell old from new, and each may throw at any of three places
  and name either of two queues, or none. No property of this run is about
  rules, so it has no location; `reload_rules` has one. Deadlock is not an
  error: a process without a loop, or dead, is at rest.
* `entry_point`: for HTTP Basic three connections, since two share credentials
  while a third uses the id; good credentials, bad ones and an id of a cookie.
  For values: the stamps are of a full second and of the last millisecond of
  one, by clocks that are right, ahead (by less than a second, by the 10 s
  allowed, by more) and behind; the ages are both sides of every boundary. One
  value at a time: two are compared nowhere. Texts of up to five bytes around a
  block of two.
* `conf_store`: two callers overlap in every way, each as often as it likes,
  from one configuration to number 3; a save may begin while 3 is free, so two
  that overlap reach 4. A client that saves one configuration again and again
  under one number, unaware of the last, adds a row each time where the table
  has no key; no save begins when a number has three (`MaxRows` = 2), since a
  third row says nothing that the second does not. A third caller would only make a third author of the
  same number. Numbers stay below 10, where text and numbers sort alike;
  `conf_order` is what happens above.
* `broker`: four messages can be one in each place (taken, queued, travelling,
  held) at once; two polls overlap; three losses make a connection fail, come
  back and fail again.

The bounds on behaviours are the clock (`MaxTime`), `MaxConf`, `MaxNum`,
`MaxMsg`, `MaxDrop`, `MaxRows`, `MaxMinted`, `Makings` and `Ages`; theorems hold for every
value of them. In `Handler`, `seen` may start at 0 only without an idle timeout:
`_lastSeen` is then absent.

## Fairness

`Handler`: the backend call of each connection ends, by an answer or an error,
and Node.js runs a callback that is ready. Nothing is assumed of users, the
portal, the clock or the event loop. `Reload`: each step of a load that is
waited for ends, by success or failure; an accessor's import ends; an interval
that is set fires. Not assumed: that the manager saves or anybody publishes, or
that a process dies or is stopped. `AuthBasic`: the store and the portal answer
each request, be it by an error. `EntryPoint`: the same of
`AuthBasic`'s steps; nothing is assumed of `Tokens`. `DevOps`: what the process
can do it does, and a connection on which nothing is sent is not kept for ever.
`ConfStore` and `Session` have only safety properties and no fairness; deadlock
is checked. `Broker`: what travels arrives or is lost, an
interval that is set fires, and the event loop takes messages; not assumed:
that anybody subscribes, publishes or closes, or that Redis reconnects. The
code sets no timeout of its own, so these are assumptions on the clients of
databases and on `fetch`; without them nothing is promised.

## Proofs

`tlapm` checks every step. Theorems hold for all values of the constants that
the `ASSUME`s of the modules allow.

| Theorem | Says |
|---|---|
| `HandlerProofs!TypeCorrect` | `TypeOK` |
| `HandlerProofs!OwnInvariant`, `OwnSession`, `LifetimeEnds` | `NoCrossSession` and `SessionLifetime` for any number of nodes, users and sessions, any times, any backend |
| `HandlerProofs!DatedInvariant`, `StalenessBounded` | `BoundedStaleness`, if `TimeoutActivity = 0` |
| `HandlerProofs!ImplementsGate` | `Spec => GateSpec`, if `TimeoutActivity = 0` |
| `HandlerProofs!SeenLossBounded` | `LastSeenLoss` for every backend, with crashes and updates that outlive their process |
| `HandlerProofs!GoneInvariant`, `UnlogLasts` | `UnlogIsFinal`, if `~UpdateCreates`, with or without idle timeout |
| `IdleProofs!FoundedInvariant`, `InactivityIsReal` | `NoFalseInactivity` for any nodes, users, times and latency, if `BackendMayFail = FALSE` and the backend is not the REST server |
| `ReloadProofs!TypeCorrect`, `LoopIsOne` | `TypeOK`, `OneLoop` |
| `SessionProofs!AccessorTyped`, `ResolvesRecent`, `HandlersAreLate` | `TypeOK`, `Recent`, `StandsFirm` for any number of processes, calls and contents, any lifetimes and delays |
| `EntryPointProofs!ImplementsBasic`, `ImplementsTokens` | `EntrySpec => Spec` of `AuthBasic`, `EntrySpec => TokenSpec` |
| `EntryPointProofs!ServiceTokens`, `CrossDomainValues` | `ServiceWindow`, `CDAWindow` for any clocks, virtual hosts and number of values |
| `EntryPointProofs!TextsComeBack` | `RoundTrip` for any texts and size of block |
| `EntryPointProofs!EntryForgets` | `PendingIsWaiting` of a process of any class |
| `ReloadProofs!PollsWhatItSubscribed`, `MessagesTakenOnce` | `PolledIsSubscribed` and `NotTakenTwice` for any number of overlapping loads |
| `AuthBasicProofs!TypeCorrect`, `CredentialsForgotten` | `TypeOK`, `PendingIsWaiting` |
| `ConfStoreProofs!WholeUnlessClash` | `LoneSavesAreWhole` for every backend and any number of callers and configurations |
| `ConfStoreProofs!NumbersInvariant`, `TypeCorrect` | `TypeOK` for every backend |
| `ConfStoreProofs!FreshWhileSorted`, `NotBlindWhileSorted` | `Sorted => FreshRead` and `Sorted => NoBlindSave` for every backend; `Sorted` says that it orders numbers as numbers, or has none above 9 |
| `ConfStoreProofs!ReadsAreFresh`, `SavesAreNotBlind` | `FreshRead` and `NoBlindSave`, if `Kinds \subseteq Numeric`: the databases and the REST server |
| `BrokerProofs!TypeCorrect`, `ImplementsChannel`, `NothingForgotten` | `TypeOK`, `Spec => ChannelSpec` and `NoneForgotten` for any number of messages, polls and losses |

The arguments:

* *Own session.* `NoCrossSession` speaks of answers only, so the induction
  needs `Own`: what the store, a memory cache, a call or an update keeps under
  an id is a session of that id; the slot holds the session of its own id, and
  one that was not expired when it was put there. That last part gives
  `SessionLifetime`: the slot serves for less than `InternalCacheTTL`.
* *Bounded staleness.* `Dated` gives each copy of a deleted session the latest
  time it can have: a call left the store before the deletion and is at most
  `Latency` old, an entry of the memory cache is dated before
  `goneAt + Latency`, so a slot filled from it before `goneAt + Latency +
  MemTTL`, so a request it serves arrived before `goneAt + Grace`. With an idle
  timeout the update of `_lastSeen` dates the entry anew and the chain breaks:
  the theorem has `TimeoutActivity = 0` as its hypothesis, and the code indeed
  keeps a busy session on a node that missed the message.
* *Loss of `_lastSeen`.* `SeenInTime`: no stored `_lastSeen` is later than now,
  and an update carries the arrival of a request that was at most `Latency` old
  when the update left, and lands within `Latency` more. So it writes a time
  that is at most `2 * Latency` old, whichever update it overtook.
* *Unlog is final.* `UnlogIsFinal` says that being clear of a session (no copy
  in the caches, no call on its way) lasts. Each action keeps it: an arrival
  cannot hit a cache that has no copy; a read of the store brings nothing back,
  since a deleted session is not there (`Gone`, which needs `UpdateCreates` to
  be false: with the file and Redis backends it fails, with a database and the
  REST server it holds); an answer or an update
  for another session does not touch this one's entry, because copies are kept
  under their own id (`Own`); what is left of a dead process's updates has
  nobody to answer to.
* *Inactivity.* A refusal rests on one copy of `_lastSeen`, and what it misses
  may be anywhere: in the store, in another node's caches, in a request or an
  update under way. `Founded` therefore speaks of all values that any copy of a
  session shows (`Shown`), and of each place that holds a copy it says what the
  copy covers (`Covers`): every value shown, but those at most `2 * Latency`
  newer, and those that came about after the copy was read, give or take the
  calls on their way. The store covers what no update on its way carries
  (`Leaving`); a read covers what the store did; an entry of the cache what the
  read or the update that set it did. So a refusal (`RefusalFounded`) means that
  each value shown is out of date, or recent enough to have been overlooked; and
  a request that was let in (`GrantFounded`) shows a value of about its own time.
  The step lemmas treat the actions by kind (`StepKinds`): most forget copies,
  and only a request that meets a copy (`Meets`, `Leaves`) makes a new value,
  which it sends (`Renewed`). Without the last part nothing would hold: an update
  that is lost, in a crash, leaves the store behind what was granted. Hence the
  hypothesis that calls do not fail, and with the REST server every update
  does.
* *Refinement.* Each step maps to a step of `SessionGate` or leaves it
  unchanged; `Dated` is what makes `Admit`'s guard true. A crash maps to
  `TurnAway`.
* *One queue.* `LInv` adds to `PolledIsSubscribed` and `NotTakenTwice` that
  loads and messages are numbered alike (`Unasked`: a load without its message
  was not asked for), that a load past its first answer knows its configuration
  (`Numbered`), that a load which has not opened a reader receives nothing
  (`Closed`), and that the reader in place was opened by a load past that stage.
  A load that sets the queue's name waits for a module from then on, so that the
  property promises nothing until the last such load has opened its reader, with
  the name there is by then, or has fallen back. `NotTakenTwice` rests on the
  order of the turns: a reader put in place later has a queue that starts empty.
* *Recent contents.* `Dated` of `SessionProofs` dates every copy by `held`: an
  entry of a cache was in the store at most `Latency` before it was set, what a
  call read at most its age before, and what an update carries at most `Bound`
  before it was sent. The circle (a get resolves with an entry, the update it
  leads to makes a new one) closes because an update puts its content in the
  store before it puts it in the caches: `held` starts again at 0. Only where
  the store does not take it, in a database whose row is gone, does the
  circle stay open, hence `Current`. `StandsFirm` follows: what is written that
  the store does not hold was held at most `Bound + Latency` before, and `StoreRight`
  says that what stands in its place is no older than that.
* *Tokens.* `WInv` relates a value's stamp, in whole seconds, to the
  milliseconds in which it was made, and the answer to the request; the windows
  are then arithmetic.
* *Texts come back.* A plain text's first zero byte is the padding's; the proof
  is by positions, without induction.
* *HTTP Basic.* `PendingIsWaiting` is inductive with the types: an entry is made
  by a request that goes on to wait, and each way out of the wait removes it.
* *Fresh reads.* `CInv` says that the numbers in the store are `1..n` without
  a gap (`NoGap`) and `acked` is one of them. Whoever asks `lastCfg` gets one of
  them, so that the numbers it works with are in the store, or the next one:
  that is so in the order of text too, where the last of `1..n` is `n` or 9
  (`LatestAsTextOfInterval`), and gives the types. While numbers sort
  (`Sorted`) it is the largest, and none is ever taken out, so what a call is
  told is at least its `floor`. Once there are ten as text they do not sort any
  more, and never did if they do now; so `Sorted` may stand before the property
  and inside the invariant. It is needed: `conf_order` shows what comes after.
* *Whole numbers.* `LoneInv` has the three facts that `LoneSavesAreWhole` rests
  on, for the numbers that are not in `clash`: no two clients save one of them; each is
  one configuration but for the file that is being written; and whoever writes
  one of them either meets the file as it emptied it, or replaces, or inserts a
  number that is not there yet. The last holds because a database that answers
  a number smaller than the client's has none as large as that
  (`lastCfg` is the largest), and nobody else puts it there without a clash.
  `NoGap` makes each number up to the last one that is there.
* *The channel.* Over a connection `InOrder` says that what was taken is older
  than what is queued, and that than what travels; with polls `InOnePlace` says
  that a message is in one place, once, since the server forgets what it
  answers. Either makes `Channel`'s guard of `Take` true. `Linked` ties the
  connection to the call of `subscribe` (an intact object that has subscribed
  listens, with its handler registered), and with it `Owed` keeps every message
  that has to be taken in reach: the queue is only made anew while nothing is
  owed.

Only model-checked: all liveness (`EveryRequestAnswered`, `LoadsEnd`,
`SessionsBack`, `MessagesHandled`, `Answered`, `Heard`), which is out of this
prover's reach. Every safety property of a run that passes is the subject of a
theorem, for all values of the constants or under the hypotheses of the table,
each of which excludes what the code does not promise: with an idle timeout a
busy session outlives its deletion, the file and Redis backends make sessions
again, a lost update loses `_lastSeen`.

## Findings

1. `reload_rules`: a reload appends its rules behind those of the load before
   (`handler/src/init.ts:199`), and the first that matches is applied; the rules of a
   location that had one never change until the process restarts.
2. `auth_twice`: of two simultaneous first requests with the same good
   credentials, one is refused with a 401 and the portal is not asked for it
   (`handler/src/handlerAuthBasic.ts:105`).
3. `conf_order`: the files' numbers are sorted as text
   (`conf-file/src/index.ts:35`, `conf-yaml/src/index.ts:28`; likewise in
   `conf-ldap/src/index.ts:87`), so the tenth
   configuration is not the last; `CHANGELOG.md:70` lists this as fixed in 0.2.8.
4. `devops`: the request for the rules of a virtual host is ended in the
   callback of its own response (`handler/src/handlerDevOps.ts:162`), and so is the
   listener of its errors set: it is never sent, the server ends the
   connection, and the error ends the process. `handler/README.md:235` names the DevOps
   handler among those that can be used.

Shown by the models without a document that says otherwise: a read that left
the store before a deletion puts the session back in the caches that
`localUnlog` cleared (`handler/src/handlerMain.ts:231`; `UnlogIsFinal` says what
holds instead, and `BoundedStaleness` for how long); an idle timeout keeps a deleted session alive on a node that missed the message; the file and
Redis backends bring a deleted session back; a load that ends after
`stopEventLoop` starts the loop again; readers are never closed; a PostgreSQL
reader is deaf after its first lost connection; overlapping polls reorder
messages; overlapping saves take one number; the updates of two busy processes
may exchange an old and a new content of a session for ever; the cookie that the
cross-domain handler prepares is one it refuses.

## What is not modelled

* Rules, headers, URLs, cookies and responses as text; which rule matches.
* In `Handler`, attributes of a session other than its times; `Session` has
  them, as contents, without the times. Two users' sessions and the disk cache
  are not in one model.
* `node-persist` beyond its queue, its lifetime and its files: an error of the
  disk while reading leaves a `get` that never settles, because
  `session/src/index.ts:105` catches none.
* What the functions of `safelib` compute but for `token` and `encrypt`; the
  connection strings of `perl-dbi`; what a JWT says: no state, no order of
  events, parsing only.
* The second accessor of the OAuth2 handler, which is never made.
* The LDAP store of sessions, whose `get` never finds one
  (`session-ldap/src/index.ts:78-80` looks the content up under the content's
  own name).
* Connections, logging, parsing and ciphers: I/O or pure data.
* `FileConf.store` changes the umask of the whole process and restores it when
  the file is written; two stores that overlap leave it changed. File modes are
  not in the model.
* Two concurrent calls of `subscribe` on one object (the handler makes one), a
  web broker without a server URL, and the end of Redis' retries.
* How long a queue of messages grows: one message is taken per interval.
* In `Reload`: what of `tsv` is set in one turn and read in one (see there), the
  interval's length, the name of the status queue, the writer of the broker,
  `publishEvent`. A load that throws half-way leaves some of `tsv` new and some
  old, and none replaces all of it; no document says what is meant to be.

## Plan

Written: `LimitedCache`, `Handler`, `SessionGate` (the heart of the handler and
its promise), `Session`, `Reload`, `AuthBasic`, `Tokens`, `Crypto` and `EntryPoint`
over them, `DevOps`, `ConfStore`, `Channel` and `Broker`, each but `DevOps` (whose
property fails) with its proofs.

Next: the writer of the broker and `publishEvent` beside the reader.
