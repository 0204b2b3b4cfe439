# A verification development for pjabberd

pjabberd is an XMPP server in Python: one asynchronous main loop, thread pools
for the handlers that block on the database, and sqlite tables for users,
rosters and offline messages.  This directory holds TLA+ models of it, the TLC
configurations that check them, and proofs for the TLA+ proof system.  Paths of
the code are relative to `src/`; line numbers are those of the commit the models
were written from.

## 1. Inventory

### Parts, state and operations

| Part | Code | State | Operations |
|---|---|---|---|
| Handler chains | `pjs/events.py` (Message), `pjs/handlers/base.py`, `pjs/conf/` | `handlers`, `errorHandlers`, the running pair, `_gotException`, `_lastRetVal`, `_stopChain` | `process`, `_execLink`, `resume`, `setNextHandler` |
| Message queues | `pjs/queues.py`, `pjs/events.py` (Dispatcher) | `_processingQ`, `_runningMessages`, `resultQ` | `dispatch`, `pickupResults`, `_runMessages` |
| Main loop | `pjs/async/core.py` | `socket_map`, `func_map` | `poll`, `watch_function`, `funcCheck`, `loop` |
| Thread pools | `pjs/threadpool.py`, `pjs/handlers/base.py`, `pjabberd.py` | `requestsQueue`, `workRequests`, `resultsQueue` | `putRequest`, `poll`, `WorkerThread.run`, `notifyFunc` |
| Output buffers | `pjs/async/core.py` (dispatcher_with_send) | `out_buffer` | `send`, `initiate_send`, `handle_write` |
| Server-to-server link | `pjs/handlers/route.py`, `pjs/handlers/stream.py`, `pjs/server.py`, `pjs/connection.py` | `s2sConns`, `data['new-s2s-conn']` | `route-server`, `new-s2s-conn`, accept, `createLocalOutConnection` |
| Subscriptions | `pjs/handlers/presence.py`, `pjs/roster.py` | the subscription of a roster row | `c2s-subscription`, `s2s-subscription`, removal, `roster-push` |
| Roster storage | `pjs/roster.py`, `pjs/handlers/iq.py` | tables `roster`, `rostergroups`, `rostergroupitems` | `iq-roster-get`, `iq-roster-update`, `roster-push` |
| Presence | `pjs/handlers/presence.py` | `data['user']['active']`, `['lastPresence']`, `data['resources']` | `c2s-presence`, `s2s-presence`, `s2s-probe` |
| Messages | `pjs/handlers/message.py`, `pjs/handlers/presence.py` | table `offline` | `c2s-message`, `s2s-message`, the offline part of the initial presence |
| Phase lookup | `pjs/events.py` (dispatch), `pjs/conf/phases.py`, `pjs/utils.py` (PrioritizedDict) | none | `dispatch`, `reprioritize` |
| Parsers | `pjs/parsers.py` | `depth`, `stream`, `tree`, `_exception`, the expat parser | `feed`, `resetParser`, `resetStream`, `handle_start`, `handle_end` |
| Streams | `pjs/handlers/stream.py`, `pjs/connection.py` | `data['stream']`, `server.conns` | opening, features, `stream-end`, `cleanup-conn` |
| Authentication, binding | `pjs/handlers/auth.py`, `pjs/auth_mechanisms.py`, `pjs/handlers/iq.py` | `data['sasl']`, `data['user']`, `data['resources']` | SASL steps, iq-auth, `bindResource` |
| Formatting and access | `pjs/jid.py`, the rest of `pjs/utils.py`, `pjs/db.py`, `pjs/handlers/write.py`, `pjs/elementtree/` | none of their own | |

### How they interact

A connection parses input and calls `dispatch`, which looks up a *phase* (a list
of handlers and a list of error handlers) and makes a Message of it.  If a
message of the same connection is running, the new one is queued.  `process`
runs the handlers one by one in the main loop; a threaded handler is put on the
pool of its server and a check function is registered in `func_map`.  A worker
executes it, puts the result on `resultsQueue` and sends a byte on one *trigger*
connection to wake the main loop, which polls the pool, resumes the message, and
in the end puts its result on `resultQ` for `pickupResults`.

A stanza between two users of the same server makes two passes: the client's
message routes it with `route-server` on a connection the server has to itself,
and the S2S server dispatches what it reads there as a new message.  A client's
handlers and the handlers of that link therefore run at the same time, on the
same tables and dictionaries.

### What is hard here, and what makes each part correct

* *Chains* depend on what handlers return and raise, on the two lists staying
  paired, and on `resume` judging a thread by the type of a value.  Correct: the
  behaviour `docs/design.md` words, and a result for every message.
* *Queues and pools* are scanned while they change, by index or by key, and are
  shared by threads.  Correct: one message of a connection at a time, in order,
  none lost or run twice; the main loop is awake when something is finished.
* *Buffers* are read, sent and truncated in separate steps.  Correct: what is
  given to `send` goes out once, in order.
* *The link* is made by a worker while the main loop accepts it, and its table
  has no lock.  Correct: every stanza is delivered once, or is known to be lost.
* *Subscriptions* are two rows changed by read and write in separate
  transactions, with stanzas in between that a restart loses.  Correct: nobody
  gets what was not approved; two rows agree in the end.
* *Sessions* log in in a worker that replaces the parser the main loop feeds,
  bind resources in a worker or in the main loop, in tables without a lock, and
  end by the client's tag, by its socket or by an exception.  Correct: the input
  is handled once and in order in whatever chunks it comes; the table of
  resources and the connections agree; nothing of a client that has gone stays.
* *Phases* are looked up by patterns that overlap.  Correct: a stanza is handled
  in the most specific one.
* *Presence and offline messages* look at tables in a worker that the main loop
  or another worker changes.  Correct: no follower is left with an old presence,
  no message is sent twice or forgotten, and the end of a stream leaves nothing.

`PROJECT.json` lists these hazards at their lines, with the properties that
would catch each.

## 2. Modules

| Module | Models | Composed with |
|---|---|---|
| `HandlerChain` | the record of a Message, and what `process`, `_execLink` and `resume` do to it, as operators without state | used by the next two |
| `ChainedHandlers` | abstract: the chains as `docs/design.md` describes them | refined by `MessageChain` |
| `MessageChain` | one Message from `process` to its result | `HandlerChain`, `StockPhases` |
| `StockPhases` | the phases and handlers of `conf/`, with their patterns, priorities and the ways each handler can end | data for `PhaseLookup` |
| `PhaseLookup` | `dispatch`: which phase an event or element is handled in, and its Message to the end | extends `MessageChain` and `StockPhases` |
| `SerialConnections` | abstract: three counters per connection, "one at a time, in order, every one" (docstring of `queues.py`) | refined by `Engine` |
| `Engine` | main loop, message queues, watched functions, thread pools, trigger | `HandlerChain` |
| `EngineProofs`, `MessageChainProofs`, `SubscriptionsProofs`, `SessionProofs` | theorems about the module each is named for (section 4) | extends that module |
| `ConnectionProofs` | theorems about `S2SLink` and `SendBuffer` | extends both |
| `StorageProofs` | theorems about `OfflineMessages` and `RosterStore` | extends both |
| `PresenceProofs` | theorems about `Presence` and `Following` | extends `Following` |
| `SequenceLemmas` | lemmas on `ToSet`, `Reverse`, `Append`, `\o`, `Tail`, `SubSeq`, injective sequences, `SetToSeq` and `FlattenSeq`, which several of these proofs need, and induction over the natural numbers as a first-order lemma | extended by them |
| `SendBuffer` | `dispatcher_with_send`, cut where threads can switch | |
| `S2SLink` | `route-server`, `new-s2s-conn`, accept | |
| `Subscriptions` | the two subscription handlers, removal, push | |
| `RosterStore` | names and groups of the rosters, the views of the clients | |
| `OfflineMessages` | `s2s-message`, offline storage, sessions | |
| `Presence` | presence, probes, ends of streams | |
| `Following` | presence while subscriptions are answered, refused, cancelled or removed | extends `Presence` |
| `Parser` | `IncrStreamParser` as functions of a record: what a chunk does to it and which events it dispatches | instantiated by `Session` |
| `Session` | connections of clients from the accept to the clean-up: stream, SASL, iq-auth, binding, the ends | `Parser` |

How to read one of them beside the code:

* One action is what happens without another thread being able to interfere
  where that matters: a database transaction, a whole in-process handler, or one
  load or store where the state is shared without a lock.  A handler that reads
  in one transaction and writes in another is two actions, with what it read in
  its `job`.
* In `Engine`, the control of `poll` is the variable `pc`, and `cur` is the
  connection whose `process` is running; every other action of the main loop
  waits for `cur = None`, because `process` is called synchronously.  The
  workers have no such guard: they interleave with everything.
* In `Session`, `job[c].at` is the place inside a handler of connection `c`; the
  main loop does nothing else while it is inside of iq-bind (`MainBusy`), the
  workers of iq-auth have no such guard.  The last presence of a connection
  (`LastPresence`, `LastPresenceRaises`, `CleanUp`) goes through the resources of
  the account in a worker, while others bind and are cleaned up.  `split`, `raced`
  and `halted` record that a first tag was torn, that two connections of an
  account were inside of `bindResource` at once, and that a last presence raised
  and took `cleanup-conn` with it: the cases its properties except.  The
  configurations `SessionLimits` and, for the last, `PresenceLimits` show why.
* In `Following`, `granted` and `following` are the two sides of the rows that
  `Presence` reads, `asking` and `asked` are the requests pending in them (a user
  who cancels a request while the other follows keeps it, for the row "From +
  Pending Out" has no move: the "unsubscribed" that the other server answers of
  itself ends it), `known` are the users who have ever bound a resource, `changing[c]` is whom a handler of connection `c` is telling
  something, and `link` is the S2S handler.  `misled` and `crossed` are history:
  they record that an approval advertised a resource as something else than it
  had said, and that presence of two users crossed the end of their subscription,
  or that the user who approves one bound a resource too late for the approval to
  advertise it.  What the code promises holds up to these two, and
  `FollowingLimits` shows both.
* In `Parser`, a start tag is two symbols, so that a chunk can end inside of it.
  Expat is external: which handlers it calls, and what it refuses.
* The modules above the engine (`S2SLink` to `Session`) use what `Engine`
  establishes: the messages of one connection are handled one at a time and in
  order, those of different connections interleave, and a handler that was
  started comes to an end.
* A handler that raises ends its message where the stock phases have no error
  handler; `MessageChain` checks that this is what the chain does.
* Stanzas, JIDs and resources are values; what a handler computes is what the
  other parts can tell apart.  An outcome the environment decides (input, a full
  socket, a thread switch, a failed INSERT) is a choice.

Operators whose comment begins "Mutant of" are not part of the models: each is
one definition the way a plausible bug would have it, listed under "mutants" in
`PROJECT.json` with the property that notices.

## 3. Runs

Passing runs (states are distinct states; times are for two TLC workers).

| Run | Instance | Shows | States |
|---|---|---|---|
| `chain` (`PhaseLookup.cfg`) | all elements the stock patterns tell apart and one they do not know, all stock phases, all ways the stock handlers can end | `MostSpecific`: dispatch takes the most specific phase; `ImplementsDesign`: the chain refines `ChainedHandlers`; `ExceptionIffFailing`: a handler is handed an exception exactly while the chain is failing; `Finishes` | 645 |
| `engine_queues` | 2 connections, 2 workers, 1 pool, 2 messages each, a threaded and an in-process phase | `RunningAccounted`, `RequestsAccounted`, `InOrder`, `NoneOvertaken` in every interleaving | 250 thousand, 9 s |
| `engine_serial` | 2 connections, 1 worker, 2 messages each, with an error handler | `ImplementsSerial` with its liveness; `NoLostWakeup` where one worker uses the trigger | 250 thousand, 33 s |
| `send_buffer` | the main loop alone, 5 characters of one or two bytes, chunks of 2 | `OutInOrder`: nothing repeated or out of order, and nothing lost of one byte per character; `Drains` over partial, blocked and broken sends | 13 thousand |
| `subscriptions` | two users, one client each, 5 requests (3 when they overlap), one restart | `GrantedOnly` always; `Agreement` and `ViewCurrent` while requests do not overlap and nothing was restarted; `Settles` | 909 thousand, 42 s |
| `s2s_link` | two sources, two stanzas each, local and other domains, one foreign connection, one break | `StanzasAccounted`, `LostOnlyWhileConnecting`, `AllHandled` | 105 thousand, 8 s |
| `offline` | two clients of a user, 3 sessions, 3 messages, an INSERT that may fail | `NoDuplicates`, `NotYetSent`, `StoredInOrder`, `SentToClients` | 67 thousand, 12 s |
| `presence` | two resources of one user and one of another, following each other, 3 sessions, 2 presence stanzas | `NoneOutdated`, `GoneIsOffline`, `FollowersInformed`, `EndsCleanedUp` | 500 thousand, 95 s |
| `following` | one client each of two users, 2 sessions, 2 presence stanzas, 2 changes; one follows the other, who has asked | `FollowedShown`, `OverIsHidden` | 5 million, 110 s |
| `roster` | two clients of one user and one of another, 3 requests | `GroupsApart`; `ViewCurrent` for users whose requests do not overlap | 149 thousand, 5 s |
| `session` | two connections of one account asking for one resource: SASL digest with failures and a new stream, 4 stanzas; iq-auth without a new stream, 3 pipelined stanzas, the socket of the first may fail | `ParsedInOrder`, `Registered`, `FeaturesFit`, `EndsCleanedUp` for every division into chunks and every interleaving of the main loop and the workers | 995 thousand, 100 s |

The run that finds a violation, with the statement of the code it contradicts:

| Run | Property | What happens |
|---|---|---|
| `wakeup_race` | `NoLostWakeup` | two workers `send` on the trigger connection without a lock; the byte of one is overwritten (`core.py:523`, `534`) and the main loop sleeps on a finished request until the timeout of `select`; `connection.py:250` says the byte wakes it |

### Bounds, and why they are enough

* `MaxMsgs = 2` with two connections is the least that has a queued message of
  one connection, a message that overtakes it of the other, and a deletion in
  the middle of the scanned queue.  What the bound hides for longer queues is
  covered by the proofs, which have no bound.
* Two workers are the least that race for a queue and for the trigger.  One pool
  shared by both connections has more interference than a pool for each.
* `PhaseLookup`: one element for each combination of the attributes and children
  that some stock pattern mentions, and one that none mentions.
* `Session`: two connections are the least that conflict for a resource.  Four
  stanzas are a challenge, two answers and a bind, or a bind after a failed
  exchange; three on the other connection are a login, and a presence and a
  request that follow once it has a resource.  `InTurn` lets a client send those
  only then, so that of what it sends it is its closing tag, and the loss of its
  connection, that can reach the parser before, while and after a worker
  replaces it.  `MaxEnds = 1` queued end per connection is enough because a second
  one finds `closing` set, as it would after the first.  The socket that fails
  (`Failing`) is that of the connection with both restarts: a reset takes input
  from it at every point of its stream, which is why `ParsedInOrder` and
  `FeaturesFit` except a client whose network has failed.
* `SendBuffer`: chunks of 2 and 5 characters give full, partial and last chunks;
  the code's 512 differs by a constant only.
* `Subscriptions`: five requests are enough for a subscription in both
  directions (subscribe, subscribed, subscribe, subscribed) and one change
  after it; every state of `roster.Subscription` is reached.  `MaxRacing` bounds
  only the requests once they have overlapped.
* `S2SLink`: two sources are the least that connect at the same time; a second
  stanza of each finds what the first has left in the tables.
* `OfflineMessages`, `Presence`, `RosterStore`: three messages, sessions or
  requests give a second session that overlaps the first, a third after either,
  and an order among stored messages to preserve.
* `Following`: two sessions are one of each user; two changes are an answer and
  its withdrawal, or two users who part at the same time.  A third session, with
  a resource that ends and comes back or with two resources of one user (`Three`
  in `MCFollowing`), takes one presence stanza to be small enough: with it both
  invariants hold as well (`Pair` with two changes, 590 thousand states; `Three`
  with one change, 440 thousand).  The proofs have no such bound, and they found
  what these do not: an approval that is under way when its user binds another
  resource, the last case of `crossed`.
* Symmetry is used in `engine_queues` only, which checks invariants; the
  connections and the workers of the one pool are interchangeable there.
* Runs without deadlock checking are those of systems that may stop, because
  their clients may stop sending and the bounds run out.  The engine is checked
  for deadlock: `loop` never ends.

### Fairness

`Engine!Spec` has weak fairness of the main loop, as `loop` calls `poll` for
ever and `select` returns by its timeout at the latest, and of each worker, as
the operating system schedules threads and the handlers of the stock
configuration return.  `MessageChain` and the modules above the engine assume
that a handler that was started goes on, which is what `ImplementsSerial` and
`Finishes` say of the engine and of the chain.  `Session!Fairness` is weak
fairness of the main loop and of the workers together, not of each connection:
the one polls all sockets in turn, and the others finish what they have begun.  Nothing is assumed of clients, of
arrivals or of restarts, with two exceptions that are named where they are used:
in `OfflineMessages` a client that has bound a resource sends its presence
or leaves, and in `SendBuffer` the socket takes something again and again
(strong fairness of a `Take` of at least one byte), without which no buffer
drains.

### Further configurations

These are kept beside the runs; run them with `tlc -config X.cfg MC<module>`.
Where one lists several properties that do not hold, TLC stops at the first:
leave one of them in the file at a time.

| Configuration | Result | What it shows |
|---|---|---|
| `EngineResult` | `NoLostResult` violated | a queued message that finishes in-process after `pickupResults` leaves its result on `resultQ` until the timeout of `select` |
| `PhaseOrder` (`MCPhaseLookup`) | `MostSpecific` violated | without the order a 64-bit Python 2 gives the dictionary, unavailable presence is handled as a subscription: both phases have the same priority |
| `MessageChainLimits` | `FailsOnlyByRaising` violated | after an error handler that returns None, a threaded handler that returns None is resumed as failed, because `_lastRetVal` is still the exception; no stock phase has this shape |
| | `ImplementsDesign` violated | `setNextHandler` shifts the pairing of handlers with error handlers; no stock phase has this shape |
| `SendBufferLimits` | `OutInOrder` violated | two threads send at once: one sends again what the other has sent but not yet truncated |
| | `NothingLost` violated | `num_sent` counts bytes and indexes characters, and two threads lose what one of them wrote |
| `SubscriptionsLimits` | `Resynchronized` violated | after a restart that lost a stanza, an unsubscribe does not bring the rosters together: `c2s-subscription` has no move for it in the state "From + Pending Out" |
| | `OwnRosterOnly` violated | `updateContact` passes the parameters of its UPDATE in the wrong order and overwrites the row of another user |
| | `GrantedOnly` violated | the same mistake with users whose ids are states: two users that request each other at once reach the UPDATE, and the row of another becomes one of state "both" that nobody granted |
| `S2SLinkLimits` | `ReuseFindsConnection` violated | the accept makes the key in `s2sConns` before the outgoing connection is there |
| | `LocalOnlyForOurselves` violated | the address of an earlier stanza is used for a later one to another host |
| `OfflineRace` | `SavedUntilFetched` violated | the initial presence SELECTs and then DELETEs all offline messages of the user in another transaction; a message `s2s-message` stored in between is deleted unread |
| `RosterStore`, with `OwnRoster` in place of `GroupsApart` | `OwnRoster` violated | renaming a contact renames it in the rosters of all users |
| `PresenceLimits` | `CleanedUp` violated | `broadcastToOtherResources` iterates over a dictionary in a worker while the main loop changes it; Python raises, and in the chain of `stream-end` the exception takes `cleanup-conn` with it |
| | `EachHandlerHasItem` violated | with three resources of a user the broadcast schedules two handlers and keeps one item to route; the second handler raises, and with an ending stream its clean-up is skipped: no race is needed |
| | `RoutedAsAddressed` violated | the broadcast to other resources shares its stanza with the loop over the subscribers and goes out with the address of one of them |
| | `ActiveIsAvailable` violated | an "unavailable" from an inactive resource makes it active |
| `FollowingLimits` | `GoneAnyhow` violated | an approval advertises a resource as available that has sent no presence; its end is told to nobody, and the follower shows it online for ever |
| | `PartedAnyhow` violated | presence whose handler has read the subscribers before, an answer to a probe (which looks at no subscription), or a resource of a late session leaves a user online for one who may no longer see it |
| `SessionLive` | passes, 59 thousand states | `EndsHandled`: a client that has ended or left is cleaned up after in the end, under `Spec` |
| `SessionLimits` | `RegisteredAnyhow` violated | two connections of an account inside of `bindResource` at once get one name, or one of them replaces the table of the other; a second bind leaves an entry, a bind before the login has none |
| | `BoundAsAnswered` violated | the answer to a bind quotes the name that was asked for, not the one recorded |
| | `CleanedUpAnyhow` violated | after an exception in `recv` the socket is closed and no end of the stream is dispatched |
| | `ParsedAnyhow` violated | a client that does not restart its stream, and whose next tag comes in two chunks, loses the stanza |

## 4. Proofs

The theorems hold for every value of the constants that satisfies the modules'
assumptions.  The runs check the same statements on small instances; `Safety` is
`Init /\ [][Next]_vars`, and what a theorem says of `Spec` uses no fairness.

| Module | Theorem | Statement |
|---|---|---|
| `EngineProofs` | `TypeCorrect` | `Safety => []TypeOK` |
| | `RunningCorrect`, `RequestsCorrect`, `OvertakenCorrect`, `OrderCorrect` | `RunningAccounted`, `RequestsAccounted`, `NoneOvertaken`, `InOrder` |
| | `SerialCorrect` | `Safety => Serial!Safety`: the engine implements its abstract specification |
| | `WakeupCorrect` | `Safety /\ [][ByteKept]_vars => []NoLostWakeup` |
| `MessageChainProofs` | `NoStaleException`, `ThreadsFailByRaising` | `ExceptionIffFailing` and `FailsOnlyByRaising`, if error handlers answer |
| | `Refinement` | `Spec => ImplementsDesign`, if error handlers answer and the lists stay paired |
| `ConnectionProofs` | `TypeCorrect`, `NoneTwiceNoneForgotten` | `TypeOK`, `StanzasAccounted` of `S2SLink` |
| | `LostOnlyInTheGap` | `LostOnlyWhileConnecting` |
| | `BufferTyped`, `OutInOrderHolds` | the types of `SendBuffer`; `OutInOrder`, if only the main loop sends |
| `SubscriptionsProofs` | `TypeCorrect` | `TypeOK` |
| | `NothingMadeUp`, `RosterIsOwn` | `GrantedOnly` and `OwnRosterOnly`, if no user's key is 2 |
| | `RostersAgree`, `RosterShown` | `Agreement`, `ViewCurrent` |
| `StorageProofs` | `OfflineTypeCorrect`, `SentOnce`, `TableUnsent`, `InStoredOrder` | `OfflineTypeOK`, `NoDuplicates`, `NotYetSent`, `StoredInOrder` of `OfflineMessages` |
| | `TypeCorrect`, `ViewsCurrent`, `GroupsOwn` | `TypeOK`, `ViewCurrent`, `GroupsApart` of `RosterStore` |
| `PresenceProofs` | `NoneOutdatedHolds`, `GoneIsOfflineHolds`, `FollowersInformedHolds` | `NoneOutdated`, `GoneIsOffline`, `FollowersInformed` of `Presence` |
| | `FollowedShownHolds`, `OverIsHiddenHolds` | `FollowedShown`, `OverIsHidden` of `Following` |
| `SessionProofs` | `TypeCorrect` | `TypeOK` of `Session` |
| | `ParsedInOrderHolds`, `FeaturesFitHolds` | `ParsedInOrder`, `FeaturesFit` |
| | `RegisteredHolds`, `EndsCleanedUpHolds` | `Registered`, `EndsCleanedUp`, if clients bind in turn |

### Along which arguments

**Engine**, in three layers.

1. `IInv` is the conjunction of `TypeOK`, `RunningAccounted`,
   `RequestsAccounted` and three facts that make them inductive: `RunBound` (`l`
   is the length of the queue while it is scanned, so `_runMessages` indexes
   within it), `OwnRequests` (a request is on the queues of the pool of its
   connection, and a worker has one exactly while it is about to act on it) and
   `Watched` (the chain of a watched connection stands at a threaded handler, so
   `process` cannot run it on).  Neither accounting invariant is inductive alone:
   that a request is queued once depends on `func_map` having at most one entry
   for a running message, and that `resultQ` gets a message once depends on no
   watched handler having it.  The lemmas on `HandlerChain` (each operator maps a
   Message to a Message), on `Without` and on sequences carry the steps.
2. `OrderInv` is proved on top of it: `NoneOvertaken` outside the scan of the
   queue, `Scanned` inside it (every entry before `i` is behind a running
   message, which is what the deletion by index could break), `Counted` and
   `InOrder`.  With the first two, `dispatch` may run a message at once exactly
   when none of its connection is queued, and so `InOrder` is preserved.
3. `SerialCorrect` maps `retired` to `finished` and `running` to `started`, and
   shows for each action which step of `SerialConnections` it is: `Dispatch` is
   `Arrive` or `ArriveAndStart`, `RunQueued` is `Start`, `PickupResult` is
   `Finish`, and every other action is a stutter.

`NoLostWakeup` is not true of the engine as it is: the run `wakeup_race` loses a
byte.  `WakeupCorrect` says that this is the only way: as long as every `send` on
the trigger connection leaves it readable (`ByteKept`), the main loop does not
sleep on a finished request, with any number of workers and pools.  The invariant says that wherever an answer or a finished request
waits, the trigger is readable, a worker is about to make it so, or `funcCheck`
has still to look at that connection.

**Message chains.**  `NoStaleException` is about `resume`, which judges a thread
by the type of `_lastRetVal`: that variable is an exception exactly while the
chain is failing, or a thread runs that will overwrite it.  `Refinement` maps the
two lists of a Message to the list of pairs of `ChainedHandlers` (`Paired`).  An
iteration of `process` is a step of the design or a stutter; the case that
matters is `setNextHandler`, which puts handlers before the list of handlers and
nothing before that of the error handlers.  The pairs behind them shift unless
there are none: `ListsStayPaired` says that nothing is scheduled in a phase that
has error handlers, and never an error handler.  `ErrorHandlersAnswer` says that an error handler does
not return None.  Both are facts about a configuration; `StockConfiguration` in
`MCPhaseLookup` is an assumption that TLC evaluates for the stock one, and
`MessageChainLimits` shows what happens without each.

**Server-to-server link.**  The invariant divides the stanzas: each is in exactly
one of the places where one can be, the sockets that carry some were all made for
a stanza, and a connection that is being made has one source waiting for it.
That sockets never run out (`TypeOK`) is a pigeonhole: `made` is injective into
the stanzas (`MadeBounded`).  `LostOnlyInTheGap` has the hypotheses of the
property itself: no foreign connection, no broken socket.

**Subscriptions.**  `GrantedOnly` needs to know of every place where a state is on
its way: what a handler has read and will write, the stanzas between the rosters
and what has been approved (`Justified`).  The proof covers racing requests and
restarts.  Its hypothesis `NoSuchKey` is that no user's key in the table `jids` is 2, the
state that `updateContact` passes in place of a key when two requests race:
without it the row of another becomes one nobody granted, and
`SubscriptionsLimits` shows it.

`Agreement` and `ViewCurrent` say something of quiet states only; the invariant
that carries them (`Calm`) says what holds while a request is handled, as long as
requests do not overlap and nothing is restarted.  What a handler has read is then
what the row says (`Fresh`).  The two rosters say the same of a subscription,
unless a stanza about it is under way: in the handler of a client that has not sent
it yet, on the wire, in the link, or as the answer the link will give.  There is at
most one (`OncePerSubscriber`), and `Consistent` says by what the rosters then
differ: a "subscribe" on its way means that one side says "pending" and the other
"no", or that they agree already.  Each write turns agreement into such a
difference or such a difference into agreement (or into that of its answer).  The
removal of a contact is the one request that sends two stanzas and pushes after
it; they are about different subscriptions, and neither they nor their answers
bring the row back (`Parting`).  An unsubscribe that leaves the user's request
pending ("From + Pending Out", a missing move) is put right by the answer of the
other side, which is sent since that user is known to the server (`Known`): after
a restart neither holds, and `Resynchronized` is violated.  No key of a user
matters here: with one request at a time no row is there when it is added.

**Roster storage.**  `ViewCurrent` rests on what a handler of an undisturbed user
has yet to do: between its write and its push, what it will push is what is
stored.

**Offline messages.**  Each message is at one place for each client; what a
session has selected and not yet sent stands in the stored order and apart from
what was sent before (`SequenceLemmas` on reversal and injectivity).

**Presence.**  The three properties speak of a state in which all is quiet, and
are consequences of what holds on the way there.  `Due(d)` is what a follower
should show of `d`: its last recorded presence, or "unavailable" once it is
gone.  `NewsIsDue` says that the *last* stanza on the link that will tell `c`
about `d` tells what is due, or, if there is none, that `c` knows it (or nothing)
already; while `d` is between recording and routing, its list of items holds
the news for every follower instead (`Prepared`).  A probe's answer repeats what
is due at that moment and so never undoes it, although it may be on the link
behind older presence.  `NobodyForgotten` says that an active follower has been
told, will be told, or has a probe on the way for every recorded presence.
`InactiveIsGone` carries the end of a stream: a connection is forgotten without
a last presence only if its latest was "unavailable".  It is false after a
handler has raised, which is why two of the properties except that; `NewsIsDue`
for what is recorded is not, and so neither is `NoneOutdated`.

**Following.**  The same two questions, while the rows that say who is told
change.  The inductive invariant is that of the types and, until a handler has
raised, `Consistent`, which says of every place where news of a user can be what
it holds: the list of each handler of a client (`JobsStaged`), the link
(`LinkStaged`) and the wire (`WireAllowed`); that a resource that is gone is
inactive and has said so (`GoneWhenInactive`); and `Knowledge`, what a
client knows of a resource.  `Knowledge` has one part for each way in which a
client can be informed: it has not been told yet and will be, by the list of a handler,
the link or the wire (`NotYetTold`, `NewsArrives`), it is told of the end of a
subscription (`OverIsTold`), an approval on its way makes it know what its user
has said (`ApprovalsInform`), and a follower that is active has been told or has
a probe under way (`FollowersLearn`).  A handler that has still to look at a user's resources
is itself such a place.  Most steps only move news from one place to another, or
add some; `KnowledgeStep` is the lemma for those, and one lemma for each action
shows that it is such a step.  An approval whose user binds a resource after its
resources were looked at does break `FollowedShown`: the attempt to prove it
without that case of `crossed` failed there.

**Output buffer.**  What `send` was given and what went out are concatenations
of encodings.  `BufferInv` has the types and `Progress`: what has gone out, and
what is pending, of the text given to the buffer are a prefix and the rest of
it, up to the step that truncates the buffer, whose sent part stands in between
(`OutSoFar`).  The facts about concatenations of any length come from
`FlattenAppend` and `Induction` in `SequenceLemmas`.  The hypothesis
`Thread = {}`, that only the main loop sends on the connection, is the
exception in the property's own words: with a second thread `OutInOrder` is
false, as `SendBufferLimits` shows.

**Sessions**, in two layers.

1. `ParsedInOrder` speaks of what was handled; the invariant (`InputInv`, one for
   each connection) relates that to the places where input is between two steps:
   the network, the parser and the queue of messages.  Its parts are
   `InputFollowed` (the stanzas still to come are numbered on from those that were
   handled, and the parser is where the next symbol can be understood, unless
   the first tag after a reset was torn or expat has given up), `OneAtATime` (a
   client without a resource has one request under way), `Authenticating` (what is
   under way fits what the client knows of itself), `Headed` and `Restarted` (the
   first `<stream>` comes before all else, the second finds the parser of the
   first, and its answer waits or was given) and `Ended` (nothing comes after the
   end, and the end is still to be handled or was).  Where the parser is (`Fresh`,
   `Between`, `InTag`, `InBody`, `Torn`) decides what a symbol does to it; a lemma
   for each says so, and the lemmas `FedInStream`, `FedStanzaFirst`, `FedTorn`,
   `FedClosed` and `FedLost` lift this to a chunk of any length by `Induction`.
   One lemma for each action then shows that it keeps the invariant.
   `FeaturesFit` follows from `Restarted`.  That a worker replaces the parser the
   main loop feeds is the case the invariant is for: what the client sent before
   it was answered has been parsed by then, so only the first tag that comes after
   the reset can be affected.
2. `BindInv` is proved on top of it: `Entering` (who binds has logged in and had no
   resource, and is in `server.conns` until its end begins), `Noticed` (an end
   that has begun is followed by the clean-up) and, for each account of which no
   two connections have been inside of `bindResource` at once, `Tabled`: the
   entries lead to connections that fit them, those connections are found, the
   names made up so far are below the counter, and the one connection inside has
   chosen a name that is free (`BindsAlone`).  The last conjunct is what makes
   `Registered` inductive: between the look at the table and the write of it, other
   connections of the account may log in, end and be cleaned up, but none may bind.
   `CleanedUpBinds` shows that `CleanUpConnHandler` finds its entry and does not
   raise half-way, and `EndsCleanedUp` follows from `Noticed` and `Ended`.  It is
   not always reached: a last presence that raises before it leaves the connection
   where it is (`LeavingBinds`), and the property says so.

### Assumptions

Those of the modules say that connections, workers, users and clients are
different things, that a set that is enumerated is finite (`Source`, `User`,
`Client`), and that rows, phases and bounds have their types; TLC evaluates them
in the runs.  Those of single theorems are the ones named above: `ByteKept`,
`ErrorHandlersAnswer`, `ListsStayPaired`, `NoSuchKey`, `Thread = {}`
and `OneBindInTurn`.  `ByteKept`, `NoSuchKey`, `Thread = {}` and `OneBindInTurn`
are there because the code is wrong without them.  `OneBindInTurn` says that no
client sends a bind before it has logged in or a second one; it holds in the
configurations `Session` and `SessionLive`.  With the clients of `SessionLimits`,
for which it does not hold, TLC finds both `Registered` and `EndsCleanedUp`
violated: a bind before the login records a resource and raises, so the client
has a resource and no entry, and its clean-up raises too.

### Only model-checked, and why

* Liveness: `Finishes`, `Drains`, `Settles`, `AllHandled`, `SentToClients`,
  `EndsCleanedUp` of `Presence`, `EndsHandled`, and `ImplementsSerial` beyond its
  safety half.  Fairness and `ENABLED` are out of the prover's reach.
* `MostSpecific`: a statement about one finite table, the stock configuration.
  TLC evaluates all of it; there is nothing left to generalise.

Induction over data is done where it is needed with the lemma `Induction` of
`SequenceLemmas`, which is stated for a set of numbers and not for an operator:
the provers instantiate no theorem that takes an operator, and that is why those
of the standard library are not cited.

## 5. Not modelled

* Connections to other hosts: dialback and the S2S streams are unfinished in the
  code (`ServerInConnection`, `ServerOutConnection`).
* Passwords, digests and nonces (right or wrong is a choice), `iq-register`
  (inserts a user that no session of the model waits for), `iq-auth-get` and
  `iq-session` (only answer) and `abort` (no handler does anything).
* The trees of stanzas below their first tag, attributes, text and namespaces in
  the parser, the formatting of stanzas and JIDs, and the vendored ElementTree:
  they compute and keep no state the other parts share.
* `close-stream`: the handlers of authentication ask for it as the last handler
  after a policy violation, but no handler has that name, so `setLastHandler` does
  nothing and the connection stays open, as it does in `IQAuthSet`.
* A SASL message that cannot be decoded: the code refuses it without counting a
  failure.  The bad answers of `Session` are decoded and wrong.
* `LocalServerInConnection.handle_close`, and what a foreign server that leaves
  does to `s2sConns`: in `S2SLink` a connection breaks by an exception, and others
  are only seen to connect.
* Two steps are taken together where another module takes them apart, or where
  nothing checked tells them apart.  `AddContact` of `Subscriptions` is the look-up of
  `updateContact` and its INSERT (apart in `RosterStore`).  `OfflineMessages` and
  `Presence` deliver to the clients that have bound a resource, where `route-client`
  looks for a connection that has logged in under the address: they have no clients
  that have done the one and not the other.
* `poll2`, `dismissWorkers`, `wait` and blocking polls: pjabberd never calls
  them.  The exception paths of the check functions: the stock check functions
  do not raise.

## 6. Plan

Done, in this order: `HandlerChain`, `MessageChain` and `StockPhases`; `Engine`
with its proofs; `SendBuffer`; `Subscriptions`; `S2SLink`; `OfflineMessages`;
`Presence`; `RosterStore`; `Parser` and `Session`; `PhaseLookup`; `Following`.

Proofs, in this order: `Engine` (types, accounting, order, refinement, wake-up),
`MessageChain` (refinement of the design), `S2SLink`, `OfflineMessages`,
`Subscriptions` (types, `GrantedOnly`), `RosterStore`, `Presence`, `Subscriptions`
(`Agreement`, `ViewCurrent`), `Following`, `SendBuffer` (`OutInOrder`), `Session`
(types, `ParsedInOrder`, `FeaturesFit`, `Registered`, `EndsCleanedUp`).

Next:

1. What a roster push sends from a worker on the connections of other clients
   (`iq.py`), while the main loop writes to them: a composition of `Subscriptions`
   with one `SendBuffer` for each connection.
2. Dialback and the streams between servers, once the code has them.
