# TLA+ models of spotcontrol

spotcontrol is a Go library that controls Spotify Connect devices. This
directory holds specifications of its concurrent parts, the TLC
configurations that check them on small instances, and TLAPS proofs of what
holds for every size. The modules are written from the Go code; a definition's
place in the code is in `PROJECT.json` under `map`.

## 1. The system

| Part | State | Operations | Talks to | Hard part |
|---|---|---|---|---|
| **dealer** (`dealer/`) | WebSocket, stop flag, two stop channels, receiver lists, time of the last pong | Connect, Close, ReceiveMessage/ReceiveRequest, Reply; goroutines recvLoop and pingTicker | controller reads its unbuffered channels; login5 gives the token | reconnection starts a *new* recvLoop from the old one; stop flags read without a lock; replies after a reconnection |
| **mercury** (`mercury/`) | pending calls, subscriptions, sequence counter, stop channel | Do, Subscribe, Unsubscribe, Close; recvLoop | access point packets | copy-then-send of subscriptions, timeouts against late replies, slow subscribers |
| **access point** (`ap/`) | TCP connection and cipher, receiver channels, ping times | Connect, Send, Receive, Close; recvLoop, pongAckTicker | mercury, session; apresolve gives addresses | as the dealer, plus retried handshakes and a connection that is nil meanwhile |
| **login5** (`login5/`) | cached token and expiry under an RWMutex | Login, AccessToken(force), Username | spclient, dealer call its token function | read lock, renew, read again: other callers in between |
| **spclient** (`spclient/`) | none of its own | requests with back-off, PutConnectState (a second back-off outside), endpoints | login5, the controller | nested retries, what a 401 may and must repeat |
| **controller** (`controller/`) | cluster cache, connection id, event channels, metadata cache, volume timer | Start, RegisterDevice, Subscribe*, Set*, Close; two loops, fetch goroutines, the timer's goroutine | dealer, spclient | two writers of one cache, asynchronous fetches, a timer that fires while it is reset |
| **commands** (`controller/playback.go`, `transfer.go`, `playlist.go`, `volume.go`) | none of their own | Play, Pause, Next, Previous, Seek, SetShuffle, SetRepeat, SetVolume, AddToQueue, LoadTrack, PlayTrack, PlayPlaylist, TransferPlayback | cluster cache, spclient, the player behind it | two routes, each with retries, where an unanswered request may have been executed, or may be later |
| **session** (`session/session.go`) | the parts above, OAuth token under an RWMutex | NewSessionFromOptions, WebApiToken, ExportState, Close | all | set-up that fails half way, refresh by two callers with a rotating refresh token |
| **oauth2 callback** (`session/oauth2.go`) | HTTP server, code channel of capacity 1 | NewOAuth2Server, the callback | session, browser | cancellation against a callback, close of a channel somebody may send to |
| **apresolve** (`apresolve/`) | cached address lists with expiry; each address function its own list and index | Get*, FetchAll, the functions it returns | ap, dealer, spclient | the cache changes between lookup and read; the list runs out and its refill fails |
| **quick, state file** (`quick/connect.go`, `state.go`) | the JSON file | Connect, Close; LoadState, SaveState | session, controller | a crash in the middle of a save, a restart with what is left |
| cipher, framing, hashcash, DH, protobuf, ids, tools | – | – | – | pure functions |

Calls go downward: quick → session and controller → dealer, spclient → login5;
events go upward through channels: ap → mercury, dealer → controller → application.
What makes each part correct:

* dealer and access point: one reader per connection; a receiver channel is
  closed once and never sent to afterwards; no connection leaks; a broken
  connection is replaced or given up; Close ends everything.
* mercury: every call is released, none leaves an entry behind; no channel is
  used after it was closed; a slow subscriber holds nobody up.
* login5 and spclient: a retry after a 401 carries a newer token; a request
  ends; the lock of the token is always given back.
* controller: no event on a closed channel; every shown track is looked up; the
  dealer is not held up; a debounced volume is neither lost nor mixed up.
* commands: what is meant for a named device reaches no other; after SetRepeat the
  player has the mode, over whichever route and however often it was told; every
  command returns.
* session: an address function always has an address and gives every address of
  its list before it repeats one; concurrent refreshes end with the refresh token
  the server accepts; a device id and token once saved stay those of the file; an
  interactive login settles. A failed Connect should leave nothing open, and a
  restart a token that can be renewed: neither is so (section 5).

`PROJECT.json` lists the hazards of the code one by one, each with the
properties that would catch it.

## 2. Modules

| Module | Models | Composition |
|---|---|---|
| `ReceiverContract` | abstract: what the owner of receiver channels promises their readers | refined by `Dealer` and `Accesspoint` (`Contract == INSTANCE ReceiverContract WITH …`, `KeepsContract`) |
| `Dealer` | `dealer/dealer.go` | run through `MCDealer` |
| `DealerProofs` | theorems about `Dealer` | |
| `Accesspoint` | `ap/ap.go` except cipher and framing | run directly |
| `AccesspointProofs` | theorems about `Accesspoint` | |
| `Mercury` | `mercury/mercury.go` | run through `MCMercury` |
| `MercuryProofs` | theorems about `Mercury` | |
| `Login5` | `login5/login5.go` | |
| `Spclient` | `innerRequestWithToken`, `PutConnectState` | EXTENDS `Login5`, whose actions are its token function; run through `MCSpclient` |
| `Volume` | `controller/volume.go` | |
| `Controller` | `controller/controller.go`, `events.go` | EXTENDS `Volume`: the target comes from its cluster, Close stops the timer; run through `MCController` |
| `ControllerProofs` | theorems about `Volume` and `Controller` | |
| `SpclientProofs` | theorems about `Login5` and `Spclient` | |
| `Commands` | `controller/playback.go`, `transfer.go`, `playlist.go`, the immediate mode of `volume.go`, the request side of spclient's endpoints | the cluster cache and the connection id of `Controller` are two variables of its environment; run through `MCCommands` |
| `CommandsProofs` | theorems about `Commands` | |
| `Resolver` | `apresolve/resolve.go` | |
| `OAuth2Server` | `session/oauth2.go`, the waiting part of `connectInteractive` | |
| `WebApiToken` | the OAuth token of `session/session.go` | |
| `Session` | `quick/connect.go`, `session/session.go`, `state.go` | EXTENDS the three above: its steps of Connect call theirs, the rest of the program uses them while it is up; run through `MCSession` |
| `SessionProofs` | theorems about `Session` and the three modules it extends | |

State corresponds to code by name wherever Go allows it (`stop`, `conn`,
`pending`, `lastTrack`, …); each variable's comment gives the field. A
goroutine is a program counter (`pc[l]`, `at[c]`, `proc[l]`), whose values lie
between two points where another goroutine can come in: a lock, a channel
operation, a network call. One action is the code between two such points.
Operators that differ from a definition by one mistake (`…NoReset`,
`…KeepingOld`, …) stand before it; none is part of a specification, they serve to
see that a property fails when the code is changed in that way.

### What is abstracted

* Data: messages, clusters and packets are members of small sets; tokens are
  numbered in the order of their grant; protocol buffers, HTTP and JSON are left
  out, their failure is an alternative of the action.
* Time: a timer may fire when it is armed. The silence of a peer is counted in
  ticks up to the number that expires it.
* `d.stop` and `d.conn` are read without `connMu` in the code. They are
  modelled as atomic reads of the current value at the place of the read.
* Register needs a Connect before it, as the session and the controller call
  them. A Connect on an open connection of the dealer returns early and is not a
  step. The access point's Connect has no such return (ap.go:214-229); it is
  called until one of its callers is welcomed and not after, as the session does.
* The reader of a receiver channel may return for good at any moment, as the
  controller's loops and mercury do when they are closed (`Leaves`).
* A handshake of the access point is one step that succeeds or fails; a panic
  (mercury, access point) ends the program.
* Retry-After waits take no time.
* The values of Spotify-Connection-Id are left out; a connection id that the
  backend no longer knows is a refused request of `Commands`. `Volume` is the
  debounced mode; SetVolume's 32-bit product is modelled with its wrap-around,
  in two halves of 16 bits.
* `Commands`: Pause, Next, Previous, Seek and SetShuffle take the way of Play.
  A request is a step of the player when it is answered; one that was given up
  is lost, or stays in `late` and may be executed at any later time. `astray`
  and `disturbed` are histories. The tokens of the attempts are `Spclient`'s.
* `Session`: StatePath is set and DeviceId is not; a blob or a given token takes
  the same way as stored credentials. A list of addresses is its length and its
  addresses are their positions, so that two lists share as many as they can: the
  hardest case for a function that must not repeat one. `given` is the history of
  the addresses a function gave. Access tokens are numbered, and a refresh token
  has the number of the grant it came with; `lost` says that an answer which
  carried one never arrived. The token server is external: it rotates refresh
  tokens or does not, and refuses a replaced one. `ProcessEnds` is a crash at any step, the end of a
  program after an error, or ConnectResult.Close and a new start. The access
  point and the dealer are only open or not here; their modules have the rest.

## 3. Runs

| Run | Configuration | Question | Bounds |
|---|---|---|---|
| `dealer` | `MCDealer.cfg` | Types; `OneReader`, `NoSendOnClosed`, the contract as a refinement; `NoLeakedConnection` and `ReplyOnSameConnection` until a re-Connect; and under fairness `DropIsRepaired`, `StopSettles`. Close at any moment, re-Connect after it, readers that leave | 3 connections, 3 loops, one message and one request receiver |
| `dealer_close` | `MCDealerClose.cfg` | *violated*: `CloseTerminates` (dealer.go:180), by a reader that left | 2 connections, 2 loops, 1 receiver |
| `mercury` | `MCMercury.cfg` | `PendingExact`, `RegisteredIffOpen`, `SlowSubscriberNeverBlocks`, `CloseReleasesCallers` | 3 calls over a topic and a wildcard that covers it, 2 events, channel of 1 |
| `mercury_panic` | `MCMercuryPanic.cfg` | *violated*: `SafeForConcurrentUse` (mercury.go:51) | 2 calls |
| `requests` | `MCSpclient.cfg` | `RetryUsesNewerToken`, `ForcedIsFresh`, `RequestEnds` | 2 requests, one of them PutConnectState; every retry limit 1 |
| `accesspoint` | `MCAccesspoint.cfg` | `OneReader`, `NoSendOnClosed`, `NoLeakedConnection`, the contract, `DropIsRepaired`, `CloseSettles` (a Close of the connection that stays the current one ends everything), with readers that leave | 3 connections, 3 loops, 2 receivers, 2 attempts per connect |
| `accesspoint_close` | `MCAccesspointClose.cfg` | *violated*: `CloseTerminates` (ap.go:263), by a reconnection that overtakes Close | 2 connections, 2 loops, 1 receiver, 1 attempt per connect; readers stay |
| `accesspoint_ticker` | `MCAccesspointTicker.cfg` | *violated*: `TickerSurvives` (ap.go:427) | the code's 6 attempts |
| `controller` | `MCController.cfg` | `ListedIsOpen`, `ShownTrackIsFetched`, `SentAsAsked`, `OfferIsTaken`, `CloseEndsLoops`, `VolumeIsTaken` | 2 devices, 2 tracks, one channel of any kind, 2 messages or 2 volume calls or one of each |
| `commands` | `MCCommands.cfg` | `NamedDeviceOnly`, `RepeatAsAsked`, `CommandEnds`, with requests that are refused, lost, repeated or executed late, while the playback moves | one caller of any command, or two SetRepeat at the same time; 2 devices, 2 attempts per request, 2 late requests |
| `session` | `MCSession.cfg` | `AddressesInTurn`, `RefreshTokenAccepted`, `SavedIdentityKept`, `InteractiveSettles` | 3 starts, 2 callers of WebApiToken, 3 grants, lists of up to 2 addresses; dials and refreshes in separate behaviours, since they share no state, and forced calls and restarts under refresh only for a server that rotates |
| `controller_metadata` | `MCControllerMeta.cfg` | *violated*: `MetadataOfCurrentTrack` (events.go:407) | 3 messages, no volume call |

Four further configurations of `MCSession` each show one thing the session does not
give; TLC finds all four violated (`tlc -config MCSessionForced.cfg MCSession`):

| Configuration | Violated | By |
|---|---|---|
| `MCSessionOutage.cfg` | `DifferentAddress` (types.go:8) | failing lookups when the list is used up |
| `MCSessionForced.cfg` | `Renewable` (session.go:391) | a forced call that stores its old token over a renewed one |
| `MCSessionRestart.cfg` | `Renewable` (docs/authentication.md:271) | a restart that restores a refresh token the server has replaced |
| `MCSessionFailure.cfg` | `FailureLeavesNothingOpen` (session.go:70) | any error after the access point was dialled |

Every bound has a name: `MaxConns`, `MaxLoops`, `MaxReceivers`, `MaxAttempts`,
`MaxWire`, `MaxEvents`, `ChanCap`, `MaxSets`, `MaxOffers`, `MaxLate`, `MaxLen`,
`MaxGrants`, `MaxStarts`, and the retry limits, which are the code's constants. Every
safety property is also proved for any bounds (section 4), so that they matter for the
liveness properties. They are enough for this reason:

* *Three connections and loops*: the second loop is born of the first while
  that still runs, and the third is the first one whose parent is itself a
  child. For the safety properties of both connections the proofs remove the bound.
* *Three Mercury calls*: a subscription, another holder of the same topic or of
  a wildcard over it, and the Unsubscribe that closes it. Two events and a
  channel of one make a channel full and the next event find it so.
* *Two requests*: one has its token rejected or expired, the other renews it
  before, while or after. A retry limit of one lets each kind of retry happen,
  and each limit be reached; PutConnectState nests them.
* *Two messages of the dealer*: the answer to RegisterDevice and a push, whose
  stores and track tests interleave in every way. *Two volume calls*: one during
  the other's timer, firing or flush. One of each: the target is read from the
  cluster that arrives.
* *Two attempts and two late requests of a command*: SetRepeat's first command
  can be repeated and each of its requests overtaken by a later one; a third
  attempt finds the same state as the second. The proofs remove both bounds.
* *Three starts*: a session that saves, one that loads and is cut off in its
  save, and one that finds what is left. *Three grants*: the login, a refresh,
  and the refresh that shows whether the right token was stored. *Two
  addresses*: a first, a last, and a list that is longer or shorter than the next.
* Channel capacities (16 in the code) are 1: full, empty and in between are
  the cases that the code tells apart, and 1 has the first two.

Deadlock is checked for the dealer's runs. Mercury,
Spclient, Accesspoint, Controller, Commands and Session switch it off: their
goroutines end when the calls have returned, a panic has ended the program, Close
is through, or the application does nothing more.

### Fairness

* A goroutine that can run runs (weak fairness of each loop, call, ticker).
* A reader who was handed a message finishes with it, or leaves for good at any
  moment. What then waits for it for ever is a loop `Abandoned`; `DropIsRepaired`,
  `StopSettles` and `CloseSettles` except such a loop (and the crash that
  `accesspoint_ticker` finds), and `dealer_close` shows that it is stuck. Readers
  of the controller's event channels need not read: the code drops events for them.
* Timers fire; HTTP requests end (`session.go:119` gives the client 30 s, the
  controller's contexts 10 s); a dial ends one way or the other. Nothing is
  assumed of the peer: it may stay silent, and a handshake of the access point
  with a silent peer does not end of itself, the ticker ends it.
* `Session` assumes only that the goroutines of an interactive login run, not
  that the user, the servers or Connect do anything. A command's request is
  answered or given up: the HTTP client has its 30 s, the back-off its 90 s.
* Strong fairness is used twice. `TickStop`: a select with several ready cases
  picks at random, so a stop token that is there again and again is taken.
  `GetToken`: Go's RWMutex does not starve a reader or writer that waits, while
  other callers come and go.
* Runs of safety properties alone state no fairness, and the runs that show a liveness property
  violated state it, so that the counterexample is not merely a halt.

## 4. Proofs

`DealerProofs` is about `Dealer` with any number of connections, loops and
receivers, `Leaves` either way, from `DealerAssumption` alone.

* `TypeCorrect`: the type invariant; it is inductive.
* `OneReaderHolds`. "At most one active loop" is not inductive: nothing in it
  says that a loop about to start another one is the last. `Lineage` does:
  a loop exists only if every earlier one is past its last use of the socket,
  because only the holder of `connMu` starts a loop and then lets go.
* `NoSendOnClosedHolds` adds `ChannelInv` (what the sole loop may assume of
  channels at each of its places) and `StopInv` (channels close only after Close).
  `IInv == TypeOK /\ Lineage /\ ChannelInv /\ StopInv` is inductive
  (`SafetyInvariant`).
* `NoLeakedConnectionHolds`, `ReplyOnSameConnectionHolds`: with `SocketInv` (a
  loop dials only when the socket it had is closed, and holds the current one
  until then), until a re-Connect, as in both properties.
* `ImplementsContract`: Dealer's initial states and steps are those of
  `ReceiverContract`, or leave its variables alone.

`AccesspointProofs` takes the same way for `Accesspoint`, from
`AccesspointAssumption` alone, with two differences.

* A loop is born when the attempt of the holder of `connMu` succeeds, and that
  holder may be a caller of Connect. `LockInv` says which loop the attempt belongs
  to, and that this loop is between its lock and its unlock; `Lineage` needs it.
* `NoLeakedConnectionHolds` needs no restriction on the caller: init closes the
  connection before it forgets it, so a dial finds none (`SocketInv`).

`TypeCorrect`, `OneReaderHolds`, `NoSendOnClosedHolds` and `ImplementsContract` are as above.

`ControllerProofs` is about any devices, tracks, channels and bounds.

* `PercentReadsBack`: arithmetic of `ConnectVolume` and `ShownVolume` for 0..100.
* `ListedIsOpenHolds`: with the types of the two variables it is inductive.
* `ShownTrackIsFetchedHolds`: the property says nothing while a loop is busy;
  `TrackInv` adds that the unfetched track of the cache is then that of a loop
  which has its track test still before it, and that `lastTrack` was fetched.
* `SentAsAskedHolds`: `CommandInv` adds that the timer is armed only with a
  recorded command, and that every call's command is one asked for.
* `TypeCorrect`. The types bound the goroutines that fire, send and fetch, which no
  line of the code does. `CallInv` is the account that does: calls to come, calls before
  `volumeMu`, the armed timer, goroutines it started and sends under way are together
  no more than the calls of SetVolume, since each step turns one of them into at most one
  other. `MessageInv` is the same for the messages of the dealer: to come, held out,
  worked off by a loop, or become a fetch, for each track.

`SpclientProofs` is about any number of requests and any retry limits.

* `LockMeansLoginHolds`: the lock is held exactly by the caller inside Login.
* `ForcedIsFreshHolds`: `TokensGrow` adds what happens between the renewal and
  the read after it: what a caller has renewed is newer than what it knew.
* `RetryUsesNewerTokenHolds`: the property speaks of an attempt only when it has
  its token. `RejectionKept` carries the rejected token through the pause (by
  `force`) and through the token function (by `forced` and `known`).
* `TypeCorrect` needs `AuthBounded`: authRetries passes its limit only in a call
  that is over.

`CommandsProofs` is about any callers, devices, attempts and late requests.

* `NamedDeviceOnlyHolds`: a named device stays the target (`TargetIsNamed`).
* `RepeatAsAskedHolds`: `RepeatInv` adds that between its two commands the first
  one has taken effect. It holds because every request of one call says the
  same, so that another of its requests, early or late, changes nothing.

`MercuryProofs` is about any calls, topics, wildcards and channel sizes.

* `TypeCorrect`, `PendingExactHolds`, `RegisteredIffOpenHolds`: each is inductive with the
  types, since the table and the registry change under their locks together with the
  place of the call.
* `PanicNeedsUnsubscribe` says what the counterexample of `mercury_panic` depends on:
  as long as nobody unsubscribes, recvLoop does not panic, for any number of
  subscribers. `SubscriberInv` ties a subscription to the place of the call that made it
  and what recvLoop has copied to channels that were made; `OpenInv` is the
  invariant under the condition.
* `ClosedByItsUnsubscribeHolds` is an action property, stated beside its proof: a channel
  is closed by the Unsubscribe of its own URI only, not of a wildcard over it. A step
  that closes a channel finds it in the registry under the URI of the Unsubscribe;
  `RegisteredIffOpen` says that this is the URI it was made for.

`SessionProofs` is about any starts, grants, list lengths and any number of callers of
WebApiToken. `Session` composes four state machines, so the proof goes in two
stages. `ResolverOnly`, `ServerOnly` and `TokenOnly` show what a step of the whole is
for one part: one of its own moves (for the token also the step of Connect at which
it is made), what a new process does to it, or nothing. The invariants of a
part are then proved over its moves alone:

* `AddressesInTurnHolds`. The property speaks of the history `given` of what a function
  handed out, which only the steps that hand out an address extend. `TurnInv` ties it
  to the code's state: since the function took its list it gave the positions up to its index, each once, and a
  lookup is under way only when that is the whole list. `GiveFacts` is the one step
  that every address takes.
* `RefreshTokenAcceptedHolds`. The property has two halves. A renewed token that is about to be
  stored has the refresh token the server accepts, without exception: `TokenInv` adds that,
  if the server rotates, nobody else has it, neither the session nor another
  caller; so no second caller can renew before it is stored. Refresh tokens never run
  ahead of the grants, so a new grant's is nobody's yet. When nothing waits to be stored
  the session itself has the accepted token (`Renewable`), unless an answer got
  lost, a call was forced or a process restored a token from its file; the last two are
  shown to break it by `MCSessionForced.cfg` and `MCSessionRestart.cfg`.
  `UnforcedInv` says why the rest holds: unforced callers of the only process store
  renewed tokens only. `CallersWait` (no call
  while Connect runs) keeps Connect's two assignments of the token apart from callers.
* `SavedIdentityKeptHolds`. `FileInv` carries the identity through a crash: what is in a
  whole file is what was saved last, under an id that is set, and a
  running session has an id. A torn file has none, and Connect fails on it.
* `LoginNotStrandedHolds` is the safety part of `InteractiveSettles`: a login that waits has a
  server that listens or a cancellation that ends its wait, although the server's
  goroutine may take the code away or close the channel (oauth2.go:83-90); and a login that
  waits no more has told its server to stop. That both then go on is left to TLC.
* `SessionInvariant`, `TypeCorrect`: their conjunction, and the types of the parts.

Only model-checked: every liveness property, `SlowSubscriberNeverBlocks` among them
(liveness under fairness and ENABLED are out of the prover's reach), and the
properties that runs and further configurations show violated.

## 5. Where code and documents disagree

* **Close does not end a dealer whose readers left** (`dealer_close`):
  ConnectResult.Close (quick/connect.go:105) closes the controller first, whose loops
  return without draining their channels (controller.go:246, 407). A recvLoop
  that then sends a message (dealer.go:467), or waits for the answer to a request
  (dealer.go:527), is stuck and closes no receiver channel, against
  dealer.go:180. So it is for the access point, whose reader mercury is closed
  before it (session.go:310).
* **Close during a reconnection of the access point** (`accesspoint_close`): recvLoop tests
  `stop` without the lock (ap.go:373), and the reconnection that follows does not
  test it again and replaces both stop channels. Everything lives on after Close
  until the new connection breaks, the ticker longer, against ap.go:263 and
  docs/package-reference.md:604. The dealer has the same race (dealer.go:313), and
  there `connect` clears `stop` as well (dealer.go:126): with `Leaves = FALSE`,
  `MCDealerClose.cfg` shows that one.
* **Mercury panics** (`mercury_panic`): an Unsubscribe between handlePacket's
  copy and its sends closes a channel that is then sent to (mercury.go:402). Without an
  Unsubscribe it cannot happen (`PanicNeedsUnsubscribe`).
* **A long outage ends the program** (`accesspoint_ticker`): pongAckTicker calls
  Close on the connection that is nil while a reconnection dials (ap.go:429).
* **GetTrackMetadata returns another track's metadata** (`controller_metadata`):
  it is never cleared, and the last fetch to end wins (events.go:395).

Shown by the further configurations of section 3:

* **A forced call undoes a renewal** (`MCSessionForced.cfg`): types.go:13 says that a
  forced call obtains a new token "even if the current one hasn't expired", but
  the token source returns a valid token as it is (`SourceReuses`), and
  WebApiToken stores it (session.go:441) over one that another caller has renewed
  since. If the server has replaced the refresh token, no later refresh succeeds.
* **A restart restores a replaced refresh token** (`MCSessionRestart.cfg`): the state is
  saved once, at the end of Connect (quick/connect.go:271); a token renewed later is
  never saved (`Restores`), against docs/authentication.md:271 and types.go:29-30
  (no re-authentication).
* **The first address again and again** (`MCSessionOutage.cfg`): while lookups fail, a
  function whose list is used up gives its first address at each call
  (apresolve/resolve.go:185, `FirstAgain`), against types.go:8 "a different address
  … each time it is called".
* **A failed Connect leaks the access point** (`MCSessionFailure.cfg`): session.go:70
  "The caller is responsible for calling Close", but after an error there is no session to
  close, and the connection stays open (session.go:154, 158, 162, 166, 177, 183,
  187, 200). Only when `ctrl.Start` fails is the session closed
  (quick/connect.go:265), and even then a reconnection may overtake that Close.

Other divergences, met while modelling and not checked:

* ap.go:221 "If it's a login error, don't retry": connect wraps the error
  (ap.go:256), the type assertion at line 222 never matches, and a refused login
  is retried until the back-off ends (`TryAgain`).
* spclient.go:308 "max times we'll force a new token on 401": forceNewToken is
  never reset, so every attempt after a 401 forces a renewal (`Unauthorized`).
* types.go:8 also for a lookup that succeeds: a list that runs out within its hour
  is started again from its first address, the only one if it has one (`Refill`).
* oauth2.go:18-19 "receives exactly one value …, then the channel is closed": it is
  closed on cancellation only, and not when a code was still in it (`Drain`). The
  login does not notice: it leaves with the same cancellation (`InteractiveSettles`).
* docs/controller-guide.md:481 and :802: a volume whose connect-state request
  fails has no fallback, nor has the second command of SetRepeat (`AfterFailure`).
* docs/configuration.md:629: PlayTrack, PlayPlaylist and TransferPlayback try the
  connect-state route with UseWebApi as well (`TriesConnect`).
* A torn state file makes every later Connect fail until it is removed (`Load`).
* volume.go:17 gives the range of SetVolume's argument as 0–65535, while the
  argument is a percentage; from 32769 on the product wraps and the volume becomes
  0 (`Int32Product`).

## 6. Not modelled

* Of the controller, the values of connection ids and a RegisterDevice called by
  the application itself; device lists and player states are read from the cache
  or with one GET.
* The packet encoding of Mercury, the framing and the nonces of the cipher: bytes,
  under one lock each.
* Diffie-Hellman and hashcash: arithmetic out of reach of a model checker.
* Protocol buffers: generated code, nine tenths of the repository's Go lines.
* Metadata decoding, identifiers, device and platform tables, logging, the tools
  and examples: formatting, constants, sample programs.

## 7. Plan

Done, in this order: the dealer with its contract and proofs, mercury, login5
with spclient, the access point with the same contract, the controller with its
volume and proofs; then the commands and the session with resolver, callback
server, token and state file; then proofs of every safety property of the runs. Ahead:

1. Proofs: what a caller of Mercury is promised as an abstract specification that
   `Mercury` implements, and the same for a caller of WebApiToken.
2. `MercuryPacket`: part lengths modulo 2^16 and the empty last part, checked
   against a reference decoder.
3. Several senders on the access point, and the order of their nonces.
