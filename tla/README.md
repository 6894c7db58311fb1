# Verification of the English learning platform

TLA+ specifications of the C++ client/server system in `src/`: a single-threaded
TCP server with an in-memory store, the client library, and the console and Qt
front ends built on it. TLC checks the specifications on small instances, TLAPS
proves the main theorems for all instances. Paths below are relative to `src/`.

## 1. Inventory

| Component | Where | State | Operations |
|---|---|---|---|
| Database | `src/db/Database.cpp` | `users_`, `sessions_`, `socketToUser_`, `feedbacks_`, `gameItems_` (maps), `lessons_` (constant), `dbMutex_` | createUser, authenticateUser, updateUserLevel/Score, createSession, removeSession, saveFeedback, addGameItem, readers |
| ClientHandler | `src/server/ClientHandler.cpp` | per connection: `authenticated_`, `username_`, copies `role_` and `level_`, time of the last activity | one handler per request type; the destructor removes the session |
| Server | `src/server/Server.cpp`, `main.cpp` | `running_`, listening socket, `clients_` (descriptor to handler), `clientsMutex_`, `pollFds_` | poll round: accept, read, process, hang-up, time-outs; `stop()` from the signal handler |
| Protocol | `src/protocol/Protocol.cpp`, `include/message_structs.hpp` | none that matters (the sequence number is never used) | serialize, deserialize, extractMessages, validateMessage |
| Network | `src/protocol/Network.cpp` | none | wrappers of the socket calls |
| Client | `src/client/Client.cpp` | `connected_`, socket, `receiveBuffer_`, `socketMutex_` | connect, disconnect, sendMessageSync and one wrapper per request |
| ConsoleClient | `src/client/ConsoleClient.cpp` | `running_`, `connected_`, `authenticated_`, `currentUser_` (a cached record) | the menus of guests, students, teachers and administrators, one or two calls per entry |
| MainWindow | `src/client/UI.cpp` | `authenticated_`, `currentUser_`; which buttons are enabled, the status label, the list of lessons, the heartbeat timer | one slot per button, the timer's slot |
| Parser, Logger, Utils | `src/utils/`, `include/common.hpp` | log file | payload parsers, configuration, logging |

**Interaction.** A front end calls Client; `sendMessageSync` writes one request
and polls a non-blocking socket until a message comes or 10 seconds pass. The
server's only thread polls all descriptors, reads what one `recv` returns,
extracts the complete messages and runs `ClientHandler::processMessage` for each
with `clientsMutex_` locked; the handler works on the Database singleton and its
answer is sent at once. Signals run `Server::stop()` on top of whatever the
thread was doing. Peers and the network act at any time.

**What is hard.**

- *Sessions*: the tables of the store, the fields of the handlers and the set of
  open connections tell the same story three times, over any order of
  logins, logouts, relogins and closings.
- *Copies*: a handler checks permissions and picks lessons by copies of role and
  level that it took at login.
- *Bytes*: TCP cuts the stream anywhere; payloads may hold the delimiters, and nothing is
  escaped: a name is split at a `'|'`, a text at its newlines, and a line of a text that
  reads as a message is carried out as one. What does not fit on a line of 8192 bytes is
  dropped without an answer.
- *Time-outs*: the client gives up after 10 s but the answer may still come; the
  server drops connections idle for 300 s while their next request is on its way. A full
  socket buffer cuts a response, or keeps a request from being sent.
- *Descriptors*: numbers are reused, and one poll result is worked off while
  handlers close descriptors.
- *Signals*: `stop()` takes two mutexes and changes the tables in the middle of a round.
- *Front ends*: flags and a copy of the user's record, changed by what calls return,
  against what the server believes; in the window also the buttons, which follow
  the label and not the flag.
- *Peers going away*: hang-ups, resets and SIGPIPE on both sides.

Correctness, per component: the store never loses an account, and level, score,
feedback and game items change only on behalf of those entitled (Database,
ClientHandler); sessions are those of the users logged in (ClientHandler);
descriptors and handlers match, events reach the right connection, everyone is
served, and a stop ends the process (Server); what is sent arrives, whole and in
order, if it can be carried at all (Protocol); answers are returned in order and, while
nothing is late or misread, a call returns its own answer or fails (Client); so long what a
front end shows is what the server would act on, and nobody logs in twice (front ends).

The complete list of hazards with their lines is in `PROJECT.json`.

## 2. Modules

| Module | Models | Runs |
|---|---|---|
| `Database` | the tables and their operations, as operators used by the handlers | through `ClientHandler` |
| `ClientHandler` | all request handlers, connecting and disconnecting | `handlers`, `solo_sessions`, `session_leak` |
| `Presence` | abstract: who is online on which connection | implemented by `ClientHandler` |
| `ClientHandler_proofs` | theorems about all its steps, about sessions and about `Presence` | TLAPS |
| `Server` | the Linux poll loop, mutex, signals, peers | `server_*` |
| `Protocol` | the wire format over byte strings, no state | through `Framing` |
| `Framing` | one direction of a connection as a byte stream | `client_framing`, `server_partial` |
| `Client` | the client library over its connections | through `Console`, `Window` |
| `Rpc` | abstract: remote procedure calls | implemented by `Client` |
| `Link` | `Client` and `ClientHandler` in one system: requests, answers, connections | through `Console`, `Window` |
| `Console` | the console front end on `Link` | `console`, `console_newlines` |
| `Window` | the Qt front end on `Link` | `window` |
| `Server_proofs` | theorems about the loop of `Server` | TLAPS |
| `Framing_proofs` | theorems about the wire format and the byte stream | TLAPS |
| `Client_proofs`, `Rpc_proofs` | lemmas about `Client` under any front end: the order of answers, and while all is orderly the refinement of `Rpc` | TLAPS |
| `Link_proofs` | the types of `Link` and what its steps do to the handlers, under any front end | TLAPS |
| `Console_proofs`, `Window_proofs` | theorems about the two front ends | TLAPS |

`MCClientHandler`, `MCServer`, `MCFraming`, `MCConsole` and `MCWindow` hold the constants of the small
instances. Definitions named as faults ("Fault for ...") are variants of an
action with one mistake; no specification uses them, they show that a property
can fail.

How the layers rest on each other: `Framing` justifies that `Client` and `Server`
deal in whole messages (and where they lose one); `Server` justifies that
`ClientHandler` is a sequence of whole handlers (one thread, `clientsMutex_` held)
and that the server in `Client` serves every connection that has data
(`RequestsServed`). `Link` runs the handlers of `ClientHandler` at the server's end of
`Client`; `Console` and `Window` are the users of both. In the other direction
they discharge what `ClientHandler` assumes of its clients: `ImplementsSolo` and
`LoginsAlone` say that its `SoloSpec` is what a front end makes the server see.

### ClientHandler and Database

The variables have the names of the members. A map is a function on the keys
present. A request is a type and the parsed fields; `<< >>` stands for each
payload that the parser of that request rejects, so every handler has its
malformed branch. `processMessage` is the switch; `RefuseGuest` is the test of
`authenticated_` with which all handlers but four begin. One handler is one step:
it runs from parsing to answer on the only thread. `response` is the last answer,
with its addressee, so that action properties can say on whose behalf a step was.
Passwords are hashed with `hashPassword`, a constant operator; the instances let
two passwords collide. `feedbacks_` keeps the authors and `gameItems_` counts.

`Disconnect` is the destructor: it runs when the peer leaves, at the time-out and
at the stop. `SoloSpec` is the same system restricted to clients that log in only
where nobody is logged in yet (`OneLogin`), which is how the menus of both front
ends behave while all is orderly; two users at two consoles are not kept from breaking it.

Each operation of the store has what it returns beside what it does (`createUserReturns`,
`getUserDataReturns`, ...), and a handler answers by that (`Report`), with DATABASE_ERROR
where the store refuses. As `saveFeedback` and `addGameItem` never refuse and no other
thread comes between two calls of a handler, these branches are dead in the program as well.

### Server

`pc` is the place in `run()` and the functions it calls; a step is the code
between two points where something else can get in. `locked` is `clientsMutex_`;
`Acquire` takes it before the stages with a `lock_guard`. `kernel` is the
descriptor table (lowest free number first), `peer` what each peer has done:
requests not yet received, hang-up (`fin`), reset (`rst`), idle beyond 300 s.
`events` and `polled` are the results of `poll()` and the connections they are
about, `todo` the entries still to be handled. `Signal` is SIGINT or SIGTERM at any
point: `stop()` returns if `running_` is false, waits for ever if the interrupted
code holds the mutex or is writing a log entry (`Logging`: `stop()` logs, and
`Logger::mutex_` is not recursive either), and otherwise closes and clears everything.
`Process` kills the process when `send()` meets EPIPE. `PollFails` is an error of `poll()` that
is no signal: the loop is left, and the destructor of `Server` runs `stop()` (`Exit`). A
connection whose socket stays blocking is closed in `Accept`.

### Protocol, Framing

Byte strings are sequences of characters. `Width` stands for 2^16 and is 3 in the
instances, so that a length that wraps is a few bytes long. The loop of
`extractMessages` is described by the newlines it stops at: `LineStart` and `Line` are the
text between one and the one before, `Completed` is the message this text holds, if it is
one, and `Remaining` is what follows the last newline. `Stoi` is a recursive function and no
RECURSIVE operator, so that theorems can be about it. `Framing` sends
messages of a set over `wire`; the receiver takes chunks of any size. `Keep` tells the two
receivers apart: the client appends to `receiveBuffer_`, the server has a local string.

### Client, Rpc

Calls are numbered in the order they are made. A response travels as two pieces,
so that a chunk can end inside one; a line put together from two connections is
dropped or taken for a message of no use (`garbled`). `Extract` yields the positions at
which messages end, so that the first message is the one at the least of them. A
response that does not fit the framing travels too, as pieces of call 0 that `Extract` drops. `results` holds
for each finished call the call whose response it returned; the program does not
know this number, as the wire's sequence field is always 0. The server's end
(`Serve`, `Misread`, `Drop`, `Lose`, `ServerClose`) is what `Server` does, seen from the
connections. `Misread` is a message that `extractMessages` finds inside a request, whose
lines it decodes one by one: it is carried out and answered like any other, under a negative
number that no call has. `SendFails` is the error return after `send()`; `Send` on a `broken`
connection is SIGPIPE. `Written` is what a non-blocking `send()` of the server takes of a response:
all of it or, when other bytes fill the buffer, less. In `Rpc` a call is invoked, carried out at most once, possibly after it
has failed, and returns its own answer or fails; a call without a connection is
refused and never carried out.

All of this may happen at any time. Two history variables record what has happened, so that
a property can say what it needs. `orderly`: no call gave up while its answer could still come,
no response was cut, no connection was served while an older one of this client was still open
at the server (the loop handles both in one round if they come in that order), and no part of a
request was carried out as a request. `lossless`: the server read every request whole that was
sent on a connection still open at the client. The first becomes false in `TimeOut`, `Serve` and
`Misread`, the second in `Lose` (as `server_partial` shows it may) and in `SendFails` for a full buffer.

### Link

`request` and `answer` give the numbers of `Client` a meaning: what a call asks
(a request of `ClientHandler` and whether it fits the framing: one line, 8192 bytes), and what it was
answered, as far as the wrappers look: the response type, role and level after a
login, the points after a submission. `LinkServe` is the whole way of a request at
the server, `processMessage` of its handler included; `LinkConnect` is `connect()` and
`accept()`; `LinkClose` removes the handler, whose destructor ends the session.
`Success` is the response type that each wrapper takes for success; every other
response, and every error, is a failure to it. `LinkMisread` is a request whose text holds a
message, which may be any in `Lines`, or whose header the server read in two parts, the second of
which can only be of an unknown type; `LinkDrop` is the rest of it, without an answer.
Whether a response fits is `FitsOf`: the content of a lesson is four lines and never does; the
items of a game and the feedback for a user are joined in one line and may have grown too long as
soon as there are any; the others are short.

The server's parsers split what people type at the `'|'` and take the blanks off, while the front
ends keep the name as typed. `NameRead`, `LoginRead` and `RegisterRead` say what is read of a
typed name and password: of the name `ann|secret` with the password `2` the login
of `ann` with `secret`, and the registration of `ann` as a teacher whatever role was chosen. The
properties compare the server with `NameRead` of what the front end shows.

### Console

`at` is the menu, a prompt between two calls, or the request of the call in progress
with the name or level it works on. Each menu entry is an action, up to its call;
`Continue` is the rest of the function when the call has returned. The guards of the
entries are the three-way test in `run()` and the switch of each menu. `disconnect` is
offered to guests only, so its own logout is unreachable. `Ask` is a call with a payload that
fits the framing or does not, which may also fail at once. Lines read in a loop (`submitExercise`,
`provideFeedback`) end in newlines and never fit; whatever else is typed freely may be too long.
The target of feedback is any name, with or without blanks, for such a request never fits.

### Window

A slot runs up to its call (`slot` holds the request) and goes on in `Finished`; the
event loop is blocked meanwhile. Message boxes run an event loop of their own, but they
are the last statement of each slot, so a timer that fires under one finds the
slot done. `authStatus` is what `updateAuthStatus` was last told: the label, the login,
register and logout buttons. `authenticated_` is the flag the other slots test. They part
at a disconnect. Widgets that enable a request are kept (`lessons`,
`sendMoveEnabled`); the others hold free text or show results.

## 3. Runs

Every property of a passing run has a fault (a variant of one mapped definition) under
which TLC finds it violated.

| Run | Instance | Shows |
|---|---|---|
| `handlers` | 2 sockets, 3 accounts, `HandlerRequests`; 0.77 M states | `TypeOK`; `RolesCoherent`: the copy of the role that permissions are checked with is the account's, after any logins and relogins on the connection; `FeedbackFromStaff`, `GameItemsByAdmin`: what the permissions protect was written by those who have them; `OwnProgressOnly`: accounts change only by requests of connections logged in as them, scores never go down |
| `solo_sessions` | the same with `SoloSpec`, `SoloRequests` (every request of the student's menu, malformed ones too); 0.24 M states | `SessionsLive`, `SessionsComplete`: sessions, their index and the logins are one relation; `LevelsCoherent`: the level lessons are picked by is the account's; `ImplementsPresence` |
| `session_leak` | `Spec`, `SessionRequests` | violated: `SessionsLive` without the restriction to one login |
| `server_safety` | 3 connections, 2 descriptors, resets, failing calls, 1 signal; 7.8 M states | `TypeOK`; `FdsMatchClients`: open descriptors and handlers match; `EventsCurrent`: no event of a `poll()` result is applied to a connection that took over a descriptor number later |
| `server_live` | 2 connections, 2 descriptors, up to 2 requests waiting, 1 signal; no resets, `FairSpec`; 0.20 M states | `RequestsServed`, `IdleDropped`, `HangUpNoticed`, `ConnectionsAccepted`: everybody's turn comes, whatever the others do; `StopEndsProcess` |
| `server_hung` | 1 signal | violated: `NeverHung` |
| `server_sigpipe` | resets | violated: `SurvivesPeers` |
| `client_framing` | `Keep`, every payload of up to 3 bytes over delimiter, newline, carriage return and digit, two messages; 0.15 M states | `TypeOK`; `NoLoss`: the result does not depend on how the stream is cut; `RoundTrip`: what arrives is what was sent, if and only if the payloads fit the framing |
| `server_partial` | `~Keep`, framable payloads | violated: `NoLoss` |
| `console` | every menu entry, 4 calls, 3 after a mishap, 1 connection, 1 message inside a text or header, all mishaps; `FairSpec`; 0.50 M states | in all behaviours `TypeOK`; `AnswersInOrder`: none is returned twice, out of order, or before its call; `LoginAgrees`: a login that returns its own answer has logged in that name, with that role; `CallsReturn`: every call comes back. While all is `orderly`: `ImplementsRpc`: calls return their own answers and are carried out once at most. While all is `orderly` and `lossless`: `MenuMatchesServer`: the menu is that of the user and role the server would act for; `DashboardCurrent`: the level and score shown are the store's, also after a closed connection; `ImplementsSolo`: the server sees logins only where nobody is logged in; `ReturnsAnswers`: a call on an open connection returns its answer, if request and response fit the framing |
| `console_newlines` | 3 calls, 1 connection | violated: `ExercisesAnswered` |
| `window` | every slot, 3 calls, 2 connections, all mishaps but messages inside requests; 1.8 M states | in all behaviours `TypeOK`; `AnswersInOrder`; `FromThisConnection`: bytes kept over a reconnect answer nothing. While all is `orderly`: `LabelMatchesServer`: the label names the user the server would act for, whatever `authenticated_` is left at; `LoginsAlone`: nobody logs in twice |

**What the violations say** (quotes of the lines they contradict are with the
findings in `PROJECT.json`):

- `session_leak`: `createSession` overwrites the user's entry, and a login on a
  connection that is logged in does not remove the first user's session. The entry
  then outlives logout and closing. The restriction `OneLogin` is exactly what is
  missing: under it everything about sessions is proved.
- `server_hung`: the signal handler calls `stop()`, which logs and locks `clientsMutex_`.
  If the signal arrives while the interrupted code holds that mutex, or is itself writing a log
  entry, the thread waits for itself.
- `server_sigpipe`: `send()` on a connection whose peer has reset it raises SIGPIPE;
  neither program ignores it or passes MSG_NOSIGNAL, so the process ends before the
  error branch behind `send()` is reached.
- `server_partial`: `handleClientData` has a local buffer, so a message that two
  `recv()` calls return in parts is lost.
- `console_newlines`: the console ends each line of an exercise with a newline, also
  the only one, so the request never fits on one line; the server drops its parts and
  the student is told of a failure after ten seconds. Feedback of teachers meets the same
  end, and so does the content of a lesson on its way to the client. So does whatever else
  is typed in more than 8192 bytes, and the answer to a game start or a request for feedback once
  the items, or the entries, have grown beyond that. `ReturnsAnswers` says that all other calls are
  answered.

More divergences are in the models without a run of their own. A signal between
the installation of the handler and `running_ = true` is dropped (`Signal` at stage
`start`; `StopEndsProcess` excepts it). The client does not notice the end of the
connection (`TimeOut` leaves `connected_` as it is; `ReturnsAnswers` excepts connections
the server has closed). The client process, too, can end by SIGPIPE (`Send` on a
`broken` connection). And after a time-out the late response answers the next call,
whose own goes to the one after that: a late LOGIN_SUCCESS can log in another name.
A line of an exercise that reads as a logout logs the connection out behind the menu, and its
answer is taken for the exercise's; a login among the lines makes the handler another user's. A lost
logout leaves the console's guest logged in at the server. So the properties that compare a front end
with the server are stated for runs that are `orderly`, those of the console also for `lossless` ones;
`AnswersInOrder` says how far answers can shift, `FromThisConnection` and `LoginAgrees` what
is right whatever happened.

## 4. Bounds

- *Handlers*: two sockets are enough for two connections with one user, for a
  connection with two users in turn, and for every mixture of both, which is what the
  tables relate; three accounts have the three roles. One password hash collides with
  another. `MaxScore`, `MaxFeedback`, `MaxItems` allow one step of each kind: the
  properties compare a state with the next one and do not count. The requests are
  split over two runs: `handlers` has relogins and writes of every kind
  but levels, `solo_sessions` all other requests. The proofs have none of these bounds.
- *Server*: two descriptors and three connections make `accept()` fail and let a
  number be used again within one poll result, the case `EventsCurrent` is about. One
  request waiting per peer suffices for safety; `server_live` has two, so that a
  busy peer always has data. A second signal returns at once from `stop()`.
- *Framing*: `Width` = 3 makes the largest length 2 and lets a length of 3 wrap to
  0, as 65536 does; `MaxMessageSize` = 2 lies below it, as 8192 does. Three payload
  bytes hold each delimiter at every position. `BufferSize` = 5 is less than one
  message, so that a message may take several reads. Payloads that hold a complete
  encoded message need more bytes and are outside the instance; they are not framable.
- *Console*: four calls are to register, to log in, and two more: a menu entry that asks twice, two
  submissions whose points add up, a logout and the next login. After a mishap (`orderly` or
  `lossless` is false) a call begins only as the third or earlier one (`MaxLate`), for the run's time:
  that is a late answer passed on twice. In a second connection the console starts again with what the
  first one left in `receiveBuffer_` and in the store: the window's run has two, and the theorems any
  number. One user registers in any role; the name is typed with a blank that the
  server takes off, or with the password in it. One message inside a text is a login as
  somebody else, which is the worst case for `LoginAgrees`; in a header it is of an unknown type; a
  second one would differ from the first only in its number.
- *Window*: a late response shifts the answers of the calls after it, so three calls are
  enough for it to be passed on, caught up with, or left behind by a reconnect.
  Two connections are enough for what an old one leaves behind: buffer, flag and session. One
  account is typed with a blank and the password in the name. Messages inside requests
  (`MaxStrays`) are 0 in this run, for time: they end the orderly part of a run, which
  `LabelMatchesServer` and `LoginsAlone` are about, and `AnswersInOrder` is checked with them in the
  console's run. The theorems, that of `FromThisConnection` too, have none of these bounds.
- *Server, liveness*: without resets, which take its run past the five minutes allowed; with two
  descriptors for two connections `accept()` never runs out.

## 5. Fairness

- `Server`: weak fairness of `MainStep`, the main thread. It is one thread on its
  own; `poll()` returns after one second at the latest, no other call in the
  loop blocks but the mutex, and only `stop()` on the same thread competes for
  that. Peers and signals have no fairness: nobody needs to send, hang up or
  interrupt.
- `Console`: weak fairness of `Receive`, and of `GiveUp` where no answer can come any more: the
  receive loop sleeps 10 ms and reads the clock; of `Handle`, for TCP delivers what was sent on a live connection
  and the server's loop serves it (`RequestsServed`); and of `HangUp`, for it notices
  connections that the client has closed (`HangUpNoticed`). The user, closings by the
  server, resets, losses and misreadings have none.

## 6. Proofs

All theorems hold for every value of the constants that satisfies the named
assumptions. The properties of the front ends name their own conditions (section 3); the
theorems add none. K marks those of the byte stream that
assume `Keep`, the receiver of `Client`: without it `NoLoss` is false (`server_partial`).

| Module | Theorem | States |
|---|---|---|
| `ClientHandler_proofs` | `TypeCorrect` | `Spec => []TypeOK` |
| | `RolesStayCoherent` | `Spec => []RolesCoherent` |
| | `FeedbackAuthorship` | `Spec => []FeedbackFromStaff` |
| | `ProgressOwnership` | `Spec => OwnProgressOnly` |
| | `GameItemsAuthorship` | `Spec => GameItemsByAdmin` |
| | `NoSessionLeaks` | `SoloSpec => []SessionsLive` |
| | `SessionsCoverLogins` | `SoloSpec => []SessionsComplete` |
| | `LevelsStayCoherent` | `SoloSpec => []LevelsCoherent` |
| | `PresenceImplemented` | `SoloSpec => ImplementsPresence` |
| `Server_proofs` | `TypeCorrect` | `Spec => []TypeOK` |
| | `NoDescriptorLeaks` | `Spec => []FdsMatchClients` |
| | `EventsStayCurrent` | `Spec => []EventsCurrent` |
| `Framing_proofs` | `FramingTypes` | `Spec => []TypeOK`, for both receivers |
| | `KeepsAll` (K) | `Spec => []NoLoss` |
| | `RoundTrips` (K) | `Spec => []RoundTrip` |
| | `ArrivesInOrder` (K) | `Spec => []InOrder`: while every payload fits the framing, what has arrived is a prefix of what was sent |
| `Window_proofs` | `WindowTypeCorrect` | `Spec => []TypeOK` |
| | `WindowAnswersInOrder` | `Spec => []AnswersInOrder` |
| | `WindowFromThisConnection` | `Spec => []FromThisConnection` |
| | `WindowCallsRemotely` | `Spec => ImplementsRpc` |
| | `WindowLabelMatches` | `Spec => []LabelMatchesServer` |
| | `WindowLogsInAlone` | `Spec => LoginsAlone` |
| `Console_proofs` | `ConsoleTypeCorrect` | `Spec => []TypeOK` |
| | `ConsoleAnswersInOrder` | `Spec => []AnswersInOrder` |
| | `ConsoleCallsRemotely` | `Spec => ImplementsRpc` |
| | `ConsoleMenuMatches` | `Spec => []MenuMatchesServer` |
| | `ConsoleDashboardCurrent` | `Spec => []DashboardCurrent` |
| | `ConsoleReturnsAnswers` | `Spec => ReturnsAnswers` |
| | `ConsoleLogsInAlone` | `Spec => ImplementsSolo` |

*Assumptions*: `UsernamesAssumption` and `PasswordsAssumption` (the built-in accounts
and their passwords are among the names and passwords, `""` is no user, hashes are
hashes), `RequestsAssumption` (requests are what the parsers yield),
`BoundsAssumption` of `ClientHandler` and of `Server` (the bounds are numbers),
`FdsAssumption` (descriptors are numbers), `ClientAssumption`
(`MaxCalls`, `MaxLate`, `MaxConns` and `MaxStrays` are numbers), `WidthAssumption` and
`FramingAssumption` (the range of a header field is larger than the largest payload, as 65536
is than 8192; the bounds are numbers), `OutgoingAssumption` (what is sent was made by the
constructor of `Message`, its type fits the field and is not `UNKNOWN`; the payload is any
sequence over `Chars`), `AccountsAssumption`
(what the parsers read of a typed name and password, if they do not reject it, is a name and a
password, the same name in a login as `NameRead` says) and
`HandlerAssumption` of `Link`: the assumptions of `ClientHandler` again, which its
instance there needs, and that `Requests` has everything people with these accounts can
ask for (`Askable`). TLC evaluates each in the runs of its module.

### Handlers and sessions

*The first invariant* is `Inv == TypeOK /\ RolesCoherent /\ FeedbackFromStaff`. None
but the first is inductive alone. A permission is
checked on the handler's copy of the role, so that only permitted accounts write
feedback needs `RolesCoherent`; and `RolesCoherent` needs the types, to know that a login's account exists and that
accounts keep their role. There is one lemma per handler; `RequestCases` splits
`processMessage`, and the handlers that only answer share `QuietPreserves`. The
two action properties follow from `Inv` and one case per handler that writes.

*The second* is `SoloInv == Inv /\ SessionsLive /\ SessionsComplete /\ LevelsCoherent`.
`createSession` is harmless only if neither the socket nor the user has an
entry yet: `OneLogin` says so of the logins, and `SessionsLive` and `SessionsComplete`
carry it over to the tables. `LevelsCoherent` needs that no other handler is
logged in as the same user, which `SessionsComplete` gives (both would
be in the one entry of that user). `SoloRequestCases` reduces each
request to one of four kinds of steps, and the refinement maps those to `Login`,
`Logout` or a stutter of `Presence`.

### The server's loop

`Inv` of `Server_proofs` adds two facts to the three properties. `StageOK`: the stages
that work on a descriptor have one in hand, and the descriptor that `accept()` just
returned is not in `clients_` yet, so that `stop()` does not close it. `PolledAreClients`:
between the building of `pollFds_` and `accept()`, as long as the listening socket is open, no
client goes, so that the number `accept()` returns (the lowest free one) is in no
entry of this poll result. That is what keeps an event from reaching the connection that takes
over a number; `EventsCurrent` alone is not inductive, for nothing in it keeps a
number with a pending entry from being free at `accept()`.

### The byte stream

`KeepInv` is `TypeOK`, `NoLoss` and `WholeLines`: what was sent and what is yet to be extracted end at line ends (`IsCut`), so
that whatever is sent next begins a line. `NoLoss` alone is not inductive, for a message sent behind
half a line would complete that one. The proof rests on two lemmas about `Extracted`. Of a stream that
is cut at a line end it is the concatenation of the parts' (`ExtractedCut`), which is the step of
`Send`. Wherever a chunk ends, it is what the chunk yields followed by what the remaining bytes
yield with the rest of the stream behind them (`ExtractedJoin`), which is the step of `Receive`.

`RoundTrip` adds what one message yields. `SentOne`: if its payload fits, itself, for
`deserialize` finds the three delimiters, `Stoi` reads the same numbers from the header that
`Decimal` wrote (`StoiDecimal`) and the checked length did not wrap. For the converse: what is
extracted has no newline in its payload and is not too long (`Whole`), so that a stream whose
messages come back has only such; one of them that does not fit ends in a `'\r'`, which the receiver
takes off, so that the length is wrong and the message dropped. `AllArrive` and `FewerArrive` carry
the two halves over to the stream.

These facts are by induction on the length of a string or the number of digits. The induction
theorems of the library cannot be instantiated by the provers at hand, so `AllNumbers` proves the
principle once, for a set instead of a predicate, from the least number missing; each use
defines the set of the numbers for which its claim is true. That the recursive functions
`Decimal`, `value` of `Stoi` and the fold in `FlattenSeq` satisfy their equations is proved the
same way, from the functions on the initial parts.

### Client and Rpc

`OrderInv` holds under any front end and any delays. What will be returned must
already be in order while it travels: the responses on their way (`ResponsesOrdered`), behind
them the requests (`RequestsOrdered`), are in the order of the calls, later than
everything returned, and of this connection (`MayAnswer`); and what is left in
`receiveBuffer_` holds no newline (`QueuesOK`), so that a rest of an old connection only
spoils a line of the new one. `PollKeepsOrder` and its lemmas are about the positions of the
newlines in buffer and chunk. `WindowAnswersInOrder` and `WindowFromThisConnection` need
nothing else.

`PromptInv` holds for as long as all is orderly. It adds that a call is carried out once
at most, that the server has at most the waiting call's request to read, and that the
bytes at the client and on their way are nothing or one response: the waiting call's, or one
that the framing breaks. `OrderlySteps` proves that every step of `Client` after which all is
still orderly keeps it, and is one of `Rpc` or a stutter (`StepsOfRpc`); `OrderlyBefore`, that
what is orderly after a step was so before. A message found inside a request gets a
negative number, so that its answer is nobody's call (`MisreadKeepsOrder`).
`ConsoleCallsRemotely` and `WindowCallsRemotely` take it from there: `ConsoleSteps` and
`WindowSteps` show that the front ends change the variables of `Client` only as `Client` says.

### Front ends

`LinkInv` holds under any front end: `OrderInv`, the invariant of the handlers (of the instance
`H`; `Link_proofs` cites the theorems of `ClientHandler_proofs` for it), that a request is
in one queue at most (`RequestsApart`), and that what is on a wire has its entry in
`request` and `answer` (`WireOK`). With the types of a front end's own variables it gives its
`TypeOK`.

`SessionInv` relates a front end and the server. `MenuMatchesServer`, `DashboardCurrent` and
`LabelMatchesServer` speak of a front end between two calls; inductive is only what holds in
the middle of one. Until the server carries out the request, what the front end shows agrees
with the handler, and at the console with the store (`ViewAgrees`); once it has, what will be
shown *after* the answer agrees (`AnswerAgrees`), and the answer is on its way, or belongs to one
of `UnsureOps` (a lesson, the start of a game, feedback), which change neither (`AnswerComes`).
`NewestOpen` says that the connection in use is the last
one; `MenuRight` and `StatusRight` that what a guest may ask is asked for a guest. One lemma
per kind of step (`...KeepsSession`) proves that it is inductive. `ReturnsAnswers`,
`ImplementsSolo` and `LoginsAlone` follow from it step by step: a login is carried out only
for a front end that showed a guest, whose handler is then a guest's, and every other
connection is closed (`LinkStepsSolo`).

The properties speak of the time in which all is orderly, so the invariants do, too. At the
window, `Invariant` claims `WindowInv` (`LinkInv`, `PromptInv`, `FieldsOK` and `SessionInv`) while
`orderly` is true; at the console, `ConsoleInv` while `orderly` and `lossless` are, for there the
level and score have to agree with the store and a call is promised its answer, which a lost
request would spoil. A step that makes one of them false owes no more than the types
(`WindowInvariance`, `ConsoleInvariance`). A time-out that leaves `orderly` true
finds nothing on its way, so that by `AnswerComes` the request was never carried out and both
sides are as they were. The console's `AnswerComes` says in addition which answers of `UnsureOps` may
not come (those `FitsOf` allows not to fit, `MayNotFit`), and that a request which the open server no
longer has and never carried out was one that did not fit: `ReturnsAnswers` follows from both.

## 7. Only model-checked

- *Liveness*: the five properties of `server_live` and `CallsReturn`. Liveness under fairness
  and ENABLED are out of the prover's reach.
- *`LoginAgrees`*: what the answer to a login says after anything has gone wrong before it
  follows from no invariant above, for `ConsoleInv` is no longer claimed then.
  All other properties of the passing runs are proved, too.

## 8. Not modelled

- *The Windows branch of `run()`* (Server.cpp:53-97). It calls `handleClientData` with
  `clientsMutex_` locked, which every path of that function locks again, while it
  iterates over the map that a disconnect erases from: the first client with data is
  undefined behaviour, and no property of what comes after can hold.
- *`UI_NEW.cpp`* is compiled by no build target.
- *The console's input*: a port that is no number ends the program, the end of the
  input makes `getChoice` ask for ever. What is typed is a free choice of each action.
- *Several front ends at once*: `Console` and `Window` are one client of the server each.
  What other connections do to the same user is in `ClientHandler`, whose runs have two;
  with a second console at work the first one's level and score may be old.
- *Layout*: UI.cpp 23-370 builds the widgets.
- *Parsing of payloads*: reduced to its outcome, the fields or a rejection. The
  configuration file is read once at start-up.
- *Lessons, quizzes, games*: constant data; the answers to requests for them are
  reduced to their type.
- *Logger, tests*: no decision of the program depends on them. The logger's mutex is in `Signal`
  of `Server`.
- *Code nobody calls*: `sendMessageAsync`, `receiveMessage`, `pollMessages`,
  `getOnlineUsers`, `getSessionBySocket` (which would lock `dbMutex_` twice),
  `getNextSequenceNumber`.
- *Threads*: the server has one, and the front ends call Client from one; `dbMutex_`
  and `socketMutex_` are never contended and have no variable.

## 9. Plan

1. `Client` and `Server` in one composition, to discharge the
   fairness of `Handle` and `HangUp` by `RequestsServed` and `HangUpNoticed`.
2. Two front ends on one server, for what one user sees of the other's changes.
