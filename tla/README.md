# A TLA+ verification of the ft_irc server

This directory models the IRC server of the repository (`src/src`, headers in
`src/include`), its bonus bot and the two chat servers its authors learnt on
(`mini_serv`, `bircd`), checks the models with TLC on small instances and proves
nearly all safety properties of the runs with TLAPS for every value of the
constants: any number of clients, nicknames and channels, any sizes of buffers
and streams. Paths below are relative to the repository unless they name a
module of this directory.

## The system

The server is one process with one thread. It is written in three layers.

| Part | Source | State | Operations |
|---|---|---|---|
| A layer: `Server` | `src/a/Server.cpp` | `_pollfds`, `_connections`, the shutdown flag | `run` (poll, scan, timeouts), `_acceptClient`, `_handleRead`, `_handleWrite`, `_notifyAndDisconnect`, `_closeAllFds`, the SIGINT handler |
| A layer: `Connection` | `src/a/Connection.cpp` | `_recvBuffer`, `_sendBuffer` | `readFromSocket`, `isLineTooLong`, `hasCompleteLine`, `popLine`, `bufferSend`, `writeToSocket` |
| Lifecycle: `ConnectionHealthMonitor` | `src/lifecycle` | last activity, PING token and time per fd | `updateActivity`, `generatePing`, `markPongReceived`, `collectTimedOutClients`, `removeClient` |
| B layer: `Parser`, `Message` | `src/b/Parser.cpp` | none | one line to command and parameters |
| B layer: `CommandDispatcher`, `ChannelCommandHandler` | `src/b` | none | one handler per command; returns a `CommandResult` (replies, shouldDisconnect) |
| B layer: `DisconnectNotifier`, `ReplyBuilder` | `src/b` | none | who is told of a disconnection; the text of messages |
| C layer: `ServerState`, `ClientRegistry` | `src/c` | clients by fd and by nickname, channels by name | add, remove, rename, join, leave, invite |
| C layer: `Client`, `Channel`, `ChannelModes` | `src/c` | registration, membership, operators, tickets, modes, topic | setters; the `_unsafe_` half of the membership relation |
| `Utils` | `src/c/Utils.cpp` | none | case folding, valid names |
| Bonus bot | `bonus/` | its socket, line buffer and outbox | a client of the server: `run`, `handleMessage`, `flushOutput`, commands |
| `mini_serv` | `bircd/exam06_miniserv/mini_serv.c` | descriptors, numbers, a read and a write buffer per client | the `select` loop: `accept_client`, `handle_client`, `flush_client` |
| `bircd` | `bircd/` | a slot per descriptor with two fixed buffers | the `poll` loop: `init_fd`, `do_select`, `check_fd`, `client_read`, `broadcast_message`, `client_write` |
| `libft`, `CSockets` | `bircd/libft`, `dev_docs/knowledge` | none | string functions, of which `bircd` uses a few; study material |

`Server::_handleRead` receives, cuts lines, parses and dispatches them one by
one. A handler changes the C layer at once and returns messages addressed to
fds; `_enqueueReplies` appends them to the send buffers of the fds that still
have a connection and arms POLLOUT. A connection ends for QUIT, EOF, an error, a
hang-up or a line too long; then `DisconnectNotifier` looks up who shares a
channel with it, and `_disconnectClient` takes it out of every table.

What is hard here: everything is raw pointers and duplicated relations (a member
is in `Channel::_members` and the channel in `Client::_channels`; a nickname is
in the map and in the client) kept in step by hand over arbitrary sequences of
commands; file descriptors are reused; the poll array is edited while it is
scanned; POLLOUT is switched by hand; peers close, reset and stall between any
two system calls; SIGINT comes at any moment. `PROJECT.json` lists these hazards
line by line with the properties that cover them.

## Modules

**`ServerState`** - the C layer. State: the key set of `_fdToClient`
(`fdToClient`), the Client object of each fd (`client`), `_nicknameToClient`,
the key set of `_channels` (`channels`) and the Channel objects (`channel`).
One operator per method, with the method's name; the early returns of a method
are the branches of its operator. A Client object is named by its fd and a
Channel by its key, so that a stale pointer is a pointer to the next object of
that name, which is the worst the allocator can do. Nicknames keep their
spelling and `Fold` gives the class under `IrcStringCompare`. The guards that
callers make superfluous are there as well: `setLimit` ignores a limit that is
neither -1 nor positive, and `inviteClientToChannel` a client or channel that is
not there.

**`Dispatcher`** (extends `ServerState`) - the B layer. One action per handler,
run to its end. The early returns of a handler are a ladder (`JoinError`,
`ModeError`, ...) in the order of the code whose value is the numeric it
answers. `result` is the `CommandResult` with the client it ran for. `Accept` and
`Disconnect` are the A layer seen from here: a client may go at any moment
between two commands, and a result with `shouldDisconnect` is obeyed before
anything else. Message texts are abstracted to command, subject and channel.
Names that no validator accepts are `Invalid` and, behind a '#', `BadChannel`.

**`RosterView`** (extends `Dispatcher`) - what the clients on the other side can
know: each connection keeps the roster that follows from the replies it was
sent. This side is not in the repository and is modelled from the messages the
server sends.

**`Server`** - the A layer. One action per part of the loop between two system
calls: `Check`, `Poll`, `acceptClient`, `handleRead`, `handleWrite`, `HangUp`,
and the environment: connections coming and being aborted, peers sending,
closing, resetting and reading, SIGINT. Input is counted in lines of three kinds
(a command, QUIT, a line over 512 bytes), output in messages; the lines of one
recv are answered by one message to any set of fds. `rev` of the code is the
`revents` of the entry, of which each part takes its bit out; what the loop does
without a system call (passing over entries whose revents is 0, the look for
timeouts, which finds nobody since nothing calls `generatePing`) belongs to the
step before (`Goto`). The health monitor is a module of its own.

**`Connection`** - one connection, byte by byte. The stream of the peer, cut by
recv anywhere; `recvBuffer` and the lines popped from it in the loop of
`_handleRead`; `sendBuffer` and what send takes of it. A byte is CR, LF or
another; a byte to be sent is its number.

**`HealthMonitor`** - `ConnectionHealthMonitor` with the calls `Server` and
`handlePong` make of it, a clock in whole seconds, and a log per connection of the
PINGs sent and PONGs read that the properties compare its state with.
`generatePing` has no caller in the program; the model calls it at any time.

**`Names`** - `Utils.cpp` on character codes. **`Parser`** (extends `Names`) -
`Parser::parse` with its helpers, position by position, next to a definition of
what a line says that does not scan it (`Says`), and `ReplyBuilder::privmsg`.
**`Words`** (extends `Parser`) - three strings and a line that grow by any
character, so that every input up to a length is a state.

**`Bot`** - the bots in one channel, each with its loop, line buffer, outbox and the
part of its first line that is sent; the server and the people are the
environment. The bots in `WithPassword` have been given one and begin with PASS
(`bonus/Bot.cpp:141`).

**`MiniServ`** - `mini_serv.c`: `Select`, then `accept_client`, `handle_client` and
`flush_client` for each descriptor it returned, in ascending order. A message is
two bytes, so that send can cut it. The sockets block and `flush_client` sends all
there is, so a send to a client that does not read may wait, and the whole loop
with it, until that client reads or goes (`SendBlocks`, `sending`). **`ChatRelay`** is what the assignment asks for:
clients by number, lines typed, messages owed and read. `MiniServ` instantiates it
with a refinement mapping (`online`, `hungUp`, `typed`, `due`, `received`: a client
is the connection with its number, found by `FdOf`; a line counts when its LF is
typed, a message when its last byte is sent) and `ChatSpec` states that the server
implements it.

**`Bircd`** - `bircd` with its fixed arrays: `buf_write` is an array of cells with a
NUL in it, and `ft_strlcat`, `ft_strlen` and `ft_memmove` are what they do to it,
since the program goes by the NUL in one place and by `buf_write_len` in another.

**`DispatcherProofs`** (of `Dispatcher` and `RosterView`), **`ServerProofs`**,
**`ConnectionProofs`**, **`HealthProofs`**, **`NamesProofs`** (of `Names` and `Parser`),
**`BotProofs`**, **`MiniServProofs`**, **`BircdProofs`** - the theorems.
**`MCDispatcher`**, **`MCRosterView`**, **`MCWords`**, **`MCBot`** - the instances for TLC;
the other modules are the runs' modules themselves.

Operators whose name ends in `_Something` after the name of another operator are
slips that this code could have (a dropped guard, a missing erase, an
off-by-one); each property is checked to notice one of them.

## Runs

| Run | Config | Bounds | Shows |
|---|---|---|---|
| `commands` | `MCRosterView.cfg` | 3 fds, 3 nicknames, 1 channel, MODE +i, +o, -o | `RostersAgree`, `TicketsLast`, `NoDanglingClient`, `ChannelRoles`, `RepliesReachLiveClients` |
| `quits` | `MCQuit.cfg` | 2 fds, 2 nicknames, 2 channels | `RostersAgree`, `MembershipSync` with several channels per client |
| `modes` | `MCModes.cfg` | 2 fds, nicknames a, A, b, 1 channel, all mode tokens, one key, one topic, INT_MAX = 2, limits 0, 1 and 3 | `TypeOK`, `NicknameIndexSync`, `OnlyRegisteredMembers`, `ChannelsAreInhabited`, `OnlyOperatorsGovern`, `LimitBoundsGrowth` |
| `poll_loop` | `MCServer.cfg` | 2 fds, 3 kinds of lines, 1 line queued, 1 message buffered, backlog 1 | `TypeOK`, `TablesAgree`, `PolloutArmed`, `EachReadyFdServed`, `NoSpuriousDisconnect`; under `FairSpec` `ShutdownTerminates`, `HangUpsAreReaped` |
| `framing` | `MCConnection.cfg` | lines of 2 bytes, recv of up to 3, streams of up to 6, 2 bytes of output | `LinesIndependentOfChunks`, `OnlyLongLinesRejected`, `RecvBufferBounded`, `OutputIsFifo` |
| `health` | `MCHealth.cfg` | 2 fds, timeout 1 s, 4 moments, 2 PINGs or PONGs per connection | `TimeoutsExact`; under `FairSpec` `SilentPeersDropped` |
| `words` | `MCWords.cfg` | strings of up to 2 of 9 characters, lines of up to 6 of 6 | `StrictlyOrdered`, `KeysAreNames`, `ParsesTheGrammar`, `FormattedIsReadBack` |
| `bot` | `MCBot.cfg` | 2 bots, one with a password, 2 things said by people or done by the server, lines of 2 bytes, room for 2 | `AnswersInOrder`, `ReturnsWithAllSent`; under `FairSpec` `ChatterEnds` |
| `mini_serv` | `MCMiniServ.cfg` | 2 descriptors, 3 connections, 2 bytes typed, clients that stop reading and hang up | `FlushHasData`, the refinement `ChatSpec`; under `FairSpec`, if no send blocks for ever, `ReadersAreServed`, `HangUpsAreNoticed` |
| `bircd` | `MCBircd.cfg` | 3 descriptors, `MAX_CLIENTS` 2, buffers of 3 bytes, 4 bytes typed | `BuffersInBounds`, `MessagesIntact`, `DropsOnlyBehindOthers` |
| `hang_up_input` | `MCReadAll.cfg` | 1 fd, 2 lines queued, 1 per recv | violation: `HangUpReadsAll` |
| `stale_slot` | `MCStale.cfg` | as `bircd` | violation: `PolloutMeansPending` |

Why the bounds are enough to be interesting. In `commands` three connections give
an actor, a target and a bystander; in `modes` two connections compete for
nicknames of which two differ in case only, so that collisions and case-only
changes happen. With every fd free to disconnect at any time, fds and nicknames
are reused. Limits 0, 1 and 3 against INT_MAX = 2 are below, in and above the
range, and against up to two members limit 1 is over, at and, when it is set
late, under the size. A text goes to nicknames that nobody has, and a reply for one
would be for no client at all, which `TypeOK` excludes. In `poll_loop` two clients behind the listening entry are
enough for the scan to erase an entry with another one after it and to append
one; a message of which send took a part still counts as one, so that one message
is enough for a partial send. Sets of fds (and in `MCRosterView` of nicknames and channels) are symmetric;
runs with liveness use no symmetry.

In `framing` a stream is three times as long as a line and twice as long as a
recv: a long line can follow short ones, a recv can bring several lines, and
every cut occurs, as in the code, where a recv (4097 bytes) takes more than a
line (512). In `health` the clock passes the limit of a PING sent in the second
second, and one event before and one after a PING make every order of PING,
answer, late answer and foreign answer. The characters of `words` are one of each
class the code tells apart, with both cases of a letter, of '[' and of '~'; six
characters of a line hold a prefix, a command and a trailing parameter with
blanks between them. In `bot` two texts, one of which makes each bot say a
command to the other, cover a reply that is in the outbox when `!quit` comes. In
`mini_serv` a third client follows another on its descriptor, and two bytes are
two lines of one client, one line of each or a line cut by recv; in `bircd` a
message of three bytes fills the buffer exactly, and two shorter ones overfill it.

Deadlock is checked in `commands`, `quits`, `modes`, `poll_loop`, `health` and
`hang_up_input`. In the others the system may stop: a connection that is closed,
words that have grown to their bound, servers and bots that wait for input that
the bounds do not give or have ended. `Exited` in `Server` is the stuttering of a
process that has ended.

Fairness. In `Server` weak fairness of the loop, which is one thread that never
waits except in poll, and poll has a timeout of 1000 ms. In `HealthMonitor` weak
fairness of the clock and of `Timeouts`, the end of an iteration of `run`. In
`MiniServ` weak fairness of the loop, which waits in `select` and, with a client that
does not read, in `send`: while it waits there, no step of it is enabled. Nothing
is assumed of the clients, so that one that stops reading for ever is among the
behaviours, and so is a server that waits for it for ever. `ReadersAreServed` and
`HangUpsAreNoticed` have the premise `SendsReturn`, that the loop is again and again
outside of `send`, which is what the assignment grants
(`bircd/exam06_miniserv/mini_serv.txt:17`: `send` "will not block" after `select`). In `Bot` weak fairness of each bot's loop and of the server that reads
what they send. Nothing is assumed of peers sending or closing, of new
connections, of people talking or of the signal.

### What the code disagrees with

Shown by a run:

* `hang_up_input`: the comment on part (4) of `run` (`src/a/Server.cpp:245`) says
  that part (2) has read everything by then; it calls recv once, so lines queued
  behind it are dropped when the peer resets.
* `stale_slot`: `bircd/broadcast_message.c:97` and
  `bircd/bircd_learning_curriculum.md:391` have POLLOUT set while
  `buf_write_len > 0`. `init_fd` (`init_fd.c:59`) goes by `strlen(buf_write)`, and
  `clean_fd` resets the length and not the bytes: the next client on the slot is
  armed with nothing to send, and messages for it are put behind stale bytes.
  `MessagesIntact` is therefore stated for clients that came to an empty slot.

Seen while modelling; the models contain the behaviour, no run is spent on it:

* `dev_docs/design.md:447` (and `:420`) makes INVITE an operator's command;
  `handleInvite` asks for an operator only in a +i channel (`InviteError`).
* The comment at `src/a/Connection.cpp:30` says that 512 bytes and CR LF are
  accepted; `isLineTooLong` above it looks for LF among the first 512 bytes of the
  buffer, so 510 bytes and CR LF are the most it accepts. The gap that the
  comment in `_handleRead` describes (a long line behind a short one) is in the
  model; `RecvBufferBounded` says how far it goes.
* `bircd/check_fd.c:38` calls `fct_write` after `fct_read` of the same slot, which may
  have closed it and set `fct_write` to NULL (`client_write_Null`).
* `bircd/init_fd.c:52` continues without `i++` when `pollfds` is full, so the loop
  never ends, while the message at `:50` says that the descriptor is "not
  monitored" (`init_fd_Full`).
* `mini_serv.c:262` says of a failing send that recv will find the disconnection;
  a connection that was closed and reset between `select` and `send` raises SIGPIPE,
  which nothing ignores (`FlushKilled`). `bircd` has the same
  (`client_write_Killed`), and its notes say so.
* `mini_serv.c:260` sends the whole buffer on a blocking socket. `select` says only
  that some of it fits: the repository's own
  `bircd/exam06_miniserv/linux_ref/man/man2/select.2:175` has
  "a large write may still block", and `mini_serv.txt:13` asks for a program that is
  "non-blocking" with lazy clients. `mini_serv.txt:17` promises the contrary, of
  descriptors that the program is given; it accepts its own and does not set
  O_NONBLOCK. Without the premise `SendsReturn` both liveness properties of the run
  fail, with a client that stops reading while more waits for it than fits: the
  server stays in this one `send` and serves nobody.
* `dev_docs/a_devdoc/ping_send_policy.md:96` describes that `generatePing` overwrites
  the time of a PING that is not answered yet: called more often than the timeout, it
  keeps a silent client for ever. The timeout properties measure from the last PING.
* The bot queues QUIT in front of the answer "bye" (`bonus/Bot.cpp:246`), and the
  server closes on QUIT: nobody reads it. `AnswersInOrder` speaks of what is sent.

## Proofs

Eight modules of theorems, one per component. The three parts of a proof of
an invariant are always `Init => Inv`, one lemma per action for
`Inv /\ [Next]_vars => Inv'`, and `Inv => P`. The assumptions are the `ASSUME`s of the
modules and nothing else; TLC evaluates them in the runs.

| Theorem | Property | Of |
|---|---|---|
| `DispatcherProofs`: `TypeCorrect`, `MembershipInSync`, `NoEmptyChannel`, `NoDangling`, `NicknamesUnique`, `RolesConsistent`, `MembersRegistered`, `RepliesDeliverable` | `TypeOK`, `MembershipSync`, `ChannelsAreInhabited`, `NoDanglingClient`, `NicknameIndexSync`, `ChannelRoles`, `OnlyRegisteredMembers`, `RepliesReachLiveClients` | `Dispatcher` |
| `DispatcherProofs`: `Tickets`, `Limits`, `Government`, `Rosters` | `TicketsLast`, `LimitBoundsGrowth`, `OnlyOperatorsGovern`, `RostersAgree` | `Dispatcher`, `RosterView` |
| `ServerProofs`: `TypeCorrect`, `Tables`, `Pollout`, `Served`, `ReventsFresh`, `Disconnections` | `TypeOK`, `TablesAgree`, `PolloutArmed`, `EachReadyFdServed`, `NoStaleRevents`, `NoSpuriousDisconnect` | `Server` |
| `ConnectionProofs`: `BoundedBuffer`, `OutputInOrder`, `LinesOfTheStream`, `RejectsLongLines` | `RecvBufferBounded`, `OutputIsFifo`, `LinesIndependentOfChunks`, `OnlyLongLinesRejected` | `Connection` |
| `HealthProofs`: `Timely` | `TimeoutsExact` | `HealthMonitor` |
| `NamesProofs`: `OrderIsStrict`, `KeysAreNamesAlways` | `StrictlyOrdered`, `KeysAreNames` | `Names` |
| `NamesProofs`: `ParsesTheGrammarAlways`, `FormattedIsReadBackAlways` | `ParsesTheGrammar`, `FormattedIsReadBack` | `Parser` |
| `BotProofs`: `Invariant`, `BotAnswersInOrder`, `BotReturnsWithAllSent` | (`Inv`), `AnswersInOrder`, `ReturnsWithAllSent` | `Bot` |
| `MiniServProofs`: `Flush`, `Streams`, `Refinement` | `FlushHasData`, `StreamsFramed`, `ChatSpec` | `MiniServ`, `ChatRelay` |
| `BircdProofs`: `Bounds`, `Intact`, `Drops` | `BuffersInBounds`, `MessagesIntact`, `DropsOnlyBehindOthers` | `Bircd` |

### The C and the B layer

`DispatcherProofs` proves `Spec => []Inv` for every value of the constants that
satisfies `StateAssumption` and `ArgAssumption`: finitely many fds, a function
`Fold` on nicknames, INT_MAX a natural number, and names, numbers and missing
parameters that are told apart. `Inv` is `StateInv` (the conjunction of the
invariants of `ServerState`), the type of `result`, that replies go to live clients,
and that a result that asks for a disconnection names a live client. None of the
parts is inductive alone:

* that `removeClient` leaves nothing behind needs `MembershipSync`: it visits the
  channels the client lists, and only with both directions in step are these
  all the channels that list the client;
* that it deletes no channel others are in, and keeps none empty, needs
  `ChannelsAreInhabited` for the channels it does not visit;
* that a rename neither steals nor loses an entry of the nickname map needs both
  directions of `NicknameIndexSync`, since `insert` keeps an entry that is there;
* that INVITE and MODE +o reach live clients needs the nickname map to name live
  clients only, and broadcasts need `NoDanglingClient`;
* that USER after registration cannot empty the real name, which
  `OnlyRegisteredMembers` needs, is the ladder of `handleUser`.

The module has one lemma per method of the C layer, then one per handler (the
ladder establishes what the method needs; the replies go to live clients), then
`NextInv`.

Its second part first shows that every step of `Dispatcher` is of one of seven kinds
(`StepKinds`): it leaves the channels alone, or one client joins one, one leaves one
(PART, KICK), a ticket, a topic or a mode of one changes, or a client is gone from
all. Each kind says who did it, what stays the same and which messages about
rosters are sent to whom. The three action properties follow kind by kind. They
need one more invariant, `DeletedAreNew` (a name that is not in the map has a fresh
Channel), since the ticket, the operator or the limit of a channel that was deleted
would otherwise be found in the next of that name. `Rosters` needs
`RosterInv`, which says the same of descriptors without a client: what a connection
knew must not be the start of what the next one on its descriptor knows. Kind by kind
the messages that `StepKinds` names are exactly the difference of the two rosters: who
joins is told the whole (353) and the others of it, who leaves is told like those who
stay, and a disconnection tells everyone it shares a channel with once for all of them.

### The A layer

`ServerProofs`: for any finite set of descriptors and any sizes of recv, of the
buffers and of the backlog (`ServerAssumption`). `Inv` adds to the properties that no
descriptor is in the poll array twice (`Distinct`: `removeFd` erases the first entry it
finds), that the entries the scan has passed have no revents left (`Scanned`), that
what poll reported of a client behind the index is still so (`NoStaleRevents`: serving
a client changes the socket of no other, and an erased entry takes its revents with
it), and that no output is left for a descriptor without a connection
(`NoOrphanOutput`). `EachReadyFdServed` needs `Scanned` for the entry that moves to
the place of an erased one; `NoSpuriousDisconnect` needs `NoStaleRevents`.

`ConnectionProofs`: for all sizes of a line, of a recv and of the stream
(`ConnectionAssumption`: they are positive). The bound of the buffer is not
inductive: `BufferInv` adds that there is no LF in the buffer while the server waits,
and that while it pops less than one recv follows any LF. With the sizes of the code
the receive buffer holds at most 8193 bytes. `OutputIsFifo` goes through `FifoInv`, the
same fact byte by byte. `LinesIndependentOfChunks` speaks of lines by counting the
LFs before a position. `LineEnds` (line k has an end, and k LFs up to it),
`LinesBefore` (more bytes do not change the lines there are) and `NextLine` (the first
LF behind the end of line k ends line k + 1, or k was the last) are what the three
actions need: recv extends the stream, `popLine` takes the next line, and the loop ends
at the last. `OnlyLongLinesRejected` follows with `LinesBefore`, since the peer may have
gone on sending after the rejection.

`HealthProofs`: for any timeout and any fds. `StateIsLastPing` ties the monitor's state
of a client to the log of its connection: it waits exactly if no PONG behind the last
PING has that PING's token, and then token and time are that PING's. The log of a
descriptor without connection is empty (`LogsEnd`), which is what a reused descriptor
needs; that a second PING forgets the first is what the definition of the last PING
is about.

`NamesProofs` proves `StrictlyOrdered` and `KeysAreNames` for strings of any length
over all character codes (`CharsAssumption`). Transitivity is a comparison of the
two positions that decide (`Transitive`): the earlier one decides the third pair.
For the keys, two strings that differ somewhere within their common length differ
at a least position (`LeastNumber`), and that one makes one of them the smaller
(`KeyIsFold`); that irc_tolower identifies exactly the case pairs of RFC 1459 is
`FoldIsCase`.

### The parser

`ParsesTheGrammarAlways`: for lines of any length over any characters, `parse` returns
what `Says` says. The two sides have nothing in common: `parse` scans from position to
position and `readParams` is recursive, while `Says` counts the words of the line. The
proof needs

* that the recursive function of `readParams` has the value its definition says
  (`ReadParamsEq`). A recursive definition in TLA+ chooses a function that satisfies
  its equation, so what is to be shown is that there is one (`ParamsExist`): for the
  positions within k of the end, by induction on k, since a token always ends
  behind where it began (`EndBehind`);
* what the scans find (`SkipFact`, `EndFact`: the least position of its kind; `SkipIs`,
  `EndIs`: there is only one), and that a position at which a scan stops is the start
  of the next word and no word starts in between (`NextWord`, `BehindWord`, `TokenIsWord`);
* `ParamsSay(s, p, ps)`: ps is what the line says from position p on. It is
  `ParamsStep` that one more parameter in front adds one to the count of words
  (`CountOneMore`) and shifts the others, and `ParamsAreSaid` is the induction over
  the positions from the end.

`ParsedSays` then puts prefix, command and parameters together, with `FirstWord`,
`SecondWord` and `CommandFound` for the lines that have no command or nothing but a
prefix.

`FormattedIsReadBackAlways`: for a prefix, target and text of any length.
`NickIsWord` and `ChannelIsWord` are what the validators give: no blank inside and no
colon in front; `BodyFact` and `PrefixFact` say where the parts are in what `privmsg`
wrote, and `NoPrefixRead`, `PrefixRead` and `BodyRead` what the scans make of a line
laid out like this. The text may be anything.

### The bot

`BotProofs`: for any bots, texts, length of a line and room in the socket
(`BotAssumption`: the bounds are positive, a text is a sequence of strings, and no bot
is called like a person or the channel). `AnswersInOrder` is not inductive: before
`connectToServer` there is no registration (`StreamInv` says that then nothing was
handled or sent), `cut` must be 0 when the outbox is empty and the outbox not empty when
`flushOutput` is entered (`LoopInv`), and `joined` must mean that a 001 was handled
(`FlagsInv`), since only the first one is answered by JOIN. That a bot that returned
has sent its QUIT needs that it stops running only by handling a `!quit`, whose answer
has the QUIT in it (`FlagsInv`), and returns only with an empty outbox (`LoopInv`).

The answers are a fold over the lines handled (`Asked`, with `FlattenSeq`). Again it is
shown that the recursive function in the definition of `FlattenSeq` exists
(`FlattensExists`, `FlattensUnique`), then that one more sequence at the end is one
more concatenation (`FlattenAppend`), so that handling one more line adds its answer
(`AskedAppend`, `ReactionIsAsked`). On the other side, the bytes of lines one behind the
other are the bytes of the one and then of the other (`StreamConcat`), and a send that
takes k bytes of the first line moves them from what is unsent to what is sent
(`SendPart`, `LineSent`). The actions of other bots, of the server and of the people
leave the bot's variables alone (`OtherBots`, `BotStays`).

### The two chat servers

`MiniServProofs`: for any numbers of descriptors, connections and typed bytes. `Inv`
says that numbers are distinct and given in order, that the buffers of a closed
descriptor are freed, that the bytes in a buffer and on the socket are bounded, and
`StreamsFramed`: what a client has received with what is in its write buffer is a
sequence of whole messages, each in two halves. From that the refinement goes action
by action (`AcceptArrives`, `LeaverLeaves`, `RelayRelays`, `FlushReads`, `TypeTypes`,
`PeerHangsUp`, `QuietStutters`): a state maps to a state of `ChatRelay` by descriptor
(`Mapped`), and a step of the server is a step of `ChatRelay` or none. The three
arguments that take work are these. A send that takes one half of a message is a
stutter and one that completes one is a delivery, because the stream is framed
(`SentMoves`, `UnsentGrows`). A recv that brings several lines is one step that relays
all of them, and the line without LF stays behind: the lines of a buffer that is cut
behind line k are its first k lines and the lines of the rest (`LinesCut`,
`LinesBehind`, `LinesBefore`). A descriptor that is given to the next connection maps
to another number, and nothing of the first one is left in its buffers
(`BuffersFreed`). `ChatRelay` is a safety specification; the liveness of `mini_serv`
is model-checked.

`BircdProofs`: for any `BUF_SIZE` above 1, any `MAX_CLIENTS` and input. The program goes
by the first NUL in one place and by `buf_write_len` in another; `NulBehindLen` says
that the first NUL exists and is never before the length, which makes `strlen` and
`ft_strlcat` safe although `clean_fd` leaves stale bytes. `BlankIntact` strengthens
`MessagesIntact` for clients that came to an empty slot: there the NUL is at the length.
Both theorems start from slots full of NULs. `init_env` leaves the bytes of `malloc`
as they are, so that for the first client of a slot they rest on its memory being
zero, which fresh pages are; with other bytes there the first `ft_strlen` could run
off the array.

### What is only model-checked

All invariants and all action properties that a passing run checks are theorems; what
is left to TLC is

* liveness: `ShutdownTerminates`, `HangUpsAreReaped`, `SilentPeersDropped`,
  `ChatterEnds`, `ReadersAreServed`, `HangUpsAreNoticed`. The prover has no rules for
  fairness and ENABLED.
* the two runs that expect a violation, which are counterexamples.

Induction is done everywhere on a set of numbers, from its least element (`LeastNumber`,
`Induction`), since the induction theorems of the library take an operator as a
parameter, which the provers cannot instantiate.

## Not modelled

* The composition of `Server` and `Dispatcher` in one state machine. `Server`
  answers a line with a message to any set of fds, which contains what
  `Dispatcher` does; `Dispatcher` lets a client go at any time, which contains
  what `Server` does.
* The texts of replies other than PRIVMSG.
* A second disconnection of the same client, in `applyCommandResult` for QUIT and in
  `run` for the false of `_handleRead`: in `Server` one action takes a client down.
* Memory exhaustion, `fcntl` failing on a new descriptor, the constructor's
  failures (`socket`, `bind`, `listen`), which end the program before `run`; a clock
  that is set back; NUL characters in the input of `mini_serv` and `bircd`.
* `main`, `get_opt`, the rest of `libft`, `bircd/client_read_subject.c` (not built),
  `bircd/poll_check.c` and the socket examples: they read arguments, print
  constants or are called by nothing here. The tests are read with the code.

## Plan

1. *(done)* `ServerState`, `Dispatcher`, their runs and the proof of `Inv`.
2. *(done)* `RosterView`: the messages determine the rosters.
3. *(done)* `Server`: the poll loop, its safety and liveness.
4. *(done)* `Connection`: bytes, chunks and lines; `ConnectionProofs`.
5. *(done)* `HealthMonitor`: tokens, late and duplicate PONGs, times at the limit,
   reuse of fds.
6. *(done)* `Names`, `Parser`, `Words`; `NamesProofs`.
7. *(done)* `Bot`, `MiniServ` with the abstract `ChatRelay`, `Bircd`.
8. `System`: `Server` and `Dispatcher` composed, the replies of `result` going into
   the send buffers, with each shown to be an abstraction of it.
9. *(done)* Proofs of all invariants and action properties of `Dispatcher`, `RosterView`,
   `Server`, `Connection`, `HealthMonitor`, `Names` and `Bircd`, and of the refinement of
   `ChatRelay` by `MiniServ`.
10. *(done)* Proofs about `Parser` and `Bot`, whose definitions are recursive.
