# A verification of TSPU X

TLA+ models of [TSPU X](../src/README.md), a network filter made of a C++ proxy
and sniffer, an Elixir service that decides about clients, a Scala aggregator
and a Python admin backend. TLC checks the models on small instances; TLAPS
proves the most important results for every value of the constants.

    tlc -config MCBlockTable.cfg MCBlockTable.tla
    tlapm BlockTableProofs.tla

## 1. The system

    admin --HTTP--> Python --Redis pub/sub--> Elixir RuleSubscriber ---+
                      |                          RuleEngine (resync) --+--> CppBridge
                      +-- rules.json ----------> RuleEngine.init       |      |
                                                 ClientWorker per IP --+      | TCP 4041
                                                    ^       |                 v
                            EventServer (TCP 4040) -+       |       C++ tables: block, throttle
                                 ^                          |                 ^
                                 +------- events -----------+-- C++ proxy / tproxy / sniffer
                                                            v
                                              Scala aggregator -> SQLite

| component | state | operations | what is hard |
| --- | --- | --- | --- |
| Enforcement tables (`main.cpp` 100-268) | two hash maps `owner:domain` -> entry with an end | add and remove (exact, wildcard), lookup, sweep | lookups erase, the sweep locks one table after the other, entries lapse between any two steps, a restart empties both |
| Command listener (380-434) | the text of one line | accept, read, `block`, `unblock`, `throttle`, `unthrottle` | one connection at a time, to its end; a cut-off line is lost |
| Event sender (282-340) | the socket to Elixir and its mutex | connect, check, send | shared by all threads, tested without the mutex; reconnects in sniffer mode only |
| SOCKS5 and tproxy handlers (645-911) | one thread per connection, two sockets | accept, check, dial, peek, check again, report, relay | the command thread runs between any two steps; many ways out |
| Relay (589-643) | open flags, one buffer | select, recv, send, shutdown | half-close, short counts, blocking sends, timeouts |
| tproxy pool (917-1005) | queue, stop flag, condition variable | enqueue, worker loop, destructor | lost or spurious wake-ups, shutdown with work queued, the flag is read between connections only |
| Sniffer (511-582), parsers (`*_parser.hpp`) | none | capture, parse, report, reconnect | messages that are cut off anywhere |
| Health listener (441-487) | none | answer with the counters | nothing |
| RuleEngine | ETS table of rules | add, remove, match, apply, lift, resync every 30 s, load the file | a resync interleaves with removals made by another process; calls time out |
| RuleSubscriber | its mailbox | add, remove | pub/sub delivers at most once |
| CppBridge | none | connect, send, close | the sniffer may be down |
| ClientWorker | time per name, two timers | event, flush, timeout | events late and out of order; midnight; a `:temporary` process |
| EventServer, NtpTime | a process per connection; a cached time | read lines, start a worker, tell the time | a reader that dies leaves its socket open; workers wait for NTP |
| Python backend | rules in Redis and in a file, sessions | create, update, delete, publish; login | load-change-save, save-then-publish |
| Scala aggregator | rule cache, hourly rows | ingest, query | read-then-write upserts that nobody awaits |

What makes each correct:

- **tables**: a decision depends only on the entries in force, never on which
  lapsed ones happen to be erased; what lapsed leaves memory;
- **pool**: each connection is taken up once, in order, also at shutdown, and
  no worker sleeps while a connection waits;
- **handlers**: what is blocked throughout is refused; no socket leaks;
- **relay**: bytes arrive once and in order; an end follows the bytes before it
  and does not cut off the other direction; it ends;
- **rules**: Elixir's table ends as the administrator's, the sniffer's entries
  come back after a restart, and none stays that no rule asks for;
- **commands**: executed once at most, in order, whole or not at all, and not
  after the caller was told that they failed;
- **reports**: never written into another connection, and no thread is held up
  by Elixir for ever; a name is the one the client meant, or none;
- **accounting**: each second counts once; a limit's block ends at midnight, put
  off by the time its command took; what was used is not missing from the
  administrator's figures.

PROJECT.json lists each component with its status, each hazard with the line
where it bites, and each definition with the lines it models.

## 2. The modules

| module | models | builds on |
| --- | --- | --- |
| `TableKeys` | keys and table operators | |
| `BlockPolicy` | abstract: what the tables promise | `TableKeys` |
| `BlockTable` | the tables | `TableKeys`; implements `BlockPolicy` |
| `TaskQueue` | abstract: what the pool promises | |
| `TproxyPool` | accept loop, pool, signal | implements `TaskQueue` |
| `ProxyConn` | the handlers of both proxying modes | the answer of `is_blocked` as a set |
| `Relay` | the relay between two peers | |
| `RuleSync` | Python, Redis, the Elixir processes and the sniffer's tables | `TableKeys` |
| `ClientWorker` | one client's accounting and timers | |
| `Packets` | pure: the TLS and DNS parsers, the packet handler | |
| `Observation` | looking at a message while it arrives | `Packets` |
| `EventLink` | the socket to Elixir, the threads that share it, Elixir's end | |
| `CommandChannel` | abstract: what a caller of CppBridge may rely on | |
| `CommandLink` | CppBridge and the command listener | implements `CommandChannel` |
| `Aggregates` | reports of totals, the upserts, the rows | |
| `*Proofs` | theorems about the module they are named after; `TproxyPoolProofs` also about `ProxyConn`, `BlockTableProofs` also about `RuleSync`, whose specifications are named `ProxySpec` and `RulesSpec` so that one module can extend both | |
| `MC*` | constants and symmetry for TLC | |

Some modules contain definitions marked as *slips*, each a mistake the code
could contain, placed before the definition it would spoil. No specification
uses them. Put in place of that definition, each makes TLC find a violation of
the property it is paired with in PROJECT.json ("mutants"): the properties
notice such a mistake.

### BlockTable and BlockPolicy

Variables: `g_block_table`, `g_throttle_table` (functions over the keys
stored), the clock `now_ts`, `maintenance` (which half of `cleanup_expired`
comes next), the last `answer`, and `actor`, history: who took the last step (a
command, a connection, maintenance, or the passing of time and restarts). Every
operation holds its table's mutex throughout, so each is a step;
`cleanup_expired` is two. A host name is a value; "ends with `.x`" is the
relation `Below`, assumed transitive and irreflexive, which suffixes are.
`is_blocked` erases a lapsed exact entry it meets and only skips lapsed
wildcards, as in the code. The refinement maps each table to its live part and
the clock to itself.

In `BlockPolicy` there is no expiry to perform: entries in force at `now` are
all there is, and maintenance (`Tidy`) changes none of it: only commands, time
and a restart do. Its `AskDelay` states the throttle lookup as the code has it,
the client's own exact entry only. Whether unblocking `*.x` also lifts a block on
`x` it leaves open: the code keeps it, the comment on the test says that it goes.

### TproxyPool and TaskQueue

A critical section is a step; `notify_one` and `notify_all` follow the release
of the mutex as steps of their own. `cv` is the set of sleeping workers; a
sleeper may wake for no reason. Waking and testing the predicate again is
`ready`. `sig_handler` clears `g_running`, which the loop reads only before
`accept`: a signal does not interrupt `accept` (`signal` restarts it).

### ProxyConn

`pc` follows a handler from `accept` to `close`. In either mode: check the
destination, dial, on port 443 peek at the client's first bytes for the server
name; in tproxy mode check that too; report unless blocked; relay. Between any
two of these steps the command thread may block or unblock a host for the
client, with wildcard and global entries folded into `blocked`, the set of pairs
for which `is_blocked` answers true. `open` is history: the hosts that were not
blocked for the peer at some moment since it connected.

### Relay

Bytes are numbered. `rq` and `wq` are the kernel's queues of a socket, of `Room`
bytes. `recv` takes any part of what is queued, `send` goes byte by byte, with
the code's loop over short counts. The remote socket has `SO_SNDTIMEO` from
`connect_remote`; the client's has none, so `SendFails` for lack of room is
possible towards the remote only. Peers write, finish, read and reset at any
time; the idle timeout fires whenever nothing is readable.

### RuleSync

A change is stored in Redis, then saved to the rules file, then published. The
file is saved as `_save_rules` does it: emptied by `open` (`OpenFile`), then
written (`WriteFile`), and an error at either (`SaveFails`) is swallowed. `file`
is the set of rules RuleEngine's `init` would load, none if the file is missing,
cut off or no JSON; `saving` is what the save has still to do, `saved` whether
the last one that got to the file has written it. The subscriber works on one
message at a time; the engine's resync works on the snapshot `resync`, rule by
rule, command by command; each worker enforces what its event matched. A
process's work on a rule is a record of the commands still to send and the
workers still to ask (`Busy`), so the processes interleave between any two
calls. A call to a busy process waits. Crashes: the sniffer (tables gone), the
subscriber (mailbox gone), the engine (the table becomes what is in the file
then, which may be older than Redis or nothing, and a process that waits for it
falls too), a worker (not restarted); each of the latter three where a call may
time out. The backend may die in the middle of a save, or its message get lost
(`PublishLost`). Two variables are history: `lost` records that a message was
never seen, `misread` that the engine last started while the file was emptied or
had not been written.

### ClientWorker

Per name the total, the session's start and the last event; `flush_at` and
`idle_at` for the timers; `counted` is history, the seconds the total stands
for. Events carry the second they were observed in and arrive up to `MaxLate`
later, in any order. A block command goes into `sent`, for the bridge, the
connection and the listener's backlog, and stays there for any time. The sniffer
reads it (`handle_command`) and adds its duration to the second it reads it in,
which makes the entry in `blocks`; or it is lost. Entries of `blocks` also carry
when the command was sent and read. That the worker itself waits for the
bridge's answer, with its next events in its mailbox, is not modelled: the model
may send the next command before this one is read.

### Packets and Observation

`Packets` has the two parsers as operators over sequences of bytes, with the
code's tests in the code's order, and `pcap_packet_handler`, which takes the
payload of a packet that libpcap delivered. `Observation` gives a client a
`message` it means to send, a ClientHello with any session id, cipher suites,
compression methods and extensions and what follows it, something else of TLS, a
DNS query or an answer, and lets its bytes arrive one by one (`there`). At any
time a proxying thread peeks at what is there, at most `PeekSize` bytes, or a
packet with it is captured. The properties compare the events of the last `look`
with the name in the message, not with its bytes: the parsers are checked
against what RFC 8446 and RFC 1035 say a name is, which is what `HelloBytes` and
`DnsBytes` encode. `MessageAssumption` says which messages there are: any
session id, cipher suites and compression methods, any extensions in any order,
of which one at most is `server_name`, any labels of 1 to 63 bytes, and lengths
that fit the bytes they are sent in.

### EventLink

`g_elixir_sock` is a number and `fds` says what each descriptor stands for: the
link, a thread's connection, or nothing. A new descriptor is the lowest free
one, as POSIX has it, so a stale one is soon somebody's. `send_event` is the
steps `Test` (without the mutex), `Lock`, `Send` or `SendFails`, `Clear`,
`Finish`; `Target` is what the variable stands for when it is read again under
the mutex. `link` is the connection itself: `new` before it is connected, then
`up`; after Elixir has gone `closing`, which takes one more line and loses it,
then `reset`. `main` follows the three modes: it connects before it starts a
thread (`AtStart`), only the sniffer's loop has `Reconnect`, only tproxy waits
for its workers before it leaves, and the close at exit is made without the
mutex. A handler of the proxying modes reports or not and hangs up; in sniffer
mode the threads are the command and health listeners, which take descriptors
and report nothing. Elixir crashes and comes back, and a reader may die at a
line and leave the socket open, since the process that accepted it owns it.
`strayed` is history: someone else's descriptor was written to or closed.

### CommandLink and CommandChannel

The bridge takes one call after the other from `mailbox`: `Connect`, `Send`,
`Close` and its reply. The listener reads the first of `conns` to its end, then
the next. A line is its text and its newline; the newline calls
`handle_command`, the end of the connection drops what has none. A connection
may break with any part of what it holds, the sniffer may crash, callers give
up, and a stranger may connect and stay. `broken` is history: the commands that
were on a connection that broke or crashed.

`CommandChannel` knows a set `pending`, from which a command is executed,
lost, or refused with an error to a caller that still waits. Its order is in the
history `before`, which records for each command those handed over before it: of
the commands that may still be executed, one is executed only when none of the
others came before it. The refinement maps `pending` to the commands whose
newline can still be read or will be sent, and those whose call is in the
mailbox; `CommandLink` keeps the same history.

### Aggregates

One client and one name. `hour` is the hour a report is stamped with, that of the
latest event of any of the client's names: it moves with this name's use (`Use`)
or another's (`UseOther`). `total` is the worker's total, `used` the history it
is compared with. Each report carries the whole total; `Ingest` answers and
starts an upsert, which is a `Query` and then an `Insert` or an `Update` with
what the query found. Upserts interleave, fail, and meet deletions.
`overlapped` is history: a query was made while another upsert of the hour was
between its two steps.

## 3. The runs

| run | expects | shows |
| --- | --- | --- |
| `block_table` | pass | `PolicySpec`: the tables implement the policy under all interleavings; `LapsedLeave`: a lapsed entry is erased |
| `tproxy_pool` | pass | `NoLostWakeup`, `NothingLeftBehind`, `QueueSpec`, and under fairness `EveryTaskStarted` and `DestructorReturns` |
| `proxy_conn` | pass | `SocketsPaired`, `RefusedWhileBlocked` |
| `relay` | pass | `StreamIntact`, `HalfClose`, `Delivered` |
| `relay_idle` | violation | a client that stops reading holds the relay for ever (comment, 598) |
| `rule_sync` | pass | `CaughtUp`: with no change on its way, Elixir's table is the administrator's, unless a message was lost or the engine last started on an emptied or unwritten file; under fairness `Converges` and `SelfHeals` |
| `rule_resync` | violation | a resync beside a removal leaves a permanent entry (`rule_engine.ex` 176) |
| `client_worker` | pass | `EachSecondOnce`, `BlockedUntilMidnight` (put off by the command's way), `FlushFirst` |
| `observation` | pass | `NeverAPart`, `WholeIsNamed`, `LaterLooksKeep`: names from messages cut off anywhere |
| `event_link` | pass | `NoCrosstalk`, `Reconnects`, `ReportsEnd` |
| `command_link` | pass | `ChannelSpec`, `Executes` |
| `aggregates` | pass | `OneRowAnHour`, `NothingForgotten` |

Each passing run also checks its module's type invariant (`TypeOK`,
`ProxyTypeOK`, `RulesTypeOK`). A run that expects a violation checks one
statement that a comment of the source makes and that the code does not keep;
PROJECT.json quotes it under "findings".

### Where the code and its comments differ

Two of these have runs, `rule_resync` and `relay_idle`. The others were met while
modelling, and no property claims what the comment does:

- removing a block on `*.x` leaves one on `x` (`main.cpp` 196): `BlockTable` leaves
  it, `BlockPolicy` allows either;
- SOCKS5 mode relays although the name in the ClientHello is blocked; tproxy
  mode, which is to apply "the same logic" (847), refuses it;
- removing a global limit leaves the entries set for single clients under it
  (`rule_engine.ex` 107-108);
- a limit "per day" is one for the worker's life (`client_worker.ex` 107);
- upserts that overlap leave two rows of one key (`Repository.scala` 61);
- the comments of `dns_parser.hpp` disagree about whether answers are parsed (10
  and 16 against 22); the code parses them.

Others contradict no comment, but a reader should know of them: the proxying
modes never reconnect to Elixir; an EventServer reader that dies leaves the
sniffer's `send` blocked under the mutex in time; global and wildcard throttles
are stored and resent, but `get_throttle_ms` (169) looks up the client's own
exact key only; a rule is applied and resent whatever its time window says, which
only events check (`rule_engine.ex` 53); a RuleEngine that starts while the rules
file is emptied, or after it could not be written, has none or old rules until
the rules change; two connections that bring a client's first events at once may
both start its worker, which ends one of them (`event_server.ex` 72); after an
error of libpcap `main` returns 0 (577), which `restart: on-failure` takes for
success; reports are cumulative and are added up, so figures grow with each
report, and a deletion of a client's statistics is undone by the next one; the
DNS answers of a server are counted as the server's own use; `main` closes the
socket to Elixir at exit beside detached handlers of proxy mode, which may then
write into whatever has its descriptor.

### Bounds

- `block_table`: one client (and "global"), an apex and a subdomain, exact and
  wildcard spellings: every way a key can meet a lookup. Two entries at a time
  let one of them lapse, be erased or be replaced beside another. Seconds 1..3
  and lengths 0 and 1: an entry can be past, current, ending now and permanent.
- `tproxy_pool`: three workers and three connections: a notified worker can be
  overtaken while a third sleeps, and all can sleep or be busy at the stop.
- `proxy_conn`: two connections of one client, two hosts, so that an address and
  an SNI can differ in being blocked. The hosts and connections are symmetric.
- `relay`: three bytes each way over queues of two: a buffer can be sent in
  parts, with a queue full in between, and more can follow.
- `rule_sync`: one client, one name, and rules that meet on the same entries: a
  global block, the client's own under the same id (an update changes the
  scope), a client's limit and a global wildcard throttle. Two changes and two
  crashes: a change, a crash in the middle of it or of its save, and a change or a
  crash of what recovers; each save may fail. A
  resync with nothing in the table does nothing and is no step.
- `client_worker`: days of 4 seconds, gaps of up to 2, events up to 2 late, the
  clock to 6: events before, across and after a midnight in any order. Two
  commands on their way: one can be lost, or read before or after the next is sent,
  also after a midnight.
- `observation`: two names, session ids of no, one and two bytes, no, one and two
  cipher suites, no, one and two compression methods, `server_name` first,
  last, between others or absent, fillers of zeros (which look like extensions
  of type 0) and an empty one, a second record after the hello or none; names of
  none to three labels. `PeekSize` is 70 and not 4096, the size of `peek`
  in the code (`main.cpp` 790, 880): it cuts some of these hellos off, as 4096
  does longer ones.
- `event_link`: two threads and three descriptors: one for the link and one for
  each thread, so that every close is followed by a reuse, and the link may find
  none free. `Room` 2: a stream that is empty, in use and full.
- `command_link`: three commands and a backlog of 2 (the code's is 4): one
  connection read, two waiting, and the next call finds the queue full. One
  stranger at a time.
- `aggregates`: totals to 3, above which they are not told apart; two reports
  or upserts under way, which overlap in every way two steps can; two hours;
  one deletion, at any time.

In the runs whose clock stops at `MaxTs`, the other actions go on. No run
deadlocks, and deadlock is checked in all of them.

### Fairness

- `BlockTable`: the maintenance thread sweeps both tables again and again
  (`maintenance_thread` sleeps 10 s).
- `TproxyPool`: threads run (`ThreadsRun`). `ConnectionsEnd` is an assumption
  about the peers: the relay bounds its silence, but a client on port 443 that
  sends nothing is waited for without end (`main.cpp` 881). Nothing is assumed
  of arriving connections, signals or spurious wake-ups.
- `Relay`: the thread runs and its timeouts fire (`RelaySpec`); `Delivered` also
  assumes that the peers read. Nothing makes a peer write or finish.
- `RuleSync`: processes run, a request that has stored a change goes on to the
  file (whether that is written or not) and publishes, the resync timer
  fires, Docker restarts a crashed sniffer (`restart: on-failure`). Strong fairness is used for calls to another
  process, which wait in a first-in-first-out mailbox and are answered if the
  callee is idle again and again. Changes, events and crashes are not fair.
- `EventLink`: threads run, and one that waits for the mutex again and again
  gets it (`ThreadsRun`); Elixir reads, and Docker starts it again
  (`ElixirRuns`). `Traffic` is an assumption about the network: packets come and
  carry names. Without it nothing tests the socket, and the sniffer notices a
  lost Elixir only by a failing `send`. Neither the death of a reader nor a
  crash is fair.
- `CommandLink`: the bridge and the listener run, and Docker starts the sniffer
  again. Nothing makes a stranger leave, nor a caller wait.
- `Aggregates`: the worker reports every few seconds. Of the reports and the
  upserts some succeed (strong fairness): each may fail, not all for ever.
- `Observation` is checked for safety only.

## 4. What is proved

Everything under "theorems" in PROJECT.json is checked by TLAPS to the last
leaf, from the named assumptions of the modules only:

| assumption | says | why |
| --- | --- | --- |
| `KeysAssumption` | "global" is no client; `Below` is transitive and irreflexive | suffixes are |
| `TableAssumption` | the bounds are numbers | |
| `PoolAssumption` | finitely many workers, at least one | `TproxyThreadPool pool(256)` |
| `ConnAssumption` | the empty name is no host | |
| `RelayAssumption` | queues have room for a byte | |
| `WorkerAssumption` | the report's interval is shorter than the idle timeout; a day has a second | the module's attributes |
| `LinkAssumption` | a descriptor, `main`, the threads, the link and "free" are different things | |
| `AggregateAssumption` | finitely many hours, the first among them | |
| `MessageAssumption` | client and server differ; messages are well formed: lengths fit, one `server_name` at most, labels of 1 to 63 bytes | RFC 8446, RFC 6066, RFC 1035; what a client that breaks them is taken to mean is not defined |
| `RuleAssumption` | the rules are rules; the bounds are numbers | scopes and actions as the admin page offers them, without subnets and warnings (section 5) |
| `CommandAssumption` | a backlog of one or more; a stranger's connection carries no command | `listen(s, 4)` |

- `BlockTableProofs`. `TypeCorrect`; and `ImplementsPolicy`, the refinement for
  any clients, names and bounds. The lemmas say what putting, dropping and
  sweeping do to the live part of a table; `DecisionIsCoverage` says that
  `is_blocked`'s order of lookups decides what the entries in force decide, and
  `EraseIsRevoke` that the keys a removal finds are those the policy revokes.
- `TproxyPoolProofs`. `NoLostWakeup` is not inductive: that a sleeper's
  notification is on its way holds only because `stop` follows the end of the
  loop and a worker leaves only then. `IInv` adds how `main`, `stop` and the
  workers' places go together. `InductiveStep` counts awake workers against
  waiting connections, one step per action. `WakeupsKept`, `DrainedOnLeave` and
  `ImplementsQueue` follow.
- The handlers (`TproxyPoolProofs`, second half). `NoSocketLeaks` by the
  handler's place; `BlockedIsRefused` from `ConnInv`, which follows what each
  check found through the places after it, using that `open` only grows.
- The rules (`BlockTableProofs`, second half), for any rules, changes and
  crashes. `RulesTypeCorrect` needs, in `RulesInv`, that a process with clients
  to ask works on a rule. `TableCatchesUp` is the safety half of `Converges`:
  with nothing published, queued or being removed, RuleEngine's table is the
  store, unless a message was lost or the engine last started on a file that was
  emptied or not written. The invariant `InStep` goes id by id, since
  changes of different rules overtake nothing: the last message about an id, in
  the mailbox or still to be published, says what the store has for it
  (`PublishingAgrees`, `MailboxAgrees`), and an id no message is about is in the
  table as it is in the store, or absent from the store and about to be removed
  (`TableAgrees`). The same goes for the file while it is `saved`, but for the
  rule whose change is stored and about to be saved (`FileAgrees`), and since
  publishing comes last that rule's message is still to come. So an engine that
  starts on a saved file is brought to the store by the messages still to come,
  which take it back to older versions of a rule only to bring it forward again.
  `InStep` claims `FileAgrees` always, what is pending if no message was lost, and
  the table if, besides, the engine was not `misread`. The two exceptions are the
  code's: RuleEngine never reads Redis, so after either of them the table stays
  what it is until each rule concerned is changed again, or the engine starts on
  a file that is saved. That the messages are taken
  up in the end is fairness, and stays with TLC.
- `RelayProofs`, for streams and queues of any length. `StreamIntact` says
  nothing of what the relay holds once a connection is reset, so it is not
  inductive: a byte could be sent behind a gap. `Intact` says what stays true
  then: as long as a side is not reset, what arrived there with what is on its
  way to it is an unbroken beginning of what was written. `Places` says where
  the relay can stand: it sends only what came from an open side, a failure
  closes both, and a side whose end was passed on has nothing left to read,
  from which `HalfClose` follows. The lemmas are about moving a byte
  from the head of one part of a stream to the end of the one before.
- `ClientWorkerProofs`. `TotalsAreExact`: needs that names without statistics
  have nothing counted, and the cardinality of an interval added above a set.
  `ReportsComeFirst`: needs that the next report is due within one interval of
  now, since the idle timeout is set from now. `BlocksOutlastByTransit`: a block has
  an end, which is the midnight after its command was sent, later by exactly
  the time the command took to be read. It needs `ToMidnight`, that a command on
  its way has the duration of the second it was sent in, and the arithmetic of
  the TTL (`EndsWithTheDay`) for days of any length; the first second of a day is
  its hard case, for which the TTL is a whole day and not 0.
- `EventLinkProofs`, for any threads and descriptors. `NoCrosstalk` rests on
  three facts none of which is inductive alone: the variable follows the
  connection (`Follows`), it is stale only in the hands of the thread that
  holds the mutex and will clear it, or after `main` has closed it (`Current`),
  and the mutex is held from its lock to its release (`Mutex`). `Places` says
  which thread can report in which mode: in sniffer mode only `main`, which is
  the one that reconnects; in the others the handlers, when `main` no longer
  does. That is why testing the variable without the mutex does no harm here.
  `Lowest` is about the lowest free descriptor, by well-foundedness of the
  numbers.
- `CommandLinkProofs`, for any commands and any backlog. `ImplementsChannel`
  maps every step: the newline to `Execute`, a failed `connect` to `Refuse`, the
  bridge's reply and a caller's patience to `Answer`, a break or crash to
  `Lose`, a call to `Issue`, and the rest to no step. `Order` says that
  `before` is a total order of the commands called and that the mailbox and,
  ahead of it, the connections keep to it; `Buffer` that `buf` has the text of
  the connection being read, of which only the newline can be left.
  `Distinct` follows, one connection and one place in the mailbox for each
  command, without which executing or refusing one could take another out of
  `pending`. `ExecutedOnceInOrder` then is an invariant of the channel's steps:
  once, in the order of the calls, and never after an error.
- `AggregatesProofs`, for any hours, totals and numbers of reports.
  `OneRowAnHour` needs `Apart`: as long as nothing overlapped, one upsert of an
  hour at most is past its query, and the hour of one about to insert has no
  row. A failed upsert, a lost report or a deletion leaves that as it is.
  `TypeCorrect` needs that a new row finds a free id among the bounded ones:
  `Counted` says that an hour's rows and the upserts about to add one are
  together no more than the upserts there may be at once, since after the first
  row none adds another that had not looked before; so overlapping upserts
  double rows, but only so many.

- `ObservationProofs`, for ClientHellos of any session id, cipher suites,
  compression methods and extensions, for any DNS messages, and any size of the
  peek. Everything follows from `Exact`: for each message there is a number
  of bytes from which on its parser returns the name the sender means, and below
  which it returns none. A message is a sequence of parts whose places are known
  (`LayoutHas`, `HelloShape`, `DnsShape`), and of its first bytes those are held
  that lie before the cut (`HeldFirst`); so a parser's test of a length decides
  on which side of a part the cut is, and what it reads is what was written
  (`HelloRead`). The parsers' loops are recursive functions of the position
  (`SniWalk`, `LabelWalk`): they are shown to exist because each call is at a
  position closer to the end, and followed from one extension (`SniOfFirst`) or
  label (`LabelsOfFirst`) to the next. The library's induction takes a predicate
  as a parameter, so `CountUp` states induction for sets of numbers instead, by
  well-foundedness, and each walk gives the set of lengths it is right for.
  The invariant `Inv` says that the last look found what the parser makes of the
  bytes it saw; `NamesAreWhole` and `WholeGivesName` are `Exact` at that number
  of bytes, `LaterIsNeverWorse` is `Exact` at two of them.

Each inductive invariant was checked by TLC on its run's instance before it was
proved.

Model-checked only:

- all liveness, which is beyond the prover: `LapsedLeave`, `EveryTaskStarted`,
  `DestructorReturns`, `Converges`, `SelfHeals`, `Delivered`, `Reconnects`,
  `ReportsEnd`, `Executes` and `NothingForgotten`. Of `Converges` the safety half
  is proved, `CaughtUp`.

Every invariant and action property that a passing run checks, and the three
refinements (`PolicySpec`, `QueueSpec`, `ChannelSpec`), are theorems.

## 5. What is not modelled

- Regular expressions and subnets in rules, rules that only warn; the arithmetic
  of time windows (a window is open or closed at random); the contents of
  messages and logs.
- The clock going back, and the sniffer's clock differing from NTP time.
- Redis losing what it stores, after which the backend loads the rules from the
  file, and Redis failing to store them, which ends the request. A file that
  loads but was changed by hand.
- `reload_all`, which nobody publishes. Giving up after too many restarts.
- In `ClientWorker` that a worker waits for the bridge, and what happens to an
  entry after it was made: it is replaced by a later command, and its lapse is
  `BlockTable`'s.
- In `ProxyConn` the delays of throttled connections (which handlers sleep
  through twice, before dialling and before reporting); in `BlockTable` who
  waits.
- That a signal ends the accept loop: it does so only with the next connection.
- In `CommandLink` a connection that the bridge takes for made while a full
  backlog drops it; more than one stranger. The sniffer may run on another host
  than Elixir (`CPP_HOST`), so connections that break are modelled.
- Layers below a packet's payload (Ethernet, IP options, TCP reassembly, which
  the code does not do either), and messages of more than one record.
- The health listener, which only reads; metrics and log text; the web
  interface and the deployment, but for the restarts Docker makes.
- In `Aggregates` a worker's crash, which forgets totals that were never
  reported, and RuleCache, which only logs.
- Concurrent requests to the admin backend and its sessions: see the plan.

## 6. The plan

Done, in this order: tables, pool, handlers, relay, rule distribution,
accounting; then the parsers, the link to Elixir, the command link and the
aggregates; and the proofs above. To come:

1. `AdminRules`: concurrent requests that load, change and save the rules, then
   publish; abstract specification: a set of rules changed atomically. Two
   requests, two ids. Also what an update leaves behind in the sniffer.
2. `ProxyConn` composed with `BlockTable` by INSTANCE, so that `blocked` is what
   the tables answer, with the delays.
