# A verification of Haraka in TLA+

Haraka is an SMTP server on node.js: one event loop, plugins that answer
through callbacks, and an outbound queue that keeps mail on disk.  Nothing runs
in parallel inside a process, so the hard behaviours are orders of callbacks:
what a plugin, a timer, a socket, the disk or another mail does between the
moment some state is read and the moment the answer is used.

The modules here model that control.  `PROJECT.json` maps each definition to
the source lines it stands for.

## 1. Inventory

### Outbound

| part | source | state | operations |
|---|---|---|---|
| temp-fail timer queue | `timer_queue.js` | sorted array of timers, interval | `add`, `fire`, `drain`, `cancel`, `shutdown` |
| outbound queue | `outbound.js` (`HMailItem`, `send_trans_email`, `process_delivery`, `split_to_new_recipients`, `bounce`, `temp_fail`, `discard`) | queue directory, items with reference count, failure count and `next_cb`, delivery queue with its slots | submit, deliver, defer, split, bounce, double bounce, discard, load at start |
| queue scan | `outbound.js` (`load_queue*`, `scan_queue_pids`, `flush_queue`, `_add_file`) | `load_queue`, `cur_time`, the pids in file names | load, take over a dead worker's files, flush all or one domain |
| delivery conversation | `outbound.js` (`try_deliver*`) | command, pipelined recipients, `ok_recips`, `fail_recips`, `bounce_recips`, MX and host lists | EHLO/TLS/AUTH, MAIL, RCPT, DATA, dot, LMTP dot, next host, next MX |
| outbound socket pool | `outbound.js` (`get_pool`, `get_client`, `release_client`) | `server.notes.pool`, sockets on loan | create, acquire, release, destroy, drain |
| DSN and bounce text | `dsn.js`, `populate_bounce_message` | none | formatting |

### Inbound

| part | source | state | operations |
|---|---|---|---|
| hook runner | `plugins.js` | `hooks_to_run`, `current_hook`, `saved_hooks_to_run` of a connection or mail | `run_hooks`, `run_next_hook`, the callback, the timeout, cancel |
| connection | `connection.js` | state machine, input buffer, transaction, `prev_state`, early-data and pipelining flags | one handler for each command and one `*_respond` for each hook |
| transaction, message stream | `transaction.js`, `messagestream.js`, `chunkemitter.js`, `attachment_stream.js`, `mailbody.js`, `mailheader.js` | chunk queue, spool file, `end_called`, `write_pending`, readers | add a line, end, spool, read back, pipe, pause |
| upstream client | `smtp_client.js`, `plugins/queue/smtp_forward.js`, `smtp_proxy.js`, `plugins/auth/auth_proxy.js` | IDLE / ACTIVE / RELEASED / DESTROYED, current command, pool | connect, command, reply, release through RSET, destroy |
| backend host pool | `host_pool.js` | `dead_hosts`, `last_i`, probes | `get_host`, `failed`, probe |
| server, cluster | `server.js`, `haraka.js` | listeners, workers, restart flags | start, graceful restart, worker exit and replacement, shutdown |
| TLS sockets | `tls_socket.js`, `line_socket.js` | clear and crypto stream | upgrade, pause, end |
| counting, greylisting | `plugins/limit.js`, `rate_limit.js`, `greylist.js` | counts and records in redis, notes of the connection | increment, check, decrement; defer, promote, expire |
| authentication | `plugins/auth/auth_base.js`, `auth_proxy.js` | notes, the sockets of a check and the hosts left to try | PLAIN, LOGIN, try a backend, next backend |
| sender policy, reverse names | `spf.js`, `plugins/spf.js`, `plugins/connect.fcrdns.js` | lookups under way, results, notes | helo, mail, lookup_rdns, timeouts |
| lists | `plugins/data.uribl.js`, `dns_list_base.js`, `dnsbl.js`, `dnswl.js` | zones in use and disabled, pending lookups | look up, first or all, disable, test again |
| other plugins | `delay_deny`, `early_talker`, `tarpit`, `relay`, `rcpt_to.*`, `access`, ... | notes | hooks |
| pure text | `rfc1869.js`, `dkim.js`, `config*.js`, `outmail.js` | none | parsing |

The connection runs hooks on itself and its transaction; a `queue` plugin or
the outbound default hands the transaction to `send_trans_email`; the outbound
queue runs hooks on each `HMailItem`, takes a socket from the pool for the
conversation, and its temp-fail queue pushes deferred items back on the
delivery queue.  A bounce message enters the queue through `send_email`, the
way a new mail does.  A connection writes the lines of DATA into its
transaction's stream, which queue plugins read back, some through a client of
`smtp_client.js` that a pool lends them.  The master of a cluster forks
workers, each with a queue of its own, named by its pid, which its replacement
takes over.

### What makes each part correct

* **Timer queue**: order, no timer lost or run twice, every timer runs.
* **Outbound queue**: a recipient that was answered OK is on disk or ended,
  whatever fails and whenever the process dies; it ends in the end; it is
  delivered once or reported once; each slot is given back exactly once.
* **Conversation**: the three lists hold what the remote end said of each
  recipient, each recipient in one list.
* **Socket pool**: a socket is lent to one mail; a reply belongs to the
  command of the mail that reads it; a released socket is counted.
* **Hook runner**: one chain of a connection at a time, each plugin answers
  once, a timed out or cancelled plugin no longer decides.
* **Connection**: a reply for each command, in order; no DATA without MAIL and
  RCPT accepted; nothing of one transaction is seen by the next.
* **Message stream**: what is read back is what was written; `end` is called
  back once; nothing waits for ever.
* **Upstream client**: a client goes back to its pool once and only when idle.
* **Host pool**: a live host is given out while one is known; a dead one comes
  back when it answers.
* **Plugins that ask**: a hook is answered once and in the end, and what it
  answers has its reason in what was answered to it, late answers included.
* **Counts**: a host's count is that of its connections; it is not left wrong
  for good.
* **Cluster**: a restart replaces every worker and loses no listener; the
  queue files of a dead worker are taken over once.

## 2. Plan

1. `TimerQueue` with `TimerService`, the set of timers it implements. *Done.*
2. `OutboundQueue` with `MailSpool`, the promise it implements. *Done.*
3. `Hooks`, and `Connection` on top of it, with `SmtpSession`, the session it
   implements. *Done, but for what section 7 lists.*
4. `Delivery`: the conversation (SMTP and LMTP) and the socket pool it takes
   its sockets from. *Done, but for STARTTLS and AUTH.*
5. `QueueScan`: load queue, clock, flush of a domain, take-over of a dead
   worker's files; `Cluster` on top of it, the master and its workers. *Done.*
6. `MessageStream` on `ChunkEmitter`, `Transaction` on it and `MailBody`,
   against the sequence of lines the client sent. *Done.*
7. `HostPool` and `SmtpClient` with `smtp_forward` and `smtp_proxy`. *Done.*
8. The plugins that wait for answers: `Limit`, `Greylist`, `AuthProxy`, `Spf`,
   `Fcrdns`, `Uribl`, `DnsList`. *Done.*
9. Open: STARTTLS and AUTH in `Connection` and `Delivery`; `Connection` with
   `Transaction` under it in place of a number of recipients; `delay_deny`.

Abstract specifications: a set of timers (1), a spool (2), a session (3); the
others state what is promised as invariants over recorded history: the replies
to each recipient (4), the lines of the message (6), what backends, stores and
name servers answered (7, 8).  Theorems: those of 1 and 2, references, slots and
single ends with them; that a connection is a session, with each of its
invariants (3); that a socket is lent once, a mail decided once and its
recipients kept in the right lists (4);
the one holder of a file and how often it is sent (5); whose replies a client
hears (7); and the counts and verdicts of 8, but for SPF, are proved.  Worth
proving next: a connection with late callbacks or an outbound queue that is
asked, for the properties the code keeps even then (`AcceptedOnly`).

## 3. Modules

| component | specification | abstract | instance for TLC | proofs |
|---|---|---|---|---|
| temp-fail timer queue | `TimerQueue` | `TimerService` | `MCTimerQueue` | `TimerQueueProofs` |
| outbound queue | `OutboundQueue` | `MailSpool` | `MCOutboundQueue` | `OutboundQueueProofs` |
| hook runner | `Hooks` | | through `MCConnection` | `ConnectionProofs` |
| connection | `Connection`, extends `Hooks` | `SmtpSession` | `MCConnection` | `ConnectionProofs` |
| conversation and socket pool | `Delivery` | | `MCDelivery` | `DeliveryProofs`, `ListsProofs` |
| message: text, stream, attachments | `Transaction`, extends `MessageStream` (extends `ChunkEmitter`) and `MailBody` | | `MCTransaction` | |
| queue scan, server and cluster | `Cluster`, extends `QueueScan` | | `MCCluster` | `ClusterProofs` |
| upstream client and host pool | `SmtpClient`, extends `HostPool` | | `MCPlugins` | `SmtpClientProofs` |
| connection counts | `Limit` | | `MCPlugins` | `PluginProofs` |
| authentication | `AuthProxy`, in `Verdicts` | | `MCPlugins` | `PluginProofs` |
| greylisting | `Greylist`, in `Verdicts` | | `MCPlugins` | `PluginProofs` |
| reverse names | `Fcrdns`, in `Verdicts` | | `MCPlugins` | `PluginProofs` |
| URI lists, DNS lists | `Uribl`, `DnsList`, in `Verdicts` | | `MCPlugins` | `PluginProofs` |
| sender policy | `Spf` | | `MCPlugins` | |

Each property has a mistake it would catch: operators named `Mistake...` stand
before the definition they would replace.  No specification uses them.

### TimerQueue

`queue` is the array, a timer a record of its number and fire time; `cancelled`
is kept apart because a timer that is cancelled stays in the array with an
empty callback.  `Add` has the two ways of `add()`, `Push` and `Splice`, and the
`Throw` at its end; `Fire` is a whole call of `fire()`, the loop included.  The
clock may be set back (`SetBack`), as `Date.now()` may.  A delay may be `NaN`,
which compares false with everything: pushed on an empty array, thrown at by one
that is not, and in front of the array what every later timer is thrown at.  The
exception ends the process (`thrown`).

`TimerService` is a set of timers of which a sweep ends exactly those that are
due, and which refuses a timer only when it or one before it has no time.
`ImplementsService` says that the array and the popping of its head do that.

### OutboundQueue

`disk` and `todo` are the queue directory: a file has the count of failures in
its name and names its recipients.  The item of a file has several callbacks
under way (`at[f][s]`, one for each *strand*): the mail itself, the two splits
of `finish_processing_mail`, and the delivered hook.  Each strand ends in
`discard()`, which counts `refs[f]` down, unlinks the file and gives the slot
back (`cb`).

* submission: `WriteFile`, `WriteFails`, `Acknowledge` (`send_trans_email`);
  `StreamCloses` is the second callback of a write that failed (`torn`);
* delivery: `Dispatch`, `DelayRespond`, `SendTempFails`, `SendBounces`,
  `FinishAll`, `FinishSome`, `DeliveredRespond`;
* deferral: `DeferredRespond`, `Renamed`, `RenameFails`, `TimerFires`;
* bounce: `BounceRespond`, `PopulateFails`, `NoticeWritten`, `NoticeQueued`,
  `NoticeFails`;
* splits: `SplitWritten`, `SplitReady`, `SplitFails`, `SplitWriteFails`;
* `HooksClash`: strands of one mail run their hooks on one `hooks_to_run`, and
  `run_hooks` throws when two meet, which takes two plugins on a hook;
* `Load` and `Restart`: a crash forgets every item and keeps the directory.

What a conversation answers is a choice here; `Delivery` is about how.
A bounce message is a file with a null sender whose recipients are those it
reports on, so that a recipient can be followed until the sender knows.

### Hooks and Connection

JavaScript calls nest, and whether a callback runs before or after the call
that was given it returns is what goes wrong in this code.  `agenda` is the
stack of what the running turn of the event loop has still to do: an action
pops the top task and pushes the calls it makes, in order.  Events (a line, a
plugin's answer, a timer, an answer of dns, the end of the socket) are taken
only when it is empty.

`Hooks` has one action for each part of `run_hooks` and `run_next_hook`: a plugin
answers before it returns (`PluginAnswersNow`) or later (`PluginAnswers`, which
its timer is one way of), and may call again when it already answered
(`LateCallback`).  `Connection` adds the state machine of `connection.js`, one
disjunct for each command and each `*_respond`; `resume` closures and
`setImmediate` are tasks too.  A line of the client is its command; a
transaction is the number of its recipients and of those answered 250.

There are two `try` blocks, around the call of a plugin's method
(`plugins.js:500`) and around the handler of a command (`connection.js:318`): each
leaves a task `"tried"` below what it calls, to which `Throw` unwinds the agenda.
The first goes on with the next plugin, the second disconnects; what is thrown
outside both ends the process (`thrown`).  `ReplyFails` is a `client.write()` that
throws, and `NextHook` the hooks a plugin starts for XCLIENT.

`SmtpSession` is the promise: at most one reply due, none once closed.

### Delivery

`agenda` as in `Hooks`.  `conv[m]` is the closure of a mail's conversation
(`command`, `recip_index`, the three lists, `processing_mail`, `fp_called`), and
`sk`, `pool`, `notes` are the sockets, the pools of generic-pool and the entry in
`server.notes.pool`, which is dropped by a connection error or by the pool that
got empty, while sockets of that pool are still in use.  `line[s]` holds the
replies that are on their way: a reply is read by whoever has the socket then.
`srv[s]` is the remote end, which answers a command out of order with 5xx.
`said` and `refused` record what it answered to commands in order.

| code | action |
|---|---|
| `try_deliver`, `try_deliver_host`, `get_client`, `get_pool` | `Start`, `TryDeliverHost` |
| factory `create` and its listeners | `Connected`, `ConnectFails`, `TimesOut` |
| generic-pool `dispense`, `destroy`; factory `destroy` | `PoolDispense`, `PoolDestroy`, `IdleTimeout` |
| `release_client` | `ReleaseClient` |
| `try_deliver_host_on_socket` | `TryDeliverHostOnSocket` |
| `send_command` | `SendCommand` |
| the listener for `line` | `ReadReply`, with `RefusesMail`, `Sorted`, `Resorted`, `Proceed` |
| listeners for `close` and `error` | `Closed` |
| `finish_processing_mail` | `FinishProcessingMail` |
| `temp_fail`, `bounce` and `processing_mail = false` before them | `Decides` |

generic-pool is not part of the repository's source; its two operations are
taken as version 2 has them, the version `package.json` asks for.

### MessageStream, MailBody and Transaction

A line is two pieces, the second of which has the line feed, so that a chunk
can begin or end inside a line; a header, the empty line and a dotted line are
kinds.  `w` is the writing side of a stream (emitter, queue, spool file, writes
under way), `r` the reading side; `immediates` is the queue of `setImmediate`.
`MailBody` is a function from the open bodies and a line to the open bodies,
the lines that go on to the stream and the events of attachments: the code
there is sequential, so it has no actions of its own.  `Transaction` composes
them: `HeaderLine`, `HeadersEnd` and `BodyLine` are `add_data`, `EndData` is
`end_data`, `Feed` hands an attachment's data to its stream, and `TmpFile`,
`FileDrains`, `FileCloses`, `Unpacked` are the plugin that stores attachments,
with `NoTmpFile` and `FileFails` for its errors.  A read that starts while another
goes on takes its emitter: the read stream of the first keeps filling it.
`finished` keeps what each read gave, for `ReadsWhole`, which says what it
should have been from the lines of the client alone.

### QueueScan and Cluster

A queue file is its due time, the pid it belongs to and its mail; `mem[p]` is
the memory of a process: what it is asked, the files it grabs, the items it
has made, its `cur_time`.  An item keeps the name it was made with, which goes
stale when the file is renamed, as in the code.  A flush of a domain lists the
files of all processes, one at a time (`ListFile`), while they are sent and
renamed, and stops at the first that is gone.  That the remote server accepts
a mail (`SendMail`) and that its file is unlinked (`Discard`) are two steps, and
a process may die between them: the next owner of the file sends it again.
`Cluster` has the master (`master`, `graceful`), the workers (`worker[p]`) and the
messages to them (`box[p]`).  `NextWorker` is one turn of
`eachSeries` in `_graceful`; whether a listener watches a worker is recorded,
since that decides whether its end is seen.  `harm` records what the
code does not recover from, and which properties therefore cannot promise:
`"unseen"`, a worker that died with no listener, and `"left"`, one whose files
nobody was told of.

### HostPool and SmtpClient

`client[c]` is a client (`state`, `command`, the connection it is lent to, its
listeners); `wire` the commands the server has not answered, each with the
connection it was sent for, which the code does not record.  `Reply` is the
`line` listener and all that its event runs: `On...` for `get_client_plugin`,
`ForwardOn` and `ProxyOn` for the two plugins.  `cut` marks a client that was
released with an answer still due, and `silent` a hook that no event will
answer (section 6).  Whether a client has `secured` is asked once for each
lending, while its listeners for 'secure' stay on the socket (`on_secured`), and
each of them says EHLO.  An `emit('error')` with no listener and a 'helo' without
the capabilities it needs throw: inside a hook the hook goes on, and the client is
lost to its pool; from the socket the process ends (`thrown`).

### Plugins

Each of the other plugin modules has the state the plugin keeps over its
callbacks, one action for each hook and one for each callback.  What a server
outside says is a choice; what it said is recorded (`accepted`, `tried`, `hits`,
`resolved`, `found`) for the properties.  `MCPlugins` has all of them on one
instance each: they share no state, so a behaviour uses one of them, and the
run is the sum of their state spaces.  In `Limit` a visit is `odd` when it was
counted down without having been counted, or had no count.  It may leave while
its `incr` or the answer to it is pending; commands of one process reach the store
in their order.  The store of `Greylist` reads at one moment and writes at a later
one, from the record that was read.  The mail may go while the store is asked
(`MailEnds`), and a write may fail (`WriteFails`): both make the plugin throw, which
ends the process and every mail with it (`Throws`), and another one starts on the
same store.  `missed` remembers that a lookup of a white host failed, or that a
process ended between the two writes of a promotion.

`Verdicts` has an instance of each of the plugins that refuse, or let through, for
what was said to them, and their specifications side by side: it is where
`VerdictsTrue` is stated, and what its proof extends.  `Spf` is not among them:
`check_host` calls itself, and so does its model.

## 4. Runs

| run | what it asks |
|---|---|
| `timer_queue` | order, nothing lost, refinement of the set (which refuses NaN and nothing else), every timer runs |
| `queue` | one end for each recipient, exact reference counts, slots, `next_cb` once, every recipient ends |
| `queue_disk` | with crashes and failing writes: no acknowledged recipient is lost; refinement of the spool |
| `queue_recover` | after a crash every acknowledged recipient still ends |
| `session` | one command at a time and one reply each (refinement), no stall, disconnect plugins once, a chain calls its own methods |
| `session_faults` | `data` and `queue` plugins see only recipients that were accepted |
| `session_live` | every command is answered, a client that hung up is let go, a waiting client is no early talker |
| `delivery` | a socket serves one mail, a mail is decided once and always, the lists are what was said |
| `delivery_pooled` | *fails*: a mail bounces that nobody refused |
| `streams` | a message is read back whole, however it is cut, spooled, paused and read again; `end` is called once; attachments get their lines; everything ends and no spool file stays |
| `workers` | no mail is held by two processes or sent before its time, none is sent again but after a death, dead workers are replaced, a restart and a shutdown end, every queue file is sent |
| `plugins` | replies reach the connection they are for, counts are exact, verdicts have their reason, dead backends rest and return, every hook is answered |

`VerdictsTrue` and `HooksAnswered` are conjunctions with a part for each plugin,
but for SPF, whose verdicts are in `SpfTrue`;
the modules have a `Mistake...` for several of the parts.  `HooksAnswered` also
says that `smtp_forward` and `smtp_proxy` call `next()` once (`AnsweredOnce`), and
`DataEnds` of `streams` that `end_callback` runs once (`EndsOnce`).  `TypeOK` of the queue
is checked and proved; `Connection` and `Delivery` state theirs as the
description of their variables, and no listed run spends time on it.

### Bounds

* **Timers**: three timers meet every case of `add()` (push, splice in front,
  splice between) and one that blocks another; delays 0, 1 and 3 give equal,
  earlier and later fire times, and NaN none; one step back of the clock.
* **Queue**: two recipients make every split (all, some, none in each list); a
  third file is the bounce of a split, a fourth its own.  Two slots let a mail
  run while another waits.  Two failures (`MaxTries`) give one retry and the
  last.  One crash: a second finds what the first could have found.
  `queue_recover` has two domains and so two files for one answer.
* **Session**: six lines reach a message and the command after it, or a second
  transaction; one line in a packet, several packets waiting.
  One plugin for most hooks, two for disconnect, so that a chain can be cut.
* **Delivery**: two mails, since a socket passes from one to the next; two
  recipients and two addresses for the first, one of each for the second; two
  sockets at most in a pool, one fault.  The remote end refuses only the first
  mail, in every way; the second meets what the first leaves behind.

* **Streams**: chunks of five pieces, so that every chunk boundary falls in
  another part of a line in the four messages; memory only or a spool file
  after seven pieces; two reads, with different options; an attachment buffer
  of one line.  With one message of each shape the body parser meets the
  transitions that a well-formed message makes.
* **Workers**: two workers, up to two more in their place, one file of an
  earlier run that is due or not yet, one deferral, two slots; one death, one
  worker that does not stop, one order of an operator.  Two files share only the
  slots, which `queue` covers.
* **Plugins**: two or three connections, two backends, one fault; two
  transactions on one tuple with black, grey and white periods of 1, 3 and 4
  seconds, three lookups and a clock to 6, so that a retry can be too early, in
  time and too late, and a white record can be used, renewed, and about to expire; a policy
  record for each way mechanisms call each other (include in include, redirect,
  `mx` with two hosts); two zones; two remote hosts of the DNS lists.

In `session` and `session_live` the helo, ehlo and mail plugins never answer at
once, because `resume()` then leaves the connection deaf, and reset plugins never
later, because hooks then go on after the client left (both in section 6); in
`delivery` the properties of the lists are stated without
pooling, because of `delivery_pooled`.  The deny hook answers CONT or OK only,
and no run but `session_faults` denies at connect (section 6).  LMTP is run
without pooling.  `streams` runs without the two orders of callbacks (`"batch"`, `"overtake"`) that break it (section 6).

Deadlock is not checked: every mail comes to its end, a client may stop sending,
and an exception that nobody catches ends the process.

### Fairness

* `TimerQueue`: the clock advances, and node calls the interval's callback.
* `OutboundQueue`: `WF(Internal)`.  Callbacks of the disk come, plugins answer
  or are timed out (`plugin_timeout` is 30 s unless set to 0), conversations
  end.  Submissions, crashes and faults need not happen.
* `Connection`: the turn goes on, `setImmediate` runs, dns and the message
  stream answer, a plugin answers or its timer does.  Nothing is asked of the
  client.  So with `plugin_timeout=0` `CommandsAnswered` is not claimed.
* `Delivery`: replies that were sent are read, connections are made or fail, a
  socket nothing is heard of times out, a socket that was ended closes, a data
  stream ends.  The last is not so when reading the queue file fails: its
  `error` is only logged.  `close` and `refuse` need not happen.

* `Transaction`: the client sends the whole message, the disk and
  `setImmediate` go on, a transaction is reset when its hooks are done.  The
  formula is weak fairness of three groups of actions with their guards written
  out, and of the reset.
* `Cluster`: processes run, the clock advances, a worker that was told to go
  goes or is killed.  Orders, deaths and deferrals need not happen.
  `Staffed` assumes no `"unseen"` death, `QueueServed` no harm at all and a master
  that is not stopped: section 6 says what happens otherwise.
* `MCPlugins`: a store answers, a timer fires, a lookup ends (c-ares has a
  timeout), a backend answers what it was sent or the socket fails.  Lookups that
  race a timer need not end: the timer is enough.  `HooksAnswered` leaves out
  hooks of `smtp_forward` and `smtp_proxy` whose client was closed by the backend,
  which only `plugin_timeout` ends.

## 5. Proofs

Twenty-nine theorems hold for every value of the constants that satisfies their
hypotheses, which the paragraphs below name.

**Timers** (`TimerQueueProofs`).  `IInv` is the type invariant and
`SortedFifo` with the ages of the timers: `add()` gives the highest number, so
ties stay in order.  `AlwaysSorted`, `NoTimerLost` and `ArrayImplementsService`
hold with NaN delays too; the last uses sortedness for its one hard step: the
timers in front of the first that is not due are all that are due.

**Queue** (`OutboundQueueProofs`).  `NoLoss` is not inductive: that a file
names a recipient says nothing of who will deal with it.  `IInv` adds, in
named parts,

* `Owed`: a recipient that was acknowledged and did not end is *owned* by a
  strand whose file is on disk;
* `Counted`: the reference count of a file on disk is the number of its
  strands, or the file is settled elsewhere.  The exception is needed: two
  error listeners of a failed split discard one reference twice, and then
  every recipient is reported already;
* `Gone`: a callback that outlives its file has nothing new to report;
* `Shape`, `Children`, `Submitted`: which strand waits for what, that a file
  that is being written has one writer, and that the files of a submission
  that is not answered are its own.

`NothingLost` follows from `Owed`; `QueueImplementsSpool` needs all of it for
the steps that unlink: who leaves the directory ended.  Assumptions:
`ConstAssumption` (types of the constants) and `OneMailAssumption` (a recipient
is one address of one mail).  Both are evaluated by the runs.

**References and slots** (the second part of `OutboundQueueProofs`).
`RefcountExact`, `NoSlotLeak` and `NextCbOnce` have the hypothesis `SplitsWork`,
no `"split"`, `"write"` or `"plugins"` in `Faults`: a split whose file cannot be
written starts two bounces on one reference, hooks that meet end the process in
the middle, and the run that admits them breaks all three.  Under it `Steady` removes the exception of `Counted`: a file on disk has
as many references as strands that will discard it, and one slot while it has
any.  `OneEnd` needs `MaxRestarts = 0` as well: after a crash between a
delivery and the unlink the mail is sent again.  Its invariant, `Single`, says
that an unfinished recipient has one owner, the strand that still has to report
it, and follows that strand through splits, renames and bounces.

**Counts** (`PluginProofs`).  `CountsExact` is not inductive: whether an answer
makes the plugin repair the count depends on the number the store gave it
earlier.  `IInv` adds `Seen` (that number needs no repair), `NoReset`, and
`InStep` and `Blind`, which say when a connection has been counted.
`CountsStayExact` is about the specification of the plugin alone, `LimitSpec`,
for any set of connections and hosts; `LimitAssumption` says that there are
finitely many connections.  The one step with arithmetic on sets is `StoreAdds`.

**Verdicts** (`PluginProofs`).  `VerdictsAreTrue` is about the specifications of
five plugins side by side, each with an invariant of its own.  In `AuthInv`, a
check that ended well carries a login some backend accepted, from the reply to
AUTH until its socket closes, through every order of errors, closes and timeouts
that start the next try.  In `NamesInv`, the answer a connection keeps is a match
only if some name resolved to its address.  In `LinksInv`, a run of lookups has
called `next()` when one was listed or the timer fired, and the hook that waits
for it has not answered yet.  In `BlockInv`, an answer of a zone's callback is due
to zones that listed the address or were heard, and a zone is in use or tested
again, even while a check is changing the array the loop is over.  `BackendsAssumed`: a
number of backends.

**Greylisting** (`PluginProofs`).  A read is judged, and written back, by
callbacks that come later.  `PromotedOnceWaited` has `TimesInv`: a transaction
acts on a record the store gave it within a second (the model's clock waits for
answers that are older), and a creation time in the store is a time at which
`process_tuple` had the tuple, or past the grey period, so
that a promotion is a retry inside the two periods whatever others wrote in
between.  It holds for any `Black`, `Grey` and `White` (`PeriodsAssumed`).
`WhiteHostsWhole` adds `Lasting`: a white record outlasts what the transactions
under way may still do with it.  `check_and_update_white` stops using a record two
seconds before it expires, and a touch after a read takes less; a promotion
writes the record and its expiry in two steps, and whoever reads it in between
has time enough if the white period is four seconds or more (`WhiteAssumed`; the
default is 36 days).  With three TLC finds the touch that comes too late.  `Lasting`
holds while no lookup of a white host fails, and no process ends between the two
writes of a promotion (section 6).  When a mail goes, or a process does, what was
written stays and nobody is left to act on what was read: `ThrowsLasting`.

**Custody** (`ClusterProofs`).  `OneHolder` says nothing of how a file changes
hands.  `Custody` does: an item in the memory of a process is of a file with the
pid of that process (`Owns`), and every message, request and directory listing
on the way to a take-over is about a pid that has ended (`EndedOnly`), which is
what `init_master_respond` (earlier runs) and `cluster_exit_listener` (a dead
worker) see to and a restart respects; `Alive` ties memory to the life of the
process.  A file has one pid, so `OneHolderEver` follows.  `OnTimeEver` adds
`Timely`, in which a timer is never set before the due time although `cur_time`
lags, and `Once`: as long as no domain is flushed a file has one item
(`Single`), whose name is right (`Known`), and a mail that was sent and is still
there is on its way to the unlink or a death is to blame (`Counted`).  Every
death and every step of the master is compared with the invariant by one lemma,
`Quiet`.  Assumptions: `ScanAssumption` and `ClusterAssumption`, the types of the
constants; the bounds of the runs are not used.

**Connection** (`ConnectionProofs`).  None of the properties is inductive: who
answers the command in hand is not in any one variable.  `IInv` says that it has
one owner.  Tasks of a turn nest, but all that may lie below the top one is the
loop over the lines, the setting of `esmtp` and one `resume()` (`Tailed`), so
the command is with the task on top, and `Good(t, next)` says for each kind of
task in what state the connection must be then; between turns it is with the
one plugin call that `current_hook` names (`Asked`), with the message stream
(`Streams`), with nobody because none is due (`Ready`), or the connection is over
(`Over`): together, `Rests`.  `Working` ties a hook to the state its plugins are
asked in, `Serving` lets the deny hook stand for the hook it was denied in, and
`Left` says that what is in `hooks_to_run` is of that hook and, for disconnect,
that the methods called and left are all there are.  One lemma for each action
shows that it hands the command on; `NextKeeps` puts them together.  `Patient` is
the part for `WaitingClient`.  The invariants follow from `IInv` alone,
`ConnectionIsSession` from it and each step: a command is taken only in `Ready`,
a reply sent only with one due, and `disconnect()` gets through only once.

The hypothesis is `Sober`, about what plugins do; each part excludes a place where
the code does not keep its promises (section 6):

| part | excludes | because |
|---|---|---|
| `AnswersOnce` | a second callback of a plugin | it clears `current_hook` (`plugins.js:435`) |
| `PluginsKnow` | that dns, or for relayed mail the outbound queue, is asked: a plugin has answered before | their answers do not look at the state (`connection.js:724`) |
| `ConnectsAll` | a denial at connect | in LOOP a QUIT leaves the state (`connection.js:344`) |
| `DenyDecides` | a deny plugin that denies | `deny_respond` calls itself (`plugins.js:575`) |
| `ResetsNow` | reset_transaction plugins that answer later, or deny | hooks go on after the client left (`connection.js:630`) |
| `GreetsLater` | helo, ehlo and mail plugins, where the client may use the command, that answer at once or do not exist | `resume()` puts PAUSE_SMTP back (`connection.js:637`) |
| `NamesAssumed` | | the hooks are those of the code |

Everything else is free: any number of plugins for each hook, denying,
disconnecting or waiting, any client and packets, hangups, timeouts, errors of the
stream.  The constants of the run `session` satisfy `Sober`; TLC checked `IInv`
there and on instances with two plugins for a hook, every answer, packets of two
lines, and both kinds of relaying, before it was proved.

**Sockets** (`DeliveryProofs`).  `LentOnce` has no hypothesis but the types of
the constants.  It is not inductive, since a call that is still to be made may
release a socket, or lend it.  `Lent` adds that such calls come in an order that
keeps it: what lends or destroys a socket is the top call, and about a socket
nobody has (`OnTop`, `Ready`); nothing touches a socket after its last call
(`Ordered`); a release finds its conversation stopped, or the stop in front of it
(`Stopping`).  `Holders`, `Apart` and `Once` say where a socket is: with the mail
it names, idle in one place, being made, or none of these.

**Decisions** (the second part of `DeliveryProofs`).  `DecidedOnce` assumes `NoTimeouts`, no
`"timeout"` in `Faults`: with it the property is false (section 6).  `Decided`
says that a mail has at most one place at a time, waiting in a pool (`WaitOnce`),
talking, on the agenda or decided (`Single`, `Place`), and that a conversation
which is to be stopped is stopped next (`Closing`); `Quiet`, that nothing comes
from a socket that is not connected.  One lemma for each action says how it moves
a mail from one place to the next.

**Lists** (`ListsProofs`, which rests on the two before).  `ListsPartition` and
`ListsTrue` look at a mail that is finished with; which reply put which
recipient in which list was settled long before.  `Covers(m, n)` says it of the
first `n` recipients: the lists split them, and in SMTP as they were answered.
`Sync` says where a conversation is, before, at or after its recipients
(`Begun`, `Asking`, `Asked`), and that a reply is read for the command it
answers: the awaited reply is the one to the last command (`Expects`), unless
that command is still to be written (`ToSend`) or the conversation is about to
be closed (`CloseComes`).  `Sends` and `Streams` say that nothing else writes on
the socket, `Fresh` that one which is lent for the first time has at most its
greeting on the line.  The properties are about `~cfg.pooling`; with a pooled
socket `Fresh` is false, since the reply to the last RSET may still come.
Besides `NoTimeouts` the proof uses of `DeliveryAssumption` that only RCPT is
answered 251.  In LMTP a reply to the dot moves a recipient from `ok` to another
list (`ResortLists`), which keeps the partition but not, as the code counts them,
the truth of the lists (section 6); so `ListsTrue` is about SMTP.

**Upstream clients** (`SmtpClientProofs`).  `RepliesAreOwn` is about the
specification of the clients and the two plugins alone, `ClientSpec`.
`OwnReplies` is not inductive: it says nothing of the client `smtp_proxy` keeps
in `notes` or of the listeners that outlive a release.  `IInv` adds `Kept`, what
is remembered is lent to that very connection or destroyed, and there is nothing
before the hook that registers it; and `Sound`, what a client owes is for its
holder (`Owns`), one at rest owes nothing (`Rests`) and the pool holds clients
at rest, once (`Pooled`).  A handler makes its calls in one step, so `Fine`
follows a client from one intermediate state to the next.  `NumbersAssumed`: 0
is neither a connection nor a client.  The theorem says nothing of clients that
were `cut`, given back with an answer due (section 6).

**Only model-checked**:

* liveness, which rests on ENABLED: `Settles`, `Staffed`, `QueueServed`, and
  `DeadHostsRest`, which says that a backend is tried again;
* `Connection`: `CommandsAnswered` and `Ends` are liveness; what `session_faults`
  and `session_live` check outside `Sober` (late callbacks, dns and the outbound
  queue asked) has no theorem; `TypeOK` types the fields of a task by `STRING`,
  and no installed prover knows that a literal is one: `Typed` has its place;
* `Transaction`: its properties compare the result of folds over lines and
  chunks, which needs induction over data;
* `SpfTrue`, since `Spf` is recursive;
* `AnsweredOnce`, a part of the liveness property `HooksAnswered`.

## 6. Where the code does something else

Shown by a run:

* A socket is back in the pool, and lent, before the RSET of its last mail is
  written (`delivery_pooled`; `outbound.js:1813`).  With pooling, and a mail that
  waits, that mail may bounce at a destination that accepts everything.

Met while modelling, outside the runs.

Session and queue:

* A delay is NaN when `deferred_respond` parses what a plugin passed with DENYSOFT
  (`outbound.js:2217`) and the plugin timed out (`plugins.js:491`).  The file is then
  renamed to a name that `fn_re` (`outbound.js:36`) does not match, so that it is
  never loaded again, and `add()` throws "Should never get here"
  (`timer_queue.js:41`) in the callback of the rename, unless the queue is empty;
  then the timer without a time stays in front, and every later `add()` throws.
  Nobody catches that: the process exits (`haraka.js:32`).
* `reset_transaction` saves the state PAUSE_SMTP, the reply sets CMD, and
  `resume()` puts PAUSE_SMTP back (`connection.js:637`): after a second MAIL or
  EHLO in a transaction, with plugins that answer at once, no later line is
  processed.  With `Sync` for all hooks, `NoStall` fails.
* `client_disconnected()` compares with `states.DISCONNECTING` (`plugins.js:516`);
  the constant is `STATE_DISCONNECTING` (`connection.js:38`).  So "Bail if client has
  disconnected" (`plugins.js:438`) never happens.
* `disconnect()` in the middle of a reset drops the transaction without
  `message_stream.destroy()` (`connection.js:625`).
* `rdns_response` (`connection.js:724`) and the callback of `send_email` run hooks
  without a look at the state: an answer that comes after `disconnect()` leaves
  the state DISCONNECTING again, and the disconnect plugins may run twice.  A
  plugin that calls back after its timeout (`MaxLate` above 0) breaks
  `DisconnectOnce` and `OwnMethod` likewise.
* `reset_transaction_respond` calls `resume()` after its callback
  (`connection.js:630`).  With pipelined lines and plugins that answer at once,
  that callback may handle a whole message, and `resume()` then puts CMD back
  while the message is being queued: the next command is processed with a reply
  still due.  In the run `session` the hooks of the greeting therefore do not
  answer at once.
* A queue failure is reported as DENYSOFT, which the switch at
  `connection.js:1793` does not name: the client is told 550.
* A write of `process_delivery` that fails emits 'error' and then 'close', and both
  call back (`outbound.js:651`, 666): `async` throws at the second, which ends the
  process.  In a split the 'close' after the error of a writer whose reader is
  done also renames the file it could not write whole; that rename is not
  modelled.
* The hooks of one mail share `hooks_to_run` (`plugins.js:384`).  When `delivered`
  and `deferred` or `bounce` are under way together and have two plugins each,
  `run_hooks` throws or one calls the plugins of the other; two that deny at once
  share one `deny_respond`, which is not modelled.

Queue scan and cluster:

* A deferred mail loaded when its timer fires is compared with the `cur_time` of
  the last scan (`outbound.js:363`) and may wait its delay again.
* A read error before 'ready' (`outbound.js:900`) sends the item to `temp_fail`
  while `load_queue` waits for 'ready': its slot is gone.
* `flush_queue(domain)` makes a second HMailItem.  When the first one's deferral
  renames the file, the second cannot be read; it may also send the mail twice.
* The list of a flush of a domain goes over the files of all processes and stops
  at the first that went in the meantime, whoever had it: nothing is flushed
  (`outbound.js:340`).  When a file goes between two reads of its header the stream has
  no listener for 'error' (386) and the process ends, which the models take for a
  crash.
* A file that is being written begins with `platformDOT`, `.` on Windows and
  `__tmp__.` elsewhere (`outbound.js:43`).  `load_queue_files` takes only `/^\./` for
  a leftover (295, 325).  So on Windows a worker that loads or lists the queue
  unlinks what another is writing: its rename fails, and the client is told that
  the mail was not queued, or the split bounces, as in `WriteFails` and
  `SplitWriteFails`.  Elsewhere leftovers stay for ever, each scan logging them as
  names it does not know.  The scan of the master unlinks a name without its
  directory (144), which removes nothing.
* A graceful restart removes the 'exit' listeners of the cluster (`server.js:128`):
  workers that die by themselves during it are not replaced, a replacement that
  dies before 'listening' stalls it, and a worker of the snapshot that is gone at
  its turn makes the master throw.  The replacements of replacements have no
  listener.  A shutdown asked for during a restart is ignored.
* The queue of a worker that left, or was killed with no listener, is not
  adopted before the master restarts.

Streams:

* `end_callback` runs twice when several writes wait for the spool file to open
  and drain in one batch (`Faults` with `"batch"`), and a read that overtakes the
  writes under way misses them (`"overtake"`).
* A spool_after that is hit exactly loses what was spooled; a chunk boundary in
  a header or a dotted line passes the rest of it raw; headers that fill the read
  buffer make `_read()` run twice; `destroy()` while the spool file is being opened
  leaves it.
* A message without an empty line loses its body (`transaction.js:120`).  With an
  unterminated or nested multipart, attachments never end; a boundary is matched
  by its prefix.
* `AttachmentStream.resume()` may emit 'end' twice without backpressure.
* In `attachment.js` 'error' followed by 'close' counts `attachment_count` down twice
  (343), so the hook may go on before the other files are written.  When the
  temporary file cannot be opened `cleanup()` closes a descriptor that is undefined,
  which throws before the stream is resumed (328): the process ends.  Both are
  steps of `Transaction`, in `asked.faults`.

Upstream clients and backends:

* `closed()` destroys the client before it tests its state, so 'error' is not
  emitted and the hook is left to `plugin_timeout` (`smtp_client.js:146`).
* A release with a command unanswered takes the late reply for that of RSET;
  the "mid-data" test cannot hold since `start_data` sets 'dot' (`smtp_client.js:217`).
* `is_dead_sender` releases a client that stays in `notes.smtp_client`: a later
  disconnect of `smtp_proxy` releases it again, perhaps from another connection.
* 'connection-error' listeners pile up, so that one failure starts several probe
  chains; the idle timeout of a pooled client marks its host dead.
* With `auth_user` and STARTTLS or XCLIENT two listeners for 'capabilities' send
  two commands.  The listeners for 'secure' of one lending after the other pile up on
  the socket, and each says EHLO (`smtp_client.js:412`).
* With `auth_user`, a server that refuses EHLO or offers no AUTH makes 'helo' throw
  (`smtp_client.js:440`): from the socket the process ends, in `get_client_plugin` the
  client is neither used nor given back.  So does a line that is no reply when the
  client is in the pool (54, 247), for 'error' has no listener then.
* The wrapper of a socket listens to its 'error' once (`tls_socket.js:80`), so a
  second one throws; that is not modelled.

Plugins:

* `decr_concurrency` sets a count below 0 to 1, not to 0 (`limit.js:234`); with no
  count from the store the comparison is with NaN and the connection is denied.
* `rate_limit.js` reads `plugin` and `config`, which do not exist, in
  `lookup_host_key` and `lookup_mail_key`: it throws at every hook.
* In `auth_proxy.js` 'error' and the 'close' after it both try the next host:
  hosts are skipped and `passwd_ok` runs twice.  A user whose domain was stripped
  stays so for the next hosts.  A reply to EHLO of several lines ends the socket.
* In `greylist.js` an update of a record that expired writes one with no creation
  time and no expiry; a lookup error counts as no record, and for a host that is
  white as its first contact: it is promoted again with an `updated` that is not
  its own, and a later touch may then find the record gone; one whitelisted
  recipient spares all later ones of the transaction.  A transaction that goes while
  the store is asked is a TypeError in `craft_hostid` (386), and an error of a write
  is thrown (513, 542, 569): both end the process.  When two promotions of one host
  overlap and the process ends between `hmset` and `expire` of the second, the record
  expires sooner than its `updated` says.
* In `auth_proxy.js` a line that comes after `socket.end()` is still handled (90): what
  it sends fails, and the error tries the next host.
* In `spf.js` `include` ignores its qualifier and its lookups do not count for the
  limit; `mx` calls back at once for a temporary error and again for the last
  answer, so the hook's `next()` may run twice; `ptr` keeps the last name.
* `connect.fcrdns.js` stores the answers of all names under the last one, so a
  match can be lost or credited to the wrong name; a whitelisted connection turns
  the rejections off for everybody until the file is read again.
* `data.uribl.js` without zones calls `next()` and goes on; the limit of names is
  exceeded by one.
* `dns_list_base.js`: a zone that is in use again stays in `disabled_zones`, and is
  tested twice each time.

Hooks and conversation:

* A client that hangs up during `connect_init` makes `run_hooks` skip the
  plugins after the running one (`plugins.js:395`), which docs/Plugins.md:119
  says are always called.  Their disconnect plugins are called all the same.
* In LOOP state a QUIT does not change the state, so a second one is processed
  while the first one's plugins run (`connection.js:344`), against the comment
  at 445.
* A second callback of a plugin that was timed out clears `current_hook`
  (`plugins.js:435`) before it is seen to be one (446): a disconnect after that
  cancels nothing.
* A deny plugin that denies, by its timeout for one, makes `deny_respond` call
  itself for ever (`plugins.js:575`).
* A bounce message that cannot be queued is discarded with no log line:
  `bounce_respond` looks for `constants.deny` (`outbound.js:2132`), and
  `send_trans_email` reports `constants.denysoft` (`outbound.js:627`).  The model
  has this end as `"unreported"`.
* LMTP replies after the dot are taken for `ok_recips[0]` when they refuse, and
  counted when they accept (`outbound.js:1661`, 1817): after an acceptance and a
  refusal the wrong recipient is deferred or bounced.  So `ListsTrue` leaves
  LMTP out; `ListsPartition` does not.
* A recipient answered 251 or 252 is in no list (`outbound.js:1781`) and is
  neither delivered nor reported.
* The `timeout` listener of a new connection stays on the socket while it is
  lent (`outbound.js:1241`).  When it fires in the middle of a conversation the
  socket is ended; a 4xx or 5xx that still comes then finds it unwritable in
  `send_command`, which tries the next host, and the mail is deferred or bounced
  as well.  `Faults` with `"timeout"` shows it as a violation of `DecidedOnce`.
* generic-pool does not serve waiting mails when a socket is destroyed: with
  more mails than sockets and no pooling a mail may wait until another one is
  sent.  `Settles` is checked for no more mails than sockets.

## 7. Not modelled

* Of the connection: PROXY, STARTTLS, AUTH, VRFY, `relaying = false` of XCLIENT
  (`Relaying` is a constant), lines that are too long or
  not ASCII, early-talker timing, texts and codes of replies.
* Of the conversation: STARTTLS, AUTH, the DNS queries before it, DSN fields,
  several hosts with pools of their own (all addresses share one, the case in
  which mails meet).
* Of the queue: time and several items for one file in `OutboundQueue`
  (`QueueScan` has them), errors of the disk while a file is loaded.
* Of the message: character sets, encodings, `get_data` buffers, unpacking.
* Of the cluster: a server of one process, uid and gid, listeners, `init_child`
  hooks that deny (the master dies).
* Of the plugins: CRAM-MD5, the p0f and list rules of `greylist` (a choice), macros
  of SPF, how names are found in text, statistics in redis.
* `rate_limit.js`, which throws (section 6), and plugins that are a table, one
  timer, or one question and one answer.
* Parsing and formatting of any kind, TLS, configuration, logging.

`PROJECT.json` says of each component and hazard where it stands.
