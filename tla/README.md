# lh: specifications, model checks and proofs

lh is a C11 utility library: core data structures, an executor layer
(`src/lh/exec`), an OS layer (threads, logging, modules, SQL) and a UI toolkit
that can also be served to a browser. This directory holds TLA+ models of the
parts whose correctness depends on the order in which threads and callbacks
act, the TLC configurations that check them on small instances, and TLAPS
proofs, for every instance, of all their safety properties and refinements.

## 1. Inventory

### Modelled

**Exec queue** (`src/lh/exec/queue.c`). An intrusive queue with many producers
and one consumer. State: `back` (atomic), `front` (the consumer's), a stub
node, and the `next` word inside every task. Operations: `init`, `push`,
`try_pop`. Hard: a push is an exchange and a later link, and the link writes
into a task of somebody else; the stub travels through the queue; records are
pushed again as soon as they came out. Correct when: the links stay one chain in the order
of the exchanges, no write leaves the queue, nothing is lost or reordered, and a
null answer means what it says.

**Tasks, mailbox, executors** (`task.c`, `mailbox.c`, `executor.c`, `inline.c`,
`thread.c`, `context.c`). A submitter takes a place in the owner's mailbox
(compare-exchange on `used`), hands the task to an executor, and the executor
posts it to the mailbox's `finished` queue when its work is done; the owner's
`dispatch` runs `complete` and `destroy` and gives the place back. The thread
executor keeps `pending`, `stop`, `ended`, `local`, a mutex and two conditions.
Operations: `try_submit`, `try_accept` (both kinds), the thread's loop,
`dispatch`, `try_start`, `try_stop` with a timeout, `destroy`. Hard: stop racing
with acceptance, a cancelling stop racing with a task already taken, a
`complete` that submits again, timeouts retried by several threads. Correct
when: places are exact, an ended thread has left nothing behind, each task is
worked on, completed and destroyed as `task.h` says, and nobody waits forever.

**Exec loop** (`loop.c`). A thread that sleeps until there is work and then does
one step. State: `pending`, `stopping`, `state` (running, ended, abandoned,
released), `started`. Operations: `try_start`, `wake`, `hint`, `try_stop`,
`try_abandon`, `try_reap`, `destroy`, and the loop itself with two kinds of
sleep (a condition, or a waiter supplied by the caller). Hard: lost wake-ups, the
last step, and who frees the step's state when the owner abandons a loop that is
just ending. Correct when: a wake or a stop never depends on a timeout, exactly
one step sees the stop and misses no earlier work, the record outlives the
thread, and the state is freed once.

**Ring** (`src/lh/core/spsc.c`). One producer, one consumer, two counters that
wrap. Operations: `push`, `peek`, `release`. Hard: the wrap, and a copy that is
not atomic. Correct when: it is a bounded FIFO queue of whole records and a
peeked record stays as it is until released.

**Logger queue** (`src/lh/os/logger/queue.c`). The ring plus a loop that hands
records to a sink. State: `dropped`, `reported`, `requested`, `completed`.
Operations: `push`, `sync` with a timeout, the round, `destroy`. Hard: a sync in
the middle of a round, request numbers that wrap, drops counted by one thread
and reported by another, a producer that never pauses, the last round. Correct
when: a sync that returns true kept its promise, drops are told exactly once, a
closed sink is complete, and everyone is answered.

**Timers** (`src/lh/core/timer.c`, over `src/lh/core/list.c`). A list ordered by
priority, wrapping ticks, and a walk whose callbacks change the list. Operations:
`start`, `stop`, `pause`, `resume`, `set_priority`, `group_handler`,
`until_next`, `group_deinit`. Correct when: a walk fires what was due, each
once, in order and in time; `until_next` is exact. Two promises of the headers
beyond this the code does not keep (section 5).

**Module event bus** (`src/lh/os/module/event/bus.c`). One list of subscriptions
per event, called in order by `publish`. State: the names, the lists, a flag per
dead record, the list of retired records, `depth`, `count`. Operations:
`try_get_id`, `try_subscribe`, `try_subscribe_once`, removal of a record or of an
exact match, `publish`, `drop_owner`, `clear`, `deinit`. Hard: a callback may do
any of these, publications included, under the walk that called it; a record
removed at depth zero is freed at once and its memory may be the next
subscription. Correct when: no call follows freed memory, a removal takes effect
at once for every publication that runs, every subscription whose turn comes is
called once and in order, and nothing retired is kept.

**Thread group** (`src/lh/os/thread/group.c`). Threads that belong to one owner.
State: the list of members, `count`, `closing`, and a `requested` flag per member.
Operations: `try_start`, `stop` (whose join may fail), `stop_all`, `deinit`.
Hard: members may wait for each other to end, so a stop that joins the first
before it wakes the second may wait forever; a stop that failed is followed by a
group stop. Correct when: no member is freed under its thread, each thread is
woken once, and every call returns.

**Modules and loaders** (`src/lh/os/module.c`, `src/lh/os/loader.c`). A tree of
images. State: what is allocated, opened and started, who was granted a loader,
and the children of each. Operations: `grant_loader`, `revoke_loader`, `load`
with every step of `bring_up`, `unload`, `unload_child`, the root's `init`, `start`
(which may refuse) and `deinit`. Hard: start and stop methods run in the middle of a load or a destroy
and load and unload others; any step may fail when earlier ones have already
taken effect. Correct when: nothing is kept of a failed load, what a module uses
outlives it, and stop runs once for exactly the modules that started and have a
stop method.

**Web UI host** (`src/lh/ui/web/host.c`, `host/conn.c`, `host/pipe.c`,
`host/gate.c`), partly. One thread serves HTTP requests and WebSocket clients.
State: a fixed number of connection slots and of client slots, the poll entries,
and per connection a phase, a deadline and a pipe to the route's handler.
Operations: the poll, the step of every connection (head, body, stream),
`accept_all`, the pump of the clients, the timeout, upgrade, `destroy`. Hard: the
sockets are blocking, so a receive on a stale poll result stops everything, and so
does a reply that its peer does not take; the system reuses handles; a timeout may
meet the end of a body. Correct when: the host never blocks on a receive, every
socket has one holder, a begun body gets one commit or one abort, and a slot
comes back as long as replies are taken.

### How they interact

    submitter --try_submit--> mailbox (place) --> executor (pending: exec queue)
    executor's thread --post--> mailbox (finished: exec queue) --dispatch--> owner
    logger push --> ring --hint--> loop --step--> sink        logger sync --wake--> loop
    loop round --> timer group handler; timer group until_next --> the loop's sleep
    SQL worker --> thread executor         web host step <-- loop with a waiter (poll)
    loader --bring_up--> module start/stop methods --> loader, event bus (owner's tag)
    loader --drop_owner--> event bus       event bus publish --> module callbacks --> event bus

Shared state is either an atomic word or guarded by one mutex; callbacks (work,
complete, destroy, step, timer callbacks, sink functions) run outside the
executor's and the loop's mutexes and may call back in where the headers allow it.

### Not modelled

Listed with their reasons under `components` in `PROJECT.json`. Worth a model
and planned: the SQL worker, list sorting, the web host's WebSocket frame queue
and glyph bookkeeping, and the HTTP and Modbus state machines. Left out for good:
the OS backends (the models take their meaning as given); application runtime and
UI views (one thread, glue, layout and pixels); rendering, text, compression,
hashing and crypto, numbers, dates and memory utilities (pure transformations of
data, where bounded exploration shows little); generated tables (case mapping,
the page served to browsers); and vendored code (SQLite, Monocypher), which is
more than half of all lines.

## 2. Plan

Order of work, most important behaviour first. Done: 1-8, and 9 in part.

1. `ExecQueue` with `FifoQueue` as its abstract specification; proof of its
   safety properties.
2. `ExecThread` with `TaskLife` as its abstract specification.
3. `ExecLoop`; proof of its safety properties.
4. `Spsc` with `BoundedFifo`; `LoggerQueue`, which uses a ring and a loop.
5. `TimerGroup`, with the list operations it uses.
6. `EventBus` with `Subscriptions` as its abstract specification.
7. `ThreadGroup`, with members that wait for each other.
8. `ModuleLoader`, with every failure of `bring_up`.
9. `WebHost`: connections, pipes, deadlines and slots (done); the frames queued
   for a client, partial sends and the glyphs a client holds (left).
10. `SqlWorker`: a composition with `ExecThread` (the connection is opened and
    closed by the thread's context; a task reconnects).
11. The list's merge sort as a pure operator against a reference definition.
12. Modbus and HTTP state machines.

Every safety property, action property and refinement that a run checks is also
proved (section 6); what a new module promises should be proved the same way.

## 3. Modules

| Module | Models | Role |
|---|---|---|
| `FifoQueue` | what a queue of tasks promises | abstract specification |
| `ExecQueue` | `exec/queue.c` | every atomic access is a step |
| `ExecQueue_proofs` | | theorems about `ExecQueue` |
| `TaskLife` | what `task.h` and `stop/kind.h` promise of a task | abstract specification |
| `ExecThread` | `exec/{task,mailbox,executor,inline,thread,context}.c` | composition of both executors, mailbox and callers |
| `ExecThread_proofs` | | theorems about `ExecThread` |
| `ExecLoop` | `exec/loop.c` | loop, wakers and owner |
| `ExecLoop_proofs` | | theorems about `ExecLoop` and `ThreadGroup` |
| `BoundedFifo` | what a bounded queue promises | abstract specification |
| `Spsc` | `core/spsc.c` | every access to a counter, and the halves of a copy |
| `LoggerQueue` | `os/logger/queue.c` | producer, syncers, worker, destroyer |
| `LoggerQueue_proofs` | | theorems about `LoggerQueue` and the ring it uses, `Spsc` |
| `TimerGroup` | `core/timer.c`, part of `core/list.c` | walk and callbacks |
| `TimerGroup_proofs` | | theorems about `TimerGroup` |
| `TimerPromises` | what `timer.h` and `timer/group.h` promise without reserve | `TimerGroup` with history, for the two promises it breaks |
| `Subscriptions` | what an event bus promises | abstract specification |
| `EventBus` | `os/module/event/bus.c` | calls and the callbacks inside them |
| `EventBus_proofs` | | theorems about `EventBus` |
| `ThreadGroup` | `os/thread/group.c` | the owner and the members' threads |
| `ModuleLoader` | `os/module.c`, `os/loader.c` | loads, unloads and the methods inside them |
| `ModuleLoader_proofs` | | theorems about `ModuleLoader` |
| `WebHost` | `ui/web/host.c`, `host/{conn,pipe,gate}.c` | the host's loop, peers, time |
| `WebHost_proofs` | | theorems about `WebHost` |
| `MC*` | | the instances that TLC runs (symmetry only) |

Conventions. Definitions keep the names of the functions they stand for. A module
has `Init`, `Next`, `Spec` and `TypeOK`; in `Spsc` and `ThreadGroup`, which share a
module of proofs with another, these are `RingInit`, `GroupInit` and so on. What a
thread does under a mutex is one step; each atomic access outside a mutex is a
step of its own. Waiting on a condition is a place that only a signal, a
broadcast or a spurious wake-up leaves. Variables called history in a module
exist for the properties only: no guard of the modelled code reads them.
Where one thread calls back into the code it came from (`EventBus`,
`ModuleLoader`) the state holds the stack of the calls that run. Properties whose
name ends in `Sound`, `Exact` or `Accounted` may be conjunctions of named parts, the
module's type invariant among them.
Operators marked `Mutant:` are plausible bugs of the code (a missing signal, a
dropped check, a swapped order); no specification uses them, they document what
each property would catch, and `PROJECT.json` says which.

Memory ordering. Interleavings of atomic accesses are sequentially consistent.
The code uses acquire and release throughout; the models do not show that these
orders are strong enough.

### ExecQueue

`next`, `back`, `front` are the words of `queue.c`; `push[p]` is where thread `p` is inside
`push` (after the clear, after the exchange), `pop` where the consumer
is inside `try_pop`, `held` what it was given. `order` is a history variable:
the nodes from front to back in the order of their exchanges. A task may be
pushed again as soon as the consumer has let go of it, by any producer.

### ExecThread

`used`, `finished`, `linking` are the mailbox; `stop`, `pending`, `ended`,
`local`, `life`, `runner` the executor; `sub`, `own`, `stopper`, `destroyer`
the callers' places; `stage` and `cancelled` the tasks. The queues are the FIFO
queues that `ExecQueue` is checked to implement; for `finished` a post is an
exchange and a link, and a take in between may return nothing. The owner may
submit from inside a `complete`. A start that fails changes nothing; a stop may time out at any
moment and be repeated, and the executor is started again after a destroy.

Callers keep the headers' contract: nobody uses a thread executor that is being
destroyed, one thread dispatches, one thread pops.

### ExecLoop

`hasWaiter`, chosen when the loop is created, is the kind of sleep. With a condition, the sleeper holds the
mutex from its check to its wait (`half checked`, `checking`), which `wake` and `ask_stop` need
and `hint` does not. With a waiter nothing is locked and the waiter's signal is
latched. Timers are part of the step. `owed`, `work` and `due` are history: a
wake that returned and has seen no round since, work no step has seen, and work
of that kind from before the stop.

### Spsc and LoggerQueue

`Spsc` keeps both counters modulo `Modulus` and a slot is `Torn` while it is
being copied. `SpscAssumption` (`Shape`) is what `is_valid_shape` checks of the
capacity and that the range of the counters is a power of two; that the one then
divides the other is stated beside it, because the prover has no induction to derive it with. `LoggerQueue` takes the ring as a count of records (what
`BoundedFifo` promises, the content playing no part) and the loop as a
worker that can be woken, hinted (the signal may be missed) and stopped with one
last round (what the properties of `ExecLoop` say); the two models are connected
by these contracts and not by a formal substitution. `dropped` and `requested`
wrap at `DropModulus` and `RequestModulus` in place of 2^32, and
`has_reached` is the sign of the wrapped difference as in the code. `sink` is what
the sink has been given and whether it has a callback for drops (`hears`); without
one drops stay unreported (`ReportSkipped`), as in `report_drops`.

### TimerGroup

`list` is the group's list, `timer` the fields, `walk` the handler's locals, and
the step between firing and `CallbackEnd` is the callback, which may start,
stop, pause, resume or re-prioritise its own timer and start timers that do not
run. Time goes on inside a walk: a callback passes the tick the handler was given
or the current one, and `walk.fresh` is the set of timers whose tick is later
than the walk's. `age` is history: ticks since the timer was last started,
resumed or fired; `due`, `fired` and `shot` are history of the walk and of its
last firing. `TimerPromises` takes the same steps and remembers two things more: which
timers have not fired since they were started, and whether the callback under way has
restarted its own timer. A callback does not stop a timer other than its own: the header
promises nothing for it, and the saved `next` would then be a node linked to
itself.

### EventBus

`bus` is the record of `bus.c`; `stack` holds a frame per call that runs: a
publication and the record whose callback it is in, or a walk of `drop_owner`,
`clear` or `deinit` with its saved next. `seen` in a frame is history: the records the
publication has called, or what the walk has to leave. `Subs` is memory: the
allocator gives any record that is not linked, so a freed one comes back. Callbacks
do everything the program may do, to `MaxDepth` publications deep. `EventBusAssumption`
says that memory and names are finite and that there is a name. Disposal
callbacks do not enter the bus again (`subscription.h` forbids it), and lookups
that change nothing are left out.

### ThreadGroup

`members`, `count`, `closing`, `requested` are the group's; `threads` is what
became of each member's thread, `caller` the call the owner is in, its place there and
the node it is at. `waits`, chosen once
and without cycles, says for whose end each member waits before its own. A thread may
also return by itself. `stop` of one member is called only when the thread does not wait
for one that goes on, which its caller has to know. A join that fails is an error in `stop`
and ends the program in `stop_all` and `deinit` (`terminated`), as in the code.

### ModuleLoader

`alloc`, `image`, `started`, `loader`, `kids` and `owner` are the tree; a frame of
`stack` is a load, destroy, revocation or unload, or the program's start of the root,
at one of its steps; `starting` and `stopping` are
the places where a method of the module runs and may call in again. `HasStop` are the
modules whose method table has a stop method. `life` is
history: what became of a module's start (it succeeded or refused) and of its stop (the
method ran or was skipped). Opening, looking up the symbols and starting may each
fail; a root that refuses stays bound, may be granted a loader and started again. Environment: a method uses the
loader of its own module or its parent's, nobody unloads a module that is on the
stack, and only a start method asks for a loader, which is where `module/fn.h:24`
places the call. The code would grant one to a stop method too, after its children were unloaded, and
nothing would revoke it.

### WebHost

`conn`, `client` and `entry` are the slots and poll entries, `socket` the
system's side of every handle (what a receive would meet), `at` and `index` the
place of the loop inside its step. A step may come without a fresh poll, as with
the loop's waiter when a wake is pending, so entries may be from an earlier one.
What bytes say is left to chance: any request may be incomplete, broken, an
upgrade, buffered or streaming, and a handler may refuse, stop early or not
read. `owed` is history: bodies begun less commits and aborts. A reply goes out at
once, or `send_all` waits for the peer at the place `send` with the step's result in
`outcome`, until the peer takes it (`Sent`) or goes away (`SendFails`); meanwhile the
whole host stands still. A step sends at most one thing that waits: a `100 Continue` and
a reply of the same step are one. The clock and the stop are read when a step begins,
so lateness and stops arrive between steps. The loop is the one `ExecLoop` models, taken by its contract.

## 4. Runs

| Run | Instance | What it shows |
|---|---|---|
| `queue` | 3 producers, 4 tasks | the chain is intact, no link is written outside the queue, a quiet pop is exact, a polling consumer gets every task; `FifoQueue` is implemented |
| `thread` | owner, 1 submitter, 1 stopper, destroyer, 2 tasks, 2 places | tasks are accounted for (places exact, one place per task, ended means done), at most one late start; `TaskLife` is implemented; no wake-up is lost: accepted tasks are destroyed; stop, destroy and dispatch end |
| `loop` | 2 wakers, both kinds of sleep | frees, last step, wakes and stops without the help of a timeout; a missed hint is made good by the period |
| `spsc` | capacity 4, counters modulo 16, 3 records | FIFO of whole records across the wrap; exact answers |
| `logger` | 1 syncer, ring of 2, counters modulo 2 and 4, sinks that hear of drops and that do not | sync's promise, exact drops, a complete close; sync is answered and destroy returns without timeouts; a full ring is drained although its hint was missed |
| `timers` | 2 timers, periods 1-2, 2 priorities, ticks modulo 4 | exact walks, nothing fired twice or early but what has a tick later than the walk's, exact `until_next` |
| `timer_first_fire` | the same | violated: a timer started by a callback with the current tick fires in the same walk |
| `timer_restart` | the same | violated: a one-shot restarted by its own callback is stopped |
| `bus` | 3 records, 2 names, 2 owners, 2 keys, depth 2 | no freed memory is followed, the books are exact, `drop_owner` and `clear` remove exactly theirs; `Subscriptions` is implemented |
| `group` | 3 members, every acyclic way to wait | no member is freed under its thread, one wake each; every stop returns |
| `loader` | root and 4 modules, 2 of them without a stop method | nothing of a failed load is kept, children go before what they use, stop answers start and is skipped only where there is none |
| `web` | 2 connections, 1 client slot, 2 handles, backlog 1 | no receive blocks, one holder per socket, one outcome per body; slots come back if replies are taken |

The bounds, and why they are enough for the questions asked:

* Queue: a gap needs one producer, a gap behind a gap two, and the race between the
  consumer's stub and other pushes a third. With four tasks all three can be
  inside a push while one is held by the consumer, and every record is reused.
* Thread: two submitters race for a last place. With two tasks and two places the
  mailbox still fills up and refuses, because a task may be submitted again before
  dispatch has given its place back. The stopper can time out and come back
  stricter, and meets a destroyer.
* Loop: a second waker can act between the two halves of the first one's call;
  a third would repeat one of them.
* Ring: capacity 4 has every fill level on either side of the wrap; counters
  modulo 16 wrap four times the capacity apart, as 2^32 does for every valid capacity.
* Logger: `DropBound` and `RequestBound` cap how many drops and requests are
  outstanding, below the range of the one counter and half of the range of the
  other, as the code needs of 2^32. A waiter that is not scheduled
  while others have half a range of requests answered takes its own for a later
  one and waits for its timeout: 2^31 requests in the code, two in the
  instance, so the run has one syncer, to whom this cannot happen. That any
  number of syncers have their promises kept is proved.
* Timers: ticks modulo 4 wrap in almost every behaviour, and periods are shorter than
  the range; `TickBound` keeps a running timer from going unhandled for a whole
  range of ticks, after which its age could not be told any more. Two timers
  suffice for one callback to re-link the walk around another timer. `WalkBound`
  ends a walk before the ticks have wrapped once more.
* Bus: three records are a current, a next and a reused one; two events and two
  owners let a walk keep some and cross from one list to the next; depth 2 is the
  first at which the inner end must not collect what the outer walk stands on.
* Group: with three members one can wait for two and two for one, and a stop can
  fail between two others.
* Loader: four modules give a chain of three below the root and a sibling, so an
  unload can run inside a load inside a start; of either kind, with and without a
  stop method, there are two.
* Web: two connections compete for one client slot and for two handles, so every
  slot and handle is reused at once; a longer backlog repeats the accept.

Symmetry is used only in runs without liveness properties, over items, timers,
subscription records, names, owners, keys, and modules other than the root with and
without a stop method, none of which the specifications tell apart.

Deadlock is checked in every run but `web`: a host that was destroyed stops.

Fairness. A thread that began a call runs on (weak fairness of the steps inside
a call): the scheduler's promise. The consumer keeps polling and the owner keeps
dispatching: their part of the contract. Callbacks return. Strong fairness is
used where a thread needs a mutex or a turn that others keep taking (`SF` on
`SyncCheck`, `FlushComplete`), and for the owner, who sometimes does other things
in between (`DispatchBegin`, `DeliverCompleted`). The owner's compare-exchange on the
count of places succeeds in the end (`SF`): it fails only when another thread took or
gave back a place in between, which does not happen at every single attempt. In the group, a thread that was
woken and waits for nobody returns, as its contract says. `CallsReturn` holds for
`stop_all` and `deinit` whoever the threads wait for; a stop of one member is called
under its caller's duty. In the web host the
thread's own steps are fair, but not the end of a reply: that peers take their replies or
go away is a premise of `SlotsComeBack`, stated in it, because `send_all` on a
blocking socket has no timeout. Time
passes (`SF` on `RunLate`: a connection that stays long enough runs late), and
connections do not arrive before every single accept forever (`SF` on
`AcceptEnds`), without which `accept_all` has no end. New calls carry no fairness, and timeouts
only as a premise of `HintServed` and `RingDrains`, so what `wake`, `stop`, `sync` and `destroy` promise is
shown without their help.

## 5. Observed while modelling

These are differences between code and documentation, or properties the code does
not have, that were met while modelling. The runs `timer_first_fire` and
`timer_restart` show 3 and 4; no run asks for the others.

1. `queue.h` says that null from `try_pop` means empty or still being linked. The
   link is read before the back, so a push that runs completely in between gives
   a null from a queue in which nothing is being linked. Harmless to a consumer that
   polls (`EveryTaskComesOut`), wrong for one that concludes a producer is active.
2. `mailbox.h` says that what a `complete` submits waits for the next dispatch.
   The bound of a dispatch counts all places taken, tasks still running
   included, so a nested inline task may use up a turn of one of those. The
   dispatch still ends (`DispatchReturns`).
3. `timer.h:176` says of `lh_timer_start` "first fire after period". Called from a
   callback with the current tick, later than the handler's, the difference wraps
   and the timer fires in the same walk: `FirstFireAfterPeriod` is violated. What
   `WalkSound` says of walks exempts such timers (`shot.fresh`) and no others. Two timers of
   one priority that restart each other this way keep a walk going for as long as
   they do.
4. `timer/group.h:59` says "Safe to stop or restart a timer from its callback". A
   timer that its callback restarts as a one-shot is stopped by the handler once the
   callback returns: `RestartKept` is violated.
5. Web host, `accept_all`: it goes on while connections wait, so a stream of
   them that never pauses keeps the step from ending. `SlotsComeBack` assumes
   that it pauses.
6. Web host, replies: `conn.h:8` and `conn.h:370` say that a step of a connection never
   waits. It does not wait to receive (`NeverBlocks`); but a reply goes through
   `send_all` on a blocking socket without a timeout (`host.c:42-46`), so a peer that
   does not read can hold the host. Neither the request's deadline nor the
   destruction of the host ends that.
7. Web host, streams: a handler that returns true without reading is taken as
   waiting for more, because the tap keeps its last result, until the timeout aborts
   the body.
8. Read in the parts that are not modelled: `ws_enqueue` puts a control frame at
   the head of the queue also when the frame there is partly sent; and when a draw
   fails after its glyphs were interned they count as sent, though clients that are
   in step never received them, contrary to the comment in `stream/fields.h`.

## 6. Proofs

Checked by TLAPS with its SMT, Zenon and LS4 backends; no step is left out.

**ExecQueue**, for all sets of producers and tasks, finite or not, from
`QueueAssumption` (stub, null and the consumer are none of the others). The
invariants TLC checks are not inductive. `IInv` adds to `TypeOK` and
`ChainIntact`:

* `PushInv`: a node about to be exchanged is outside the queue and in no other
  thread's hands, and each thread that has yet to link owns its own pair of
  neighbours in `order`;
* `PopInv`: what the consumer knows at each point of `try_pop` about the front
  and the stub;
* `HeldInv`: the task handed out is outside the queue;
* `QuietInv`: while no push overlaps a pop nobody is inside a push, and what the
  consumer read behind the front still holds.

Every action is one of four steps (clear, exchange, link, move the front), and a lemma
says what each does to the chain; the inductive step combines them by action.
The theorems `TypeCorrect`, `ChainTheorem`, `LinksStayInsideTheorem`
and `NullIsHonestTheorem` (an action property) follow. The
heart of it is that a node with a link to come is followed in `order` by exactly
the node to be linked, so the consumer cannot step past it. `ImplementsFifoTheorem`
is the refinement of `FifoQueue`: the abstract queue is `order` without the stub,
which is there at most once, and `ContentAppend` and `ContentTail` say what an
exchange and a move of the front do to it.

**ExecLoop**, for all sets of wakers and both kinds of sleep, without any
assumption on the constant. `IInv` adds to `TypeOK`: `OwnerInv`
(who holds the record, how often the state was freed), `StateInv` (how `state`
follows the thread to its end), `StopInv` (the stop travels through `seenStop`
into exactly one last step), "a wake that is owed has its flag set", and one
part per kind of sleep: the mutex keeps wakes and stops out of the gap between
check and wait (`ConditionInv`), and the waiter's latch holds any signal that fell
into it (`WaiterInv`). The theorems are `TypeCorrect`, `FreedAfterThreadTheorem`,
`StateFreedOnceTheorem`, `LastStepTheorem` and `SleepsInPeaceTheorem`.

**ExecThread**, for all finite sets of submitters and tasks, any capacity and any
set of stoppers, from `ThreadAssumption` (the owner is one of the
submitters). `IInv` adds to the parts of `TasksAccounted`: what each submitter
inside `try_submit` holds and that no two hold the same task (`SubInv`,
`DistinctInv`), who is about to link what was posted (`LinkInv`), where the thread
and the owner have a task in their hands (`HandsInv`), how `stop`, `ended` and
`local` follow the executor's life (`LifeInv`), and which tasks can be marked as
cancelled (`MarkInv`, `LateInv`). `TasksAccountedTheorem` rests on cardinalities of finite sets:
each step moves one task from one place to another, so the count of places stays
that of the tasks that hold one. `OneLateStartAtMostTheorem` follows because a
cancelling stop marks everything pending in the same critical section, so only the task
already taken can still start. `KeepsTaskLawsTheorem` is the refinement of
`TaskLife`: a lemma per action says that it moves at most one task's phase, and
along an arrow of `TaskLife`.

**LoggerQueue**, for any set of syncers, any capacity and any ranges of the two
counters (`LoggerAssumption`: the range of requests is even, as 2^32 is).
`IInv` adds to `DropsExact` and `SyncKept`: what the last round has done at each of
its places (`LastInv`), that requests do not run half a range ahead
(`RequestInv`), that a caller has what it asked for or an open request
(`CallerInv`), and that a round's budget covers the records of every caller whose request
it will answer (`RoundInv`). Wrapped differences are reduced to plain ones
by `MinusDef`; then `has_reached` compares as on numbers that do not wrap. The
theorems are `SyncKeptTheorem`, `QueueSoundTheorem` and `ClosedIsCompleteTheorem`.
`DropBound` and `RequestBound` are guards of the model and so part of what is
proved.

**TimerGroup**, for any set of timers, any natural priorities, any range of ticks
and any periods from 1 to the largest tick (`TimerAssumption`). `IInv` adds to
`ListOrdered`, `WalkExact` and `InTime`: the saved next is never the callback's own
timer (`PlaceInv`), what was fired has no lower priority than what comes next
(`OrderInv`), a due timer that was not fired is still ahead of the walk and still
due (`DueInv`), nothing else is due but what has a later tick (`CalmInv`), and
`age` is what the wrapped ticks say and at least that of the walk (`AgeInv`). The
list is reasoned about by "comes before": lemmas say which pairs a removal and a sorted
insertion keep, and one lemma (`TouchStep`) covers every operation on one timer.
The theorems are `WalkSoundTheorem` and `UntilNextExactTheorem`. `TickBound` and `WalkBound` are guards of the model: a
timer is handled before its age wraps.

**ThreadGroup** (in `ExecLoop_proofs`, which extends both modules), for any set of
members and any acyclic way to wait, from `ThreadGroupAssumption` (the null is no
member). `GroupInv` has the list with
each member once and every thread that is not joined in it, wakes and requests in
step, and for each walk of a group stop the place it has come to and what holds of
the members before it (all woken, then all joined). `GroupMembersSound` follows.

**Spsc** (in `LoggerQueue_proofs`, which extends both modules), for any records, any
valid size of the ring and any width of the counters (`SpscAssumption`). `RingInv` says that the ring is never over-full, that the producer
is in a copy only while there is room and publishes what it wrote, and that the
consumer holds a record only while there is one. What it rests on is arithmetic: the wrapped
difference of the counters is the number of records (`CounterFacts`,
`CounterSteps`), positions less than the size apart have different slots
(`SlotsDiffer`), and a slot does not depend on the wrap because the size divides the
range (`SlotWraps`). So a copy goes to a slot behind the records in the ring
(`WritesAside`): `RingStaysExact` follows, and `RingKeepsOrder`, the refinement of
`BoundedFifo`, where a publication appends one record (`RunGrows`), a release takes
the first (`RunShrinks`), and every other step leaves the content alone (`RunStays`).

**EventBus**, for any finite memory and names, any owners and keys and publications
nested to any depth (`EventBusAssumption`). `IInv` is `BusHolds(bus)` and
`CallsHold(bus, stack)`, each stated of any bus and any stack so that what an operation
does is shown once, whichever call it is part of. `BusHolds`: a record is linked
once, in an event that has an entry; the count is that of the live records; the retired list
holds the dead ones, and none outside a publication. `CallsHold`:
publications are the outer calls and at most one walk is over them; what a publication
stands on is linked, everything before it is dead or was called and nothing
behind it was (`PubHolds`); what a walk stands on is linked and live, what it has
been past and still lives belongs to another owner, and its history is
what it has to leave (`WalkHolds`). Lists are reasoned about by membership and by "comes
before" rather than by position: two lists without repetition that agree on both are
equal (`SameList`, from the least place where they would differ), and a lemma per operation
says what appending, removing the first occurrence and leaving out a set do to the
two. `RecordsStaySound` and `WalksRemoveExactly` follow. `KeepsThePromise` is the
refinement of `Subscriptions`: the abstract lists are those without the dead
records. The record a publication goes to next is the only one
whose turn it is there (`HasTurn`, `OneTurn`): live, not called, and with nothing before it that
has yet to be called; walks remove one subscription at a time, and freeing a
dead record changes nothing.

**ModuleLoader**, for any set of modules with a root, any of them with a stop method
(`ModuleLoaderAssumption`),
calls nested to any depth. `IInv` describes the stack of calls: which module each
is about, what its place says was done (`LoadInv`, `DestroyInv`,
`RevokeInv`), that lists and hands are disjoint (`UniqueInv`), and that each call
is about the root or a module in the hands of a call further down, or
holds a child of one (`ChainInv`). The difficult step is a revocation that finds
its list empty: no child may be left in the hands of a call below. If one were, the modules in
hands together with the root would be closed under `owner`, which contradicts
that no module is its own ancestor (`OwnerInv`). The theorems are
`TreeSoundTheorem`, `ProvidersAliveTheorem` and `StopAnswersStartTheorem`.

**WebHost**, for any number of connections, clients and backlog and any finite
set of handles (`WebHostAssumption`). `IInv` has the holders of sockets in three
parts (held ones are open, held once, and all open ones are held), `GateInv`
(a gate left open has something behind it) and `ReadyInv`: readiness is true
of the connections a step has yet to come to, and is gone when a step begins without
a poll, though handles are closed and reused in between; while a reply waits, its
result is as the step left it and the socket it will settle is still the connection's. The theorems
are `NeverBlocksTheorem`, `OneOutcomeEachTheorem` and `SocketsSoundTheorem`.

All these invariants were also checked by TLC on the runs' instances before they
were proved.

Only model-checked: liveness (`EveryTaskComesOut`, `AcceptedIsDestroyed`,
`ShutdownEnds`, `DispatchReturns`, `WakeServed`, `EndsAndFrees`, `HintServed`,
`SyncAnswered`, `DestroyReturns`, `RingDrains`, `CallsReturn`, `SlotsComeBack`),
because temporal reasoning with fairness and ENABLED is outside the prover's reach.
