# TLA+ models of the RT-Thread 1.2.2 kernel (STM32F10x gateway)

The repository holds one tree, `src/new_version/rt-thread-1.2.2/`: the
RT-Thread 1.2.2 real-time kernel for one processor, a board support package for
the STM32F10x (`bsp/stm32f10x`), and on top of it a small application that
bridges a ZigBee module on a UART to UDP.  Paths below are relative to that
tree.  This directory holds TLA+ models of the kernel, TLC configurations that
check them on small instances and TLAPS proofs for every instance.

The configuration modelled is the one that is built,
`bsp/stm32f10x/rtconfig.h`: 32 priorities, small-memory heap, all IPC objects,
memory pools, hooks, no software timers, no modules.

## 1. The system

| Part | Source | State | Operations |
|---|---|---|---|
| Scheduler | `src/scheduler.c` | ready queue per priority, bitmap of the queues that are not empty, current thread, lock nesting | insert/remove a thread, `rt_schedule`, `rt_enter_critical`, `rt_exit_critical` |
| Threads | `src/thread.c`, `src/idle.c` | per thread: state, current priority, error code, time slice, timer; list of defunct threads | init/create, startup, suspend, resume, sleep, yield, change priority, detach/delete, exit, timeout; the idle thread reclaims |
| Clock and timers | `src/clock.c`, `src/timer.c` | tick counter, list of active timers ordered by expiry | start, stop, control, the check in the tick interrupt |
| IPC | `src/ipc.c` | per object a list of suspended threads; semaphore value; mutex owner, nesting and saved priority; event set; mailbox and queue contents | init/create, take/wait/recv with timeout, release/send, reset, detach/delete |
| Memory pool | `src/mempool.c` | free blocks, waiting threads and their count | alloc with timeout, free, detach/delete |
| Heap | `src/mem.c` | boundary-tagged blocks in one array, `lfree`, a semaphore | malloc, realloc, calloc, free |
| Objects, devices | `src/object.c`, `src/device.c` | one list per object class, reference counts and open flags | init/detach, allocate/delete, open/close/read/write |
| Interrupts | `src/irq.c`, `bsp/stm32f10x/drivers/board.c` | interrupt nesting | enter, leave |
| Driver IPC | `components/drivers/src` | ring-buffer indices, data queue, completion flag | get/put, push/pop, wait/done |
| Serial driver | `components/drivers/serial`, `bsp/stm32f10x/drivers/usart.c` | receive ring buffer, transmit queue | interrupt service, read, write |
| Gateway: UART | `bsp/stm32f10x/applications/ym_uart_app.c` | `uart_2.mutex`, `rx_sem`, one-shot receive timer, `quer_success` | receive interrupt, UART reader, two writers |
| Gateway: data | `dev_opt.c`, `white_list.c`, `ym_json.c`, `ym_device.c`, `ym_user.c`, ... beside it | record files on flash, sockets | JSON commands over TCP and UDP |

**How they interact.**  Threads call kernel functions; a kernel function
disables interrupts around its critical parts and enables them in between, so
interrupts, and through `rt_schedule` other threads, come in between two parts.
The tick interrupt advances the clock, takes the time slice of the running
thread and calls the functions of expired timers; a thread's own timer wakes
it out of a timed wait.  Interrupt handlers release semaphores.  Every IPC
object suspends and wakes threads through the same lists and
`rt_schedule_insert_thread` / `rt_schedule_remove_thread`.

**What is hard.**  The same thread is reachable through a ready queue or a wait
list, its timer, and other threads that hold its handle; each of these may move
it.  Decisions are taken on values read with interrupts enabled (`thread->stat`
in suspend and resume, the emptiness test of `rt_ipc_list_resume_all`).  A
waiter learns only from `thread->error` how its wait ended.  Priorities are lent
and given back while the threads move between lists.  Deletion takes several
locked sections.  `PROJECT.json` lists each such hazard at its line with the
properties that watch over it.

**What makes each part correct.**

* Scheduler and threads: queues and bitmap agree; a thread is on one list at
  most and in the state that list means; the highest ready priority runs; equal
  priorities share the processor; a sleep ends; a deleted thread is gone.
* Semaphore: no token lost or made up, no lost wake-up, FIFO waiters are served.
* Mutex: mutual exclusion as the callers see it, the owner inherits the
  priority of whoever waits, and gives it back.
* Timers: each fires when its ticks have passed, once, in order, across the
  wrap-around of the 32-bit tick.
* Mailbox, message queue: a bounded FIFO; nobody waits for a free slot or a
  message that is there.
* Event: a receiver leaves with the events it asked for.
* Memory pool, heap: no block is handed out twice, none is lost.
* Completion, data queue: who waits is woken by the step that ends the wait.
* Gateway: no byte is reordered or read twice, no wake-up is lost between the
  receive timer and the reader, a paced coordinator has every frame handled.

## 2. Plan

| Stage | Modules | State |
|---|---|---|
| 1 | `Kernel`, `KernelProof`; `Ipc`, `Semaphore`, `CountingSemaphore`, `SemaphoreProof`; `Mutex`, `MutexProof`; `Timer`, `AlarmClock`, `TimerProof`; `Mempool`, `PoolProof` | done |
| 2 | `IpcCall`, `Mailbox`, `MessageQueue`, `BoundedFifo`; `Event`, `EventGroup`; `Heap`, `Allocator`, `HeapProof` | done |
| 3 | `Completion`, `DataQueue`; `Objects`, `ObjectsProof`; `Gateway`: serial receive path, receive timer, `rx_sem` and UART mutex composed; `GatewayProof` | done |
| 4 | mailbox and message queue in `Objects`, `ObjectsProof` and `PoolProof` | done |
| 5 | refinement proof for `EventGroup` | done |
| 6 | refinement proofs for `BoundedFifo` | mailbox and data queue done, message queue open |
| 7 | reference counts of devices; pipe and portal, if a build registers them | open |

Composition: every object of `ipc.c` extends `Ipc`, which extends `Kernel`, so
each is checked together with the whole scheduler, the tick and the thread
operations, not against a stub.  `Timer` stands by itself: it refines the
abstraction of thread timers that `Kernel` uses.  `Heap` stands by itself too:
its only contact with the kernel is `heap_sem`, a semaphore with one token, so a
locked section is one step.  `Objects` composes events, mailboxes, message queues,
data queues and completions on one kernel.  `Gateway` is built on what `Semaphore`, `Mutex` and
`Timer` establish and repeats none of their detail.  No module declares a
RECURSIVE operator.

## 3. The modules

### `Kernel`: scheduler, threads, tick, idle thread

One processor runs the thread `current`.  Whatever a kernel function does with
interrupts disabled is one action.  A function that has several such sections
is several actions joined by the thread's program counter `pc[t]`, and between
two of them every interrupt, and after a preemption every other thread, may
act.  `call[t]` says which blocking call a thread is in and `arg[t]` which
other thread its kernel function works on.

The tick interrupt is `Tick` followed by one `Timeout(t)` for each timer that
has expired; the set `due` holds those still to serve, and nothing else moves
while it is not empty, because interrupts stay disabled in `rt_timer_check`.
A thread's timer is the number of ticks it has left, 0 when it is stopped;
the order in which timers expiring at the same tick are served is left open.
`Timer` shows that the real list provides this.

| State | Code |
|---|---|
| `ready`, `mask` | `rt_thread_priority_table`, `rt_thread_ready_priority_group` (the set of its 1 bits) |
| `current`, `nest` | `rt_current_thread`, `rt_scheduler_lock_nest` |
| `stat`, `prio`, `err`, `slice`, `timer` | `thread->stat`, `current_priority`, `error`, `remaining_tick`, `thread_timer` |
| `waitq` | `parent.suspend_thread` of each IPC object |
| `defunct` | `rt_thread_defunct` |
| `pc`, `call`, `arg`, `due` | the place in a function |
| `lag` | history: a thread was made ready, or its priority changed, by a function that by design does not call `rt_schedule` |

`Guarded` is the contract of callers.  With `Guarded = TRUE` a thread suspends,
resumes, deletes another thread only with the scheduler locked, when that
thread's timer is stopped and nobody else works on it.  The functions do not
ask for it.  Of the examples only the `_tc_cleanup` functions lock the scheduler:
the entry functions of `thread_delete.c`, `thread_resume.c` and
`thread_suspend.c` in `examples/kernel` delete, resume and suspend a thread with
the scheduler unlocked.  With `Guarded = FALSE` the contract is dropped; section 6
says what happens then.

Simplifications, all of them in the callers' hands or in places no property
looks at: a bare `rt_thread_resume` of a thread that waits in an IPC object is
not called; blocking functions are called with the scheduler unlocked, as
`RT_DEBUG_NOT_IN_INTERRUPT` and the code after `rt_schedule` require; a thread
that is closed is neither controlled nor deleted again; static threads have no
cleanup function, so they never go to the defunct list; `rt_thread_sleep(0)`
ends like `rt_thread_sleep(1)` and is not separate; the assignments of `stat`
and priority at the start of `rt_thread_startup`, made on a thread nobody else
knows yet, are one action.

### `Ipc`, `Semaphore`, `CountingSemaphore`

`Ipc` holds what all IPC objects share: initialisation, and detach/delete with
`rt_ipc_list_resume_all`, whose loop looks at the list with interrupts enabled
and takes its first thread with interrupts disabled (`FlushCheck`,
`FlushWake`, `FlushEnd`).  The contract (`Guarded`) here: the scheduler is locked and no
waiter has a timer running.  Then nothing comes between the look and the taking, so
`FlushFindsThread` is no property of a run.  `examples/kernel/semaphore_static.c` does not keep the
contract (it detaches unlocked), and without it the list may be empty in between (section 6).

`Semaphore` adds `value` and every function of `rt_sem_*`; interrupt handlers
release the semaphores in `IsrSem`.  RESET wakes all waiters with interrupts
disabled (`SemReset`, `SemResetWake`, `SemResetEnd`: nothing but these moves
meanwhile).  `CountingSemaphore` is the promise: tokens, waiting clients,
granted clients.  The refinement mapping takes as granted the threads whose
`rt_sem_take` will return `RT_EOK`: off the wait list, not yet back in their
own code, and with `thread->error` still `RT_EOK`.

### `Mutex`

`owner`, `hold`, `avail` (`mutex->value`), `original` (`original_priority`) and
the functions of `rt_mutex_*`.  `mine` is a history variable: what the callers
believe they hold, counted from the return codes they got; mutual exclusion is
stated over it.  `Lend` is the change of the owner's priority, which moves him
in the ready queue if he is ready and never in a wait list.  The threads
promise (`OwnersStay`) that none exits or is deleted while it owns a mutex, and
that a mutex is detached when it is free or by an owner who is lent no priority.
A release that lowers the priority while nobody waits does not call
`rt_schedule`; the model records it in `lag`.

### `Timer`, `AlarmClock`

The list of `src/timer.c` with `timeout_tick` modulo `TickMod`.  `User` are the
threads and interrupt handlers that start and stop timers in steps that ticks
interrupt; `irq` and `serving` are the place in `rt_timer_check`, and a timeout
function may start, stop and change any timer, its own included, any number
of times.  The contract: nobody works on a timer that another is in the middle
of starting or stopping, and timeout functions do not detach timers.
`AlarmClock` is the promise: a timer rings at the tick at which it has no
ticks left, not before, and before any that is due later; only a start that was held up past
its own expiry rings at the next tick.  Timers are armed and
disarmed between ticks or while one rings, never in between two that ring, so that a timer
served early or out of turn is no step of `AlarmClock`.

### `Mempool`

`freeCount`, `blockList`, `suspended` and the functions of `rt_mp_*`.  Where the
code would follow a null pointer (a block from an empty list) or take a list
head for a thread, the model has no step, and the property `WokenFindsBlock`
or `PendedCounted` fails in the state before.  `Allocator` are the threads that
allocate, `Timed` whether they wait with timeouts.

### `Ipc` again, `IpcCall`

`Ipc` also has what events, mailboxes and message queues share: `WakeEach`
(several threads are woken within one locked section) and `CallerStep`, the
kernel under threads that only use IPC objects: `Main` starts the others,
sleeps to let them run, and alone locks the scheduler and detaches.

`IpcCall` holds the calls that loop.  `left[t]` is the timeout of the call less
the ticks that have passed (`timeout -= rt_tick_get() - tick_delta`), `val[t]`
the message it sends or has received.  A woken thread that finds the queue
taken by a quicker one waits again for `left[t]`; on the lists in `Restarting`
(those of the data queue) for its whole timeout.

### `Mailbox`, `MessageQueue`, `BoundedFifo`

`Mailbox` is the ring of `rt_mb_*` with both wait lists: receivers on the
object's own list, senders on `Tx[mb]`.  `MessageQueue` is the linked pool of
`rt_mq_*`: `head`, `tail`, `free`, `next`, and `slot[t]`, the message that a
thread has taken off one list and not yet put on the other while it copies the
data with interrupts enabled.  RESET in between must leave such a message
alone; `SlotsAccounted` says that every message of the pool is on one of the two
lists or with one thread.

`BoundedFifo` is the promise of both and of the data queue: a sequence of at
most `Capacity` messages, clients that wait to put theirs, and what each got.
The mapping takes `buf` from the ring or the chain, `sends[c]` from `val[c]` while
the client waits for room, `got[c]` from the message a call will return.  A message goes
to the end; only that of a client in `urgent` goes in front, and the mapping puts there
the callers of `rt_mq_urgent` that have their message in hand, so nobody for mailboxes and data
queues.

### `Event`, `EventGroup`

`rt_event_send` walks over the wait list once and may wake several threads;
`Serve` is one step of that walk, folded over the list, because the flags a
waiter consumes are gone for the next one.  `EventGroup` is the promise: flags,
what each client asked for, what it was given; nobody waits for flags that are
set.

### `Completion`, `DataQueue`, `Objects`

`Completion` has the flag and the one waiting thread; `rt_completion_done`
looks at the flag before it disables interrupts (`CpDoneTest`, `CpDone`).
`DataQueue` has the ring, both lists and `waiting_lwm`, the promise to wake a
pusher at the low water mark.  Where `rt_data_queue_pop` returns with
interrupts disabled, the model goes on as if it had enabled them, and `LwmMeansWaiter`
fails in the state before (run `dataqueue_timeout`); the run `objects` goes beyond such states.  `put_index` grows to `MaxPuts` < 65536 only.
`Objects` lets all threads and handlers use all five kinds beside each other:
events, mailboxes, message queues, data queues and completions.  `MCQueues` and
`MCObjects` are instances of it with some of the kinds.  `Restarting`, `Tx` and
`PushList` keep their wait lists apart.

### `Heap`, `Allocator`

`heap.blocks` maps the offset of each header in the chain to its `used`, `next`
and `prev`, in words of `RT_ALIGN_SIZE`; `heap.lfree` is the header the search
starts at.  `Split`, `Join`, `PlugForward`, `PlugBackward` are the code's
changes of the chain, `rt_malloc`, `rt_free` and the cases of `rt_realloc` its
locked sections.  A growing `rt_realloc` releases `heap_sem` and calls
`rt_malloc` and `rt_free`: `moving[t]` is the thread's place in it.  `held` is
what the callers have.  `rt_calloc` is `rt_malloc` and a memset, and
`rt_realloc` of NULL is `rt_malloc`.  `rt_realloc` to size 0 frees nothing: it
shrinks the block to no data, or fails.  `Allocator` is the promise: regions handed out
lie in the arena and never overlap.

### `Gateway`

The coordinator sends frames; `Receive` is the receive interrupt with
`rt_hw_serial_isr`, `serial_ringbuffer_putc` and `uart_rx_indicate`, which
restarts the receive timer.  `Tick` is the tick: the timer releases `rx_sem`.  The reader
thread (`TakeSem` ... `ReadAgain`) sleeps, reads a frame byte by byte under the
mutex, looks at its type, answers and reads again; after a short read or an
unknown type it assigns 0 to `rx_sem.value`.  Two writers use the same mutex.  A
byte is its number in the order of arrival, so that order and loss can be
seen.  `Kind` are the frame types that differ for the protocol: one that is
answered with two commands, one that is not known, and one that is handled without an
answer, which stands for the off-line and control frames too and stops the
writer that asks for devices.

## 4. Runs

| Run | What it checks | Instance |
|---|---|---|
| `kernel` | type, queues, lists, timeout assertion, preemption | three threads of two priorities, one of them static, the idle thread; sleeps up to 2 ticks |
| `semaphore` | the same and: no lost wake-up, refinement of `CountingSemaphore` | three threads of two priorities on one priority-ordered semaphore |
| `semaphore_live` | FIFO waiters are served, time slices, sleeps end | two equal threads, a FIFO semaphore released by an interrupt handler |
| `mutex` | kernel, mutual exclusion, who waits for what, inheritance, restored priority | three priorities, priority-ordered mutex, nesting of two takes |
| `mutex_live` | waiters are woken | two threads, FIFO mutex, scheduler lock, detach and init |
| `timer` | type and order, refinement of `AlarmClock`, stop | three timers, one thread, four-bit tick, times 1 and 5, held up for at most one tick |
| `mempool` | blocks accounted for, woken threads find a block, waiters counted | three threads, two blocks, one allocator, no timeouts |
| `queues` | kernel, pool accounted for, no sender or receiver forgotten, refinement of `BoundedFifo` twice | three threads of two priorities, a mailbox or a message queue of two places |
| `objects` | kernel, no wake-up lost on events, data queues and completions, refinement of `EventGroup` and `BoundedFifo` | the same threads, two flags, a data queue of two places with mark 1, pushes with every timeout |
| `dataqueue_timeout` | finding: a data queue that owes a wake-up to nobody | as `objects`, pushes with timeout 1 |
| `heap` | headers, holes, `lfree`, what callers hold, statistics, refinement of `Allocator` | two threads, 24 words, headers of 3 words, requests of 0, 3 and 10 |
| `gateway` | ring buffer, no lost wake-up, every frame handled | three frames of two bytes, a buffer for three bytes, two writers |

**Bounds.**  `MaxTime` (longest wait) 1 or 2: a timer of 2 can be overtaken by
one of 1, and every order of two expiries and a wake-up happens.  `MaxNest` 1:
the scheduler is locked or not; deeper nesting only counts.  `InitTick` 1: the
slice ends at every tick, the most frequent preemption there is.  `MaxValue`
1 and `ResetTo` {0}: a semaphore with and without tokens, a token left over by
a release and one taken away by a reset.  `MaxHold` 2: inner and outer
release.  Three threads: a running one, a waiter and a third that overtakes
either; with two priorities the third is an equal or a superior.
In `semaphore` only t1 locks the scheduler and sleeps (`MCNext`).
`PrioChoices` is {0} in `kernel` and empty elsewhere: a thread changes priorities
only there.  In `semaphore`, `queues` and `objects` the threads t2 and t3 differ
in nothing (in `objects` nor do the messages), so these runs use their
symmetry; they check no liveness.  In `timer`, `TickMod` is 16, so
that the tick wraps around many times on every path, and times 1 and 5 span the
largest distance `TimerAssumption` admits.  `Tuned` = {a}: one of the three timers is
changed, detached and created anew, the others are a one-shot and a periodic
timer; its VIEW leaves out `timeout_tick` of timers that are not in the list
and not about to enter it, which nothing reads.

In `queues` and `objects` each behaviour uses one object (`used`); objects share
nothing but the kernel, and a thread waits on one at a time.  Each thread sends
messages of its own (`Sends`), so that a message received tells its sender.  Two
places make a queue that is empty, partly full and full, and a ring that wraps
around.  In `objects` one thread pushes, without waiting, for one tick or for ever, and handlers and
the others pop; `MaxPuts` 4 lets the ring of two wrap around twice.  In `heap`,
24 words hold at most four blocks: enough for a free block between two used
ones, a merge on both sides, an exact fit, a split and an `rt_realloc` that
shrinks, stays, moves and fails.  In `gateway`, a buffer of three bytes holds a frame and a half,
so that frames overrun it; `MaxLate` 1 bounds the ticks that pass while the reader is
ready to run or busy.

**Deadlock** is checked in every passing run: the idle thread and the tick
always go on; in `heap` an empty heap can always allocate.

**Fairness.**  Strong fairness of the interrupts (the tick keeps coming; a reset
loop or the service of timers disables it only for a while), of the steps of
a kernel function whenever its thread runs, and of `rt_exit_critical` by a
thread that runs.  Strong, not weak, because preemption and interrupts disable
each of them again and again.  `semaphore_live` adds that the interrupt handler
keeps releasing, `mutex_live` that an owner who keeps running releases at last,
and its property assumes that no thread stays suspended by `rt_thread_suspend`
for ever: the code promises nothing otherwise.  `gateway` has weak fairness of
the tick, of the bytes that come and of each thread's steps, and strong fairness of a writer's taking of
the mutex: `uart_2.mutex` is FIFO, and `WaitersAreServed` is what the run
`mutex_live` shows of FIFO mutexes.

**The coordinator's contract** in `gateway`.  `EveryFrameHandled` is about `paced`
behaviours, in which `MinGap` silent ticks part two frames; bytes of one frame
follow each other faster than the timer runs.  The gap must exceed
RxTime + 2 ReadDelay + 3 MaxLate (timer, both sleeps, three delays):
with the run's constants 8 suffices and 7 does not.  `MaxLate` must cover more than threads of
higher priority: handling a frame, the reader itself writes to flash (`write_to_file`), runs
`user_ctrl_msg` and prints every byte on the console (`ym_uart_app.c:93-121`), so the gap a
real coordinator must leave is larger than the constants of the run suggest.  `BytesInOrder` and
`NothingStranded` are about every behaviour; the latter needs MaxLate < RxTime,
an assumption of the module.

## 5. Proofs

Every theorem holds for any number of threads, priorities, IPC objects, tokens
and ticks, or for any arena; `FlushOK` and the like name the conjuncts in the modules.

| Module | Theorem | States |
|---|---|---|
| `KernelProof` | `TypeCorrect` | `KernelTypeOK` |
| | `QueuesStayConsistent` | ready queues, states and bitmap agree |
| | `ListsStayConsistent` | wait lists and the defunct list |
| | `TimeoutAssertion` | `RT_ASSERT(thread->stat == RT_THREAD_SUSPEND)` in `rt_thread_timeout` |
| | `DeletedIsGone` | a closed thread is in no ready queue |
| | `HighestPriorityRuns` | preemption |
| `SemaphoreProof` | `SemaphoresStaySound` | `SemSound`: the kernel stays consistent under every function of `rt_sem_*` |
| | `NoLostWakeup` | nobody waits beside a token |
| | `SemaphoreImplements` | every semaphore implements `CountingSemaphore` |
| `MutexProof` | `MutualExclusionHolds` | mutual exclusion as the callers see it |
| | `MutexesStaySound` | `MutexSound`: the kernel stays consistent under every function of `rt_mutex_*`; who is waited for owns |
| | `BoostsEnd` | with one mutex, who owns none has the priority he was started with |
| `PoolProof` | `BlocksStayAccounted` | each block is in the counted free list or out with one caller |
| | `PendedStaysCounted` | `suspend_thread_count` counts the waiters, when none waits with a timeout |
| | `PoolsStaySound` | the kernel stays consistent under every function of `rt_mp_*` |
| | `WokenThreadsFindBlocks` | the one allocating thread, woken by `rt_mp_free`, finds a block |
| | `QueuesStaySound` | every message of a queue's pool is in the queue, free, or with one copying call; the kernel stays consistent; mailbox offsets stay in the ring |
| | `MailboxesImplement` | every mailbox implements `BoundedFifo`: what is sent goes to the end |
| | `DataQueuesImplement` | every data queue implements `BoundedFifo`: what is pushed goes to the end |
| `ObjectsProof` | `FlagsAreNotMissed` | no thread waits for flags that are set, after any walk of `rt_event_send` |
| | `EventsImplement` | every event implements `EventGroup`: who is given which flags, and who goes on waiting |
| | `CompletionsAreSeen` | no thread waits on a completion that is done |
| | `DataQueuesForgetNobody` | with one pusher, nobody waits on a data queue for a wake-up that has been |
| | `QueuesForgetNobody` | nobody waits to send or to receive, at a mailbox or a message queue, for a wake-up that has been |
| | `ObjectsStaySound` | the kernel stays consistent under all five kinds of object together, whatever the timeouts |
| `HeapProof` | `HeapStaysSound` | the headers tile the arena, no two free neighbours, `lfree` is a free block or the end |
| | `HeldStaysUsed` | a held block is in use and nobody else's |
| | `UsedMemStaysCounted` | `used_mem` is the sum of the sizes of the blocks in use |
| | `HeapKeepsItsPromise` | the heap implements `Allocator` |
| `TimerProof` | `TimersStayInOrder` | the timer list is sorted by the time left, across the wrap-around of the tick |
| | `StoppedIsOff` | what `rt_timer_stop` stops is off the list |
| | `TimersKeepTime` | the timer list implements `AlarmClock`: each timer rings at its tick and in turn |
| `GatewayProof` | `BytesStayInOrder` | the reader gets the bytes received, in order, but for those the ring dropped |
| | `NothingStaysBehind` | bytes in the ring are known to the timer, the semaphore or the reader |

The theorems on the kernel, the semaphore, the mutex, the pool and the objects have the
form `Guarded => (Spec => []P)` and rest on `KernelAssumption`, `SemAssumption`,
`MutexAssumption`, `MempoolAssumption`, and `ObjectsAssumption` with those of the modules
it composes; the heap's rest on `HeapAssumption`,
those on timers on `TimerAssumption`, the gateway's on `GatewayAssumption`.
`BlocksStayAccounted` needs no `Guarded`, `PendedStaysCounted` also `~Timed`,
`WokenThreadsFindBlocks` one allocator, `BoostsEnd` `OneMutex`: with timeouts, two allocators or two
mutexes these three do not hold (§6).
`DataQueuesForgetNobody` needs one pusher, as a pop wakes one and the others find the mark
cleared (`dataqueue.c:227`).
Two statements serve only to bound a finding and are not results about the code as it is used:
`OwnersInherit` (a mutex in priority order inherits; the application's is FIFO,
section 6) and `PatientPushersAreThere` (`LwmMeansWaiter` holds when all pushes wait for ever;
`rt_serial_write` does not, run `dataqueue_timeout`).

**Kernel.** The properties are not inductive.  `rt_schedule_insert_thread` does
not look whether the thread is on a list, so that it is not there must follow
from where every other thread is: `KernelInv` adds

* `ControlOK`: a thread that is worked on (`arg`) is in the state its worker's
  `pc` stands for and, once taken off its list, on no other; it has one worker
  only, who holds the scheduler lock;
* `CurrentOK`, `IdleOK`: what the running thread's state can be at each `pc`, and
  that the idle thread is always ready, so that `rt_schedule` finds one;
* `DueOK`: an expired timer is not running any more;
* `DefunctOK`: only created threads, never static ones, are on the defunct list;
* `HeadRuns`: unless the thread is about to call `rt_schedule`, or in a reset, it
  is the first of the highest queue.

There is one lemma per action, over lemmas on the lists (`Unlink`, `Requeued`,
`RemoveThread`, `MakeReady`) that the actions share.  Lists are reasoned about
through their ranges and injectivity, not by recursion.

**IPC.** `KernelProof` also has lemmas for what the objects share: a thread blocks
(`BlockStep`), is woken (`WakeStep`), both also while priorities change
(`LendingBlockStep`, `LendingWakeStep`), or on a list kept in another order
(`JoinStep`), an object is initialised, detached and
flushed; and `KernelShrinksWaits`: a step of the kernel only takes threads off
wait lists.  `SemInv` is `KernelInv` with `FlushOK` (the thread that flushes runs
with the scheduler locked, as `Guarded` asks, its object exists, no waiter has a timer, and once it
has looked the list is not empty), `ResetOK` and `NobodyWaitsForAToken`.

**Refinement.** `RefInv` adds where the threads are: a waiting thread is at
`sched` or `blocked` with `thread->error` clear (`WaitPlace`), a thread in its own
code or in a kernel function is in no call (`PlaceOK`), both kept for every kind of
object by those lemmas, nobody waits for an object that is gone
(`GoneEmpty`), a reset runs alone (`ResetRuns`).  A kernel step then lets at most one
client of a semaphore fade: give up while it waits, or leave with its token
(`KernelRefines`).  Each step of `rt_sem_*` is the abstract step of its name.

**Mutex.** Mutual exclusion is not inductive: between the hand-over and the
return of the waiter's `rt_mutex_take` the new owner is counted in `hold` and not
yet in `mine`, and a timeout or an error in that gap would make it an owner that
does not know.  `MutexInv` names those threads (`Holds`, shared with the
semaphores): `OwnerOK` counts them, `ServedOK` says each owns the mutex once and
that no timer of its call runs or is due, so that its return code stays `RT_EOK`
(`KernelKeepsServed`); `FlushOwn` says a mutex is detached by its owner or when it
is free, so that none goes while it is handed over, and `GoneEmpty` that nobody
waits for one that is gone.  `LendQueues` and `HandOverQueues` say what the ready
queues hold after one locked section that moves two threads in them.  The proof
uses `OwnersStay`: an owner that is deleted keeps the mutex for ever.

**Priorities lent.** Neither `OwnerInherits` nor `BoostEnds` is inductive: a release
gives back whatever `original_priority` holds, and the hand-over lends nothing to the new
owner.  `LendInv` adds that `original_priority` is the priority the owner was started with
and that he waits for nothing he owns (`OwnerLent`), so that waiters are never lent anything;
that the wait list is in the order of *those* priorities (`Sorted`, kept by
`SortedInsert` and `SortedUnlink`), so that the first waiter needs no loan (`SortedHead`);
and that a mutex which goes or is gone has lent nothing (`Going`).  A step of the
kernel changes the priority of threads that are not yet started only (`KernelLends`).

**Memory pool.** `BlockInv` says of every pool, detached ones too, what
`BlocksAccounted` says of existing ones: a woken thread may take a block from a pool
that is gone.  `FreshList` is the counting argument (`FiniteSetTheorems`) that
`rt_mp_init` lists each block once.  `PendInv` adds to the kernel's invariant that no waiter has
a timer (`WaitersUntimed`); with `WaitersStay` a kernel step then changes no wait list
(`KernelKeepsWaiters`), and only `rt_mp_free` and a flush, which count, shorten one.
`WokenInv` adds `AllocatorServed`: whoever waits for a pool or was woken by it is the
allocator, and for the woken one there is a block in the list until it takes it; that
nobody else is between waking and taking is what two allocators break.

**Events, queues, completions.** `ObjectsInv` is `CoreInv` and one part per kind of
object.  `CoreInv` says where threads are: `WaitInv` and `FlushOK` as for semaphores, that
only events are detached and only data queues without waiting pushers reset (`FlushPlace`),
that a suspended thread is on the list of its call (`CallerOK`), and that a thread which
comes back to the test of a waiting call holds no lock (`NestOK`).  `CpInv` adds that only
`Waiter` waits; `NobodyMissesFlags` is inductive once every step is known to leave what
waiters asked for (`event_set`, `event_info`) alone, and `Walk` to wake whom it satisfies.
`DqInv` is the argument of the data queue: a waiting push implies the mark and more items
than `Lwm` (`PushesOK`), a waiting pop implies no more items than there are threads on their
way (`PopsOK`, with `FiniteSetTheorems`, hence the finite `Thread`), and, when pushes wait for
ever, the mark implies that the pusher still waits, untimed (`MarkOK`).  `MbInv` and `MqInv`
are the same count of the threads on their way (`OnTheWay`) for a mailbox's messages, its free places and
a queue's messages, with nobody waiting for an object that is gone; `Attends` says what a step that
wakes, retries or leaves does to the count.  A step
on one kind leaves the others `Apart`: their lists, and what their waiters wait for, stay; a
step of the kernel is `Calm`: it takes off a list only who leaves with an error.

**Event groups.** `GroupInv` adds to `ObjectsInv` where flags are kept (`EvPlace`): who waits
for an event waits for some flag, and a thread has flags only inside its call.  One lemma
per function says which step of `EventGroup` it is, for its own event: `Take`, `Wait`, `Send`,
`Return`, `Clear`, `Close`, `Open`.  What a send gives is an invariant of the walk (`Gives`): the
threads woken so far have flags out of those found, all they asked for with `AND`, those
that clear have disjoint ones, and what is left is what was found without these.  For
every other event, and for calls on other objects, the step is a stutter, because what the
mapping says of a thread (`Ask`, `Kept`) depends on its own place and flags only
(`ApartGroup`); a step of the kernel makes at most one thread give up (`KernelGroup`).

**Message pools.** These are in `PoolProof`, on top of `ObjectsProof`.  `SlotsAccounted`
follows the links, which no step-wise argument can do. `SlotInv` says instead that there
*are* two sequences of messages, `c` and `d`, that the links follow from `head` and from
`free` (`Linked`), that with the messages in the hands of copying calls they part the pool
(`Pooled`), and that a thread has a message in its hands exactly while it copies
(`HandsOK`).  It adds that nobody copies at a queue that is gone or being detached. One
lemma per locked section moves one message between the three parts (`PooledTake`,
`PooledUnlink`, `PooledFree`, `PooledEnd`, `PooledFront`), RESET appends the reversed queue
to the free list (`LinkedDown`), and `LinkedChain` says that following the links, as `Chain`
does, finds the sequence.

**Mailboxes.** Also in `PoolProof`.  `BoxInv` adds to `ObjectsInv` that the ring of each mailbox is
whole (`BoxRing`: `in_offset` is `out_offset` and `entry` further on), and that of a mailbox
which is detached or being detached nobody has a message in hand, and only threads still on its
list have one to send (`Shut`), so that `Open` finds no client.  `ContentPut` and `ContentGet` say
that storing appends to the content and reading takes its head.  `Sent` and `Got` are what
the mapping says of one thread; a step of the kernel changes that of one thread at most, who
gives up (`KernelBox`), a step on another object of none (`ApartBox`), and each function of
`rt_mb_*` is the step of `BoundedFifo` that its lemma names: `BoxPuts`, `BoxAsks`, `BoxGets`.
No client is `urgent`, so each put must be shown to append.

**Data queues.** Likewise, with `DqBoxInv`: a queue that is not initialised is in no call
(`Absent`).  The indices only grow, so the content is read at places modulo the size:
`RingRead` and `PlacesDiffer` say that places less than the size apart differ, `ItemsPut` and
`ItemsGet` that a push appends and a pop takes the head.  A reset wakes everybody and keeps the
items.

The loops of the code, the walk over a wait list and the threads woken one after another
(`Walk`, `ListsAfter`), are recursive functions in the model; `RecursionExists` and
`Stepwise` in `KernelProof` give their value step by step, by the least number at which it
would go wrong.

**Heap.** `HeapInv` is `Whole(heap)` with what threads hold (`Holding`) and what
`rt_realloc` has in hand while `heap_sem` is released (`Moves`).  Lemmas say what
`Split`, `Join` and `plug_holes` do to the chain; the next free block and the first fit are
minima, which exist by well-founded induction (`WellFoundedInduction`).  `UsedMemCounted` is a
fold over a set, of which the provers know nothing: `SumExists`, `SumStep` and `SumAgrees` say
what such a sum does when one element comes or goes, each by a counterexample of least
cardinality, and `CountChanges` that a locked section changes the size or the use of one block
and `used_mem` by as much.

**Timers.** `TimerInv` adds to the order of the list (`TimerSound`) that a listed timer's
time lies less than half the range of the tick ahead and not more than one delay behind
(`LeftBounded`), so that any two listed ones compare as numbers although each time is kept
modulo the range; that an `rt_timer_start` which has computed a time and not yet inserted it
is at most the delay of the interrupts in between late (`StartingOK`); and what
`rt_timer_check` and a timeout function have in hand (`WorkOK`).  The insertion stops before
the first later timer; that there is a first one is well-founded induction.
The refinement maps a listed timer to an armed one, the timer whose function runs to the one
that rings, and goes through every step; that the head of the list is a least one is what makes
its expiry a `Ring`.

**Gateway.** `GatewayInv` says that the ring holds the last bytes received, that `seen`
continues what was read with nothing in between but what the ring overwrote (`RingOK`,
`ReadOK`), and where the reader is when the timer runs, is due or has posted (`ReaderOK`).

**Only model-checked:**
the refinement of `BoundedFifo` by the message queue; all liveness, which needs fairness
and `ENABLED`.

## 6. What the runs and the models show

The passing runs show the properties of section 4 on their instances, under the contracts of
section 3.  The run `dataqueue_timeout` shows that a comment is wrong:

| Property | What is said | What the code does |
|---|---|---|
| `LwmMeansWaiter` | `dataqueue.c:230`: "there is at least one thread in suspended list" | after a push that timed out or did not wait, `waiting_lwm` is set and nobody waits; `rt_data_queue_pop` returns with interrupts disabled (`dataqueue.c:251`) |

The following properties are stated in the modules, or hold in a passing run only by the choice of
its constants.  They are no runs of their own; whoever makes the change named to a configuration, and
checks that property alone, gets from TLC within seconds the behaviour that the last column describes:

| Change | Property | What is said | What the code does |
|---|---|---|---|
| `MCKernel.cfg`: `Guarded = FALSE` | `DeletedLeavesQueue` | `thread.c:333`: a deleted thread "will be removed from thread queue" | the tick between `rt_schedule_remove_thread` and `rt_timer_detach` (`thread.c:348`, `351`) expires its timer and puts it back |
| the same | `ResumeFindsSuspended` | `thread.c:615`: "remove from suspend list" | the state is tested before interrupts are disabled (`thread.c:604`); the tick in between expires the thread's timer, and `rt_list_remove` (`thread.c:616`) unlinks it from a ready queue whose bit stays set; `rt_thread_suspend` (`thread.c:563`) is written alike |
| `MCSemaphore.cfg`: `Guarded = FALSE` | `FlushFindsThread` | `ipc.c:162`: "resume all suspended threads in a list"; `ipc.c:180`: "get next suspend thread" | the only waiter times out between the test of the list (`ipc.c:175`) and the taking of its first element, and the list head is resumed |
| `MCMutex.cfg`: `MutexFlag <- FifoFlag` | `OwnerInherits` | `documentation/doxygen/kernel.h:77`: "Mutex objects use inherited priority" | the hand-over (`ipc.c:831`) does not lend the new owner the priority of those who still wait and, in a FIFO list, may outrank him; the application's mutex is FIFO (`application.c:215`) |
| `MCMutex.cfg`: `Obj = {m1, m2}` | `BoostEnds` | `ipc.c:811`: "change the owner thread to original priority" | a lent priority is saved as the original one when a second mutex is taken (`ipc.c:684`) |
| `MCMempool.cfg`: `Timed = TRUE` | `PendedCounted` | `rtdef.h:717`: "numbers of thread pended on this resource" | a wait that times out (`mempool.c:381`) stays counted, and the next `rt_mp_free` takes a list head for a thread |
| `MCMempool.cfg`: `Allocator = {t1, t2}` | `WokenFindsBlock` | `mempool.c:319`: the block "or RT_NULL on allocated failed" | a woken thread takes a block without looking (`mempool.c:388`); another may have taken it |
| `MCTimer.cfg` | `ListedIsActive` | `rtdef.h:401`: the flag says that the "timer is active" | a one-shot timer started again by its own function is in the list with the flag cleared (`timer.c:533`) |
| `MCHeap.cfg` | `LfreeIsLowest` | `mem.c:127`: "pointer to the lowest free block" | `rt_realloc` that shrinks a block below `lfree` leaves it where it is (`mem.c:430`), and the freed part is not found until a later `rt_free` lowers it |

No document says otherwise, but a reader should know:

* The loop of `rt_malloc` ends at `mem_size_aligned - size` (`mem.c:280`), and so
  misses an exact fit in the last block.
* If the receive timer of the gateway expires between a short read and `rx_sem.value = 0`
  (`ym_uart_app.c:89`), a complete frame waits in the buffer for the next byte; the model's
  MaxLate < RxTime excludes that delay.

## 7. Not modelled

* Devices and the object container (`device.c`, `object.c`): a model knows only
  whether an object exists.  Devices are opened by the application at start-up.
  The race of two threads through `uart2_init` and the uart1 thread, which may
  write to `uart_2.uart` before it is set (`ym_uart_app.c:515`), lie there.
* Pipe, ring buffer and portal of `components/drivers`: the STM32F10x build
  registers none; the serial driver's own ring buffer is in `Gateway`.
* DMA transmission and the registers of `usart.c`.
* The gateway's data: record files (`dev_opt.c`, `white_list.c`), JSON, sockets.
  These parse and store, through DFS and lwIP.  The device list of
  `ym_dev_list.c` has no caller.
* Nested interrupts of different priority are not told apart: any interrupt comes
  between any two steps.
* Hooks, logging, names and the console change no state the properties see.
* `memheap.c`, `slab.c`, `module.c` and software timers are not in the build.
* The processor port is assembly; `current` stands for it.
* lwIP, the file systems, finsh, CMSIS and `components/external` are third-party
  or stand beside the kernel.  They are most of the tree's lines: its code tables
  and headers (`cc936.c`, `stm32f10x.h`, `arm_math.h`) hold no state to model.
