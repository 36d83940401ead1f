# A TLA+ verification project for deemon's synchronisation core

deemon is an object-oriented scripting language with real threads. Everything
that runs concurrently in it rests on a layer of C in which every bug is an
interleaving: futex-based locks, read/write locks, semaphores, events and
once-controllers; the state word of a thread, through which it is started,
interrupted and joined; RCU locks over a list of threads that is walked without a
lock; and the weak references of objects that die meanwhile. These are the lines
a test suite can least vouch for, and the ones modelled here.

| file | what it is |
|---|---|
| `FutexQueue.tla` | what the primitives assume of a futex address |
| `Mutex.tla` | abstract specification of a mutual exclusion lock |
| `SharedLock.tla`, `SharedLock_proofs.tla` | `Dee_shared_lock_t`, implements `Mutex` |
| `SharedRWLock.tla`, `SharedRWLock_proofs.tla` | `Dee_shared_rwlock_t` |
| `Semaphore.tla`, `Semaphore_proofs.tla` | `Dee_semaphore_t` |
| `Event.tla`, `Event_proofs.tla` | `Dee_event_t` |
| `Once.tla`, `Once_proofs.tla` | `Dee_once_t` |
| `Weakref.tla`, `Weakref_proofs.tla` | `struct Dee_weakref`, `struct Dee_weakref_list`, destruction of the object |
| `RCU.tla` | abstract specification of `Dee_rcu_lock_t` |
| `RCUList.tla`, `RCUList_proofs.tla` | `DeeRCU_*` over the list of threads, implements `RCU` |
| `ThreadState.tla`, `ThreadState_proofs.tla` | `t_state` and `t_interrupt`: start, interrupt, terminate, join |
| `MC*.tla`, `*.cfg` | the instances that TLC checks |
| `PROJECT.json` | components, runs, mutants, source map, findings, hazards, theorems |

Run one with `tlc -config SharedLock.cfg MCSharedLock`, check proofs with
`tlapm SharedLock_proofs.tla`. Source lines below are relative to the
repository; `lock.c` is `src/deemon/runtime/lock.c`, `lock.h` is
`include/deemon/util/lock.h`, `thread.c` and `weakref.c` are in
`src/deemon/runtime`.

## 1. Inventory

### Synchronisation primitives

* **Shared lock** (`lock.h` 323-499, `lock.c` 40-155). State: lock word
  `s_lock` (0 or 1) and waitword `s_waiting`. Operations: `tryacquire`,
  `acquire[_noint|_timed]`, `waitfor[_noint|_timed]`, `release`. Correct if one
  thread holds it at a time, the waitword counts the waiting threads on every
  path, no wake-up is lost and nobody stays asleep on an available lock.
* **Shared read/write lock** (`lock.h` 501-698, `lock.c` 157-383). State:
  `arw_lock` (0, number of readers, or -1 for a writer), `srw_rwaiting`,
  `srw_wwaiting`. Operations: `tryread/read/waitread`, `trywrite/write/waitwrite`
  with their `_noint` and `_timed` forms, `endread`, `endwrite`, `downgrade`,
  `tryupgrade`, `upgrade`. Correct if a writer is alone, the word tells who
  holds the lock, and no reader sleeps while it could enter.
* **Semaphore** (`lock.h` 700-786, `lock.c` 385-496). State: `se_tickets`,
  `se_waiting`. Operations: `tryacquire`, `acquire*`, `waitfor*`, `release`,
  `release_n`. Correct if a ticket is handed out once, and none is left over
  while acquirers sleep.
* **Event** (`lock.h` 788-844, `lock.c` 498-554). State: one word, 0 set, 1 not
  set, 2 not set with waiting threads. Operations: `set`, `clear`, `waitfor*`.
  Correct if set wakes everyone and success means that it was set.
* **Once controller** (`include/deemon/util/once.h`, `lock.c` 1157-1342). State:
  one word counting up from 0, *completed* from a threshold on. Operations:
  `begin`, `begin_noint`, `trybegin`, `commit`, `abort`. Correct if the block is
  run by one thread at a time and, after a commit, by none.
* **Recursive shared locks** (`include/deemon/util/rlock.h`, `lock.c` 556-1155):
  the same with an owner and a recursion counter.
* **Atomic spin locks and multi-lock acquisition** (`kos-headers/hybrid/sched`,
  `lock-utils.h`, `DeeLock_Acquire2/3`).

### What they stand on

* **Futex layer** (`src/deemon/system/futex*`). On Linux a 4-byte wait is the
  system call; a wait for a pointer-sized word goes through a reference-counted
  *controller*, found by address in a tree, whose own word is the one slept on.
  A wait checks for interrupts before it sleeps.
* **Interrupts** (`thread.c` 2337-2470, 3188-3312). `DeeThread_Interrupt` locks
  the target's descriptor list with the INTERRUPTING bit of its state word,
  appends the exception, unlocks, sets INTERRUPTED, and wakes the target out of
  any futex wait again and again until it has reacted. `DeeThread_CheckInterrupt`
  clears the flag, takes the lock and removes the first one. Correct if the bit
  is a lock, interrupts arrive in order, and one in the list is announced.
* **Threads** (`thread.c` 2640-3430). State: `t_state`, a word of flags that is a
  lock, a message and a futex at once. Operations: start (which may fail, and which
  several may try), the entry of the thread, its termination, which discards
  the interrupts without the lock, and waiting for its end. Correct if no sender
  is at the list while it is discarded and nobody sleeps through a start or an end.

### RCU and the list of threads

* **RCU locks** (`include/deemon/util/rcu.h`, `thread.c` 5840-6200). State: the
  version of the lock, and `t_rcu_vers` of each thread, the version a reader has
  published. Operations: `DeeRCU_Lock`, `Unlock`, `Synchronize`. Correct if
  nothing is destroyed that a reader may still use, and synchronizing ends.
* **List of threads** (`thread.c` 940-1130). State: `thread_list` with its links,
  its lock, and a LISTRCU flag in each thread. Threads insert themselves when
  they start and are unbound when they are destroyed. `DeeRCU_Synchronize` walks
  the list without the lock; whoever changes it waits, with the lock, for the
  flags of all walkers. Correct if a walk stands on live threads and misses none.

### Weak references

* **Weak references** (`include/deemon/util/weakref.h`, `weakref.c`). State: an
  object heads a doubly linked list of the references bound to it; bit 0 of
  `wl_nodes` and of each `wr_next` is a spin lock. Operations: `init`, `copy`,
  `copyassign`, `moveassign`, `set`, `clear`, `lock`, `fini`, and
  `Dee_weakref_list_fini` when the object is destroyed. A function takes up to six
  locks, those of neighbours it finds on the way included: it waits for the
  first, tries the rest, and starts over when refused. Correct if every way out
  gives back the locks, the links agree, no reference is left to freed memory, a
  dying object is not brought back, and nobody waits for somebody who waits.

### The rest of the runtime

The garbage collector, heap and slab
allocators, containers, the module loader, the interpreter, the compiler, the
method-hint machinery, files, and the extension modules (`src/dex`). They use
the primitives through their functions. Components that are not modelled are
listed in `PROJECT.json` with the reason.

### How they interact, and what is hard

Locks, thread states and the list of threads build on the futex and on each
other: a futex wait checks the thread's interrupts, an interrupt wakes futex waits,
synchronizing walks the list that starting and ending threads change.
A primitive shares its words among all threads and its futex address with all
sleepers. Threads meet in four ways: atomic accesses to the words, the kernel's
compare-and-sleep, a wake-up by whoever releases, and an interrupt by anybody.
The hard behaviours are

* a thread preempted between announcing that it waits and going to sleep, while
  the lock is released, and taken again;
* one wake-up per release, which reaches a thread that has no use for it;
* a timeout or an exception that races a wake-up, on a path that must still undo
  the announcement;
* a value loaded before a failed compare-exchange and used after it;
* store buffering: a release store passed by the load that looks for waiters;
* a timed function that hands over to another one for an infinite timeout;
* a once block that fails while others wait for it;
* interrupts that wake everyone at an address, for no reason of theirs;
* a list that is found empty, given up to allocate memory, and found changed;
* a thread that ends while others append to its list, sleep on its state word or
  stand on it in a walk;
* a reader that has loaded a version and not yet published it when a writer
  passes;
* an object destroyed while its weak references are copied, moved and rebound.

`PROJECT.json` lists them as hazards, each at its line, with the properties that
would catch it going wrong.

## 2. How the modules correspond to the code

Common to the five lock modules:

* **One action per atomic access.** `pc[t]` names the place between two
  accesses. The functions of a primitive share their actions; `op[t]` tells which
  function a thread is in, and decides what may happen next. For the read/write
  lock and the semaphore, `op[t]` is a record (mode, take or wait, timeout,
  interruptible) because the functions are the combinations of these.
* **The futex.** `sleepers` are the threads in the kernel at the address.
  `FutexWait` compares and sleeps in one step, as the kernel does. `Woken` is the
  return of a thread someone has taken out of `sleepers`; `TimedOut` is possible
  only for a thread still in it. `FutexQueue` defines the two wake-ups; which
  sleeper `WakeOne` takes is open. A wait for a pointer-sized word (read/write
  lock, semaphore) may also return at once without cause, since its controller is
  shared. The controllers themselves are not modelled.
* **Timeouts** happen at any time after the first wait: `TimedOut` in the kernel,
  or a loop that finds its deadline passed (`"idle"` among the labels of
  `AfterHeld`, `AfterRefused`, `Check`). The special value `(uint64_t)-1` is an
  operation of its own and hands over exactly as the code does (`Delegate`).
* **Interrupts.** `Interrupt(t)` is the flag, `WakeGlobal(t)` the interrupter's
  wake-up of everyone where its target is registered, `FutexInterrupted(t)` the
  check in the wait: it wakes everyone, handles the interrupt, and leaves with an
  exception (only if the function may) or starts over.
* **Locals** such as `lockword`, `temp`, `state` and `error` are variables per
  thread where the code uses them after another thread may have run.
* **History variables** (`asked` of the semaphore, `balance`, `isset`, `seen`,
  `told`, `committed`; `sent` and `taken` of `ThreadState`) are read by properties
  only, or bound the number of calls.

| module | state | actions |
|---|---|---|
| `SharedLock` | `s_lock`, `s_waiting` | `Xch`, `Load`, `WaitingStart`, `WaitingEnd`, `ReleaseStore`, `Drain`, `ReleaseTest`, `ReleaseWake` |
| `SharedRWLock` | `arw_lock`, `waiting` (both waitwords) | `TryRead`, `LoadWord`, `CmpXch`, `WaitingStart`, `WaitingEnd`, `EndRead`, `EndWrite`, `Downgrade`, `TryUpgrade`, `UpgradeDrop`, and the tests and calls of `_Dee_shared_rwlock_wake` in their order |
| `Semaphore` | `se_tickets`, `se_waiting` | `Load`, `CmpXch`, `WaitingStart`, `WaitingEnd`, `Release`, `WakeTest`, `Wake` |
| `Event` | `ev_state` | `Get`, `Mark`, `Check`, `Set`, `DoWakeAll`, `Clear` |
| `Once` | `oc_didrun` | `Read`, `FetchInc`, `Fix`, `CmpXch`, `Reread`, `Commit`, `Abort`, `DoWakeAll` |
| `Weakref` | `ptr`, `owner` (bit 0), `wr_pself`, `wr_obj`, `refs` | `Call`, `Decref`, `Check`, `Acquire`, `Waitfor`, `Use`, `Commit`, `Release` |
| `RCUList` | `rcul_version`, `t_rcu_vers`, `le_next`, `le_prev`, `list_lock`, `listrcu` | `LockLoad`, `LockStore`, `Get`, `Unlock`; `Swap`, `SyncLoad`, `SyncCas`, `Flag`, `Scan`, `Reread`, `Advance`, `Free`; `Acquire`, `Insert`, `Inserted`, `Terminate`, `Destroy`, `Unbind`, `Await`, `Unbound` |
| `ThreadState` | `t_state`, `t_interrupt` | start: `Start` ... `Abort`; receiving: `Check` ... `ReleaseOwn`; sending: `Lock` ... `CheckVersion`; `Join`; the thread itself: `Entry` ... `Unflag` |

**Store buffers.** `Dee_atomic_lock_release` is a store with release ordering, a
plain `mov` on x86. With `TSO = TRUE`, `ReleaseStore` puts it into the CPU's store
buffer and `Drain` writes it to memory later; the locked instructions and system
calls of the same thread wait for that (`Xch`, `ReleaseWake`). Its plain loads do
not: the load of the waitword passes the store, and the load of the lock word with
which the `waitfor` functions begin (`lock.c` 78, 138) reads the thread's own
buffered 0 (`Loaded`). So a thread that releases and then waits for the lock may
return while all others still see it held. Only `SharedLock` has this. In the other
modules the accesses are sequentially consistent: all but `endwrite` and
`downgrade`, which are stores too, are atomic read-modify-write instructions.

**Weak references.** A location is an object (for its `wl_nodes`) or a reference
(for its `wr_next`). `Plan` gives, for each function, which locks it takes in
which order and `Where` finds them; the first is waited for, the others are tried
(`Acquire`), and a refusal releases all and starts over (`BackOff`). `Got` and
`Refused` hold the cases in which a function does something else: two
neighbours that are the same location, a reference that is unbound or bound to
another object by the time it is locked. `Script` is the list of stores the
function makes once it has its locks, in the order of the code, with an unlock as
part of the store that performs it, so that other threads see every stage.
Strong references are sets of holders (a thread, or `Root` for the rest of the
program); dropping the last one starts the destruction in the same thread.
`life` is the caller's obligation: a reference is initialised once, and not used
by others while it is finalised. Callbacks (`wr_del`), `Dee_weakref_move`, `cmpxch`,
`bound`, `initmany` and the transfer to a dummy list are not modelled.

**RCU.** `RCU` is the promise: a set of registered threads, and a scan that visits
them in any order. `RCUList` is the code: `Scan` and `Advance` go along `le_next`
without the lock, `Flag` and the end of the walk set and clear LISTRCU, and
whoever inserts or unbinds a thread awaits the flags (`Await`) before it gives the
list back, the memory too. The refinement maps `left` to what is reachable from where the
walker stands, and a thread that is not linked to one that is off. Accesses are
sequentially consistent; the version does not overflow (`MaxVers` bounds it).
The object behind the shared pointer is destroyed once the writer's call returns,
as the documentation of `rcu.h` shows it.

**Thread states.** `t_state` is a set of flags; `frame[t]` is the place, the
target and the loaded words (`state`, `seen`) of a call in progress, with a short
`stack` where one function calls another. `frame[t].moved` says that the target's
`t_int_vers` has changed since it was loaded, which is all the code asks of that
counter, and is exact if it does not wrap around. A sender's wake-up and a wait
on the word are one futex step each as above. A wait that is timed may end at any time; a
weak compare-exchange fails if the word has changed. Keyboard and shutdown interrupts, hooks,
suspending, detaching, the SETUP lock and the flags for operating-system handles
are not modelled: the functions of the model neither wait for those flags nor
set them.

**Left out everywhere.** A weak compare-exchange that fails without cause, except in
`RCUList` (the code then goes around its loop as after a real failure),
`CONFIG_NO_THREADS`, and, in the lock modules, `DeeThread_CheckInterrupt` doing
anything but returning 0 or -1.

**Abstract specification.** `Mutex` knows that a thread is out, in a call, or
holds the lock: it is taken, and seen available, only at a moment nobody else holds
it; a try is refused only while somebody does; only timed or interruptible calls
fail otherwise. Because of the store buffer a release is two steps: `Release`, from
which on the thread itself is out, and `Seen`, from which on it counts for the
others; in between the thread is in `unseen`. It may call again meanwhile, and may be
told that the lock is free, which no other thread is; but nobody, itself included,
takes the lock before `Seen`. With `Delayed = FALSE` nothing is ever `unseen`, and
`Mutex` is the plain one. `SharedLock` defines `where` and `call` from its own
state, `unseen` is `storebuf`, and `Delayed` is `TSO`.

## 3. Runs

Twelve runs; ten must pass, two show a disagreement between the code and what the
repository says of it.

| run | instance | shows |
|---|---|---|
| `shared_lock` | 3 threads; try, acquire, acquire_timed; interrupts for all | exclusion, exact waitword, no lost wake-up; liveness: no sleeper is abandoned, an interrupt reaches a waiter |
| `shared_lock_refines` | 2 threads, every function, buffered release store, own stores forwarded to loads | implements `Mutex` with delayed releases |
| `rwlock` | 3 threads; read_timed, write, upgrade, downgrade; interrupts for all | exclusion, exact words, no lost wake-up |
| `rwlock_live` | 3 threads; read_noint, write_noint, upgrade, downgrade | a free lock is not left with sleepers; a sleeping reader is woken |
| `semaphore` | 3 threads; try, acquire_noint, acquire_timed; batches of 1 and 2; up to 2 tickets | tickets conserved, exact waitword, no lost wake-up, no ticket left lying |
| `event` | 3 threads; waitfor, waitfor_timed | set wakes, success means set, a set event ends every wait |
| `once` | 3 threads; begin, trybegin; one failing block | runs once, the word tells the truth, nobody sleeps through the end |
| `weakref` | 2 threads, 2 references, 2 objects, every function | locks exact on every path, links agree, nothing dangles, no resurrection, no one waits for a waiter |
| `rcu` | main thread, 2 workers that come, read, write and go; 3 objects | walks stand on live threads, grace period, implements `RCU`; liveness: synchronizing and changing the list end |
| `thread` | 2 callers, 1 worker; starts that fail, interrupts from all, join | lock bit exact, interrupts in order and announced, discarded undisturbed, no lost wake-up, no deadlock |
| `weakref_fini` | 2 threads, 2 references, 1 object; init, lock, fini | *violation*, see below |
| `rcu_main` | main thread as the writer, 1 worker | *violation* |

**Bounds and why they are enough.** Three threads give a holder, a thread that
is being woken and one that sleeps: a lost wake-up needs these three roles, and
the smallest counterexamples of the mutants use two or three. Where an operation
is left out of an instance, its behaviours are among those of one that is in:
`begin` does all that `begin_noint` does, `read_timed` all that `read` does.
`MaxTickets = 2` lets a batch meet a single release. `MaxWaiting = 5` lets the
word of `Once` be incremented past every value the code compares it with (0, 1,
2 and more); `Completed = 100` stands for the threshold of half the range,
far enough from `MaxWaiting` that no increment reaches it. `MaxAborts = 1`
lets the block be started twice. Interrupts go to every thread in
`shared_lock` and `rwlock`, to one of the three in `semaphore`, `event` and
`once`. Threads are permuted (SYMMETRY) only in `rwlock` and `weakref`, which have no
temporal property; `weakref` permutes references and objects too.

Two references and two objects in `weakref` let a reference have a neighbour in
its list, move to another list, and lose its object; the 364 thousand
states include all pairs of functions. Three references without `fini` (3.6 million
states) passed as well, and take too long to keep. `rcu` has two writers, so that a
version is incremented between the load and the compare-exchange of another, and
both walk while threads come and go; the third object lets each exchange once.
`MaxVers = 3` is reached after two synchronizations, so it stops nobody. The main
thread does not synchronize there: `rcu_main` is about that. `thread` has
two starters of one worker, a sender that may be interrupted itself, and two interrupts to the
worker, the second of which needs a descriptor (993 thousand states). Larger
instances, up to nine million states, passed too.

**Type invariants.** `TypeOK` of each module documents its variables. It is proved
for every module (for `ThreadState` without the bound on the number of interrupts,
for `RCUList` under the assumption below). The runs spend their time on the
properties that say more.

**Deadlock** is checked except in `semaphore` and `event`, where everybody may
wait for a ticket or an event that nobody is left to provide, and in `weakref` and
`rcu`, where objects, references and threads are used up in the end. In `weakref`
`SpinsForRunner` takes its place.

**Fairness.** Weak fairness of a thread's next step inside a call (the operating
system schedules it), of leaving the critical section (a holder lets go, a once
block ends; both are obligations of the caller), of the store buffer draining,
and of the interrupter's wake-up, which the code repeats while the target is
registered. Calls, interrupts, releases of tickets and setting an event are not
fair: nobody has to. No fairness among competing threads is assumed, and none is
claimed: the locks promise no thread its turn. `ReadersWake` says that a reader
*wakes up*, which does not mean that it gets the lock. `WaitersReturn` and
`CallsReturn` exempt a thread that is interrupted over and over; each interrupt
starts its wait anew. In `rcu` a reader that has loaded the version publishes it
and leaves its section (`WF` of `LockStore` and `Unlock`: an obligation of the
caller, who must not block there), the steps of a walk and of a change of the list
are taken (`WF` of `Sync` and `Listing`), and a weak compare-exchange that could succeed again and
again does not fail forever (`SF`). `Weakref` and `ThreadState` have no liveness
property: their locks are spin locks that promise no thread its turn, and a sender
repeats its wake-up for as long as the target does not look.

**Mutants.** Every property of a passing run has a mutant: a plausible slip in
one definition (an off-by-one in the test for waiters, an error path that does
not undo its announcement, a store in place of a compare-exchange) under which
TLC finds the property violated.

### Findings

1. `weakref_fini`. `Dee_weakref_fini` reads `wr_obj` without the lock
   (`weakref.c` 653) and returns at once if it is NULL. `Dee_weakref_list_fini`
   stores that NULL (1064) before it calls back and unlocks the reference
   (1066-1069): the owner may free a reference that the other thread still has
   locked and will write to.
2. `rcu_main`. `thread_list_lock_await_rcu` (`thread.c` 1029-1037) walks
   `thread_list`, which does not hold the main thread (947-949). When the main
   thread walks the list in `DeeRCU_Synchronize`, nobody waits for its flag, and the
   thread it stands on may be freed.

### Observations without a run

Met while modelling; the models have the behaviour where they have the function.
The locks:

* A release of the shared lock wakes one thread. If that is one in
  `Dee_shared_lock_waitfor`, it returns without taking the lock, and nobody wakes
  the acquirers that still sleep on the available lock (`SharedLock` with
  `Ops = {"acquire", "waitfor"}` violates `SleepersNotAbandoned`; the same with
  `Dee_semaphore_waitfor` beside `acquire`).
* The release store may still be buffered when the waitword is loaded: the
  releaser sees no waiter, the acquirer sees a held lock and sleeps (`TSO = TRUE`
  violates `SleepersNotAbandoned`). A full barrier between the two would rule it
  out.
* With the store still buffered, `Dee_shared_lock_waitfor` in the releasing thread
  returns although every other thread still finds the lock held. The lock is
  therefore no implementation of a mutex whose releases are atomic, only of one
  where they may be delayed.
* `Dee_shared_rwlock_waitread_timed` with an infinite timeout calls
  `Dee_shared_rwlock_read` (`lock.c` 339) and returns with a read lock.
* After a failed compare-exchange in its loop `Dee_shared_rwlock_write_timed` waits
  for the word to change from the 0 it loaded before (`lock.c` 311, 315), and may
  sleep on a free lock.
* `Dee_once_trybegin` returns -1 (`lock.c` 1310) where `once.h` 86 documents 2; its
  callers in `threading` switch over 0, 1 and 2.
* `Dee_semaphore_acquire_timed` with an infinite timeout calls
  `Dee_semaphore_waitfor` (`lock.c` 482) and reports success without a ticket.

Weak references, in functions that are not modelled: `Dee_weakref_move` tests a
TRYLOCK the wrong way round; `Dee_weakref_bound` may follow a NULL it has read
again; `Dee_weakref_cmpxch` leaves a lock set on one path and returns NULL for a
dying object; `Dee_weakref_initmany_trylock` passes the number of references
where it means the index, and `initmany_exec` never stores the head of the list.
In a modelled one: `Dee_weakref_clear` may return true though the object was
destroyed meanwhile.

RCU: a reader's release store may be passed by its load of the pointer on x86,
and after an overflow of the version a reader that had loaded a large one is
not waited for.

Threads: a second starter sleeps without setting WAITING, so that the
`_DeeThread_WakeWaiting` of a failed start (`thread.c` 3033) does not wake it. Two
threads that interrupt each other both check for interrupts of their own before
either has appended, and then wait for one another. A sender that sets INTERRUPTED
(3274) after the target's last clearing of it (2770) waits for a flag nobody
clears. These waits are timed and repeated, so the model does not deadlock, but it
need not get anywhere either. Interrupting a thread that has not been started,
from the one thread that would start it, waits forever.

## 4. Proofs

TLAPS checks, for every set of threads and every set of operations, as far as the
assumptions below do not restrict them:

| theorem | statement |
|---|---|
| `SharedLock_proofs!Safety` | `Spec => []MutualExclusion`, with or without a store buffer |
| `SharedLock_proofs!TypeCorrect` | `Spec => []TypeOK` |
| `SharedLock_proofs!WaitwordCorrect` | `Spec => []WaitwordExact` |
| `SharedLock_proofs!WakeupSafety` | `Spec => []NoLostWakeup` if `Ops \subseteq AcquireOps` and `TSO = FALSE` |
| `SharedLock_proofs!Refinement` | `Spec => ImplementsMutex`: the plain mutex without a store buffer, delayed releases with one |
| `SharedRWLock_proofs!Safety` | `Spec => []Exclusion` |
| `SharedRWLock_proofs!WordCorrect` | `Spec => []WordExact` |
| `SharedRWLock_proofs!WaitwordsCorrect` | `Spec => []WaitwordsExact` |
| `SharedRWLock_proofs!TypeCorrect` | `Spec => []TypeOK` |
| `SharedRWLock_proofs!WakeupSafety` | `Spec => []NoLostWakeup` if `OnlyTake` |
| `Semaphore_proofs!TicketSafety` | `Spec => []TicketsConserved` if `NoInfiniteAcquire` |
| `Semaphore_proofs!WaitwordCorrect` | `Spec => []WaitwordExact` |
| `Semaphore_proofs!WakeupSafety` | `Spec => []NoLostWakeup` if `OnlyAcquire` |
| `Semaphore_proofs!TypeCorrect` | `Spec => []TypeOK` |
| `Event_proofs!WordCorrect` | `Spec => []WordExact` |
| `Event_proofs!SuccessCorrect` | `Spec => []SuccessMeansSet` |
| `Event_proofs!WakeupSafety` | `Spec => []NoLostWakeup` |
| `Event_proofs!TypeCorrect` | `Spec => []TypeOK` |
| `Once_proofs!Safety` | `Spec => []RunsOnce` |
| `Once_proofs!WordCorrect` | `Spec => []WordExact` |
| `Once_proofs!DoneCorrect` | `Spec => []ZeroMeansDone` |
| `Once_proofs!WakeupSafety` | `Spec => []NoLostWakeup` |
| `Once_proofs!TypeCorrect` | `Spec => []TypeOK` |
| `ThreadState_proofs!LockCorrect` | `Spec => []LockExact` |
| `ThreadState_proofs!OrderCorrect` | `Spec => []InOrder` |
| `ThreadState_proofs!AnnouncedCorrect` | `Spec => []Announced` |
| `ThreadState_proofs!DiscardSafety` | `Spec => []DiscardAlone` |
| `ThreadState_proofs!WakeupSafety` | `Spec => []NoLostWakeup` |
| `ThreadState_proofs!TypeCorrect` | `Spec => []TypeInv` |
| `Weakref_proofs!ResurrectionSafety` | `Spec => []NoResurrection` |
| `Weakref_proofs!LockSafety` | `Spec => []LocksExact` |
| `Weakref_proofs!SpinSafety` | `Spec => []SpinsForRunner` |
| `Weakref_proofs!LinkSafety` | `Spec => []LinksAgree` |
| `Weakref_proofs!DanglingSafety` | `Spec => []NoDangling` |
| `Weakref_proofs!TypeCorrect` | `Spec => []TypeOK` |
| `RCUList_proofs!WalkSafety` | `Spec => []WalksLiveThreads` if `MainDoesNotSynchronize` |
| `RCUList_proofs!Refinement` | `Spec => ImplementsRCU` if `MainDoesNotSynchronize` |
| `RCUList_proofs!AbstractGracePeriod` | `A!Spec => [](A!TypeOK /\ GracePeriod)`, where `A` is `RCU` |
| `RCUList_proofs!GracePeriodHolds` | `Spec => []GracePeriod` if `MainDoesNotSynchronize` |
| `RCUList_proofs!TypeCorrect` | `Spec => []TypeOK` if `MainDoesNotSynchronize` |

**Assumptions.** Where the code counts threads (the shared locks, the semaphore, the
once controller) the set of threads is finite; for the event, the thread states, the
weak references and RCU it may be infinite. The operations are among those of the
primitive, `TSO` is a Boolean, bounds are numbers, callers are not workers, there is
at least one object behind an RCU pointer, and references, objects and `Null` are
different things. These are
the named `ASSUME`s of the modules, which the runs evaluate. Some theorems have a
hypothesis more, and need it: what happens without it is among the observations
and findings above.

* `SharedLock_proofs!WakeupSafety`: all threads acquire, and the release store is
  not buffered.
* `SharedRWLock_proofs!WakeupSafety`, `OnlyTake`: all functions take the lock (no
  `waitread`, `waitwrite`), and `write_timed` is not called with a finite timeout,
  because it may sleep on a free lock (`lock.c` 311, 315).
* `Semaphore_proofs!TicketSafety`, `NoInfiniteAcquire`: `acquire_timed` is not
  called with an infinite timeout, since it then reports success without a ticket
  (`lock.c` 482).
* `Semaphore_proofs!WakeupSafety`, `OnlyAcquire`: nor is `waitfor`, since a release
  that wakes one of its threads helps no acquirer.
* `RCUList_proofs`, `MainDoesNotSynchronize`: the main thread does not call
  `DeeRCU_Synchronize`. Run `rcu_main` shows what happens when it does.

**Shared lock.** Mutual exclusion is not inductive: nothing in it says that the
lock word is 1 while somebody holds the lock. `OwnerInv` says so, where an owner
is a holder or a thread whose release store is still buffered; the exchange of a
0 then finds no owner. `TypeOK` is not inductive either, for the decrement of the
waitword might go below 0: `WaitwordExact` gives each thread in the waiting
section its own increment. `SleepInv` ties `sleepers` and `err` to places in the
code. `IInv` is the conjunction; each part has its own preservation lemma with
one step per action. No lost wake-up follows on top of it. The case that matters
is a releasing thread that loads a waitword of 0: by `WaitwordExact` and
`SleepInv` nobody sleeps (`NoWaiterNoSleeper`). When `WakeOne` takes a thread
out, that thread becomes the rescuer, since it is inside an acquiring call
(`AcquireInv`). The refinement needs that a held word has an owner
(`HeldInv`), so that a refused try is a refusal of the abstract lock, and that only
operations that may fail carry an error (`ErrInv`). A load that reads 0 from the
thread's own buffer finds the abstract lock free because a buffered release is an
owner too, and there is one owner at most (`AvailableFree`); the exchange finds the
buffer empty, so that no release is `unseen` when the lock is taken.

**Read/write lock.** `IInv` is `TypeOK`, `Exclusion`, `WordExact` and
`WaitwordsExact`. They need each other: the word stays at least -1 because each
reader that leaves is counted in it, a reader enters only where the word rules a
writer out, and an upgrade succeeds only if the word 1 counts nobody but the
upgrader. A downgraded thread that still wakes others is a reader already; this
is why `Readers` looks at `resume`.

Its wake-ups are two arguments. `NoLostWakeup` is one statement about both
waitwords and is not inductive: the steps of `_Dee_shared_rwlock_wake` tell readers
and writers apart. `WriterRescue` says that while the lock is free and a writer
sleeps, somebody is about to wake a writer or everyone, or to take the lock, whose
release then looks again. `ReaderRescue` says that while readers may enter and one
sleeps, somebody is about to look for readers; a thread that has done so and now
looks for writers does not count. Both use that a thread sleeps only on a word that
refused it (`PlaceInv`), which is what a finite `write_timed` breaks.

**Semaphore.** `IInv` is `TypeOK`, `SleepInv`, `WaitwordExact`, and `CasInv`: who is
about to compare and exchange wants a ticket and has seen one, so that the tickets
never drop below 0. Tickets are conserved on top of it. No lost wake-up is a count:
each ticket that is left has a thread of its own that will contend for it or wake
somebody for it. Every step is shown to change the two sides of this inequality
alike; the step that matters wakes one sleeper, where the waker leaves the set of
rescuers and the woken thread enters it.

**Event.** The proof needs one fact the properties do not state (`SeenInv`): who is
inside a waiting call while the event is set has seen it set. It makes
`SuccessMeansSet` inductive, because the word is 0 exactly while the event is set. For
the wake-ups, the exchange in `Dee_event_set` that takes the 2 out of the word
brings its thread to the wake-up of all.

**Once.** The word alone does not say whether the block was committed: threads that come
late increment a word that is already complete, and take that back. `LateInv` bounds
what is too much in it by the number of threads about to take theirs back
(`LateMeansDone`: there are such threads only after the commit), so the word stays at
`Completed` or above. `StateInv` says which words the compare-exchange and the
wait rely on. With these `RunsOnce`, `WordExact`, `ZeroMeansDone` and
`NoLostWakeup` are inductive together.

**Thread states.** One state word carries a lock, an announcement and two kinds of
waiting, and calls are nested in one another: a check for interrupts runs inside the wait for
another thread's end, and may call `_DeeThread_WakeWaiting`. `StackInv` lists the
stacks of callers that occur. On it rest: `StartInv`, a thread that has not begun has
at most one starter; `LockInv`, which is `LockExact` without counting; `TermInv`, once
TERMINATING is set, who holds the lock is about to refuse, and where a thread is
tells which flags it has set; `PendingInv`, the list holds exactly the numbers from the
last one taken to the last one sent, or has been discarded; `WordInv`, nobody waits on a word
that already has what he waits for; and `MarkedInv`, while somebody sleeps until the
end of a thread the word says WAITING or everyone is about to be woken, although
other senders and waiters clear and set that flag meanwhile. `IInv` is the
conjunction of these with `TypeInv`, `Announced` and `NoLostWakeup`; TLC has checked
it on the instance of run `thread`. `LockExact`, `InOrder` and `DiscardAlone` follow
from it. The proof has one lemma per action that says what the step does
to its own thread, and shared ones for the threads it does not move. It showed that
one definition (`WakeAllThen`) chose between overlapping cases of a CASE, which
TLA+ leaves open; it now chooses in the order of the code, as TLC had done.

**Weak references.** `NoResurrection` is inductive with the types of what it speaks
about (`CallInv`): only `Dee_weakref_lock` adds a strong reference, through
`Dee_IncrefIfNotZero` and thus not to an object without one, and only the drop of
the last strong reference starts a destruction. Every other function, whatever
locks it has got, only goes on, becomes a `Dee_weakref_clear`, or returns
(`Continues`).

*Locks.* That the locks are exact rests on what each function still has to do. A
script `Closes` a set of locks if each of its stores unlocks one that is in the set
or none, writes only what is still locked, and none is left in the end; the
script of `init` and `copy` `Opens` with a store to the reference under creation,
which is not locked. One lemma per function (`ScriptClear` to `ScriptCopy`) shows
this for the stores in the order of the code, with neighbours that may be missing
or the same. `LockInv` ties the calls to it: while a thread takes its locks, what
it holds is exactly the plan up to the next stage (`PlanOK`), while it stores, the
rest of the script closes what it holds (`CommitOK`), and a location's owner is
who has it in hand (`HeldOK`). Two things keep this stable while others run.
What is locked next is reached through something the thread names or has locked
(`Guarded`), so nobody else moves it (`GuardsKept`). And a reference that is being
created is written without a lock, which is sound because nobody has seen it
(`Hidden`, `HiddenInv`): no pointer leads to it until its creator publishes it.
`SpinsForRunner` follows, since `PlanOK` leaves no lock in hand at the first stage.

*Lists.* While stores are under way the pointers in memory do not make up lists, and
several functions may be in the middle of theirs. The invariant therefore speaks of
the lists that there will be: `ViewOK(P, B, O)` says that `P`, `B` and `O` are what `ptr`,
`wr_pself` and `wr_obj` become when each thread has made the stores it has left
(`Viewed`), and that these are lists (`Lists`): links agree in both directions, a bound
reference is in the list of its object and an unbound one in none. Membership is
stated without induction: the reference is in every set that contains what the
object points to and is closed under the pointers. A store changes
nothing of this view (`ViewStore`); the step that matters is the one that gets the
last lock and fixes the script. There the locations the function has
locked are in the view as they are in memory (`GotAt`), and the script `Leads` from
lists to lists: it takes a reference out (`CutLists`), puts one in (`PutLists`), or
does both, whatever neighbours coincide. The threads write to different places
(`StoredApart`), so the views do not disturb each other.
`LinksAgree` is the view read at two locations nobody holds. For `NoDangling`,
`FreedInv` says that a destruction ends only after the list has been found empty,
under its lock or by the look that finds both the pointer and its bit 0 clear
(`Destroys`): then nothing in the view is bound to the object (`EmptyList`), and nothing will be, since
binding needs a strong reference. What a thread locks next is alive (`TargetAlive`),
the predecessor that it finds in `wr_pself` included.

`:>` and `@@` are defined in `Weakref` because the ones of the module `TLC` have no
definition that a prover can use.

**RCU.** The proof has two halves. The first is about the list that is walked without
its lock. `Reach` is the least set closed under `le_next`, so that what is said of a
walk needs no induction along the list. `ListInv` says that the list is linked both
ways and a thread that leaves it still leads back into it (`LinkInv`), that
everyone in it is met from the main thread, once (`ReachInv`), that a walker has its flag set and
stands on a thread in the list or leaving it (`WalkInv`), and that whoever waits to
give back the memory of a thread has yet to look at everyone who stands on it
(`AwaitInv`). `WalksLiveThreads` follows. So does the refinement: what a walker
has `left` in the abstract scan is what it reaches from where it stands and has
not looked at; each step of the list is a step of `RCU` or none (`StepMaps`).

The second half is about the abstract scan. That a reader's objects are not destroyed
is not inductive: nothing in it
says why a writer that ends its scan may destroy. The invariant ties versions to
objects. What is in the pointer, and what a writer has taken out and not yet
destroyed, is not freed (`Retired`), and two writers have taken out two objects
(`RetiredOnce`). A reader reads after it has published a version, and forgets
what it has read when it leaves (`SectionsPublished`); nobody has seen a version
yet to come (`VersionsBounded`). The heart of it is `Awaited`: a reader that has
the old object of a scanning writer is among the threads the writer has `left`
to look at, with a published version that does not let the writer pass. It holds
when the scan begins, since every published version is at most the one that was
just replaced; a reader that enters the section later finds another object in the
pointer. `GracePeriodHolds` carries this over to the list.

**Out of the prover's reach.** Liveness under fairness and ENABLED, facts that need
induction over data, and any module that reaches a RECURSIVE operator.

**Model-checked only.** All liveness: `SleepersNotAbandoned` and the other temporal
properties of the runs, under the fairness described above. Every invariant of a passing
run is stated by a theorem. `NoUseAfterFini` and the walk of the main thread do not
hold; their runs show it.

## 5. Plan

In this order:

1. *`RSharedLock`, `RSharedRWLock`*: recursion counter and owner over the
   modelled protocol; shown to implement a recursive `Mutex`.
2. *`FutexController`*: the tree of reference-counted controllers behind waits for
   pointer-sized words: a controller found while it dies, the reference dropped
   after an interrupted system call, and that it implements `FutexQueue` with
   wake-ups without cause.
3. *Suspending threads*, on the state word of `ThreadState`; then the overflow of
   the RCU version and store buffers in `RCUList`.
4. *`AcquireMany`*: `DeeLock_Acquire2/3` do not deadlock.
5. *`TimeoutRepeat`*: the deadline arithmetic of `DeeThread_TIMEOUT_REPEAT` modulo
   2^w against its definition on the integers.
6. *`ThreadingOnce`*: the `threading.Once` object over `Once`.

Abstract specifications worth stating: a read/write lock, a counting semaphore
and a recursive mutex, each implemented by the detailed module.

## 6. Not modelled, and why

The interpreter and the compiler are a whole language's semantics; most of the
operator and method-hint code is generated; allocators are pointer structures
with little protocol; files and the extension modules are input and output around
the core. Together they are nearly all of the repository's lines, and the models
cover a small share of it for that reason. Containers, the module loader and the
garbage collector are candidates once the plan is done. Of the modelled parts,
section 2 says what is left out: weak reference callbacks and the rarer functions,
suspending and detaching threads, keyboard and shutdown interrupts, the overflow
of the RCU version. The futex back ends for Windows, pthreads, C11
and POSIX semaphores are alternatives to the Linux one that the models follow.
