# TLA+ models of TCF

TCF lets many users share test hardware.  A server, `ttbd`, owns a set of
*targets* (boards, machines, networks); a user asks it for groups of targets,
is given an *allocation* when every target of one group is theirs, drives the
targets over HTTP (power, consoles, images...) and keeps the allocation alive
until it is removed.  The client, `tcf`, does that by hand or runs testcases.
This directory holds TLA+ models of both sides, the TLC configurations that
check them on small instances, and proofs that TLAPS checks for instances of
every size.

Paths are relative to the repository; line numbers are those of the commit the
models were written from.  `PROJECT.json` maps every definition to its lines.

## 1. The system

### 1.1 Processes and what they share

`ttbd/ttbd` forks single threaded HTTP workers (they are recycled after some
requests, line 2135) and one cleanup process that calls
`ttbl.allocation.maintenance()` in a loop (1515-1535).  They share no memory:
everything is files below the state directory.  A *field* is one symlink
(`fsdb_symlink_c`); an allocation is a directory of fields, a target another.
A target and an allocation each have a lock file for `lockf()`
(`process_posix_file_lock_c`, `ttbd/ttbl/__init__.py:110-210`), which waits up
to a timeout and is dropped by the kernel when its holder dies.  Much of the
server runs without either lock, and that is where it is hard.  Behind the
workers are processes nobody waits for: the `socat` of a console, flashers.

A client polls: nothing is pushed to it.  `tcf run` is a main process, a pool of
processes with a testcase each, and in each of these a thread that sends keepalives.

### 1.2 Inventory

| component | state it keeps | operations | interacts with | what makes it correct | modelled by |
|---|---|---|---|---|---|
| **target allocator** `ttbl/allocation.py` | one directory per allocation: state, timestamps, groups, priority, creator, guests; a per process cache of records | `request`, `_run`/`_run_target`, `calculate_stuff`, `delete`, `query`, `get`, `keepalive`, `maintenance`, guests | target ownership, lock files, field database, HTTP routes, release hooks | exclusive ownership, order of service, an active allocation owns its group, leases end when they should, nothing is lost or stuck | `Allocation`, `Lease` |
| **target ownership** `ttbl/__init__.py` (`test_target`) | fields `_alloc.id`, `_alloc.priority`, `_alloc.queue.*` per target | `_allocdb_get`, `_allocid_wipe`, `_deallocate*`, `release`, `target_owned_and_locked` | allocator, every interface of a target | the owner read is a live allocation; an operation runs for its owner only; a new owner finds the target clean | `Allocation`, `Release`, `Holder`, `PowerRail` |
| **lock files** `process_posix_file_lock_c` | one `lockf()` file per target and allocation | `acquire`, `release`, timeout | allocator, caches | exclusion between processes, whoever dies | `Allocation` |
| **server processes** `ttbd/ttbd` | workers, cleanup loop | routes, fork, recycle | all | a request is served once, cleanup goes on for ever | `Allocation`, `Lease` |
| **field database** `commonl/__init__.py` (`fsdb_symlink_c`) | a flat set of dotted keys standing for a tree | `set`, `set_keys`, `get`, `keys`, `get_as_slist` | allocator, properties, caches | no key is both a scalar and a parent; readers never see half a value | `Fsdb` |
| **power rails** `ttbl/power.py` | state of each component, daemons' pid files | `on`, `off`, `get`, `cycle`, `sequence` | ownership, consoles (pre/post hooks), release | order of components, explicit ones left alone, a failed step is recovered or reported | `PowerRail` |
| **images and flashers** `ttbl/images.py` | last image per kind, hashes, flasher processes | `flash`, retries, parallel flash, kill | power, consoles, user storage | no flasher survives, success means all is written | `Flashing` |
| **consoles** `ttbl/console.py`, `cm_*.py` | generation, log file, write queue | `enable`, `disable`, `read`, `write` | power, flashing, clients that follow offsets | a reader that follows generation and offset misses nothing | `Console` |
| **capture** `ttbl/capture.py` | pid file and inventory per capturer, capture directory, programs | `start`, `stop`, release hook | ownership, processes | one program per capturer, always to be found and stopped, nothing left to the next owner | `Capture` |
| **certificates** `ttbl/certs.py` | an authority, a server and client certificates per target, as files | `certificate` put and delete, release hook | ownership, openssl, store | what is found goes together and is the allocation's own | `Certs` |
| **client allocation loop** `tcfl/target_ext_alloc.py` | last state seen per server | request, hold, delete | HTTP | no allocation is left behind; restart-needed and removal are noticed | `LeaseClients` |
| **testcase runner** `tcfl/tc.py` | phases, results, threads, the registry of allocations | deploy, start, eval, teardown; assign, release; interruption | allocation loop, all client extensions | failures reach the exit code, teardown always runs, nothing stays allocated | `TestRun` |
| **client extensions** `tcfl/target_ext_*.py` | offsets of captures | one HTTP call each | routes | a capture is complete | `Console` (captures only) |
| symlink mutexes, file system caches, the store of user files, tunnels/routers/things, debug/fastboot, drivers, network boot, authentication, configuration, health monitor, parsers, provisioning, discovery, reports, tools | | | | | not modelled, section 8 |

### 1.3 What is hard

* **Unlocked reads and writes.**  `_run_target()` loads the queue before it has
  the target's lock; `calculate_stuff()` reads the owners of its targets with
  the allocation's lock but none of theirs; `_deallocate()` writes the state of
  the evicted allocation without its lock; `delete()` wipes targets with the
  allocation's lock but not theirs.  Consoles and the field database lock nothing.
* **Check, then use.**  `target_owned_and_locked()` checks the owner and drops
  the lock before the operation; a reader looks whether a console shall be on,
  then whether it is, then switches it on.
* **Writes that come in several pieces.**  A wipe of an owner removes the id,
  then the priority, then names (`ttbl/__init__.py:1628-1630`); setting a field removes
  those above and below it one by one; a console is truncated before it has a new generation.
* **Partial failure.**  Writing to an allocation another process removed raises;
  so does a lock that times out.  The handler unwinds and what it did stays.
  A rail fails half way up; one of several flashers fails; a testcase fails
  in one of its parallel methods, phases, repetitions or subcases.
* **Crashes.**  A worker may end anywhere.  Queue entries, owners, records and
  creation files stay; nothing is journaled.  Recovery is lazy: an owner whose
  record is gone is found and wiped by whoever looks at the target next.  `tcf run` kills
  itself when it is interrupted, whatever its processes are doing.
* **Time.**  Leases, idle power-off, deadlines of flashers, retries of the client: all
  are differences of clocks that run now and then, with lost answers in between.
* **Copies.**  Each process caches allocation records and never reloads them.
* **Waiting.**  Targets are taken one at a time and kept while the rest of the
  group is waited for.

`PROJECT.json` lists the hazards one by one, each at its line with the properties
that cover it, or why none does.

## 2. Modules

    AllocationAbstract        what users of the allocator are promised
    Allocation                the allocator: handlers, locks, queues, crashes
      AllocationProperties    its properties, and the refinement of AllocationAbstract
        MCAllocation          instances
        AllocationProofs      theorems
    Lease                     time: age of leases, maintenance, idle power-off
      LeaseClients            the clients' loops: poll, hold, lose answers, vanish
        LeaseProperties       MCLease
        LeaseProofs           theorems
    PowerRail                 one target's rail, its driver calls and its owner check
      PowerRailProperties     MCPowerRail
      PowerRailProofs         theorems
    Fsdb                      the nested field database, call by call
      FsdbProperties          MCFsdb
      FsdbProofs              theorems
    Console                   a console: link, file, generation, its reader
      Flashing                put_flash(), which takes the console for itself
        FlashingProperties    MCFlashing
        FlashingProofs        theorems
    Release                   a target between two owners: release hooks and their callers
      ReleaseProperties       MCRelease
      ReleaseProofs           theorems
    Holder                    who has a target, and the request it is served
      Capture                 a capturer: its program, pid file and inventory
      Certs                   the certificates of a target
        Interfaces            both on one target, from owner to owner
          InterfacesProperties  MCInterfaces
          InterfacesProofs      theorems
    TestRun                   tcf run: one process of the pool, its thread, the signal
      TestRunProperties       MCTestRun
      TestRunProofs           theorems

`Flashing` composes the two components that meet on a console: both take steps of
`Console` (`On`, `Off`) in the same variables.  `LeaseClients` composes the client's
loop with the server's maintenance in the same way, and `Interfaces` runs `Capture` and
`Certs` in the frame of `Holder`: the requests of the owner, and the release that runs the hooks
of both.  The other modules meet by what one
abstracts of another, said in section 3: a request is one step of `Lease` and many
of `Allocation`; a scheduler is a few steps of `Release`, which cuts the cleanup of a target hook
by hook and leaves the rest to `Allocation`; what two of these hooks do is in `Capture` and
`Certs`; the server that `TestRun` talks to grants and ends allocations
as `Allocation` and `Lease` may.

## 3. The models

Every model cuts a handler where another process can see or change something: at
a shared field read and acted upon later, at a lock taken or dropped, at a write,
at a call to a driver.  What is under a lock that everybody takes is one step.

### 3.1 Allocation

| variable | in the code |
|---|---|
| `state[a]` | the allocation's directory and its field `state`: `none` before `mkdtemp()`; `new` once the directory exists; `stamped` with its timestamp; then the states of the code; `gone` after `rmtree()` |
| `stamp[a]` | the second of the request, part of its queue entries' names |
| `group[a]` | the targets of field `group_allocated` |
| `owner[t]`, `oprio[t]` | target fields `_alloc.id`, `_alloc.priority` (-1: absent) |
| `queue[t]` | target fields `_alloc.queue.*` |
| `alock[a]`, `tlock[t]` | who holds each lock file |
| `job[p]` | the handler process `p` runs: where it is and its local variables (queue loaded, owner read, targets still to visit) |
| `stale[p]` | the allocations `p` has cached with no groups in them |
| `clock`, `crashes` | bounded counters |

What a request asks for does not change, so it is a constant of the instance:
`Groups`, `Prio`, `Preempt`, `Queue`.  Allocation ids are numbers, because names
decide between two entries of one second; `Groups[a]` is a sequence because the
code goes through the groups by name.

| code | actions |
|---|---|
| `request()` | `Request`, `ReqStamp`, `ReqPublish`, `ReqEnqueue` (one target each), `ReqRun`, `ReqResult` |
| `_run()`, `_run_target()` | `RunLoad`, `RunSkip`, `RunTake`, `RunDone` |
| `_target_allocate_locked()` with `_deallocate()` of the evicted one | `Grant`, `GrantFails` |
| `calculate_stuff()` and the return of extra targets | `CalcLock`, `CalcRead`, `CalcCounted`, `CalcActivate`, `CalcWait`, `ReleaseExtra`, `ExtrasDone` |
| `allocation_c.delete()` | `ClientDelete`, `DelActive`, `DelOther`, `DelCheck`, `DelWipeId`, `DelWipeMeta`, `DelUnlock`, `DelRemove` |
| `query()`, `get()`, `keepalive()` | `Query` (what they leave in the cache) |
| `_allocdb_get()` in any operation on a target | `OwnerCheck`, and `WipeOrphan` within the scheduler |
| `test_target.release()` | `Release` |
| `maintenance()` and `maintenance` of a record | `MaintStart`, `MaintVisit`, `MaintRun` |
| exceptions, lock timeouts, death of a process | `RecordGone`, `LockTimeout`, `DelTimeout`, `Crash` |

**The abstraction.**  `AllocationAbstract` knows no queues, locks or processes: an
allocation waits, is active once it holds a whole group, and ends; a target has
one holder and changes it by being given while free, by preemption, or by being
taken back.  `AllocationProperties` maps `Allocation` to it (`User`): an allocation
is *ending* from the moment `delete()` starts, what it is *using* is its group
while it is active, the *holder* is the owner field.  `Implements` says that every
step is one of the abstract ones or none; it holds in the instances where
`ActiveOwnsGroup` does (see `Removers` below).

**Abstracted.**  A field is an atomic register.  A target's queue is loaded in one
step: the code lists a directory, and entries added or removed meanwhile may or may
not be seen, as if it were loaded a little earlier or later.  `rmtree()` is one step:
the first thing that fails for others is the state.  `Grant` is one step: it holds the
target's lock, and the one writer that does not take it, the wipe of `delete()`,
has its two writes as separate steps.  Idle time is a nondeterministic
choice (a process of `Removers` may find any record idle): `Lease` has the clock.
Release hooks, policy functions, guests, audit and roles change none of
these variables.  The cache never evicts: its 256 entries are more than the records
of an instance.

**`Removers`.**  Two deleters of one allocation, or preemption in the middle of
a deletion, let an active allocation lose a target.  The passing runs therefore
say how far the guarantees go: with one removing process and no preemption or
single release.  `preempted_active` shows what preemption does.

### 3.2 Lease and LeaseClients

`rec[i]` is a record (its state, the age of its time stamp, the time left to its end
time), `queue` and `owner` those of the one target, `used` and `lastUse` the ages of the
target's time stamp (written by users, and by whoever allocates it) and of its last
real use, `power` what the idle power-off left, `maint` the cleanup process, `robbed`
(history) that the daemon lost the target after it had seen that it had it, `client[c]` a
client's loop.  Time passes in `Tick`, one unit for all; maintenance may take up to
`ScanMax` and sleeps `SleepPeriod`.  Ages keep the split in days and seconds that the code
looks at: past two days they fold back by one.

| code | actions |
|---|---|
| `request()` from a client's point of view | `AskGranted`, `AskQueued`, `AskBusy`, `AskUnanswered` |
| `keepalive()`, `_alloc_targets()`, `_alloc_hold()` | `KeepaliveStays`, `KeepaliveActive`, `KeepaliveInvalid`, `KeepaliveFails` (before or after the server handled it), `GiveUp` |
| the user, signals | `Uses`, `Interrupt` (removes), `Abandon` (does not) |
| `cleanup_process_fn()` | `Wake`, `Visit`, `Expire`, `ToTargets`, `MaintSleep` |
| `_idle_power_off()`, and in it `put_off()` | `DaemonAsks`, `DaemonLooks` (`IdlePower`); `DaemonChecks` (the owner, under the lock), `DaemonStamps`, `DaemonPowersOff`; `DaemonDrops` |

A request, a keepalive and a removal are one step each here.  `put_off()` is not: it drops the
target's lock once it saw whose the target is, and whoever is given the target from then on may
find it going off.  A `delete()` that raises ends the scan of the allocations until the
next run (`allocation.py:1316-1321` goes on only after a record that is gone); that exception
is not modelled here, and `ReclaimedInTime` does not hold over it.

### 3.3 PowerRail

`level[c]` says whether a component has power, `published` is the inventory field,
`owner` the user of the target, `job[w]` an operation and all its local variables: what was
read of the rail, where it is in the list, what would not go off, the retries.

| code | actions |
|---|---|
| `put_on`, `put_off`, `put_cycle`, `put_sequence`, with the owner check | `Request`, `NextInSequence`, `Reply` |
| `_get()` | `Get`, `GetFails` |
| the loop of power off, its second try | `OffStep`, `OffSkipsFailed`, `OffDone` |
| the loop of power on, recovery of one component | `OnStep`, `OnFails`, `RecoverOff`, `RecoverOn`, `RecoverFails`, `GiveUp`, `OnDone` |
| the retry of the whole rail | `UndoGet`, `UndoStep`, `UndoDone` |
| allocation and release of the target | `Allocate`, `Release` (with the hook that turns off `off_on_release`) |

The drivers are an environment: a call does what it is asked or fails.  One call is one
step, between which other processes run.

### 3.4 Fsdb

`file[k]` is what the link of field `k` points to, `job[w]` the call a process is in
and the index it read; `dead` are the creation files of writers that died, `overlap`
(history) the calls another one met.  `Call` starts `set()`, `set_keys()` or
`test_target.property_set()`; `Unlink`, `Create`, `Rename` are its own system calls;
`ShareIndex` and `Cleanup` read the index, `Wipe` unlinks one conflicting field, `AllWiped`
goes on, `Sweep` is the second look of `property_set()`; `Crash` kills.  A name with quoted
characters (`Odd`) is not found by the cleaning, as in the code.  Values are
what a link points to: their encoding is not modelled.

### 3.5 Console and Flashing

`running` are the socat processes of the console, each known by the worker that started it,
`pid` whose of them the pid file names, `recorded` the property that says the console is
on, `file` how much was captured, `generation` the second of the last start, `op[w]` the
step of a driver call that a worker is in, `read` the request being served, `client` what
the client captured and the generation and offset it knows; `run`, `content`, `hash`
and `flash` the flasher processes, their destinations, the recorded hashes and
`put_flash()`.  `stray` are flashers an exception left behind.  History: `text` is what the
file is since it was truncated (of a known generation, of none yet, or of two processes), `crossed`
the calls that another one overlapped, `disorder` whether, since the last start that nothing
overlapped, calls overlapped or a start failed with its process started.

| code | actions |
|---|---|
| `daemon_c.on()`: pid file removed, kill by command line, `Popen`, pid file written, wait of up to 5 s | `OnUnlink`, `OnPurge`, `OnSpawn`, `OnPidfile`, `OnWait` |
| the rest of `generic_c.enable` | `OnGeneration`, `OnRecord` |
| `disable`, `daemon_c.off()` and `process_terminate()` | `OffRecord`, `OffKill`, `OffUnlink` |
| `get_read()`, `_maybe_re_enable()`; `_poll()` of the client | `Poll`, `Look`, `Revive`, `Revived`, `ReadGeneration`, `ReadData`, `Restart` |
| the target, the processes | `Output`, `Dies` |
| routes | `PutEnable`, `PutDisable`, `PowerOff`, `PutFlash` |
| `put_flash()`, `_flash_parallel()` | `Disable`, `FlashStart`, `Round` (deadline), `NotDone`, `Recorded`, `Retry`, `Failed`, `Enable`, `Enabled` |
| flasher processes | `Exits`, `StrayWrites` |

Two calls meet at any of these steps: one removes the pid file of the other, kills its process, or
starts a second one.  A start that times out (`~Link` at `OnWait`, or fit too late) raises and
leaves its process; so does one that cannot write the pid file.  `OnWait` looks at the process in
the pid file, whoever wrote it.

A flash that runs serially is one of one flasher.  Power sequences before and after,
decompression, partial transfers, writes to the console, command sequences, the restart
by messages on stderr, and the drivers that need them, are not modelled.  `kill_procs_using_device`
of some drivers kills the same processes a little earlier.  `socat` truncates its file a moment after
it starts and before anybody looks for it: that is one step.  Whether a look at
the link is due is left open.  A start may fall in the second of the last one.

### 3.6 TestRun

A testcase is what `_methods_prepare()` finds in its class: for each phase the methods
called in turn (`Serial`) and at once (`Parallel`), and the subcases (`Isolated`), which
do not stop what comes after them.  A `result_c` is the set of the kinds it counts:
only zero and not zero are told apart.

| variable | in the code |
|---|---|
| `plan` | options: phases skipped, `--build-only`, are targets acquired, are they released |
| `stage`, `left`, `pool`, `ret` | where the testcase is; serial methods left, are the parallel ones to come, the result of the phase so far |
| `result`, `subs` | result of the testcase and of its subcases |
| `count`, `sum`, `all` | `_do_the_eval()`: repetitions done, this one's result, that of all |
| `posts`, `ran`, `total`, `exit` | testcases appended, testcases run, what they add up to, the exit code |
| `allocid`, `registry`, `mutex` | the allocation; `_allocids` and its mutex |
| `keeper` | the thread that keeps alive what is in `_allocids` |
| `alloc`, `fresh` | the server: allocations, and those kept alive of late |
| `interrupted` | was Ctrl-C pressed? |
| `bad`, `masked`, `up` | history: phases with a bad method, phases whose results were lost, set up and not torn down |

| code | actions |
|---|---|
| `_methods_run()`, `_methods_call()` | `Method`, `Pool` |
| `_run_on_target_group()` | `Begin`, `ConfigureEnds`, `BuildEnds`, `DeployEnds`, `CleanEnds` |
| `_do_the_eval()` | `Repeat`, `SetupEnds`, `StartEnds`, `EvalEnds`, `TeardownEnds`, `Repeated` |
| `_run()` of the testcase and of the program | `Complete`, `Exit` |
| `_targets_assign()`, `_alloc_targets()` | `NoTargets`, `Ask`, `AskFails`, `Poll`, `GiveUp`, `TakeMutex`, `Register`, `Unassign`, `Unregister`, `Delete` |
| `_allocids_keepalive_once()` in `thread_periodical_runner_c` | `KeepAlive`, `KeeperEnds` |
| `_sigint_handler()`, in this process and in the others | `Interrupt`, `HandlerStarts`, `HandlerCopies`, `HandlerDeletes`, `Killed` |
| the server | `Grant`, `Ages`, `Removed`, `Expires` |

It is the default pool of processes: with threads `_allocids` is shared by testcases
and changed while the handler goes through it, which is not modelled.  Not modelled
either: how testcases are found and paired with targets, reports, expectations, what
methods do, a preset allocation (as `acquires` FALSE).

### 3.7 Release

`left[t][c]` says who last changed part `c` of target `t` (what an interface looks
after, or the user properties) since it was reset.  `state`, `group`, `owner`, `queue` and the locks
are those of `Allocation`; `using` are the operations that were let in and have not done yet what
they do; `job[p]` says which of its four callers runs a cleanup (`path`), on which target, for
whom, and which parts are still to do.

| code | actions |
|---|---|
| `_state_cleanup()`: hooks in the order of a set, then properties | `Reset` (one part), `Raises` |
| `_allocdb_get()`: clean, then wipe the owner | `TakeFromRemoved`, `Cleaned`, `Wipe` |
| `_deallocate()`: wipe the owner, then clean; `release()`, preemption | `GiveBack`, `TakeFromOwner`, `Cleaned`, `Restart` |
| `_run_target()` otherwise | `Maintain`, `Skip`, `Take`, `Grant`, `RunDone` |
| `calculate_stuff()` | `Calculate`, `CalculateFails` |
| `_deallocate_simple()` of the targets beyond the group, with no cleanup | `ReleaseExtra`, `ExtrasDone` |
| `delete()` | `Delete`, `DeleteTarget`, `DeleteDone`, `Remove` |
| `target_owned_and_locked()`; what the operation does, later | `UseBegins`; `UseEnds` |
| deaths | `Crash` |

An operation is let in whenever the owner is active, be it that its allocation is being removed or
the target cleaned, and ends whenever it does, be the target another's by then.

Two history variables say which targets are not known to be clean, and the next full cleanup mends
both.  `spoiled` are those somebody cleaned, or shall have cleaned, in a way the code does not make
up for: a hook raised, or the process died, after the owner was dropped (`CutShort`), or `delete()`,
which takes no lock of the target, was cleaning it while it was given away (`Disturb`).  `soiled` are
those that got dirty where no cleanup was to come: an allocation that had used a target gave it back
as an extra (`ReleaseExtra`), or an operation did what it does after the reset, or after its
allocation lost the target (`TooLate`).  The properties are of the other targets; section 6 says
what happens to these.

`Calculate` reads the owners in one step: one by one, as in `Allocation`, it may take a group for
complete that is not, but what is then given back or cleaned still goes by the owner read at that
moment.  `TakeFromRemoved` goes on to the waiters in a second look
at the target, which drops and takes its lock once more than the code does.  A process
whose hook raises stops the run on the remaining targets, as the code does.

### 3.8 Holder, Capture, Certs and Interfaces

`owner` has the target, `past` had it, `handed` (history) are those that gave it back as an extra
since its last release, `job` is the request that is served: where it is, whose it is (`who`), the
pid it read, the certificate it is about, the hooks still to run.  There is one at a time:
nothing in the code keeps two apart, and section 6 says what happens when they overlap.
`Acquire`, `Begin` (the owner check), `Release`, `RunHook` and `Released` are the frame.
`ReleaseExtra` is `_deallocate_simple()`: the target goes to the next owner with no hook run, also
in the middle of a request, which then goes on for who asked for it; a request of the next
owner waits for its end.  A release that runs the hooks does not overlap a request.

`running` are the capture programs, `pidfile` and `capturing` what says so, `data` whose
capture is in the directory.

| code, `ttbl/capture.py` | actions |
|---|---|
| `put_start()`: stop, start, inventory | `PutStart`, `Clear`, `Publish` |
| `put_stop()`, the release hook | `PutStop`, `SkipStop`, `SetNotCapturing`, `RemoveCaptures` |
| `process_terminate()` | `ReadPid`, `Kill`, `Unlink` |
| `generic_stream.start()` | `Spawn`, `StartFails`, `Settle`, `NotePid` |
| the programs | `Ends` |

Snapshots, the check `tcpdump_c` makes after its start, and what a capture holds are not
modelled; pids are not used twice.  A worker does not die in the middle of a request: not between the
start of a program and its pid file, not in `put_stop()` between the field and the end of the program
(`capture.py:474`, `:476`: the program runs on as not capturing, and neither a stop nor a
release ends it), and not within `_client_wipe()` (a certificate stays whose key is gone).

`authority`, `server`, `key[n]`, `req[n]`, `cert[n]` are files: which key each is or
is made with; `dir` and `cdir` the two directories; `maker` (history) for whom each key was
made.  One openssl command is one step; the three for the server are one, which nobody looks at
in between.  A command that is killed leaves no file.

| code, `ttbl/certs.py` | actions |
|---|---|
| `_setup_maybe()`, the release hook | `Dirs`, `WipeDir`, `WipeClients`, `MakeDirs`, `MakeAuthority`, `MakeServer`, `SetupFails`, `SetupUndone` |
| `put_certificate()` | `PutCertificate`, `Look`, `MakeKey`, `MakeRequest`, `Sign`, `CommandFails`, `CommandRaises` |
| `delete_certificate()`, `_client_wipe()` | `DeleteCertificate`, `DropKey`, `DropRequest`, `DropCert` |

## 4. What the passing runs show

| run | instance | distinct states | shows |
|---|---|---|---|
| `contention` | 2 workers, cleaner, 2 targets, groups {t1} and {t1,t2}; no removal | 0.67 M | a waiting request keeps its place (`PlaceKept`), one that has a whole group is not left queued (`NoMissedActivation`), users see the abstract allocator (`Implements`) |
| `removal` | 1 worker, the cleaner deletes; 3 allocations of one priority for 1 target; 2 seconds | 2.53 M | a deletion takes only what is its own (`DeleteKeepsNewOwner`), `FirstComeFirstServed` |
| `alternatives` | one asks for t1 or t2, the other for both and may not wait; the worker deletes | 0.16 M | `ActiveOwnsGroup`, `Implements`, and a group in use changes only for one named before it (`FirstGroupKept`) |
| `faults` | 1 target, preemption, single releases, lock timeouts, one death, maintenance deletes; fair processes | 0.24 M | `TypeOK`, `ExclusiveSections`, `EvictsLessUrgent`; targets of removed allocations are freed (`OrphansFreed`) and free ones given to those that wait (`FreeTargetsServed`) |
| `lease` | a client that queues and loses answers, an urgent one that may be static or have an end time, the cleanup process; fair | 0.43 M | `KeptAlive`, `ReclaimedInTime`, `PoweredOffIdle`, `WaitersServed` |
| `power` | a rail of four: mains that stays on, a supply with recovery, a machine whose failures restart the rail, an instrument; all may fail; fair | 11 k | `RailOrder`, `ReverseOrder`, `OnDelivers`, `ExplicitLeftAlone`, `OperationsEnd` |
| `fsdb` | 2 processes, fields a, a.b, a.b.c and a quoted one with a child, 4 calls, one death | 0.16 M | `OnlyConflictsRemoved`, `CallTakesEffect` |
| `flashing` | a flasher, one retry, a deadline of two rounds, one fault, one operation of the owner, a reader that revives; fair | 0.48 M | `NothingMissed`, `RunningIsRecorded`, `SuccessMeansFlashed`, `NoFlasherLeft`, `ConsoleBack`, `RevivedWhenRead`, `FlashEnds` |
| `testrun` | a testcase of all phases with two parallel methods and a subcase, two repetitions, one testcase appended, four sets of options, an interruption; fair | 0.50 M | `FailureCounts`, `HeldWhileUsed`, `RunEnds` |
| `cleanup` | 2 processes, one of which removes; an allocation of t1 or t2, an urgent one of t1; targets given back, an operation under way, a hook that raises or a death | 2.77 M | `FreshClean`, `InUseKept` |
| `interfaces` | 2 owners, released or as an extra, 3 programs, 5 keys, one client certificate, any failure | 2.34 M | `OneCapture`, `Stoppable`, `NothingOfOthers`, `PairsMatch` |

Some properties have an exception in their formula, each a behaviour of the code that
section 6 describes: `NoMissedActivation` (a stale copy), `KeptAlive` (an end time),
`WaitersServed` (a static owner, or evicted before it heard), `RailOrder` and `OnDelivers`
(the retry of a rail does not look again), `CallTakesEffect` (quoted names),
`NothingMissed` (two starts in a second, or that overlap, or one that fails), `RunningIsRecorded`
(from an overlap or a failed start to the next one that is not disturbed), `ConsoleBack` (a start that
failed), `SuccessMeansFlashed` (a stray flasher), `PoweredOffIdle` (the daemon was robbed),
`FailureCounts` (a masked phase, a teardown), `FreshClean` (a spoiled or soiled target), `InUseKept` (a
spoiled one, an operation of an earlier owner), `NothingOfOthers` (who gave the target back as an extra).

### 4.1 Bounds

*Allocation.*  Each hazard needs two allocations that meet on a target and two processes
in the middle of handlers; a third allocation adds longer queues but no new pair,
except for the order of service: it takes one that holds the target and two that
wait (`removal`).  `FirstComeFirstServed` is checked with one worker, because with
two the later request may be served before the earlier one is in the queue at all:
the stamp and the entry are separate steps.  Two targets are what alternative and partial
groups need.  `MaxClock` 1 gives requests of the same second and of different ones;
`MaxCrashes` 1 puts one death at every step.  Ids are used once, as `mkdtemp()` gives them.

*Lease.*  All times are a unit or two: what counts is their order and that a day is
longer than all of them (five units, so that ages fold over).  The client that waits and the
urgent one give every pair of roles; the daemon is the third that allocates.

*PowerRail.*  Four components, one of each kind; the number of tries is the code's own 3.
The order of a rail is promised to one operation at a time: `Workers` is one there.

*Fsdb.*  Three levels give a field both an ancestor and a descendant; four calls let one
find what two others and a dead one left.

*Flashing.*  Two rounds put the deadline before, at and after the retry; one fault hits any step, and a
link that dies is one.  What the target says is one unit (`MaxLen`): captured or missed; two seconds
(`MaxGen`) let a start fall in a new one or not.  The run has one flasher: two, a first and a last
to be polled, retried or killed, make 2.06 million states, which is too many for the liveness
properties.  The others hold there too, and the theorems of section 7.2 are for any
number of flashers; that a flash ends (`FlashEnds`) is checked with one.

*TestRun.*  Methods pass or fail (`Ways`): the other kinds stop a testcase or not in the same
way, and the proofs take all.  Two repetitions tell the last from the others; one testcase appended
tells the first from the next; the two parallel methods give any order of exceptions.

*Release.*  Two hooks give a first, a last, and one that did not run; two groups of one target each
make either an extra, and let one be clean while the other is not; `MaxFaults` 1, a hook that raises
or a death, hits any step; `MaxUses` 1 is an operation that overlaps anything.  Two
operations, or a second allocation of both targets, were checked with one hook (6.5 and 7.5
million states); the theorems have no such bounds.

*Interfaces.*  Two owners give a predecessor and a successor; three programs a restart, and one
of the other owner; five keys an authority and a certificate made twice, and an authority of the
other owner.  Either may give the target back as an extra at any step.

Bounds that are constants are proved away where section 7 says so.

### 4.2 Deadlock and symmetry

Deadlock is checked but where the system stops: processes of `fsdb` when the calls are used
up, `testrun` when the run has ended, `interfaces` when every allocation
has had its turn.  Symmetry is used for the two workers of
`contention` and the two writers of `fsdb`, which nothing tells apart and where no
liveness is checked.

### 4.3 Fairness

* *Allocation*: `WF(Step(p))`, a process runs the handler it started until it ends or
  dies: there is no wait but lock files, which end with the lock or with the
  timeout.  `WF(MaintStart(Cleaner))`: the cleanup process loops for ever
  (`ttbd/ttbd:1515-1535`); it feeds systemd's watchdog, so when it dies the
  service is restarted (`ttbd@.service`: `WatchdogSec`, `Restart = always`).
  Nothing of requests, deletions, releases or queries.
* *Lease*: time passes; maintenance goes on, as above; a client that is alive polls on, and
  nobody holds a target for ever (it removes the allocation or vanishes) — without that
  no waiter can be promised anything.  Nothing says a request is answered.
* *PowerRail*: an operation that started goes on: drivers return or raise.
* *Flashing*: workers run what they started; seconds go by, which is what deadlines are made
  of; somebody reads the console again and again (that is what revives it).  Flashers need not end.
* *TestRun*: methods end; the system runs threads; the time in the queue is bounded
  (`assign_timeout`, `tcfl/tc.py:6528-6545`); a signal sent is delivered; the server ages and
  expires what nobody keeps alive (`ReclaimedInTime` of `Lease`).  Nothing of the server
  granting anything.

### 4.4 Mutants

For every property of every passing run `PROJECT.json` names a mutated definition, kept
before the real one and marked `(mutant)`: the mistake a change of that code could plausibly
make (a queue emptied once looked at, the record removed before its targets are
wiped, idle time that forgets the days, a power off that goes forward, an index
that includes the field itself, one flasher killed instead of all, a console enabled
only after a success, the last repetition instead of all).  With it TLC finds the
property violated in the same instance.

## 5. What the violation run shows

`preempted_active` checks one statement of the documentation, that *active* means that all
targets of the group are the allocation's (`doc/09-api-http.rst:1097`), and TLC finds a behaviour
of the code that breaks it.  The process that computes the group reads the last owner; a scheduler
evicts the allocation from another target and writes `restart-needed`; the first then
writes `active` over it.  `findings` in `PROJECT.json` quotes the statement.

## 6. Other disagreements met while modelling

Behaviours of the code that disagree with its documentation or with what one would expect,
which the models contain, or leave out where it says so, and no run is dedicated to.

*Allocator.*
* `delete()` wipes the id of an owner, the scheduler grants the target, `delete()` goes on and
  wipes the new owner's priority, after which 500 is assumed (`allocation.py:226`, `:666`).
* Between check and wipe of `delete()` the target changes hands if two delete one allocation.
* An active allocation still waits for its other groups; when a target frees up, its group may
  change to another that comes first by name, and targets in use are given back.
* Groups are not allocated atomically (`doc/09-api-http.rst:1048`): two workers that run the
  scheduler for two requests of the same two targets may give one target to each, and both
  wait for the other's until one is removed (`allocation.py:771-774`).
* A query between `mkdtemp()` and the groups caches an empty record for good in that process.
* A scheduler with an old queue may give a released target to its former owner again.
* An active allocation can lose a target with nobody evicting or removing: it uses {t2}, and one
  scheduler, which dropped the allocation's lock, is about to give back t1 as an extra; another
  is just given t3 for it, counts t1 and picks {t1, t3}; then t1 is given back (`allocation.py:752`).
  It takes two groups that differ in two targets or more; TLC finds it on three targets.
* An allocation with an end time is deleted by the first maintenance, whatever the end time
  (`allocation.py:284-299`); `doc/09-api-http.rst:1374` says it ends then.  The check that it
  is a minute ahead (`:1034`) compares days and seconds separately: a past time passes.
* A target that is idle is allocated to be powered off, which writes its time stamp, so that it
  is idle again only after the full time (`:703`, `:1233`): with fully off later than
  off, as `config.py:230` has it, it need not get there.
* The daemon that powers an idle target off looks whose it is, and then, without the lock, stamps
  it and switches it off for as long as that takes (`power.py:1017-1019`): an urgent request that
  preempts the daemon meanwhile, or whoever it hands the target to, has it go off under them,
  against the comment at `allocation.py:1246` ("to be sure none came in the middle and we are
  killing it for them").  `PoweredOffIdle` holds with that as its second alternative (`robbed`).
* The check for reused UUIDs (`:838-863`) looks and records in two steps, and compares dates as
  decimal numbers.  Not modelled.
* What was preempted while still waiting never completes: its user sees `restart-needed` only
  if it holds; the client that waits loops on (exception in `WaitersServed`).

*Release.*
* `_deallocate()` drops the owner and cleans afterwards (`ttbl/__init__.py:1698-1701`): when the process
  dies or a hook raises in between, the next owner gets the target as it is, though the documentation of
  `_state_cleanup()` (`:1968-1970`) says it is cleaned on acquisition too.
* `delete()` compares the owner and then cleans and wipes without the target's lock
  (`allocation.py:208-226`): an urgent request that is given the target meanwhile loses what it did.
* The release hook of a target that has a things interface and is a thing to another calls
  `unplug()`, which that interface does not have (`things.py:140`): it raises whenever it runs, also when
  the scheduler finds that its allocation was removed, so that nobody gets the target any more, and
  nothing is unplugged from the others.  Without a things interface no hook tries (`things.py:68`).
  Hooks that raise for ever are out of `MaxFaults`.
* The targets an allocation has beyond its group are given back with no cleanup (`allocation.py:756`):
  a comment at `ttbl/__init__.py:1672-1674` says that they were not used.  But an active allocation
  goes on waiting for its other groups, and what it is given may move it to one that comes first: the
  target it leaves was in use.  Its next owner finds captures, against `capture.py:350` ("when
  the targets are released, any captured data is wiped"), certificates, against `certs.py:36-43`, and
  anything else a hook resets (`soiled` in `Release`, `handed` in `Interfaces`).
* `target_owned_and_locked()` lets in operations while `delete()` cleans, as the owner and the state
  are still valid (`allocation.py:203-226`), and keeps none from ending after the cleanup, or after the
  target was handed on (`ttbl/__init__.py:2077-2093`): what it does then is found by the next owner.

*Client.*
* The time of the first connection error is never reset (`target_ext_alloc.py:133`, `:149`): a
  second error much later counts as errors all along, and it gives up.

*Power.*
* When a component asks for the whole rail to be retried, all are turned off; the second try
  goes by what was read at the start and skips those that were on: they stay off and the operation
  reports success.
* Two operations of one owner on one rail interleave freely.  Not checked: one worker.
* A power on that passed the owner check turns on, after the release, a component that shall not be
  used once a machine is released (`off_on_release`, `power.py:284`).

*Field database.*
* A field whose name has a quoted character is not found by the cleaning
  (`commonl/__init__.py:4122`, `:4269-4338`): it can be a value and a parent.
* The creation files of dead writers stay for ever, and listings show them.
* Setting a field to nothing (`property_set`) may remove its parent if another process just set it.

*Consoles and images.*
* A reader that looked before the console was disabled revives it while it flashes, or after
  the power went off.
* `put_flash()` does not disable a console whose link is dead, which stays recorded as on and may
  be revived while it flashes.
* Two starts in one second have one generation: the client does not notice.
* Starts and ends of a console lock nothing and take seconds (`power.py:1765-1833`): two starts may leave
  two processes that write to one file, or one that no pid file names; the end of one may remove the
  pid file of the other's process (`OffUnlink`), so that a running console is taken for dead.
  `off()` does not find such a process: only the next start kills it, by its command line.
* A start that is too late, or cannot write its pid file, raises and leaves its process running,
  unrecorded, with the file truncated and the generation of the last start: a client goes on at its
  old offset.  A flash may end with such a console.
* Consoles are enabled after a flash even if they were off before.
* The hash recorded for a destination is wrong while and after a flash fails on it.
* `images.py:645` raises a `NameError` in an error path; the flashers already started go on.
* The post power sequence runs on errors, a comment (`:740-745`) says it does not.
* `generic_c.write()` tests a property nobody sets.  Writes are not modelled.

*Capture and certificates.*  The first four need two requests at a time, or are of drivers, that the
models leave out.
* Two starts both stop first and start then (`capture.py:415-433`): two programs run, and the pid
  file has one of them.
* A start that overlaps the release makes the directory again after the wipe and captures on into it;
  a key or certificate made at that time stays for the next owner too (`certs.py:278`).
* Two requests for the first certificate both set up: the authority of the second replaces the one
  that signed for the first (`certs.py:145-169`).
* A `tcpdump` whose file does not come up in time runs on, unpublished, and the release does not stop it.
* A program that ended within its first second is published as capturing all the same
  (`capture.py:433-440`).
* A command of the setup that exits with an error leaves what was made until then (`certs.py:194-196`),
  which the next request takes as set up: no certificate is ever signed.  The comment at `:198`
  wants no "half initialized state".

*Testcase runner.*
* Of methods that run at once the first exception found is the result of the phase: one that
  passes hides one that fails, and the testcase is evaluated and may pass (`tc.py:5428-5446`, against
  `:3822`, "any failure/blockage causes the evaluation to stop").  `FailureCounts` leaves it out.
* An interruption that hits between the answer of the server and the registration leaves the
  allocation to expire; a handler that interrupts the holder of the mutex waits for itself; the main
  process kills the others before they delete anything.  Comments at `tcfl/tc.py:8797` and
  `:9087` intend otherwise.  `RunEnds` holds because nobody keeps these alive.
* Giving up in the queue, or losing the answer to a request, leaves the allocation to expire too.
* The runner does not look at the answers of its keepalives: an allocation that ends in use is
  noticed by the failure of some operation.
* A run in which nothing ran says it is blocked and exits 0.
* `test*` methods are documented (`tc.py:3842`) and never called.
* The result of a subcase is that of the last repetition.

## 7. What is proved

TLAPS checks these theorems for every value of the constants that satisfies the
assumptions of the module.  Those that name an `Inv` or `TypeOK` are what the other proofs
rest on; the others are the invariants and action properties that the runs check on one
instance.

| module | theorem | statement |
|---|---|---|
| `AllocationProofs` | `TypeCorrect` | `Spec => []TypeOK` |
| | `MutualExclusion` | `Spec => []ExclusiveSections` |
| | `GrantInvariant` | `Spec => []GrantInv` |
| | `EvictionOrder` | `Spec => EvictsLessUrgent` |
| | `BasisInvariant` | `Spec => []Basis` |
| | `NoneMissed` | `Spec => []NoMissedActivation`, if no lock times out and none dies |
| | `PlacesKept` | `Spec /\ DeleteKeepsNewOwner => []PlaceKept`, without releases, if no request dies while it queues |
| | `InOrder` | `Spec => FirstComeFirstServed`, if there is one worker |
| | `CalmInvariant` | `Spec /\ R => [](Basis /\ Calm)`, if `Peaceful` |
| | `GroupOwned` | `Spec /\ R => []ActiveOwnsGroup`, if `Peaceful` |
| | `RemovalTakesItsOwn` | `Spec /\ R => DeleteKeepsNewOwner`, if `Peaceful` |
| | `GroupOnlyImproves` | `Spec /\ R => FirstGroupKept`, if `Peaceful` |
| | `Implementation` | `Spec /\ R => Implements`, if `Peaceful` and no lock times out |
| | `OneRemover` | `Spec => R`, if one process removes and none dies |
| `FlashingProofs` | `TypeCorrect` | `Spec => []TypeOK` |
| | `SuccessIsTrue` | `Spec => []SuccessMeansFlashed` |
| | `NoneRunsOn` | `Spec => []NoFlasherLeft` |
| | `RunsRecorded` | `Spec => []RunningIsRecorded` |
| | `FlashGivesConsoleBack` | `Spec => ConsoleBack` |
| | `ClientMissesNothing` | `Spec => []NothingMissed` |
| `TestRunProofs` | `TypeCorrect` | `Spec => []TypeOK` |
| | `FailuresReachExit` | `Spec => []FailureCounts` |
| | `UsesWhatItHolds` | `Spec => []HeldWhileUsed` |
| `LeaseProofs` | `Invariant`, `TypeCorrect` | `Spec => []LeaseInv`, `Spec => []TypeOK` |
| | `Reclaimed` | `Spec => []ReclaimedInTime` |
| | `IdlePoweredOff` | `Spec => PoweredOffIdle` |
| | `Keepalives` | `Spec => KeptAlive`, if `Period <= MaxIdle` |
| `PowerRailProofs` | `Invariant`, `TypeCorrect` | `Spec => []Inv`, `Spec => []TypeOK` |
| | `ExplicitAlone` | `Spec => ExplicitLeftAlone` |
| | `PoweredInOrder` | `Spec /\ []OneAtATime => RailOrder` |
| | `PoweredOffInReverse` | `Spec /\ []OneAtATime => ReverseOrder` |
| | `SuccessIsPower` | `Spec /\ []OneAtATime => OnDelivers` |
| | `OneWorker` | `Spec => []OneAtATime`, if there is one worker |
| `FsdbProofs` | `Invariant`, `TypeCorrect` | `Spec => []FsdbInv`, `Spec => []TypeOK` |
| | `Removals` | `Spec => OnlyConflictsRemoved` |
| | `TakesEffect` | `Spec => CallTakesEffect`, if no call is on nested fields |
| `ReleaseProofs` | `TypeCorrect` | `Spec => []TypeOK` |
| | `Invariant` | `Spec /\ []RemovedOnce => []Inv` |
| | `GivenClean` | `Spec /\ []RemovedOnce => FreshClean` |
| | `UseKept` | `Spec /\ []RemovedOnce => InUseKept` |
| | `OneRemover` | `Spec => []RemovedOnce`, if one process removes |
| `InterfacesProofs` | `Invariant`, `TypeCorrect` | `Spec => []Inv`, `Spec => []TypeOK` |
| | `AtMostOneCapture` | `Spec => []OneCapture` |
| | `FoundAgain` | `Spec => []Stoppable` |
| | `NothingLeft` | `Spec => []NothingOfOthers` |
| | `CertificatesMatch` | `Spec => []PairsMatch` |

Here `R` is `[]RemovedOnce /\ [][RemovalsSurvive]_vars`.  Where a theorem has a hypothesis, on the
constants or on the behaviour, the code promises the property on no other terms: each holds in
the instance that the run checks, and TLC finds the property violated without it.

### 7.1 AllocationProofs

**Assumptions**: the cleaner is not a worker and the null values are not values
(`ProcsAssumption`, `NamesAssumption`), groups are nonempty sets of targets and priorities
are naturals (`RequestsAssumption`: `request()` rejects others), the bounds are naturals.

1. *Types.*  `TypeOK` is not inductive: it lets a handler be at `grant` with no
   target in hand.  `TypeInv` adds, for each program counter, which locals are set
   (`JobTyped`).  The proof is by variable rather than by action.
2. *Locks.*  `LockInv` says that a process in a section that needs a lock is the
   one the lock file names.  `Unwind` drops locks and leaves every section in
   one step, so timeouts, exceptions and deaths keep it.  Two processes in
   one section would be two names in one lock file.
3. *Grants.*  `GrantInv` has two parts.  `OwnersPriority`: the priority recorded on a
   target is the owner's, or none is recorded.  `Decided`: a process at `grant` holds a
   waiter that is more urgent than the owner it read, and while it holds the
   target's lock the owner is that one or none.  It is needed because the decision
   (`RunTake`) and the hand over (`Grant`) are two steps with unlocked wipes in
   between.
4. *Who is known.*  `Known`: who is in a queue, loaded from one or owns a target asked for it and
   was published; a request that is not yet published has one writer.  With 1-3 it is `Basis`, which
   the rest is proved from.  The lemmas called `Moves` say once what each action does to a handler, a
   record, a queue or an owner.
5. *Activation.*  `SeenInv`: a complete group of a waiting allocation is being computed, with its targets
   counted or still to be, or the allocation is cached without groups.  A process that dies or
   gives up at that point leaves it to wait.
6. *Places.*  `PlaceInv`: `PlaceKept`, and only allocations that were active give up targets.
7. *Order.*  `OrderInv`: what goes into queues has the clock's stamp, a queue loaded before the lock misses
   only later requests, and nobody in the queue of a target at `grant` asked earlier with the priority
   of the chosen one.  Two workers break it: one stamps, the other stamps later and queues first.
8. *Groups.*  `Calm`, where nothing is disputed: targets counted are still owned or extras of the group in
   use (`Measuring`); extras are of no group that could still replace it (`Giving`, `Spare`); a removal
   wipes the group of an active allocation (`Removing`); an active one uses and owns one of its
   groups.  **Hypotheses**: `Peaceful` (no preemption, no releases of single targets, and of two groups the
   preferred one has one target at most that the other lacks: without that the race described in
   section 6 happens), `RemovedOnce`
   (no two processes remove one allocation at a time), `RemovalsSurvive` (none dies removing).
9. *Refinement.*  Phases change one allocation at a time (`PhaseMoves`, `OnePhase`), owners one target at a
   time (`OneOwner`, `HolderMoves`), and never both in one step.  A grant is `Give`: by `Decided` and the lack
   of evictions the target is free.  A wiped orphan is of a record that is gone, and so `Reclaim`.  An
   extra is `GiveBack`, by `Spare`, or `Reclaim` if its allocation ended meanwhile.  A removal that
   times out on the lock forgets a record that was not ending: hence no timeouts.

### 7.2 FlashingProofs

**Assumptions**: the two workers differ and are no missing pid, there is a flasher, the bounds are
naturals (`WorkersDiffer`, `ConsoleBounds`, `FlashBounds`).

1. *Types.*  `TypeInv` adds that a read is never ahead of the generation, that what was
   captured is in the file, and that something is to be flashed while `put_flash()` runs.
2. *Flashers.*  `FlashInv`: none runs outside the two phases that look after them (`Quiet`), one
   that ended well left what was asked for unless a stray one writes there (`WellWritten`), those
   that are done ended well with their hash recorded (`DoneWell`), success was said of all of
   them (`SaidOfAll`).  The properties alone are not inductive: they say nothing while it runs.
3. *Who switches.*  `RunningIsRecorded` speaks of the moments when all calls are over.  `RaceInv`
   says what holds in between: a call that no other overlaps finds what its last step left
   (`Alone`, `AloneInOrder`); calls that overlap are both in `crossed` until they end, and leave
   `disorder` behind them (`BothCrossed`, `Overlapped`); a console that runs unrecorded is about to
   be recorded or killed, or its start was given up (`RunsUnrecorded`); and which steps each worker can
   be in at each point of a flash or a read (`OwnerInFlash`, `ReaderBusy`, `ReaderOnlyOn`).
4. *Reads.*  `ReadInv`: a read begins no later than the client is and, when it starts over, at the
   beginning (`FromWhereItWas`, `FromTheStart`); what the client knows the generation of, it
   captured from the file as it is, unless a start is between its truncation and its generation
   (`Captured`).

### 7.3 TestRunProofs

**Assumptions** (`RunInput`): the phases of an evaluation have no parallel methods, as
`_methods_prepare()` has it, methods end as one of the kinds, and the bounds are naturals.

1. *Types.*  `TypeInv` adds that a phase with a bad result is in `bad` (`RetSaid`), that a
   testcase is still to run until the last completed (`InTurn`), that a repetition has one left
   (`OneLeft`) and that one who waits knows for what (`Asked`).
2. *Failures.*  `FailureCounts` only speaks of the end.  `FailInv` says where a failure is on its
   way there: a phase that ended badly is still running with a bad result, or is known in one of the
   four results (`Remembered`); and what each stage drops is empty or fine (`Carried`): the
   result of the build replaces that of the configuration, which was fine or there is no build.
3. *Targets.*  `HeldWhileUsed` is inductive with the types: the stages that use the targets are
   entered from `Register`, or without targets to hold, and nothing but the release after
   them, or the end of the process, takes an allocation from the registry or ends the thread.

### 7.4 LeaseProofs

**Assumptions** (`LeaseTimes`, `LeaseNames`): times are naturals, the cleanup process sleeps for
a while, the idle times and two runs fit in a day (beyond it ages fold over and the code loses
count), the daemon is no client.  `Keepalives` needs that clients keep alive no later than the
idle time; the code's periods are minutes against half an hour.

1. *Queue and holder.*  `QueueInv`: who waits has a record that says `queued`, and waits once.
   `HolderInv`: who has the target has an active record.  They make every action well typed.
2. *Ages.*  `ReclaimedInTime` is not inductive: how old an allocation may be depends on where the
   cleanup process is.  `AgeInv` says so: while it sleeps, the idle time and the run that looked
   at it, and the sleep so far; during a run, a sleep more if it is still to be looked at, and
   only the time of this run if it was looked at.  Each tick adds one to both sides.
3. *Keepalives.*  `KeptInv`: the stamp of a client that loses no answer is no older than its timer,
   so that the maintenance that goes by age never picks it.
4. *Idle power off.*  `UseInv`: the target's stamp is never older than its last use, until the age
   of the use folds over, and what the daemon read of it neither, but for uses in this run.  Once the
   daemon saw that it has the target, it has it or was robbed of it (`ClientRobs`: a client that takes
   it is on record), and what it was robbed of was last used in this run.

### 7.5 PowerRailProofs

**Assumptions** (`RailAssumption`): a rail is a finite sequence, each component has one of the
four kinds of `explicit`.  **Hypothesis** of the order theorems: `OneAtATime`, no two operations
run on the rail at once.  Nothing in the code sees to it (hazard at `ttbd/ttbl/__init__.py:2079`), and
two that overlap turn components on behind each other's back.

1. *What is touched.*  `Inv`: an operation on the rail asks for all of it, recovers only what it was
   to turn on, and turns the rail off again only for a retry that it counted.  It holds for any number
   of operations at once, and so does `ExplicitLeftAlone`.
2. *Levels.*  `OnInv` and `OffInv`: what a power on has passed, or found on, still is on
   (`Excused`: or a retry turned it off without a new look); what a power off has passed is off
   (`Exempt`: or it was left alone, or stuck).  Releases of the target only turn off
   `OffOnRelease`, which the statements leave out.  From these the order: the least component that
   breaks it would have been passed in another state than it has.

### 7.6 FsdbProofs

**Assumptions** (`KeysClosed`, `CallsMade`): finitely many fields, closed under prefixes; a call
is one that the code makes.  `TakesEffect` is for calls that do not set a field and one below it at
once, whose outcome depends on the order of the list.

1. *Calls.*  `JobInv`: at each point of a call, what it still has to do is its own or was found below
   a field it empties, and what it may wipe is above or below the field it sets.
   `OnlyConflictsRemoved` follows, whoever else runs or died.
2. *Overlaps.*  `OverlapInv`: two calls on related fields that run at once are both in `overlap`.
3. *Effects.*  `EffectInv`, of a call that met none: the items it is done with are in the files and
   nothing is around them (`DoneSo`), the one at hand is where its system calls got
   (`HeadSo`), the index shared by several fields has all there is around those to come
   (`IndexSo`).  A write of another call keeps all this because it is on unrelated fields.

### 7.7 ReleaseProofs

**Assumptions** (`PartsAssumption`, `NamesAssumption`): the user properties are no hook, null values
are no values, an allocation asks for a sequence of groups of targets.  **Hypothesis**:
`RemovedOnce`, no two processes remove one allocation at a time.  Without it TLC finds `InUseKept`
violated: the second removal cleans a target that the scheduler gave away between its check and its
cleanup, with the first one gone.

1. *Held.*  A process that cleans, wipes, restarts or grants under the target's lock is the one the
   lock file names; there is no owner, or one whose record is gone, and what it reset is clean, or the
   target is known as soiled.
2. *Removal.*  A removal has no lock: its targets are still of the allocation it removes or known as
   spoiled, and what it reset is clean or known as soiled, as the owner may still use it.
3. *OwnLeft.*  What is left in a target that is neither spoiled nor soiled is of its owner, or some
   process is about to reset it.  This is `FreshClean` at the one step that gives a target, `Grant`.
   An operation that ends (`UseEnds`) keeps it by what `TooLate` says: either its allocation has the
   target and the part is not reset yet, or who dropped the owner is about to reset it, or the target is soiled.
4. Each step is shown to do no more to a target than `Framed` says, and one lemma shows that
   such a step keeps what the other processes rely on.

### 7.8 InterfacesProofs

**Assumptions**: the null values are no values, the bounds are naturals.

1. *Requests.*  `JobInv`: which steps each request can be in, and that it is about one certificate.
2. *Captures.*  `CaptureInv`: outside the steps that start and stop it, what runs is what the pid file
   says, and then the field says it captures (`Watched`); at each of those steps, how much of that is so.
3. *Owners.*  `OwnerInv`: what there is was made for the present owner or for one in `handed`, and so is
   the request under way, which may have outlived its owner (`AllTheirs`); while the release removes it,
   what has been removed is gone.
4. *Pairs.*  `PairsInv`: a key, request and certificate go together (`Settled`) outside the steps that
   make or drop them, and the key under way is the newest.

### 7.9 Only model-checked

All liveness (`OrphansFreed`, `FreeTargetsServed`, `WaitersServed`, `OperationsEnd`,
`RevivedWhenRead`, `FlashEnds`, `RunEnds`): fairness and ENABLED are out of the prover's
reach.  The theorems on the allocator say nothing of the behaviours their hypotheses
leave out: with preemption, for one, TLC checks no more than what `EvictsLessUrgent`,
`ExclusiveSections` and the liveness of `faults` say of them.

## 8. Not modelled

* *Symlink mutexes* (`ttbl/mutex.py`, `symlink_acquirer_c`): nobody acquires them any more.  One
  would see that `release` unlinks what it read before.
* *File system caches*: entries may go at any time by design, and no decision rests on one.
* *Store; tunnels, routers, things*: files and processes per allocation with release
  hooks, which `Release` has as parts to reset.  Things plugged into one target at
  a time would be worth a model.
* *Guests, reservation policy, ttl; tags and inventory*: no behaviour of the above
  depends on them.
* *Drivers, network boot, provisioning, discovery, health monitor*: device I/O, processes and
  scripts.  *Authentication* decides who may call; the models take any permitted call.
  *Configuration, reports, user interfaces, tools*: static data and formatting.
* *Parsers and key libraries*: pure functions, which tests reach.

Within the modelled components `PROJECT.json` says what each leaves out.  By far most of the
repository's lines are in these parts: what is modelled is where processes, time and
failures meet.

## 9. Plan

1. The allocator with preemption: which parts of `Calm` survive an eviction, as a weaker
   refinement.
2. Things: plugging between two owned targets.
