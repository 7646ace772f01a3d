------------------------------ MODULE Capture ------------------------------
(***************************************************************************)
(* A streaming capturer of the capture interface, ttbd/ttbl/capture.py:    *)
(* put_start(), put_stop() and the release hook, with generic_stream as    *)
(* driver.  Starting runs a program that writes into the capture directory *)
(* of the target until it is stopped, or ends; a pid file and an inventory *)
(* field say it does.  One action is one access to the pid file, the       *)
(* field, the program or the directory.                                    *)
(***************************************************************************)
EXTENDS Holder

CONSTANTS MaxPids     \* bound on the capture programs ever run

ASSUME CaptureAssumption == MaxPids \in Nat

VARIABLES
    running,    \* the capture programs that run
    spawned,    \* the programs run so far
    pidfile,    \* capture-NAME.pid
    capturing,  \* inventory field interfaces.capture.NAME.capturing
    data        \* whose capture is in the capture directory

Pids == 1 .. MaxPids

programs == <<running, spawned, data>>
records == <<pidfile, capturing>>
capture == <<programs, records>>

CaptureInit ==
    /\ running = {}
    /\ spawned = 0
    /\ pidfile = None
    /\ capturing = "unset"
    /\ data = NoAlloc

\* (mutant) what runs is not stopped
StartAnew == Begin("start", "spawn", {}) /\ UNCHANGED capture

\* put_start() stops first, whatever the field says.
PutStart == Begin("start", "read", {}) /\ UNCHANGED capture

PutStop == Begin("stop", "field", {}) /\ UNCHANGED capture

\* put_stop() and the release hook do nothing about what is not capturing.
SkipStop ==
    /\ At("field")
    /\ capturing # "yes"
    /\ IF job.op = "stop" THEN Finish ELSE Flow("remove")
    /\ UNCHANGED <<holding, capture>>

SetNotCapturing ==
    /\ At("field")
    /\ capturing = "yes"
    /\ capturing' = IF job.op = "stop" THEN "no" ELSE "unset"
    /\ Flow("read")
    /\ UNCHANGED <<holding, programs, pidfile>>

-----------------------------------------------------------------------------
(* generic_stream.stop(): process_terminate() on the pid file *)

Stopped ==
    CASE job.op = "start" -> [job EXCEPT !.pc = "spawn", !.pid = None]
      [] job.op = "stop" -> Idle
      [] job.op = "release" -> [job EXCEPT !.pc = "remove", !.pid = None]

ReadPid ==
    /\ At("read")
    /\ job' = IF pidfile = None THEN Stopped ELSE [job EXCEPT !.pc = "kill", !.pid = pidfile]
    /\ UNCHANGED <<holding, capture>>

\* Asked to end, and killed a while later.
Kill ==
    /\ At("kill")
    /\ running' = running \ {job.pid}
    /\ Flow("unlink")
    /\ UNCHANGED <<holding, spawned, data, records>>

Unlink ==
    /\ At("unlink")
    /\ pidfile' = None
    /\ job' = Stopped
    /\ UNCHANGED <<holding, programs, capturing>>

-----------------------------------------------------------------------------
(* generic_stream.start() *)

Spawn ==
    /\ At("spawn")
    /\ spawned < MaxPids
    /\ spawned' = spawned + 1
    /\ running' = running \cup {spawned + 1}
    /\ data' = job.who
    /\ job' = [job EXCEPT !.pc = "settle", !.pid = spawned + 1]
    /\ UNCHANGED <<holding, records>>

\* A command before the program's own fails: there is only a log.
StartFails ==
    /\ At("spawn")
    /\ data' = job.who
    /\ Finish
    /\ UNCHANGED <<holding, running, spawned, records>>

\* A program that ended by then is no error: it is published as if capturing.
Settle ==
    /\ At("settle")
    /\ Flow(IF job.pid \in running THEN "note" ELSE "clear")
    /\ UNCHANGED <<holding, capture>>

NotePid ==
    /\ At("note")
    /\ pidfile' = job.pid
    /\ Flow("clear")
    /\ UNCHANGED <<holding, programs, capturing>>

\* put_start() wipes what the inventory says of this capturer, and says it anew.
Clear ==
    /\ At("clear")
    /\ capturing' = "unset"
    /\ Flow("publish")
    /\ UNCHANGED <<holding, programs, pidfile>>

\* (mutant) it is left to the driver to say that it captures
PublishNot ==
    /\ At("publish")
    /\ Finish
    /\ UNCHANGED <<holding, capture>>

Publish ==
    /\ At("publish")
    /\ capturing' = "yes"
    /\ Finish
    /\ UNCHANGED <<holding, programs, pidfile>>

-----------------------------------------------------------------------------
\* The release hook removes the capture directory at last.
RemoveCaptures ==
    /\ At("remove")
    /\ data' = NoAlloc
    /\ job' = HookDone
    /\ UNCHANGED <<holding, running, spawned, records>>

\* Capture programs end by themselves.
Ends(pid) ==
    /\ pid \in running
    /\ running' = running \ {pid}
    /\ UNCHANGED <<holding, job, spawned, data, records>>

CaptureStep ==
    \/ SkipStop \/ SetNotCapturing \/ ReadPid \/ Kill \/ Unlink
    \/ Spawn \/ StartFails \/ Settle \/ NotePid \/ Clear \/ Publish
    \/ RemoveCaptures

CaptureNext ==
    \/ PutStart \/ PutStop \/ CaptureStep
    \/ \E pid \in Pids : Ends(pid)
=============================================================================
