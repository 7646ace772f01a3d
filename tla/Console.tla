------------------------------- MODULE Console -------------------------------
(* A serial console of a target, ttbd/ttbl/console.py: a socat process (the   *)
(* link) appends what the target says to a file, and truncates it when it     *)
(* starts; the generation tells those who follow the file to start over.      *)
(* The console is on if the process that its pid file names runs.             *)
(*                                                                            *)
(* A worker that serves its owner switches it on and off.  Another serves the *)
(* reads of a client (tcfl/target_ext_console.py), which anybody may do, and  *)
(* looks now and then whether the link died, to revive it.  Nobody locks      *)
(* anything, and a start takes seconds: two of them, or one and the end of    *)
(* the process it replaces, run into each other step by step.  A process is   *)
(* known by the worker that started it; before a worker starts a second one   *)
(* it killed its first and took it out of the pid file.                       *)
EXTENDS Integers, FiniteSets

CONSTANTS Owner, Reader, \* the two workers
          NoPid,         \* there is no pid file
          ReEnable,      \* re_enable_if_dead of the driver
          MaxGen,        \* bound: seconds in which starts fall
          MaxLen,        \* bound: what the target says between two starts
          MaxOps,        \* bound: operations of the owner
          MaxFaults      \* bound: things that fail, deaths of the link among them

ASSUME WorkersDiffer == Owner # Reader /\ NoPid \notin {Owner, Reader}
ASSUME ConsoleBounds ==
    /\ ReEnable \in BOOLEAN
    /\ MaxGen \in Nat \ {0} /\ MaxLen \in Nat /\ MaxOps \in Nat /\ MaxFaults \in Nat

VARIABLES
    running,     \* socat processes with the command line of this console
    pid,         \* whose process the pid file names
    recorded,    \* interfaces.console.NAME.state
    generation,  \* interfaces.console.NAME.generation, 0 if none
    file,        \* length of the read file
    text,        \* history of the file since it was truncated: known, if its
                 \* generation is its own; new, if it has none yet; mixed, if
                 \* two processes write to it
    op,          \* the driver call each worker is in
    crossed,     \* history: calls which another one overlapped
    disorder,    \* history: none since a start that nothing overlapped, overlap, or
                 \* failed, if a start failed that had started its process
    client,      \* what the client knows, and captured of the file as it is now
    read,        \* the request of the client that is served
    ops, faults

links == <<running, pid>>
texts == <<generation, file, text>>
console == <<links, recorded, texts>>
calls == <<op, crossed, disorder>>

Workers == {Owner, Reader}
NoGen == -1
NoRead == [pc |-> "none", from |-> 0, redo |-> FALSE, shall |-> FALSE, gen |-> 0]

\* state(): the process in the pid file is alive.
Link == pid \in running

\* A file that was never opened is answered as an empty one of generation 0.
ConsoleInit ==
    /\ \E on \in BOOLEAN :
         /\ running = IF on THEN {Owner} ELSE {}
         /\ pid = IF on THEN Owner ELSE NoPid
         /\ recorded = on
         /\ generation = IF on THEN 1 ELSE 0
    /\ file = 0 /\ text = "known"
    /\ op = [w \in Workers |-> "none"]
    /\ crossed = {} /\ disorder = "none"
    /\ client = [gen |-> NoGen, offset |-> 0, got |-> {}]
    /\ read = NoRead
    /\ ops = 0 /\ faults = 0

Busy(w) == op[w] \notin {"none", "failed"}

To(w, step) == op' = [op EXCEPT ![w] = step]
Go(w, step) == To(w, step) /\ UNCHANGED <<crossed, disorder>>
End(w, result) == To(w, result) /\ crossed' = crossed \ {w}

\* A driver is called, while another call is under way or not.
Enter(w, step) ==
    /\ To(w, step)
    /\ IF \E v \in Workers \ {w} : Busy(v)
       THEN /\ crossed' = Workers
            /\ disorder' = IF disorder = "none" THEN "overlap" ELSE disorder
       ELSE UNCHANGED <<crossed, disorder>>

\* Things that fail do so at most MaxFaults times.
Fails == faults < MaxFaults /\ faults' = faults + 1
Works == UNCHANGED faults

-----------------------------------------------------------------------------
(* The driver, on() and off().                                               *)

\* on() removes the pid file ...
OnUnlink(w) ==
    /\ op[w] = "on"
    /\ pid' = NoPid
    /\ Go(w, "purge")
    /\ UNCHANGED <<running, recorded, texts, client, read, ops, faults>>

\* (mutant) what runs is left to whoever started it
OnPurgeNone(w) ==
    /\ op[w] = "purge"
    /\ Go(w, "spawn")
    /\ UNCHANGED <<console, client, read, ops, faults>>

\* ... kills whatever runs with this command line ...
OnPurge(w) ==
    /\ op[w] = "purge"
    /\ running' = {}
    /\ Go(w, "spawn")
    /\ UNCHANGED <<pid, recorded, texts, client, read, ops, faults>>

\* ... and starts socat, which truncates the file, or that fails.
OnSpawn(w) ==
    /\ op[w] = "spawn"
    /\ \/ /\ Works
          /\ running' = running \cup {w}
          /\ file' = 0 /\ text' = (IF running = {} THEN "new" ELSE "mixed")
          /\ client' = [client EXCEPT !.got = {}]
          /\ Go(w, "pidfile")
       \/ /\ Fails
          /\ End(w, "failed")
          /\ UNCHANGED <<running, file, text, client, disorder>>
    /\ UNCHANGED <<pid, recorded, generation, read, ops>>

\* The start fails now: nobody ends what was started, if it still runs.
GiveUp(w) == End(w, "failed") /\ disorder' = "failed"

\* The pid file is written, or that fails.
OnPidfile(w) ==
    /\ op[w] = "pidfile"
    /\ \/ Works /\ pid' = w /\ Go(w, "wait")
       \/ Fails /\ GiveUp(w) /\ UNCHANGED pid
    /\ UNCHANGED <<running, recorded, texts, client, read, ops>>

\* For some seconds it is looked whether the process in the pid file, whoever wrote
\* it, runs and is fit: it does, or does too late, or never.
OnWait(w) ==
    /\ op[w] = "wait"
    /\ \/ Link /\ Works /\ Go(w, "generation")
       \/ Link /\ Fails /\ GiveUp(w)
       \/ ~Link /\ Works /\ GiveUp(w)
    /\ UNCHANGED <<console, client, read, ops>>

SetGeneration(w, g, new) ==
    /\ op[w] = "generation"
    /\ generation' = g
    /\ text' = IF text = "mixed" THEN "mixed" ELSE IF new THEN "known" ELSE "new"
    /\ Go(w, "record")
    /\ UNCHANGED <<links, recorded, file, client, read, ops, faults>>

\* (mutant) the generation stays from one start to the next
OnGenerationKept(w) == SetGeneration(w, 1, TRUE)

\* generation_set(), maybe in the same second as the last one.
OnGeneration(w) ==
    \/ generation < MaxGen /\ SetGeneration(w, generation + 1, TRUE)
    \/ generation # 0 /\ SetGeneration(w, generation, FALSE)

\* The start is recorded; if no other call overlapped it, whatever others left is
\* gone.
OnRecord(w) ==
    /\ op[w] = "record"
    /\ recorded' = TRUE
    /\ End(w, "none")
    /\ disorder' = IF w \in crossed THEN disorder ELSE "none"
    /\ UNCHANGED <<links, texts, client, read, ops, faults>>

\* off(): it is recorded first ...
OffRecord(w) ==
    /\ op[w] = "off"
    /\ recorded' = FALSE
    /\ Go(w, "kill")
    /\ UNCHANGED <<links, texts, client, read, ops, faults>>

\* ... then the process in the pid file is killed, if it runs ...
OffKill(w) ==
    /\ op[w] = "kill"
    /\ running' = running \ {pid}
    /\ IF Link THEN Go(w, "unlink") ELSE End(w, "none") /\ UNCHANGED disorder
    /\ UNCHANGED <<pid, recorded, texts, client, read, ops, faults>>

\* ... and a moment later the pid file is removed, whoever's it is by then.
OffUnlink(w) ==
    /\ op[w] = "unlink"
    /\ pid' = NoPid
    /\ End(w, "none")
    /\ UNCHANGED <<running, recorded, texts, disorder, client, read, ops, faults>>

Off(w) == OffRecord(w) \/ OffKill(w) \/ OffUnlink(w)

On(w) ==
    \/ OnUnlink(w) \/ OnPurge(w) \/ OnSpawn(w) \/ OnPidfile(w) \/ OnWait(w)
    \/ OnGeneration(w) \/ OnRecord(w)

\* The target says something, a process dies.
Output ==
    /\ running # {} /\ file < MaxLen
    /\ file' = file + 1
    /\ UNCHANGED <<links, recorded, generation, text, calls, client, read, ops, faults>>

Dies ==
    /\ Fails
    /\ \E w \in running : running' = running \ {w}
    /\ UNCHANGED <<pid, recorded, texts, calls, client, read, ops>>

-----------------------------------------------------------------------------
(* A read, get_read() in the worker and _poll() in the client.               *)

\* The client asks from where it was, or from the beginning; the worker looks at
\* the link if that is due, which is left open, or goes on to read.
Ask(from, redo, due) ==
    /\ read' = [NoRead EXCEPT !.pc = IF due THEN "look" ELSE "generation",
                              !.from = from, !.redo = redo]
    /\ UNCHANGED <<console, calls, client, ops, faults>>

Polls(due) == read.pc = "none" /\ Ask(client.offset, FALSE, due)
Poll == \E due \in BOOLEAN : Polls(due)

\* (mutant) the client that starts over goes on from where it was
RestartGoesOn == read.pc = "again" /\ \E due \in BOOLEAN : Ask(client.offset, TRUE, due)

Restart == read.pc = "again" /\ \E due \in BOOLEAN : Ask(0, TRUE, due)

\* _maybe_re_enable(): what is recorded ...
Look ==
    /\ read.pc = "look"
    /\ read' = [read EXCEPT !.pc = IF ReEnable THEN "alive" ELSE "generation", !.shall = recorded]
    /\ UNCHANGED <<console, calls, client, ops, faults>>

AfterLook(revives) ==
    /\ read.pc = "alive"
    /\ read' = [read EXCEPT !.pc = IF revives THEN "revive" ELSE "generation", !.shall = FALSE]
    /\ IF revives THEN Enter(Reader, "on") ELSE UNCHANGED calls
    /\ UNCHANGED <<console, client, ops, faults>>

\* (mutant) a link is only revived while it is alive
ReviveAlive == AfterLook(read.shall /\ Link)

\* ... and then whether the link is alive.
Revive == AfterLook(read.shall /\ ~Link)

\* The driver is done; if it failed, so does the read.
Revived ==
    /\ read.pc = "revive" /\ ~Busy(Reader)
    /\ read' = IF op[Reader] = "none" THEN [read EXCEPT !.pc = "generation"] ELSE NoRead
    /\ Go(Reader, "none")
    /\ UNCHANGED <<console, client, ops, faults>>

\* The generation is read first and the file opened later.
ReadGeneration ==
    /\ read.pc = "generation"
    /\ read' = [read EXCEPT !.pc = "data", !.gen = generation]
    /\ UNCHANGED <<console, calls, client, ops, faults>>

Newer == ~read.redo /\ client.gen # NoGen /\ client.gen < read.gen

\* The client captures what there is from the offset on, which is cut to the size.
\* If it finds a newer generation it asks again, from the beginning, and takes what
\* comes then for good.
ReadData ==
    /\ read.pc = "data"
    /\ LET from == IF read.from > file THEN file ELSE read.from
           first == client.gen = NoGen \/ read.redo
       IN client' = [gen    |-> IF first THEN read.gen ELSE client.gen,
                     offset |-> IF Newer THEN client.offset ELSE file,
                     got    |-> client.got \cup (from + 1 .. file)]
    /\ read' = IF Newer THEN [NoRead EXCEPT !.pc = "again"] ELSE NoRead
    /\ UNCHANGED <<console, calls, ops, faults>>

Serve == \/ Look \/ Revive \/ Revived
         \/ ReadGeneration \/ ReadData \/ Restart \/ On(Reader)
=============================================================================
