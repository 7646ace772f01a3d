------------------------------ MODULE Flashing ------------------------------
(* The image interface of a target, ttbd/ttbl/images.py, and the console its  *)
(* flashers need for themselves: put_flash() disables the console, starts a   *)
(* process per flasher, polls and retries them until a deadline, and enables  *)
(* the console again.  Power sequences, which go before and after, change     *)
(* nothing here.                                                              *)
EXTENDS Console

CONSTANTS Flashers, \* drivers that flash in parallel, each its destination
          Images,   \* what may be flashed
          Retries,  \* times a flasher is started again
          Looks,    \* estimated_duration, in rounds of polling
          NoImage,  \* nothing known of a destination
          Torn      \* content of a destination half written

ASSUME FlashBounds == Flashers # {} /\ Retries \in Nat /\ Looks \in Nat
ASSUME NoImages == NoImage \notin Images /\ Torn \notin Images /\ NoImage # Torn

VARIABLES
    run,      \* the process of each flasher: none, running, ok or bad
    stray,    \* flashers that left a process behind, which writes until it ends
    content,  \* what each destination holds
    hash,     \* interfaces.images.NAME.last_sha512
    flash     \* put_flash()

flashing == <<run, stray, content, hash, flash>>
vars == <<console, calls, client, read, ops, faults, flashing>>

Idle == [pc |-> "idle", want |-> NoImage, left |-> Looks, tries |-> [f \in Flashers |-> 1],
         done |-> {}, todo |-> {}, result |-> "none"]

Init ==
    /\ ConsoleInit
    /\ run = [f \in Flashers |-> "none"]
    /\ stray = {}
    /\ content = [f \in Flashers |-> NoImage]
    /\ hash = [f \in Flashers |-> NoImage]
    /\ flash = Idle

\* They are gone through in the order of a dictionary.
Turn(f) == f \in flash.todo /\ f = CHOOSE g \in flash.todo : TRUE

At(pc) == flash.pc = pc
Goto(pc) == flash' = [flash EXCEPT !.pc = pc]
Flow(pc) == Goto(pc) /\ UNCHANGED <<run, stray, content, hash>>

\* The owner does one thing at a time: put_enable(), put_disable(), a power off,
\* which disables every console, or a flash.
OwnerFree == At("idle") /\ ~Busy(Owner) /\ ops < MaxOps

Operate(step) ==
    /\ OwnerFree
    /\ ops' = ops + 1
    /\ Enter(Owner, step)
    /\ UNCHANGED <<console, client, read, faults, flashing>>

PutEnable == ~Link /\ Operate("on")
PutDisable == Link /\ Operate("off")
PowerOff == Operate("off")

PutFlash ==
    /\ OwnerFree
    /\ ops' = ops + 1
    /\ \E i \in Images : flash' = [Idle EXCEPT !.pc = "disable", !.want = i]
    /\ Go(Owner, "none")
    /\ UNCHANGED <<console, client, read, faults, run, stray, content, hash>>

\* _flash_consoles_disable()
Disable ==
    /\ At("disable")
    /\ IF Link THEN Enter(Owner, "off") ELSE UNCHANGED calls
    /\ flash' = [flash EXCEPT !.pc = "start", !.todo = Flashers]
    /\ UNCHANGED <<console, client, read, ops, faults, run, stray, content, hash>>

consoleRest == <<console, calls, client, read, ops>>

\* The destination is being written from the start on.
Starts(f) ==
    /\ run' = [run EXCEPT ![f] = "running"]
    /\ content' = [content EXCEPT ![f] = Torn]

\* What it worked with is gone, but for processes that still run.
Finish(result) ==
    flash' = [Idle EXCEPT !.pc = "enable", !.want = flash.want, !.result = result]

\* flash_start() of one raises, which may have written: whatever else runs is left
\* running, with nobody to look after it.
Abandon ==
    /\ stray' = stray \cup {f \in Flashers : run[f] = "running"}
    /\ run' = [f \in Flashers |-> "none"]
    /\ Finish("error")
    /\ UNCHANGED hash

Raise(f) == Abandon /\ \E c \in {content[f], Torn} : content' = [content EXCEPT ![f] = c]

\* (mutant) only the flasher that failed is killed
KillOne ==
    /\ run' = [f \in Flashers |-> IF run[f] = "bad" THEN "none" ELSE run[f]]
    /\ Finish("error")
    /\ UNCHANGED <<stray, content, hash>>

\* flash_kill() of all, and the error.
KillAll ==
    /\ run' = [f \in Flashers |-> "none"]
    /\ Finish("error")
    /\ UNCHANGED <<stray, content, hash>>

\* The file is there and flash_start() starts the process, or either fails.
FlashStart(f) ==
    /\ At("start") /\ op[Owner] = "none" /\ Turn(f)
    /\ \/ /\ Works
          /\ Starts(f)
          /\ flash' = [flash EXCEPT !.todo = @ \ {f}]
          /\ UNCHANGED <<stray, hash>>
       \/ Fails /\ Raise(f)
    /\ UNCHANGED consoleRest

\* (mutant) the deadline never comes
RoundForever ==
    /\ flash.pc \in {"start", "polled"} /\ flash.todo = {}
    /\ IF At("polled") /\ flash.done = Flashers
       THEN Finish("ok") /\ run' = [f \in Flashers |-> "none"]
       ELSE flash' = [flash EXCEPT !.pc = "polled", !.todo = Flashers \ flash.done] /\ UNCHANGED run
    /\ UNCHANGED <<consoleRest, faults, stray, content, hash>>

\* A round: within the deadline, those not done yet are looked at.  A file gone
\* by now is meant to be ignored, but the handler of the error raises one itself.
Round ==
    /\ flash.pc \in {"start", "polled"} /\ flash.todo = {}
    /\ \/ /\ At("polled") /\ flash.done = Flashers
          /\ Works
          /\ Finish("ok")
          /\ run' = [f \in Flashers |-> IF run[f] = "ok" THEN "none" ELSE run[f]]
          /\ UNCHANGED <<stray, content, hash>>
       \/ /\ ~(At("polled") /\ flash.done = Flashers) /\ flash.left = 0
          /\ Works
          /\ KillAll
       \/ /\ ~(At("polled") /\ flash.done = Flashers) /\ flash.left > 0
          /\ \/ /\ Works
                /\ flash' = [flash EXCEPT !.pc = "polled", !.left = @ - 1,
                                          !.todo = Flashers \ flash.done]
                /\ UNCHANGED <<run, stray, content, hash>>
             \/ Fails /\ Abandon /\ UNCHANGED content
    /\ UNCHANGED consoleRest

\* flash_check_done(): it still runs, or it is too early for its check_period.
NotDone(f) ==
    /\ At("polled") /\ Turn(f)
    /\ flash' = [flash EXCEPT !.todo = @ \ {f}]
    /\ UNCHANGED <<consoleRest, faults, run, stray, content, hash>>

\* (mutant) the exit code is not looked at
GoodAny(f) == run[f] \in {"ok", "bad"}
Good(f) == run[f] = "ok"

\* flash_post_check() finds it did well: _hash_record().
Recorded(f) ==
    /\ At("polled") /\ Turn(f) /\ Good(f)
    /\ hash' = [hash EXCEPT ![f] = flash.want]
    /\ flash' = [flash EXCEPT !.todo = @ \ {f}, !.done = @ \cup {f}]
    /\ UNCHANGED <<consoleRest, faults, run, stray, content>>

MayRetry(f) == flash.tries[f] <= Retries

\* It failed: it is started again, or all are killed.
Retry(f) ==
    /\ At("polled") /\ Turn(f) /\ run[f] = "bad" /\ MayRetry(f)
    /\ \/ /\ Works
          /\ Starts(f)
          /\ flash' = [flash EXCEPT !.todo = @ \ {f}, !.tries[f] = @ + 1]
          /\ UNCHANGED <<stray, hash>>
       \/ Fails /\ Raise(f)
    /\ UNCHANGED consoleRest

Failed(f) ==
    /\ At("polled") /\ Turn(f) /\ run[f] = "bad" /\ ~MayRetry(f)
    /\ KillAll
    /\ UNCHANGED <<consoleRest, faults>>

\* (mutant) after an error the console stays disabled
EnableIfOk ==
    /\ At("enable")
    /\ IF ~Link /\ flash.result = "ok" THEN Enter(Owner, "on") ELSE UNCHANGED calls
    /\ Flow("enabling")
    /\ UNCHANGED <<console, client, read, ops, faults>>

\* finally: _flash_consoles_enable(), whether it was enabled before or not; if that
\* fails, so does put_flash().
Enable ==
    /\ At("enable")
    /\ IF ~Link THEN Enter(Owner, "on") ELSE UNCHANGED calls
    /\ Flow("enabling")
    /\ UNCHANGED <<console, client, read, ops, faults>>

Enabled ==
    /\ At("enabling") /\ ~Busy(Owner)
    /\ flash' = [flash EXCEPT !.pc = "idle",
                              !.result = IF op[Owner] = "failed" THEN "error" ELSE @]
    /\ UNCHANGED <<consoleRest, faults, run, stray, content, hash>>

\* The flasher's process ends.
Exits(f) ==
    /\ run[f] = "running"
    /\ \/ /\ run' = [run EXCEPT ![f] = "ok"]
          /\ content' = [content EXCEPT ![f] = flash.want]
       \/ /\ run' = [run EXCEPT ![f] = "bad"]
          /\ UNCHANGED content
    /\ UNCHANGED <<consoleRest, faults, stray, hash, flash>>

\* One left behind may write until it ends, which nobody looks at.
StrayWrites(f) ==
    /\ f \in stray
    /\ content' = [content EXCEPT ![f] = Torn]
    /\ UNCHANGED <<consoleRest, faults, run, stray, hash, flash>>

FlashStep ==
    \/ Disable \/ Round \/ Enable \/ Enabled
    \/ \E f \in Flashers : FlashStart(f) \/ NotDone(f) \/ Recorded(f) \/ Retry(f) \/ Failed(f)

OwnerStep == FlashStep \/ ((On(Owner) \/ Off(Owner)) /\ UNCHANGED flashing)
ReaderStep == (Poll \/ Serve) /\ UNCHANGED flashing
Environment ==
    \/ (Output \/ Dies) /\ UNCHANGED flashing
    \/ \E f \in Flashers : Exits(f) \/ StrayWrites(f)

Next ==
    \/ PutEnable \/ PutDisable \/ PowerOff \/ PutFlash
    \/ OwnerStep \/ ReaderStep \/ Environment

Spec == Init /\ [][Next]_vars

\* Workers run what they started, and somebody reads the console again and again,
\* for longer than from one look at the link to the next.
Fairness ==
    /\ WF_vars(OwnerStep)
    /\ WF_vars(ReaderStep)
    /\ SF_vars(Polls(TRUE) /\ UNCHANGED flashing)

FairSpec == Spec /\ Fairness
=============================================================================
