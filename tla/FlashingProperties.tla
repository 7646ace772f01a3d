------------------------- MODULE FlashingProperties -------------------------
(* What a console and the image interface promise: properties of the          *)
(* behaviours of Flashing.                                                    *)
EXTENDS Flashing

Steps == {"none", "failed", "on", "purge", "spawn", "pidfile", "wait", "generation", "record",
          "off", "kill", "unlink"}
Reads == {"none", "look", "alive", "revive", "generation", "data", "again"}
Phases == {"idle", "disable", "start", "polled", "enable", "enabling"}
Contents == Images \cup {NoImage, Torn}

TypeOK ==
    /\ running \subseteq Workers /\ pid \in Workers \cup {NoPid}
    /\ recorded \in BOOLEAN /\ text \in {"known", "new", "mixed"}
    /\ crossed \subseteq Workers /\ disorder \in {"none", "overlap", "failed"}
    /\ generation \in Nat /\ file \in 0 .. MaxLen
    /\ op \in [Workers -> Steps]
    /\ client.gen \in Nat \cup {NoGen} /\ client.offset \in 0 .. MaxLen
    /\ client.got \subseteq 1 .. file
    /\ read.pc \in Reads /\ read.from \in 0 .. MaxLen /\ read.gen \in 0 .. generation
    /\ {read.redo, read.shall} \subseteq BOOLEAN
    /\ run \in [Flashers -> {"none", "running", "ok", "bad"}] /\ stray \subseteq Flashers
    /\ content \in [Flashers -> Contents] /\ hash \in [Flashers -> Images \cup {NoImage}]
    /\ flash.pc \in Phases /\ flash.left \in 0 .. Looks
    /\ flash.tries \in [Flashers -> 1 .. Retries + 1]
    /\ flash.todo \subseteq Flashers /\ flash.done \subseteq Flashers
    /\ flash.result \in {"none", "ok", "error"}
    /\ ops \in 0 .. MaxOps /\ faults \in 0 .. MaxFaults

\* A client that reads while the console is restarted under it, between its
\* reads or in the middle of one, misses nothing: once it knows the generation
\* of the file, it captured all there is up to its offset.  Not so if two starts
\* fell in one second, a start failed after it truncated the file, or two
\* processes write to it.
NothingMissed ==
    read.pc = "none" /\ client.gen = generation /\ text = "known"
    => 1 .. client.offset \subseteq client.got

\* Whoever raced whom to switch a console on and off, and whatever failed starts
\* left behind: the next start that no other call overlaps puts it in order.  From
\* then on, whenever all are done, no process runs but the one in the pid file,
\* which is the one that is looked for, and it is recorded to, so that it is
\* revived when it dies and disabled with the others.
RunningIsRecorded ==
    disorder = "none" /\ (\A w \in Workers : ~Busy(w)) =>
        running \subseteq {pid} /\ (running # {} => recorded)

\* put_flash() only says a flash went well when every destination holds what was
\* to be flashed and has its hash recorded, however many were retried and in
\* whatever order they ended.  Not so for one which a process is still writing
\* that an earlier call left behind.
SuccessMeansFlashed ==
    At("idle") /\ flash.result = "ok" =>
        \A f \in Flashers \ stray : content[f] = flash.want /\ hash[f] = flash.want

\* However put_flash() ends, but for an exception, the flashers it started ended
\* or were killed: none writes once the console and the power are back.
NoFlasherLeft ==
    flash.pc \in {"idle", "disable", "enable", "enabling"} => \A f \in Flashers : run[f] # "running"

\* A flash, however it ends, does not leave the console off, unless enabling it
\* is what failed: it is recorded as on, or the reader that revived it is about
\* to.  Not so if the reader gave up its start, as the process was late or died,
\* after put_flash() took it for a console that is on.
ConsoleBack ==
    [][At("enabling") /\ flash'.pc = "idle" /\ op[Owner] = "none" =>
          \/ recorded
          \/ op[Reader] \in {"wait", "generation", "record"}
          \/ disorder = "failed"]_vars

\* A console whose link died is revived, if it is read and shall be.
RevivedWhenRead == (ReEnable /\ recorded /\ ~Link) ~> (Link \/ ~recorded)

\* Every flash ends, with success, with an error or by its deadline.
FlashEnds == ~At("idle") ~> At("idle")
=============================================================================
