--------------------------- MODULE FlashingProofs ---------------------------
(* Theorems about Flashing for any flashers, images, bounds and drivers: the  *)
(* safety properties of a console that two workers and a flash switch on and  *)
(* off while a client reads it.                                               *)
EXTENDS FlashingProperties, TLAPS

ConsoleTyped ==
    /\ running \subseteq Workers /\ pid \in Workers \cup {NoPid}
    /\ recorded \in BOOLEAN /\ text \in {"known", "new", "mixed"}
    /\ crossed \subseteq Workers /\ disorder \in {"none", "overlap", "failed"}
    /\ generation \in Nat /\ file \in 0 .. MaxLen
    /\ op \in [Workers -> Steps]
    /\ ops \in 0 .. MaxOps /\ faults \in 0 .. MaxFaults

Clients == [gen : Nat \cup {NoGen}, offset : 0 .. MaxLen, got : SUBSET (1 .. MaxLen)]
Requests == [pc : Reads, from : 0 .. MaxLen, redo : BOOLEAN, shall : BOOLEAN, gen : Nat]

\* What was captured is in the file, and no read is ahead of the generation.
ReadingTyped ==
    /\ client \in Clients /\ client.got \subseteq 1 .. file
    /\ read \in Requests /\ read.gen <= generation

Flashes == [pc : Phases, want : Images \cup {NoImage}, left : 0 .. Looks,
            tries : [Flashers -> 1 .. Retries + 1], done : SUBSET Flashers,
            todo : SUBSET Flashers, result : {"none", "ok", "error"}]

FlashTyped ==
    /\ run \in [Flashers -> {"none", "running", "ok", "bad"}]
    /\ stray \in SUBSET Flashers
    /\ content \in [Flashers -> Contents]
    /\ hash \in [Flashers -> Images \cup {NoImage}]
    /\ flash \in Flashes

\* A destination is written what is asked for: there is an image while one is.
WantTyped == At("idle") \/ flash.want \in Images

TypeInv == ConsoleTyped /\ ReadingTyped /\ FlashTyped /\ WantTyped

-----------------------------------------------------------------------------
(* Typing.                                                                   *)

LEMMA NumbersTyped ==
    /\ MaxLen \in Nat /\ MaxOps \in Nat /\ MaxFaults \in Nat
    /\ Looks \in Nat /\ Retries \in Nat
  BY ConsoleBounds, FlashBounds

LEMMA IdleTyped == Idle \in Flashes
  BY NumbersTyped DEF Idle, Flashes, Phases

LEMMA InitTyped == Init => TypeInv
<1> SUFFICES ASSUME Init PROVE TypeInv
  OBVIOUS
<1> USE NumbersTyped
<1>1. ConsoleTyped
  <2>1. running \subseteq Workers /\ pid \in Workers \cup {NoPid} /\ recorded \in BOOLEAN /\ generation \in Nat
    BY DEF Init, ConsoleInit, Workers
  <2> QED BY <2>1 DEF Init, ConsoleInit, ConsoleTyped, Steps
<1>2. ReadingTyped
  BY DEF Init, ConsoleInit, ReadingTyped, Clients, Requests, Reads, NoRead, NoGen
<1>3. FlashTyped
  BY IdleTyped DEF Init, FlashTyped, Contents
<1>4. WantTyped
  BY DEF Init, WantTyped, At, Idle
<1> QED BY <1>1, <1>2, <1>3, <1>4 DEF TypeInv

\* A call that begins, goes on or ends.
CallsTyped ==
    /\ op \in [Workers -> Steps]
    /\ crossed \subseteq Workers /\ disorder \in {"none", "overlap", "failed"}

LEMMA CallTyped ==
    ASSUME ConsoleTyped, NEW w \in Workers, NEW s \in Steps,
           \/ Enter(w, s) \/ Go(w, s) \/ UNCHANGED calls
           \/ End(w, s) /\ disorder' \in {"none", "failed", disorder}
    PROVE  CallsTyped'
<1>1. CASE To(w, s)
  <2>1. op' \in [Workers -> Steps]
    BY <1>1 DEF To, ConsoleTyped
  <2> QED BY <2>1 DEF Enter, Go, End, calls, ConsoleTyped, CallsTyped
<1>2. CASE UNCHANGED calls
  BY <1>2 DEF calls, ConsoleTyped, CallsTyped
<1> QED BY <1>1, <1>2 DEF Enter, Go, End

LEMMA FaultsTyped ==
    ASSUME ConsoleTyped, Works \/ Fails
    PROVE  faults' \in 0 .. MaxFaults
  BY NumbersTyped DEF ConsoleTyped, Works, Fails

\* The steps of on() that start the process, and write to the file.
LEMMA StartTyped ==
    ASSUME TypeInv, NEW w \in Workers, OnUnlink(w) \/ OnPurge(w) \/ OnSpawn(w)
    PROVE  ConsoleTyped' /\ ReadingTyped'
<1> USE NumbersTyped DEF TypeInv
<1>1. CASE OnUnlink(w)
  <2>1. CallsTyped'
    BY <1>1, CallTyped DEF OnUnlink, Steps
  <2> QED BY <1>1, <2>1 DEF OnUnlink, CallsTyped, texts, ConsoleTyped, ReadingTyped
<1>2. CASE OnPurge(w)
  <2>1. CallsTyped'
    BY <1>2, CallTyped DEF OnPurge, Steps
  <2> QED BY <1>2, <2>1 DEF OnPurge, CallsTyped, texts, ConsoleTyped, ReadingTyped
<1>3. CASE OnSpawn(w)
  <2>1. CallsTyped' /\ faults' \in 0 .. MaxFaults
    BY <1>3, CallTyped, FaultsTyped DEF OnSpawn, Steps
  <2>2. running' \subseteq Workers /\ text' \in {"known", "new", "mixed"} /\ file' \in {0, file}
    BY <1>3 DEF OnSpawn, ConsoleTyped
  <2>3. file' \in 0 .. MaxLen
    BY <2>2 DEF ConsoleTyped
  <2>4. client' \in Clients /\ client'.got \subseteq 1 .. file'
    BY <1>3 DEF OnSpawn, ReadingTyped, Clients
  <2>5. UNCHANGED <<pid, recorded, generation, read, ops>>
    BY <1>3 DEF OnSpawn
  <2> QED BY <2>1, <2>2, <2>3, <2>4, <2>5 DEF CallsTyped, ConsoleTyped, ReadingTyped
<1> QED BY <1>1, <1>2, <1>3

\* Those that look after it, and record it.
LEMMA StartedTyped ==
    ASSUME TypeInv, NEW w \in Workers, OnPidfile(w) \/ OnWait(w) \/ OnGeneration(w) \/ OnRecord(w)
    PROVE  ConsoleTyped' /\ ReadingTyped'
<1> USE NumbersTyped DEF TypeInv
<1>1. CASE OnPidfile(w)
  <2>1. CallsTyped' /\ faults' \in 0 .. MaxFaults
    BY <1>1, CallTyped, FaultsTyped DEF OnPidfile, GiveUp, Steps
  <2>2. pid' \in Workers \cup {NoPid}
    BY <1>1 DEF OnPidfile, ConsoleTyped
  <2> QED BY <1>1, <2>1, <2>2 DEF OnPidfile, CallsTyped, texts, ConsoleTyped, ReadingTyped
<1>2. CASE OnWait(w)
  <2>1. CallsTyped' /\ faults' \in 0 .. MaxFaults
    BY <1>2, CallTyped, FaultsTyped DEF OnWait, GiveUp, Steps
  <2> QED BY <1>2, <2>1 DEF OnWait, CallsTyped, console, links, texts, ConsoleTyped, ReadingTyped
<1>3. CASE OnGeneration(w)
  <2>0. generation \in Nat /\ generation + 1 \in Nat /\ generation + 1 >= generation
    BY DEF ConsoleTyped
  <2>1. PICK g \in {generation, generation + 1}, n \in BOOLEAN : SetGeneration(w, g, n)
    BY <1>3 DEF OnGeneration
  <2>2. CallsTyped'
    BY <2>1, CallTyped DEF SetGeneration, Steps
  <2>3. generation' \in Nat /\ generation' >= generation /\ text' \in {"known", "new", "mixed"}
    BY <2>0, <2>1 DEF SetGeneration
  <2>4. read.gen <= generation'
    BY <2>3 DEF ReadingTyped, Requests, ConsoleTyped
  <2> QED BY <2>1, <2>2, <2>3, <2>4 DEF SetGeneration, CallsTyped, links, ConsoleTyped, ReadingTyped
<1>4. CASE OnRecord(w)
  <2>1. CallsTyped'
    BY <1>4, CallTyped DEF OnRecord, Steps
  <2> QED BY <1>4, <2>1 DEF OnRecord, CallsTyped, links, texts, ConsoleTyped, ReadingTyped
<1> QED BY <1>1, <1>2, <1>3, <1>4

LEMMA OffTyped ==
    ASSUME TypeInv, NEW w \in Workers, Off(w)
    PROVE  ConsoleTyped' /\ ReadingTyped'
<1> USE DEF TypeInv
<1>1. CallsTyped'
  BY CallTyped DEF Off, OffRecord, OffKill, OffUnlink, Steps
<1> QED BY <1>1 DEF Off, OffRecord, OffKill, OffUnlink, CallsTyped, links, texts, ConsoleTyped, ReadingTyped

LEMMA DriverTyped ==
    ASSUME TypeInv, NEW w \in Workers, On(w) \/ Off(w)
    PROVE  ConsoleTyped' /\ ReadingTyped'
  BY StartTyped, StartedTyped, OffTyped DEF On

LEMMA NoReadTyped == NoRead \in Requests /\ NoRead.gen = 0
  BY NumbersTyped DEF NoRead, Requests, Reads

\* The reads.
LEMMA ServeTyped ==
    ASSUME TypeInv, Poll \/ Serve
    PROVE  ConsoleTyped' /\ ReadingTyped'
<1> USE NumbersTyped DEF TypeInv
<1>1. Reader \in Workers
  BY DEF Workers
<1> USE DEF console, links, texts, calls
<1>2. CASE Poll \/ Restart
  <2>1. PICK from \in 0 .. MaxLen, redo \in BOOLEAN, due \in BOOLEAN : Ask(from, redo, due)
    <3>1. client.offset \in 0 .. MaxLen /\ 0 \in 0 .. MaxLen
      BY DEF ReadingTyped, Clients
    <3>2. \E due \in BOOLEAN : Ask(client.offset, FALSE, due) \/ Ask(0, TRUE, due)
      BY <1>2 DEF Poll, Polls, Restart
    <3> QED BY <3>1, <3>2
  <2>2. read' \in Requests /\ read'.gen = 0
    BY <2>1 DEF Ask, Requests, NoRead, Reads
  <2> QED BY <2>1, <2>2 DEF Ask, ConsoleTyped, ReadingTyped
<1>3. CASE Look
  <2>1. read' \in Requests /\ read'.gen = read.gen
    BY <1>3 DEF Look, ReadingTyped, ConsoleTyped, Requests, Reads
  <2> QED BY <1>3, <2>1 DEF Look, ConsoleTyped, ReadingTyped
<1>4. CASE Revive
  <2>1. CallsTyped'
    BY <1>1, <1>4, CallTyped DEF Revive, AfterLook, Steps
  <2>2. read' \in Requests /\ read'.gen = read.gen
    BY <1>4 DEF Revive, AfterLook, ReadingTyped, Requests, Reads
  <2>3. UNCHANGED <<console, client, ops, faults>>
    BY <1>4 DEF Revive, AfterLook
  <2> QED BY <2>1, <2>2, <2>3 DEF CallsTyped, ConsoleTyped, ReadingTyped
<1>5. CASE Revived
  <2>1. CallsTyped'
    BY <1>1, <1>5, CallTyped DEF Revived, Steps
  <2>3. read' \in Requests /\ read'.gen \in {0, read.gen}
    <3>1. CASE read' = NoRead
      BY <3>1, NoReadTyped
    <3>2. CASE read' = [read EXCEPT !.pc = "generation"]
      BY <3>2 DEF ReadingTyped, Requests, Reads
    <3> QED BY <1>5, <3>1, <3>2 DEF Revived
  <2> QED BY <1>5, <2>1, <2>3 DEF Revived, CallsTyped, ConsoleTyped, ReadingTyped
<1>6. CASE ReadGeneration
  <2>1. read' \in Requests /\ read'.gen = generation
    BY <1>6 DEF ReadGeneration, ReadingTyped, ConsoleTyped, Requests, Reads
  <2> QED BY <1>6, <2>1 DEF ReadGeneration, console, ConsoleTyped, ReadingTyped
<1>7. CASE ReadData
  <2>1. ConsoleTyped'
    BY <1>7 DEF ReadData, console, ConsoleTyped
  <2>2. client' \in Clients /\ client'.got \subseteq 1 .. file
    <3> DEFINE from == IF read.from > file THEN file ELSE read.from
               gen == IF client.gen = NoGen \/ read.redo THEN read.gen ELSE client.gen
               offset == IF Newer THEN client.offset ELSE file
               got == client.got \cup (from + 1 .. file)
    <3>1. from \in 0 .. MaxLen /\ from <= file
      BY DEF ConsoleTyped, ReadingTyped, Requests
    <3>2. gen \in Nat \cup {NoGen} /\ offset \in 0 .. MaxLen
      BY DEF ConsoleTyped, ReadingTyped, Requests, Clients
    <3>3. got \subseteq 1 .. file /\ 1 .. file \subseteq 1 .. MaxLen
      BY <3>1 DEF ConsoleTyped, ReadingTyped
    <3>4. client' = [gen |-> gen, offset |-> offset, got |-> got]
      BY <1>7 DEF ReadData
    <3> QED BY <3>2, <3>3, <3>4 DEF Clients
  <2>3. read' \in Requests /\ read'.gen = 0
    <3>1. [NoRead EXCEPT !.pc = "again"] \in Requests /\ [NoRead EXCEPT !.pc = "again"].gen = 0
      BY NoReadTyped DEF Requests, Reads
    <3> QED BY <1>7, <3>1, NoReadTyped DEF ReadData
  <2> QED BY <1>7, <2>1, <2>2, <2>3 DEF ReadData, console, ConsoleTyped, ReadingTyped
<1>8. CASE On(Reader)
  BY <1>1, <1>8, DriverTyped
<1> QED BY <1>2, <1>3, <1>4, <1>5, <1>6, <1>7, <1>8 DEF Serve

LEMMA OutsideTyped ==
    ASSUME TypeInv, Output \/ Dies
    PROVE  ConsoleTyped' /\ ReadingTyped'
<1> USE NumbersTyped DEF TypeInv, links, texts, calls
<1>1. CASE Output
  <2>1. file' \in 0 .. MaxLen /\ 1 .. file \subseteq 1 .. file'
    BY <1>1 DEF Output, ConsoleTyped
  <2> QED BY <1>1, <2>1 DEF Output, ConsoleTyped, ReadingTyped
<1>2. CASE Dies
  BY <1>2, FaultsTyped DEF Dies, ConsoleTyped, ReadingTyped
<1> QED BY <1>1, <1>2

\* What a flash that ends leaves of its locals.
LEMMA FinishTyped ==
    ASSUME TypeInv, ~At("idle"), NEW r \in {"ok", "error"}, Finish(r)
    PROVE  flash' \in Flashes /\ WantTyped' /\ flash'.pc = "enable"
  BY IdleTyped DEF TypeInv, FlashTyped, WantTyped, Finish, Flashes, Phases, At, Idle

LEMMA AbandonTyped ==
    ASSUME TypeInv, ~At("idle"), Abandon, content' \in [Flashers -> Contents]
    PROVE  FlashTyped' /\ WantTyped'
  BY FinishTyped DEF Abandon, TypeInv, FlashTyped

LEMMA KillAllTyped ==
    ASSUME TypeInv, ~At("idle"), KillAll
    PROVE  FlashTyped' /\ WantTyped'
  BY FinishTyped DEF KillAll, TypeInv, FlashTyped

LEMMA RaiseTyped ==
    ASSUME TypeInv, ~At("idle"), NEW f \in Flashers, Raise(f)
    PROVE  FlashTyped' /\ WantTyped'
<1>1. content' \in [Flashers -> Contents]
  BY DEF Raise, TypeInv, FlashTyped, Contents
<1> QED BY <1>1, AbandonTyped DEF Raise

\* Starting a flasher, whatever that does to the locals.
LEMMA StartsTyped ==
    ASSUME TypeInv, NEW f \in Flashers, Starts(f)
    PROVE  run' \in [Flashers -> {"none", "running", "ok", "bad"}] /\ content' \in [Flashers -> Contents]
  BY DEF Starts, TypeInv, FlashTyped, Contents

LEMMA FlashingTyped ==
    ASSUME TypeInv, NEW f \in Flashers,
           FlashStart(f) \/ NotDone(f) \/ Recorded(f) \/ Retry(f) \/ Failed(f)
    PROVE  FlashTyped' /\ WantTyped'
<1> USE NumbersTyped DEF TypeInv
<1>1. CASE FlashStart(f)
  <2>1. ~At("idle")
    BY <1>1 DEF FlashStart, At
  <2>2. CASE Raise(f)
    BY <2>1, <2>2, RaiseTyped
  <2>3. CASE Starts(f) /\ flash' = [flash EXCEPT !.todo = @ \ {f}] /\ UNCHANGED <<stray, hash>>
    BY <2>1, <2>3, StartsTyped DEF FlashTyped, WantTyped, Flashes, At
  <2> QED BY <1>1, <2>2, <2>3 DEF FlashStart
<1>2. CASE NotDone(f)
  BY <1>2 DEF NotDone, FlashTyped, WantTyped, Flashes, At
<1>3. CASE Recorded(f)
  BY <1>3 DEF Recorded, FlashTyped, WantTyped, Flashes, At
<1>4. CASE Retry(f)
  <2>1. ~At("idle") /\ flash.tries[f] <= Retries
    BY <1>4 DEF Retry, MayRetry, At
  <2>2. CASE Raise(f)
    BY <2>1, <2>2, RaiseTyped
  <2>3. CASE /\ Starts(f) /\ UNCHANGED <<stray, hash>>
             /\ flash' = [flash EXCEPT !.todo = @ \ {f}, !.tries[f] = @ + 1]
    <3>1. flash.tries \in [Flashers -> 1 .. Retries + 1] /\ flash.tries[f] + 1 \in 1 .. Retries + 1
      BY <2>1 DEF FlashTyped, Flashes
    <3>2. [flash.tries EXCEPT ![f] = @ + 1] \in [Flashers -> 1 .. Retries + 1]
      BY <3>1
    <3>3. flash' \in Flashes /\ flash'.want = flash.want /\ flash'.pc = flash.pc
      BY <2>3, <3>2 DEF FlashTyped, Flashes
    <3> QED BY <2>1, <2>3, <3>3, StartsTyped DEF FlashTyped, WantTyped, At
  <2> QED BY <1>4, <2>2, <2>3 DEF Retry
<1>5. CASE Failed(f)
  <2>1. ~At("idle")
    BY <1>5 DEF Failed, At
  <2> QED BY <1>5, <2>1, KillAllTyped DEF Failed
<1> QED BY <1>1, <1>2, <1>3, <1>4, <1>5

LEMMA RoundTyped ==
    ASSUME TypeInv, Round
    PROVE  FlashTyped' /\ WantTyped'
<1> USE NumbersTyped DEF TypeInv
<1>0. ~At("idle")
  BY DEF Round, At
<1>1. CASE /\ Finish("ok") /\ UNCHANGED <<stray, content, hash>>
           /\ run' = [f \in Flashers |-> IF run[f] = "ok" THEN "none" ELSE run[f]]
  BY <1>0, <1>1, FinishTyped DEF FlashTyped
<1>2. CASE KillAll
  BY <1>0, <1>2, KillAllTyped
<1>3. CASE /\ flash.left > 0 /\ UNCHANGED <<run, stray, content, hash>>
           /\ flash' = [flash EXCEPT !.pc = "polled", !.left = @ - 1, !.todo = Flashers \ flash.done]
  <2>1. flash.left - 1 \in 0 .. Looks
    BY <1>3 DEF FlashTyped, Flashes
  <2>2. flash' \in Flashes /\ flash'.want = flash.want
    BY <1>3, <2>1 DEF FlashTyped, Flashes, Phases
  <2> QED BY <1>0, <1>3, <2>2 DEF FlashTyped, WantTyped, At
<1>4. CASE Abandon /\ UNCHANGED content
  BY <1>0, <1>4, AbandonTyped DEF FlashTyped
<1> QED BY <1>1, <1>2, <1>3, <1>4 DEF Round

\* An operation of the owner, and what goes on outside.
LEMMA OperateTyped ==
    ASSUME TypeInv, PutEnable \/ PutDisable \/ PowerOff
    PROVE  TypeInv'
<1> USE NumbersTyped DEF TypeInv, links, texts
<1>1. PICK s \in {"on", "off"} : Operate(s)
  BY DEF PutEnable, PutDisable, PowerOff
<1>2. CallsTyped'
  BY <1>1, CallTyped DEF Operate, Steps, Workers
<1>3. ops' \in 0 .. MaxOps
  BY <1>1 DEF Operate, OwnerFree, ConsoleTyped
<1> QED BY <1>1, <1>2, <1>3
        DEF Operate, console, flashing, CallsTyped, ConsoleTyped, ReadingTyped, FlashTyped, WantTyped, At

LEMMA PutFlashTyped ==
    ASSUME TypeInv, PutFlash
    PROVE  TypeInv'
<1> USE NumbersTyped DEF TypeInv, links, texts
<1>1. CallsTyped'
  BY CallTyped DEF PutFlash, Steps, Workers
<1>2. ops' \in 0 .. MaxOps
  BY DEF PutFlash, OwnerFree, ConsoleTyped
<1>3. flash' \in Flashes /\ flash'.want \in Images
  BY IdleTyped DEF PutFlash, Flashes, Phases
<1> QED BY <1>1, <1>2, <1>3
        DEF PutFlash, console, CallsTyped, ConsoleTyped, ReadingTyped, FlashTyped, WantTyped

LEMMA ConsolesTyped ==
    ASSUME TypeInv, Disable \/ Enable \/ Enabled
    PROVE  TypeInv'
<1> USE NumbersTyped DEF TypeInv, links, texts
<1>1. CallsTyped'
  BY CallTyped DEF Disable, Enable, Enabled, consoleRest, Steps, Workers
<1>2. flash' \in Flashes /\ WantTyped'
  <2>1. CASE Disable
    BY <2>1 DEF Disable, FlashTyped, WantTyped, Flashes, Phases, At
  <2>2. CASE Enable
    BY <2>2 DEF Enable, Flow, Goto, FlashTyped, WantTyped, Flashes, Phases, At
  <2>3. CASE Enabled
    <3>1. \E r \in {"error", flash.result} : flash' = [flash EXCEPT !.pc = "idle", !.result = r]
      BY <2>3 DEF Enabled
    <3> QED BY <3>1 DEF FlashTyped, WantTyped, Flashes, Phases, At
  <2> QED BY <2>1, <2>2, <2>3
<1>3. UNCHANGED <<console, client, read, ops, faults, run, stray, content, hash>>
  BY DEF Disable, Enable, Enabled, Flow, consoleRest
<1> QED BY <1>1, <1>2, <1>3 DEF console, CallsTyped, ConsoleTyped, ReadingTyped, FlashTyped

\* A process that ends, or writes.
LEMMA ProcessTyped ==
    ASSUME TypeInv, NEW f \in Flashers, Exits(f) \/ StrayWrites(f)
    PROVE  TypeInv'
<1> USE DEF TypeInv, links, texts, calls
<1>1. CASE Exits(f)
  <2>1. run' \in [Flashers -> {"none", "running", "ok", "bad"}]
    BY <1>1 DEF Exits, FlashTyped
  <2>2. content' \in [Flashers -> Contents]
    BY <1>1 DEF Exits, FlashTyped, Flashes, Contents
  <2> QED BY <1>1, <2>1, <2>2
          DEF Exits, console, consoleRest, ConsoleTyped, ReadingTyped, FlashTyped, WantTyped, At
<1>2. CASE StrayWrites(f)
  <2>1. content' \in [Flashers -> Contents]
    BY <1>2 DEF StrayWrites, FlashTyped, Contents
  <2> QED BY <1>2, <2>1
          DEF StrayWrites, console, consoleRest, ConsoleTyped, ReadingTyped, FlashTyped, WantTyped, At
<1> QED BY <1>1, <1>2

LEMMA NextTyped == TypeInv /\ [Next]_vars => TypeInv'
<1> SUFFICES ASSUME TypeInv, [Next]_vars PROVE TypeInv'
  OBVIOUS
<1>0. Owner \in Workers
  BY DEF Workers
<1>1. CASE PutEnable \/ PutDisable \/ PowerOff
  BY <1>1, OperateTyped
<1>2. CASE PutFlash
  BY <1>2, PutFlashTyped
<1>3. CASE Disable \/ Enable \/ Enabled
  BY <1>3, ConsolesTyped
<1>4. CASE Round
  <2>1. UNCHANGED consoleRest /\ (Works \/ Fails)
    BY <1>4 DEF Round
  <2>2. ConsoleTyped' /\ ReadingTyped'
    BY <2>1, FaultsTyped DEF TypeInv, consoleRest, console, links, texts, calls, ConsoleTyped, ReadingTyped
  <2> QED BY <1>4, <2>2, RoundTyped DEF TypeInv
<1>5. ASSUME NEW f \in Flashers,
             FlashStart(f) \/ NotDone(f) \/ Recorded(f) \/ Retry(f) \/ Failed(f)
      PROVE  TypeInv'
  <2>1. UNCHANGED consoleRest /\ (Works \/ Fails)
    BY <1>5 DEF FlashStart, NotDone, Recorded, Retry, Failed, Works
  <2>2. ConsoleTyped' /\ ReadingTyped'
    BY <2>1, FaultsTyped DEF TypeInv, consoleRest, console, links, texts, calls, ConsoleTyped, ReadingTyped
  <2> QED BY <1>5, <2>2, FlashingTyped DEF TypeInv
<1>6. CASE (On(Owner) \/ Off(Owner)) /\ UNCHANGED flashing
  BY <1>0, <1>6, DriverTyped DEF TypeInv, flashing, FlashTyped, WantTyped, At
<1>7. CASE ReaderStep
  BY <1>7, ServeTyped DEF ReaderStep, TypeInv, flashing, FlashTyped, WantTyped, At
<1>8. CASE (Output \/ Dies) /\ UNCHANGED flashing
  BY <1>8, OutsideTyped DEF TypeInv, flashing, FlashTyped, WantTyped, At
<1>9. ASSUME NEW f \in Flashers, Exits(f) \/ StrayWrites(f)
      PROVE  TypeInv'
  BY <1>9, ProcessTyped
<1>10. CASE UNCHANGED vars
  BY <1>10 DEF vars, console, links, texts, calls, flashing, TypeInv, ConsoleTyped, ReadingTyped, FlashTyped, WantTyped, At
<1> QED BY <1>1, <1>2, <1>3, <1>4, <1>5, <1>6, <1>7, <1>8, <1>9, <1>10
        DEF Next, OwnerStep, FlashStep, Environment

LEMMA TypeInvariant == Spec => []TypeInv
<1> QED BY InitTyped, NextTyped, PTL DEF Spec

\* Every reachable state is well typed.
THEOREM TypeCorrect == Spec => []TypeOK
<1>1. TypeInv => TypeOK
  BY NumbersTyped DEF TypeInv, ConsoleTyped, ReadingTyped, FlashTyped, TypeOK, Clients, Requests, Flashes
<1> QED BY <1>1, TypeInvariant, PTL

-----------------------------------------------------------------------------
(* The flashers.  A process only runs while put_flash() looks after it; one   *)
(* that ended well left what was asked for; those done ended well and have    *)
(* the hash recorded; success was only said of all of them.                   *)

Quiet == flash.pc \notin {"start", "polled"} => \A f \in Flashers : run[f] = "none"

WellWritten == \A f \in Flashers \ stray : run[f] = "ok" => content[f] = flash.want

DoneWell ==
    \A f \in flash.done : flash.pc = "polled" /\ run[f] = "ok" /\ hash[f] = flash.want

SaidOfAll ==
    flash.result = "ok" =>
        /\ flash.pc \in {"enable", "enabling", "idle"}
        /\ \A f \in Flashers \ stray : content[f] = flash.want /\ hash[f] = flash.want

FlashInv == Quiet /\ WellWritten /\ DoneWell /\ SaidOfAll

\* Whoever ends a flash with an error leaves nothing running.
LEMMA ErrorQuiet ==
    ASSUME TypeInv, FlashInv, Finish("error"), run' = [f \in Flashers |-> "none"]
    PROVE  FlashInv'
<1>1. flash' = [Idle EXCEPT !.pc = "enable", !.want = flash.want, !.result = "error"]
  BY DEF Finish
<1>2. flash'.pc = "enable" /\ flash'.done = {} /\ flash'.result = "error"
  BY <1>1, IdleTyped DEF Flashes, Idle
<1>3. \A f \in Flashers : run'[f] = "none"
  OBVIOUS
<1> QED BY <1>2, <1>3 DEF FlashInv, Quiet, WellWritten, DoneWell, SaidOfAll

LEMMA AbandonInv ==
    ASSUME TypeInv, FlashInv, Abandon
    PROVE  FlashInv'
  BY ErrorQuiet DEF Abandon

LEMMA KillAllInv ==
    ASSUME TypeInv, FlashInv, KillAll
    PROVE  FlashInv'
  BY ErrorQuiet DEF KillAll

\* A flasher that is started, for the first time or again, was not done.
LEMMA StartsInv ==
    ASSUME TypeInv, FlashInv, NEW f \in Flashers, f \notin flash.done,
           Starts(f), UNCHANGED <<stray, hash>>,
           flash.pc \in {"start", "polled"},
           flash'.pc = flash.pc, flash'.want = flash.want,
           flash'.done = flash.done, flash'.result = flash.result
    PROVE  FlashInv'
<1> USE DEF TypeInv, FlashTyped
<1>1. \A g \in Flashers : IF g = f THEN run'[g] = "running" /\ content'[g] = Torn
                          ELSE run'[g] = run[g] /\ content'[g] = content[g]
  BY DEF Starts
<1>2. flash.result # "ok"
  BY DEF FlashInv, SaidOfAll
<1>3. flash.done \subseteq Flashers
  BY DEF Flashes
<1>4. Quiet' /\ SaidOfAll'
  BY <1>2 DEF Quiet, SaidOfAll
<1>5. WellWritten'
  BY <1>1 DEF FlashInv, WellWritten
<1>6. DoneWell'
  BY <1>1, <1>3 DEF FlashInv, DoneWell
<1> QED BY <1>4, <1>5, <1>6 DEF FlashInv

LEMMA FlashStartInv ==
    ASSUME TypeInv, FlashInv, NEW f \in Flashers, FlashStart(f)
    PROVE  FlashInv'
<1>1. At("start") /\ flash.done = {}
  BY DEF FlashStart, At, FlashInv, DoneWell
<1>2. CASE Raise(f)
  BY <1>2, AbandonInv DEF Raise
<1>3. CASE Starts(f) /\ flash' = [flash EXCEPT !.todo = @ \ {f}] /\ UNCHANGED <<stray, hash>>
  <2>1. /\ flash'.pc = flash.pc /\ flash'.want = flash.want
        /\ flash'.done = flash.done /\ flash'.result = flash.result
    BY <1>3 DEF TypeInv, FlashTyped, Flashes
  <2> QED BY <1>1, <1>3, <2>1, StartsInv DEF At
<1> QED BY <1>2, <1>3 DEF FlashStart

LEMMA RetryInv ==
    ASSUME TypeInv, FlashInv, NEW f \in Flashers, Retry(f)
    PROVE  FlashInv'
<1>1. At("polled") /\ f \notin flash.done
  BY DEF Retry, FlashInv, DoneWell
<1>2. CASE Raise(f)
  BY <1>2, AbandonInv DEF Raise
<1>3. CASE /\ Starts(f) /\ UNCHANGED <<stray, hash>>
           /\ flash' = [flash EXCEPT !.todo = @ \ {f}, !.tries[f] = @ + 1]
  <2>1. /\ flash'.pc = flash.pc /\ flash'.want = flash.want
        /\ flash'.done = flash.done /\ flash'.result = flash.result
    BY <1>3 DEF TypeInv, FlashTyped, Flashes
  <2> QED BY <1>1, <1>3, <2>1, StartsInv DEF At
<1> QED BY <1>2, <1>3 DEF Retry

LEMMA RecordedInv ==
    ASSUME TypeInv, FlashInv, NEW f \in Flashers, Recorded(f)
    PROVE  FlashInv'
<1> USE DEF TypeInv, FlashTyped
<1>1. /\ flash'.pc = "polled" /\ flash.pc = "polled" /\ flash'.want = flash.want
      /\ flash'.done = flash.done \cup {f} /\ flash'.result = flash.result
  BY DEF Recorded, Flashes, At
<1>2. run[f] = "ok" /\ UNCHANGED <<run, stray, content>>
  BY DEF Recorded, Good
<1>3. \A g \in Flashers : hash'[g] = IF g = f THEN flash.want ELSE hash[g]
  BY DEF Recorded
<1>4. Quiet' /\ SaidOfAll' /\ WellWritten'
  BY <1>1, <1>2 DEF FlashInv, Quiet, SaidOfAll, WellWritten
<1>5. DoneWell'
  BY <1>1, <1>2, <1>3 DEF FlashInv, DoneWell, Flashes
<1> QED BY <1>4, <1>5 DEF FlashInv

\* Success: all are done, so all ended well.
LEMMA SuccessInv ==
    ASSUME TypeInv, FlashInv, flash.pc = "polled", flash.done = Flashers,
           Finish("ok"), UNCHANGED <<stray, content, hash>>,
           run' = [f \in Flashers |-> IF run[f] = "ok" THEN "none" ELSE run[f]]
    PROVE  FlashInv'
<1>1. flash' = [Idle EXCEPT !.pc = "enable", !.want = flash.want, !.result = "ok"]
  BY DEF Finish
<1>2. flash'.pc = "enable" /\ flash'.done = {} /\ flash'.want = flash.want
  BY <1>1, IdleTyped DEF Flashes, Idle
<1>3. \A f \in Flashers : run[f] = "ok" /\ hash[f] = flash.want
  BY DEF FlashInv, DoneWell
<1>4. \A f \in Flashers : run'[f] = "none"
  BY <1>3
<1>5. Quiet' /\ DoneWell' /\ WellWritten'
  BY <1>2, <1>4 DEF Quiet, DoneWell, WellWritten
<1>6. SaidOfAll'
  BY <1>2, <1>3 DEF FlashInv, WellWritten, SaidOfAll
<1> QED BY <1>5, <1>6 DEF FlashInv

LEMMA RoundInv ==
    ASSUME TypeInv, FlashInv, Round
    PROVE  FlashInv'
<1>1. CASE /\ At("polled") /\ flash.done = Flashers
           /\ Finish("ok") /\ UNCHANGED <<stray, content, hash>>
           /\ run' = [f \in Flashers |-> IF run[f] = "ok" THEN "none" ELSE run[f]]
  BY <1>1, SuccessInv DEF At
<1>2. CASE KillAll
  BY <1>2, KillAllInv
<1>3. CASE /\ UNCHANGED <<run, stray, content, hash>>
           /\ flash' = [flash EXCEPT !.pc = "polled", !.left = @ - 1, !.todo = Flashers \ flash.done]
  <2>1. /\ flash'.pc = "polled" /\ flash'.want = flash.want
        /\ flash'.done = flash.done /\ flash'.result = flash.result
    BY <1>3 DEF TypeInv, FlashTyped, Flashes
  <2>2. flash.result # "ok"
    BY DEF Round, FlashInv, SaidOfAll
  <2> QED BY <1>3, <2>1, <2>2 DEF FlashInv, Quiet, DoneWell, WellWritten, SaidOfAll
<1>4. CASE Abandon
  BY <1>4, AbandonInv
<1> QED BY <1>1, <1>2, <1>3, <1>4 DEF Round

\* Steps between which no flasher runs.
LEMMA BetweenInv ==
    ASSUME TypeInv, FlashInv, PutFlash \/ Disable \/ Enable \/ Enabled
    PROVE  FlashInv'
<1> USE DEF TypeInv, FlashTyped
<1>0. UNCHANGED <<run, stray, content, hash>>
  BY DEF PutFlash, Disable, Enable, Enabled, Flow
<1>1. CASE PutFlash
  <2>1. flash.pc = "idle" /\ flash'.pc = "disable" /\ flash'.done = {} /\ flash'.result = "none"
    BY <1>1, IdleTyped DEF PutFlash, OwnerFree, At, Flashes, Idle
  <2> QED BY <1>0, <2>1 DEF FlashInv, Quiet, DoneWell, WellWritten, SaidOfAll
<1>2. CASE Disable
  <2>1. /\ flash.pc = "disable" /\ flash'.pc = "start" /\ flash'.want = flash.want
        /\ flash'.done = flash.done /\ flash'.result = flash.result
    BY <1>2 DEF Disable, At, Flashes
  <2> QED BY <1>0, <2>1 DEF FlashInv, Quiet, DoneWell, WellWritten, SaidOfAll
<1>3. CASE Enable
  <2>1. /\ flash.pc = "enable" /\ flash'.pc = "enabling" /\ flash'.want = flash.want
        /\ flash'.done = flash.done /\ flash'.result = flash.result
    BY <1>3 DEF Enable, Flow, Goto, At, Flashes
  <2> QED BY <1>0, <2>1 DEF FlashInv, Quiet, DoneWell, WellWritten, SaidOfAll
<1>4. CASE Enabled
  <2>1. /\ flash.pc = "enabling" /\ flash'.pc = "idle" /\ flash'.want = flash.want
        /\ flash'.done = flash.done /\ flash'.result \in {flash.result, "error"}
    BY <1>4 DEF Enabled, At, Flashes
  <2> QED BY <1>0, <2>1 DEF FlashInv, Quiet, DoneWell, WellWritten, SaidOfAll
<1> QED BY <1>1, <1>2, <1>3, <1>4

LEMMA ProcessInv ==
    ASSUME TypeInv, FlashInv, NEW f \in Flashers, Exits(f) \/ StrayWrites(f)
    PROVE  FlashInv'
<1> USE DEF TypeInv, FlashTyped
<1>1. CASE Exits(f)
  <2>1. run[f] = "running" /\ UNCHANGED <<stray, hash, flash>>
    BY <1>1 DEF Exits
  <2>2. flash.pc \in {"start", "polled"} /\ f \notin flash.done
    BY <2>1 DEF FlashInv, Quiet, DoneWell
  <2>3. \A g \in Flashers : g # f => run'[g] = run[g] /\ content'[g] = content[g]
    BY <1>1 DEF Exits
  <2>4. run'[f] = "ok" => content'[f] = flash.want
    BY <1>1 DEF Exits
  <2>5. Quiet' /\ SaidOfAll'
    BY <2>1, <2>2 DEF FlashInv, Quiet, SaidOfAll
  <2>6. WellWritten' /\ DoneWell'
    BY <2>1, <2>2, <2>3, <2>4 DEF FlashInv, WellWritten, DoneWell, Flashes
  <2> QED BY <2>5, <2>6 DEF FlashInv
<1>2. CASE StrayWrites(f)
  <2>1. f \in stray /\ UNCHANGED <<run, stray, hash, flash>>
    BY <1>2 DEF StrayWrites
  <2>2. \A g \in Flashers : g # f => content'[g] = content[g]
    BY <1>2 DEF StrayWrites
  <2> QED BY <2>1, <2>2 DEF FlashInv, Quiet, DoneWell, WellWritten, SaidOfAll
<1> QED BY <1>1, <1>2

LEMMA InitFlashInv == Init => FlashInv
  BY DEF Init, Idle, FlashInv, Quiet, DoneWell, WellWritten, SaidOfAll

LEMMA NextFlashInv == TypeInv /\ FlashInv /\ [Next]_vars => FlashInv'
<1> SUFFICES ASSUME TypeInv, FlashInv, [Next]_vars PROVE FlashInv'
  OBVIOUS
<1>1. CASE UNCHANGED flashing
  BY <1>1 DEF flashing, FlashInv, Quiet, DoneWell, WellWritten, SaidOfAll
<1>2. CASE PutFlash \/ Disable \/ Enable \/ Enabled
  BY <1>2, BetweenInv
<1>3. CASE Round
  BY <1>3, RoundInv
<1>4. ASSUME NEW f \in Flashers,
             FlashStart(f) \/ NotDone(f) \/ Recorded(f) \/ Retry(f) \/ Failed(f)
      PROVE  FlashInv'
  <2>1. CASE NotDone(f)
    <3>1. /\ flash'.pc = flash.pc /\ flash'.want = flash.want
          /\ flash'.done = flash.done /\ flash'.result = flash.result
      BY <2>1 DEF NotDone, TypeInv, FlashTyped, Flashes
    <3> QED BY <2>1, <3>1 DEF NotDone, FlashInv, Quiet, DoneWell, WellWritten, SaidOfAll
  <2>2. CASE Failed(f)
    BY <2>2, KillAllInv DEF Failed
  <2> QED BY <1>4, <2>1, <2>2, FlashStartInv, RecordedInv, RetryInv
<1>5. ASSUME NEW f \in Flashers, Exits(f) \/ StrayWrites(f)
      PROVE  FlashInv'
  BY <1>5, ProcessInv
<1>6. CASE UNCHANGED vars
  BY <1>1, <1>6 DEF vars, flashing
<1> QED BY <1>1, <1>2, <1>3, <1>4, <1>5, <1>6
        DEF Next, OwnerStep, FlashStep, ReaderStep, Environment,
            PutEnable, PutDisable, PowerOff, Operate

LEMMA FlashInvariant == Spec => []FlashInv
<1> QED BY InitFlashInv, NextFlashInv, TypeInvariant, PTL DEF Spec

\* A flash that put_flash() calls good is good, on every destination that no
\* process left by an earlier call still writes.
THEOREM SuccessIsTrue == Spec => []SuccessMeansFlashed
<1>1. FlashInv => SuccessMeansFlashed
  BY DEF FlashInv, SaidOfAll, SuccessMeansFlashed
<1> QED BY <1>1, FlashInvariant, PTL

\* No flasher that is looked after runs past the flash.
THEOREM NoneRunsOn == Spec => []NoFlasherLeft
<1>1. FlashInv => NoFlasherLeft
  BY DEF FlashInv, Quiet, NoFlasherLeft
<1> QED BY <1>1, FlashInvariant, PTL

-----------------------------------------------------------------------------
(* The console.  A worker that starts or ends it while no other does finds    *)
(* what its last step left.  Calls that overlap are known as such until each  *)
(* of them is over, and what they left until a start that none overlaps.      *)

Recording == {"wait", "generation", "record"}

\* The process a worker is starting is not yet the one in the pid file.
NotYetNamed == \A w \in Workers : op[w] \in {"purge", "spawn", "pidfile"} => pid # w

CrossedBusy == \A w \in crossed : Busy(w)
BothCrossed == (\A w \in Workers : Busy(w)) => crossed = Workers
Overlapped == crossed # {} => disorder # "none"

Alone(w) ==
    /\ op[w] = "purge" => pid = NoPid
    /\ op[w] = "spawn" => pid = NoPid /\ running = {}
    /\ op[w] = "pidfile" => pid = NoPid /\ running \subseteq {w}
    /\ op[w] \in Recording => pid = w /\ running \subseteq {w}
    /\ op[w] \in {"off", "kill"} /\ disorder = "none" => running \subseteq {pid}
    /\ op[w] = "kill" => ~recorded
    /\ op[w] = "unlink" /\ disorder = "none" => running = {} /\ ~recorded

AloneInOrder == \A w \in Workers \ crossed : Busy(w) => Alone(w)

\* A console that is on and not recorded is about to be recorded or killed, or its
\* start was given up.
RunsUnrecorded ==
    Link /\ ~recorded =>
        \/ \E w \in Workers : op[w] \in Recording
        \/ op[Owner] = "kill"
        \/ disorder = "failed"

LinkInv ==
    /\ NotYetNamed /\ CrossedBusy /\ BothCrossed /\ Overlapped
    /\ AloneInOrder /\ RunsUnrecorded /\ RunningIsRecorded

\* A worker that does something else is in no driver call, and a console taken for
\* one that is on is recorded, about to be, or its start was given up.
ReaderBusy == read.pc # "revive" => op[Reader] = "none"
ReaderOnlyOn == op[Reader] \notin {"off", "kill", "unlink"}

OwnerInFlash ==
    /\ flash.pc \in {"disable", "polled", "enable"} => op[Owner] = "none"
    /\ flash.pc = "start" => op[Owner] = "none" \/ flash.todo = Flashers
    /\ flash.pc = "enabling" => op[Owner] \notin {"off", "kill", "unlink"}

EnabledOrBeing ==
    flash.pc = "enabling" /\ op[Owner] = "none" =>
        recorded \/ op[Reader] \in Recording \/ disorder = "failed"

RaceInv == LinkInv /\ ReaderBusy /\ ReaderOnlyOn /\ OwnerInFlash /\ EnabledOrBeing

LEMMA TwoWorkers ==
    /\ Workers = {Owner, Reader} /\ Owner # Reader
    /\ NoPid \notin Workers
    /\ \A w \in Workers : \E v \in Workers : v # w /\ Workers = {v, w}
  BY WorkersDiffer DEF Workers

\* A step of a worker touches its own call only.
LEMMA ToElsewhere ==
    ASSUME TypeInv, NEW w \in Workers, NEW s, To(w, s)
    PROVE  op'[w] = s /\ \A v \in Workers : v # w => op'[v] = op[v]
  BY DEF To, TypeInv, ConsoleTyped

\* A call that begins: either it is alone, or both are known to overlap.
LEMMA EnterMoves ==
    ASSUME TypeInv, NEW w \in Workers, NEW v \in Workers, v # w, Workers = {v, w},
           NEW s, Enter(w, s)
    PROVE  /\ op'[w] = s /\ op'[v] = op[v]
           /\ \/ ~Busy(v) /\ UNCHANGED <<crossed, disorder>>
              \/ Busy(v) /\ crossed' = Workers /\ disorder' # "none"
                 /\ (disorder = "failed" => disorder' = "failed")
<1>1. op'[w] = s /\ op'[v] = op[v]
  BY ToElsewhere DEF Enter
<1>2. CASE Busy(v)
  <2>1. crossed' = Workers /\ disorder' = IF disorder = "none" THEN "overlap" ELSE disorder
    BY <1>2 DEF Enter
  <2> QED BY <1>1, <1>2, <2>1
<1>3. CASE ~Busy(v)
  <2>1. UNCHANGED <<crossed, disorder>>
    BY <1>3 DEF Enter
  <2> QED BY <1>1, <1>3, <2>1
<1> QED BY <1>2, <1>3

LEMMA EnterLink ==
    ASSUME TypeInv, LinkInv, NEW w \in Workers, ~Busy(w), NEW s \in {"on", "off"},
           Enter(w, s), UNCHANGED links, UNCHANGED recorded
    PROVE  LinkInv'
<1> USE DEF links
<1>1. PICK v \in Workers : v # w /\ Workers = {v, w}
  BY TwoWorkers
<1>2. /\ op'[w] = s /\ op'[v] = op[v]
      /\ \/ ~Busy(v) /\ UNCHANGED <<crossed, disorder>>
         \/ Busy(v) /\ crossed' = Workers /\ disorder' # "none"
            /\ (disorder = "failed" => disorder' = "failed")
  BY <1>1, EnterMoves
<1>3. op[w] \in {"none", "failed"}
  BY DEF Busy
<1>4. NotYetNamed' /\ CrossedBusy' /\ BothCrossed' /\ Overlapped'
  <2>1. crossed \subseteq Workers /\ pid' = pid
    BY DEF TypeInv, ConsoleTyped
  <2>2. NotYetNamed' /\ Overlapped'
    BY <1>1, <1>2, <1>3, <2>1, TwoWorkers DEF LinkInv, NotYetNamed, Overlapped
  <2>3. CrossedBusy' /\ BothCrossed'
    BY <1>1, <1>2, <1>3, <2>1 DEF LinkInv, CrossedBusy, BothCrossed, Busy
  <2> QED BY <2>2, <2>3
<1>5. RunsUnrecorded'
  BY <1>1, <1>2, <1>3, TwoWorkers DEF LinkInv, RunsUnrecorded, Link, Recording
<1>6. RunningIsRecorded'
  BY <1>2 DEF LinkInv, RunningIsRecorded, Busy
<1>7. AloneInOrder'
  BY <1>1, <1>2, <1>3 DEF LinkInv, AloneInOrder, Alone, RunningIsRecorded, Busy, Recording
<1> QED BY <1>4, <1>5, <1>6, <1>7 DEF LinkInv

\* A call that goes on: what the other worker finds, and what this one leaves.
LEMMA GoLink ==
    ASSUME TypeInv, LinkInv, NEW w \in Workers, Busy(w),
           NEW s \in {"purge", "spawn", "pidfile", "wait", "generation", "record", "kill", "unlink"},
           Go(w, s),
           s \in {"purge", "spawn", "pidfile"} => pid' # w,
           pid' \in {pid, NoPid, w},
           w \notin crossed => Alone(w)',
           RunsUnrecorded'
    PROVE  LinkInv'
<1>1. PICK v \in Workers : v # w /\ Workers = {v, w}
  BY TwoWorkers
<1>2. op'[w] = s /\ op'[v] = op[v] /\ UNCHANGED <<crossed, disorder>>
  BY <1>1, ToElsewhere DEF Go
<1>3. Busy(w)' /\ (Busy(v)' <=> Busy(v))
  BY <1>2 DEF Busy
<1>4. NotYetNamed' /\ CrossedBusy' /\ BothCrossed' /\ Overlapped'
  <2>1. NotYetNamed'
    BY <1>1, <1>2, TwoWorkers DEF LinkInv, NotYetNamed
  <2>2. crossed \subseteq Workers
    BY DEF TypeInv, ConsoleTyped
  <2> QED BY <1>1, <1>2, <2>1, <2>2 DEF LinkInv, CrossedBusy, BothCrossed, Overlapped, Busy
<1>5. RunningIsRecorded'
  BY <1>3 DEF RunningIsRecorded
<1>6. AloneInOrder'
  <2>1. Busy(v) => crossed = Workers
    BY <1>1 DEF LinkInv, BothCrossed
  <2> QED BY <1>1, <1>2, <1>3, <2>1 DEF AloneInOrder
<1> QED BY <1>4, <1>5, <1>6 DEF LinkInv

\* A call that ends: if it was alone, it leaves the console in order or known not
\* to be.
LEMMA EndLink ==
    ASSUME TypeInv, LinkInv, NEW w \in Workers, Busy(w), NEW s \in {"none", "failed"},
           End(w, s), pid' \in {pid, NoPid},
           disorder' # disorder => disorder' = "failed" \/ w \notin crossed,
           disorder' = "none" /\ w \notin crossed =>
               running' \subseteq {pid'} /\ (running' # {} => recorded'),
           RunsUnrecorded'
    PROVE  LinkInv'
<1>1. PICK v \in Workers : v # w /\ Workers = {v, w}
  BY TwoWorkers
<1>2. op'[w] = s /\ op'[v] = op[v] /\ crossed' = crossed \ {w}
  BY <1>1, ToElsewhere DEF End
<1>3. ~Busy(w)' /\ (Busy(v)' <=> Busy(v))
  BY <1>2 DEF Busy
<1>4. crossed = {} \/ crossed = Workers \/ (crossed = {w} /\ ~Busy(v))
  BY <1>1 DEF LinkInv, CrossedBusy, BothCrossed, TypeInv, ConsoleTyped
<1>5. NotYetNamed'
  BY <1>1, <1>2, TwoWorkers DEF LinkInv, NotYetNamed
<1>6. CrossedBusy' /\ BothCrossed'
  <2>1. crossed \subseteq Workers
    BY DEF TypeInv, ConsoleTyped
  <2> QED BY <1>1, <1>2, <2>1 DEF LinkInv, CrossedBusy, BothCrossed, Busy
<1>7. Overlapped'
  BY <1>1, <1>2, <1>4 DEF LinkInv, Overlapped
<1>8. w \in crossed => disorder' # "none"
  BY DEF LinkInv, Overlapped
<1>9. RunningIsRecorded'
  BY <1>8 DEF RunningIsRecorded
<1>10. AloneInOrder'
  BY <1>1, <1>2, <1>3 DEF LinkInv, AloneInOrder, BothCrossed
<1> QED BY <1>5, <1>6, <1>7, <1>9, <1>10 DEF LinkInv

\* The steps of on(), whatever another worker does meanwhile.
LEMMA OnLink ==
    ASSUME TypeInv, LinkInv, NEW w \in Workers, On(w)
    PROVE  LinkInv'
<1>0. PICK v \in Workers : v # w /\ Workers = {v, w}
  BY TwoWorkers
<1>1. CASE OnUnlink(w)
  <2>1. op[w] = "on" /\ Go(w, "purge") /\ pid' = NoPid /\ UNCHANGED <<running, recorded>>
    BY <1>1 DEF OnUnlink
  <2>2. op'[w] = "purge" /\ ~Link'
    BY <2>1, ToElsewhere, TwoWorkers DEF Go, Link, TypeInv, ConsoleTyped
  <2>3. Alone(w)' /\ RunsUnrecorded'
    BY <2>1, <2>2 DEF Alone, Recording, RunsUnrecorded
  <2> QED BY <2>1, <2>3, GoLink, TwoWorkers DEF Busy
<1>2. CASE OnPurge(w)
  <2>1. op[w] = "purge" /\ Go(w, "spawn") /\ running' = {} /\ UNCHANGED <<pid, recorded>>
    BY <1>2 DEF OnPurge
  <2>2. op'[w] = "spawn" /\ ~Link'
    BY <2>1, ToElsewhere DEF Go, Link
  <2>3. RunsUnrecorded' /\ pid # w
    BY <2>1, <2>2 DEF RunsUnrecorded, LinkInv, NotYetNamed
  <2>4. w \notin crossed => Alone(w)'
    BY <2>1, <2>2 DEF Alone, Recording, LinkInv, AloneInOrder, Busy
  <2> QED BY <2>1, <2>3, <2>4, GoLink DEF Busy
<1>3. CASE OnSpawn(w)
  <2>1. op[w] = "spawn" /\ pid # w /\ UNCHANGED <<pid, recorded>>
    BY <1>3 DEF OnSpawn, LinkInv, NotYetNamed
  <2>2. w \notin crossed => pid = NoPid /\ running = {}
    BY <2>1 DEF LinkInv, AloneInOrder, Alone, Busy
  <2>3. CASE Go(w, "pidfile") /\ running' = running \cup {w}
    <3>1. op'[w] = "pidfile" /\ op'[v] = op[v] /\ disorder' = disorder
      BY <1>0, <2>3, ToElsewhere DEF Go
    <3>2. Link' => Link
      BY <2>1, <2>3 DEF Link
    <3>3. RunsUnrecorded'
      BY <1>0, <2>1, <3>1, <3>2, TwoWorkers DEF RunsUnrecorded, LinkInv, Recording
    <3>4. w \notin crossed => Alone(w)'
      BY <2>1, <2>2, <2>3, <3>1 DEF Alone, Recording
    <3> QED BY <2>1, <2>3, <3>3, <3>4, GoLink DEF Busy
  <2>4. CASE End(w, "failed") /\ UNCHANGED <<running, disorder>>
    <3>1. op'[w] = "failed" /\ op'[v] = op[v]
      BY <1>0, <2>4, ToElsewhere DEF End
    <3>2. RunsUnrecorded'
      BY <1>0, <2>1, <2>4, <3>1, TwoWorkers DEF RunsUnrecorded, LinkInv, Recording, Link
    <3> QED BY <2>1, <2>2, <2>4, <3>2, EndLink DEF Busy
  <2> QED BY <1>3, <2>3, <2>4 DEF OnSpawn
<1>4. CASE OnPidfile(w)
  <2>1. op[w] = "pidfile" /\ UNCHANGED <<running, recorded>>
    BY <1>4 DEF OnPidfile
  <2>2. w \notin crossed => running \subseteq {w}
    BY <2>1 DEF LinkInv, AloneInOrder, Alone, Busy
  <2>3. CASE Go(w, "wait") /\ pid' = w
    <3>1. op'[w] = "wait"
      BY <2>3, ToElsewhere DEF Go
    <3>2. RunsUnrecorded'
      BY <3>1 DEF RunsUnrecorded, Recording
    <3>3. w \notin crossed => Alone(w)'
      BY <2>1, <2>2, <2>3, <3>1 DEF Alone, Recording
    <3> QED BY <2>1, <2>3, <3>2, <3>3, GoLink DEF Busy
  <2>4. CASE GiveUp(w) /\ UNCHANGED pid
    BY <2>1, <2>4, EndLink DEF GiveUp, RunsUnrecorded, Busy
  <2> QED BY <1>4, <2>3, <2>4 DEF OnPidfile
<1>5. CASE OnWait(w)
  <2>1. op[w] = "wait" /\ UNCHANGED <<running, pid, recorded>>
    BY <1>5 DEF OnWait, console, links
  <2>2. CASE Go(w, "generation")
    <3>1. op'[w] = "generation"
      BY <2>2, ToElsewhere DEF Go
    <3>2. RunsUnrecorded'
      BY <3>1 DEF RunsUnrecorded, Recording
    <3>3. w \notin crossed => Alone(w)'
      BY <2>1, <3>1 DEF Alone, Recording, LinkInv, AloneInOrder, Busy
    <3> QED BY <2>1, <2>2, <3>2, <3>3, GoLink DEF Busy
  <2>3. CASE GiveUp(w)
    BY <2>1, <2>3, EndLink DEF GiveUp, RunsUnrecorded, Busy
  <2> QED BY <1>5, <2>2, <2>3 DEF OnWait
<1>6. CASE OnGeneration(w)
  <2>1. op[w] = "generation" /\ Go(w, "record") /\ UNCHANGED <<running, pid, recorded>>
    BY <1>6 DEF OnGeneration, SetGeneration, links
  <2>2. op'[w] = "record"
    BY <2>1, ToElsewhere DEF Go
  <2>3. RunsUnrecorded'
    BY <2>2 DEF RunsUnrecorded, Recording
  <2>4. w \notin crossed => Alone(w)'
    BY <2>1, <2>2 DEF Alone, Recording, LinkInv, AloneInOrder, Busy
  <2> QED BY <2>1, <2>3, <2>4, GoLink DEF Busy
<1>7. CASE OnRecord(w)
  <2>1. op[w] = "record" /\ End(w, "none") /\ recorded' = TRUE /\ UNCHANGED <<running, pid>>
        /\ disorder' = IF w \in crossed THEN disorder ELSE "none"
    BY <1>7 DEF OnRecord, links
  <2>2. w \notin crossed => running \subseteq {pid}
    BY <2>1 DEF LinkInv, AloneInOrder, Alone, Busy, Recording
  <2>3. RunsUnrecorded'
    BY <2>1 DEF RunsUnrecorded
  <2> QED BY <2>1, <2>2, <2>3, EndLink DEF Busy
<1> QED BY <1>1, <1>2, <1>3, <1>4, <1>5, <1>6, <1>7 DEF On

\* The steps of off().
LEMMA OffLink ==
    ASSUME TypeInv, LinkInv, Off(Owner)
    PROVE  LinkInv'
<1>0. Owner \in Workers /\ Reader \in Workers /\ Owner # Reader /\ Workers = {Owner, Reader}
  BY TwoWorkers
<1>1. CASE OffRecord(Owner)
  <2>1. op[Owner] = "off" /\ Go(Owner, "kill") /\ recorded' = FALSE /\ UNCHANGED <<running, pid>>
    BY <1>1 DEF OffRecord, links
  <2>2. op'[Owner] = "kill" /\ disorder' = disorder
    BY <1>0, <2>1, ToElsewhere DEF Go
  <2>3. RunsUnrecorded'
    BY <2>2 DEF RunsUnrecorded
  <2>4. Owner \notin crossed => Alone(Owner)'
    BY <1>0, <2>1, <2>2 DEF Alone, Recording, LinkInv, AloneInOrder, Busy
  <2> QED BY <1>0, <2>1, <2>3, <2>4, GoLink DEF Busy
<1>2. CASE OffKill(Owner)
  <2>1. op[Owner] = "kill" /\ running' = running \ {pid} /\ UNCHANGED <<pid, recorded>>
    BY <1>2 DEF OffKill
  <2>2. ~Link'
    BY <2>1 DEF Link
  <2>3. RunsUnrecorded'
    BY <2>2 DEF RunsUnrecorded
  <2>4. Owner \notin crossed => ~recorded /\ (disorder = "none" => running' = {})
    BY <1>0, <2>1 DEF Alone, LinkInv, AloneInOrder, Busy
  <2>5. CASE Go(Owner, "unlink")
    <3>1. op'[Owner] = "unlink" /\ disorder' = disorder
      BY <1>0, <2>5, ToElsewhere DEF Go
    <3>2. Owner \notin crossed => Alone(Owner)'
      BY <2>1, <2>4, <3>1 DEF Alone, Recording
    <3> QED BY <1>0, <2>1, <2>3, <2>5, <3>2, GoLink DEF Busy
  <2>6. CASE End(Owner, "none") /\ UNCHANGED disorder
    BY <1>0, <2>1, <2>3, <2>4, <2>6, EndLink DEF Busy
  <2> QED BY <1>2, <2>5, <2>6 DEF OffKill
<1>3. CASE OffUnlink(Owner)
  <2>1. op[Owner] = "unlink" /\ End(Owner, "none") /\ pid' = NoPid /\ UNCHANGED <<running, recorded, disorder>>
    BY <1>3 DEF OffUnlink
  <2>2. ~Link'
    BY <2>1, TwoWorkers DEF Link, TypeInv, ConsoleTyped
  <2>3. RunsUnrecorded'
    BY <2>2 DEF RunsUnrecorded
  <2>4. Owner \notin crossed => (disorder = "none" => running = {})
    BY <1>0, <2>1 DEF Alone, LinkInv, AloneInOrder, Busy
  <2> QED BY <1>0, <2>1, <2>3, <2>4, EndLink DEF Busy
<1> QED BY <1>1, <1>2, <1>3 DEF Off

\* A process that dies, and a call of which the failure was taken note of.
LEMMA LessLink ==
    ASSUME TypeInv, LinkInv, running' \subseteq running, UNCHANGED <<pid, recorded, calls>>
    PROVE  LinkInv'
<1> USE DEF calls
<1>1. \A w \in Workers : Busy(w)' <=> Busy(w)
  BY DEF Busy
<1>2. \A w \in Workers : Alone(w) => Alone(w)'
  BY DEF Alone, Recording
<1>3. AloneInOrder' /\ NotYetNamed' /\ Overlapped'
  BY <1>2 DEF LinkInv, AloneInOrder, NotYetNamed, Overlapped, Busy
<1>4. CrossedBusy' /\ BothCrossed'
  BY DEF LinkInv, CrossedBusy, BothCrossed, Busy
<1>5. RunsUnrecorded' /\ RunningIsRecorded'
  BY DEF LinkInv, RunsUnrecorded, RunningIsRecorded, Link, Busy
<1> QED BY <1>3, <1>4, <1>5 DEF LinkInv

LEMMA DoneLink ==
    ASSUME TypeInv, LinkInv, NEW w \in Workers, ~Busy(w), Go(w, "none"), UNCHANGED <<links, recorded>>
    PROVE  LinkInv'
<1> USE DEF links
<1>0. PICK v \in Workers : v # w /\ Workers = {v, w}
  BY TwoWorkers
<1>1. op'[w] = "none" /\ op'[v] = op[v] /\ UNCHANGED <<crossed, disorder>>
  BY <1>0, ToElsewhere DEF Go
<1>2. op[w] \in {"none", "failed"} /\ crossed \subseteq Workers
  BY DEF Busy, TypeInv, ConsoleTyped
<1>3. NotYetNamed' /\ Overlapped' /\ RunsUnrecorded'
  BY <1>0, <1>1, <1>2, TwoWorkers DEF LinkInv, NotYetNamed, Overlapped, RunsUnrecorded, Link, Recording
<1>4. CrossedBusy' /\ BothCrossed' /\ RunningIsRecorded'
  BY <1>0, <1>1, <1>2 DEF LinkInv, CrossedBusy, BothCrossed, RunningIsRecorded, Busy
<1>5. AloneInOrder'
  BY <1>0, <1>1, <1>2 DEF LinkInv, AloneInOrder, Alone, Recording, Busy
<1> QED BY <1>3, <1>4, <1>5 DEF LinkInv

CallsInv == ReaderBusy /\ ReaderOnlyOn /\ OwnerInFlash /\ EnabledOrBeing

\* The drivers, called by the owner or by the reader.
LEMMA DriverMoves ==
    ASSUME TypeInv, NEW w \in Workers, On(w) \/ Off(w)
    PROVE  /\ UNCHANGED read /\ Busy(w)
           /\ \E s \in Steps : To(w, s) /\ (s \in {"off", "kill", "unlink"} => Off(w))
           /\ On(w) =>
                \/ UNCHANGED <<recorded, disorder>> /\ (op[w] \in Recording => op'[w] \in Recording)
                \/ disorder' = "failed" /\ UNCHANGED recorded
                \/ recorded' = TRUE
<1> USE DEF Steps, Recording, Busy
<1>1. CASE OnUnlink(w)
  BY <1>1 DEF OnUnlink, Go
<1>2. CASE OnPurge(w)
  BY <1>2 DEF OnPurge, Go
<1>3. CASE OnSpawn(w)
  BY <1>3 DEF OnSpawn, Go, End
<1>4. CASE OnPidfile(w)
  BY <1>4 DEF OnPidfile, Go, GiveUp, End
<1>5. CASE OnWait(w)
  <2>1. Go(w, "generation") \/ GiveUp(w)
    BY <1>5 DEF OnWait
  <2>2. op[w] = "wait" /\ UNCHANGED <<read, recorded>>
    BY <1>5 DEF OnWait, console
  <2>3. Go(w, "generation") => op'[w] = "generation"
    BY ToElsewhere DEF Go
  <2> QED BY <2>1, <2>2, <2>3 DEF Go, GiveUp, End
<1>6. CASE OnGeneration(w)
  <2>1. op[w] = "generation" /\ Go(w, "record") /\ UNCHANGED <<read, recorded>>
    BY <1>6 DEF OnGeneration, SetGeneration
  <2>2. op'[w] = "record"
    BY <2>1, ToElsewhere DEF Go
  <2> QED BY <2>1, <2>2 DEF Go
<1>7. CASE OnRecord(w)
  BY <1>7 DEF OnRecord, End
<1>8. CASE Off(w)
  <2>1. UNCHANGED read /\ op[w] \in {"off", "kill", "unlink"}
    BY <1>8 DEF Off, OffRecord, OffKill, OffUnlink
  <2>2. \E s \in {"kill", "unlink", "none"} : To(w, s)
    BY <1>8 DEF Off, OffRecord, OffKill, OffUnlink, Go, End
  <2>3. ~On(w)
    BY <2>1 DEF On, OnUnlink, OnPurge, OnSpawn, OnPidfile, OnWait, OnGeneration, SetGeneration, OnRecord
  <2> QED BY <1>8, <2>1, <2>2, <2>3
<1> QED BY <1>1, <1>2, <1>3, <1>4, <1>5, <1>6, <1>7, <1>8 DEF On

LEMMA OnCalls ==
    ASSUME TypeInv, CallsInv, NEW w \in Workers, On(w), UNCHANGED flashing
    PROVE  CallsInv'
<1>0. PICK v \in Workers : v # w /\ Workers = {v, w}
  BY TwoWorkers
<1>1. flash' = flash /\ read' = read /\ Busy(w)
  BY DriverMoves DEF flashing
<1>2. \/ UNCHANGED <<recorded, disorder>> /\ (op[w] \in Recording => op'[w] \in Recording)
      \/ disorder' = "failed" /\ UNCHANGED recorded
      \/ recorded' = TRUE
  BY DriverMoves
<1>3. op'[w] \notin {"off", "kill", "unlink"} /\ op'[v] = op[v] /\ op[w] \notin {"none", "off", "kill", "unlink"}
  <2>1. op[w] \notin {"none", "off", "kill", "unlink"}
    BY DEF On, OnUnlink, OnPurge, OnSpawn, OnPidfile, OnWait, OnGeneration, SetGeneration, OnRecord
  <2>2. ~Off(w)
    BY <2>1 DEF Off, OffRecord, OffKill, OffUnlink
  <2> QED BY <1>0, <2>1, <2>2, DriverMoves, ToElsewhere
<1>4. w = Owner => flash.pc \notin {"disable", "polled", "enable"}
                   /\ (flash.pc = "start" => flash.todo = Flashers)
  BY <1>3 DEF CallsInv, OwnerInFlash
<1>5. ReaderBusy' /\ ReaderOnlyOn' /\ OwnerInFlash'
  BY <1>0, <1>1, <1>3, <1>4, TwoWorkers DEF CallsInv, ReaderBusy, ReaderOnlyOn, OwnerInFlash
<1>6. EnabledOrBeing'
  <2> SUFFICES ASSUME flash.pc = "enabling", op'[Owner] = "none", ~recorded', disorder' # "failed"
               PROVE  op'[Reader] \in Recording
    BY <1>1 DEF EnabledOrBeing
  <2>1. UNCHANGED <<recorded, disorder>> /\ (op[w] \in Recording => op'[w] \in Recording)
    BY <1>2
  <2>2. CASE w = Reader
    BY <1>0, <2>1, <2>2, <1>3, TwoWorkers DEF CallsInv, EnabledOrBeing
  <2>3. CASE w = Owner
    <3>1. ~OnRecord(w)
      BY <2>1 DEF OnRecord
    <3>2. \A s : To(w, s) => s # "none"
      <4>1. \E s \in Steps \ {"none"} : To(w, s)
        BY <3>1 DEF On, OnUnlink, OnPurge, OnSpawn, OnPidfile, OnWait, OnGeneration, SetGeneration,
                    Go, GiveUp, End, Steps
      <4> QED BY <4>1, ToElsewhere
    <3> QED BY <2>3, <3>2, DriverMoves, ToElsewhere
  <2> QED BY <2>2, <2>3, TwoWorkers
<1> QED BY <1>5, <1>6 DEF CallsInv

LEMMA OffCalls ==
    ASSUME TypeInv, CallsInv, Off(Owner), UNCHANGED flashing
    PROVE  CallsInv'
<1>1. flash' = flash /\ read' = read
  BY DEF flashing, Off, OffRecord, OffKill, OffUnlink
<1>2. op[Owner] \in {"off", "kill", "unlink"} /\ op'[Reader] = op[Reader]
  BY ToElsewhere, TwoWorkers DEF Off, OffRecord, OffKill, OffUnlink, Go, End
<1>3. flash.pc \notin {"disable", "polled", "enable", "enabling"}
      /\ (flash.pc = "start" => flash.todo = Flashers)
  BY <1>2 DEF CallsInv, OwnerInFlash
<1> QED BY <1>1, <1>2, <1>3 DEF CallsInv, ReaderBusy, ReaderOnlyOn, OwnerInFlash, EnabledOrBeing

\* The reader reads, and revives a console.
LEMMA ReaderRace ==
    ASSUME TypeInv, RaceInv, ReaderStep
    PROVE  RaceInv'
<1> USE TwoWorkers DEF RaceInv
<1>0. CallsInv /\ flash' = flash
  BY DEF CallsInv, ReaderStep, flashing
<1>1. CASE On(Reader)
  BY <1>0, <1>1, OnLink, OnCalls DEF ReaderStep, CallsInv
<1>2. CASE Revive
  <2>1. read.pc = "alive" /\ op[Reader] = "none" /\ UNCHANGED console
    BY <1>2 DEF Revive, AfterLook, ReaderBusy
  <2>2. CASE Enter(Reader, "on") /\ read' = [read EXCEPT !.pc = "revive", !.shall = FALSE]
    <3>1. op'[Reader] = "on" /\ op'[Owner] = op[Owner] /\ (disorder = "failed" => disorder' = "failed")
      BY <2>2, EnterMoves
    <3>2. read'.pc = "revive" /\ recorded' = recorded
      BY <2>1, <2>2 DEF TypeInv, ReadingTyped, Requests, console
    <3>3. LinkInv'
      BY <2>1, <2>2, EnterLink DEF Busy, console
    <3> QED BY <1>0, <2>1, <3>1, <3>2, <3>3
            DEF ReaderBusy, ReaderOnlyOn, OwnerInFlash, EnabledOrBeing, Recording
  <2>3. CASE UNCHANGED calls
    <3>1. LinkInv'
      BY <2>1, <2>3, LessLink DEF console, links
    <3> QED BY <1>0, <2>1, <2>3, <3>1
            DEF console, calls, ReaderBusy, ReaderOnlyOn, OwnerInFlash, EnabledOrBeing
  <2> QED BY <1>2, <2>2, <2>3 DEF Revive, AfterLook
<1>3. CASE Revived
  <2>1. ~Busy(Reader) /\ Go(Reader, "none") /\ UNCHANGED console
    BY <1>3 DEF Revived
  <2>2. op'[Reader] = "none" /\ op'[Owner] = op[Owner] /\ UNCHANGED <<disorder, recorded>>
    BY <2>1, ToElsewhere DEF Go, console
  <2>3. LinkInv'
    BY <2>1, DoneLink DEF console
  <2>4. op[Reader] \notin Recording
    BY <2>1 DEF Busy, Recording
  <2> QED BY <1>0, <2>2, <2>3, <2>4
          DEF ReaderBusy, ReaderOnlyOn, OwnerInFlash, EnabledOrBeing
<1>4. CASE Poll \/ Restart \/ Look \/ ReadGeneration \/ ReadData
  <2>1. UNCHANGED <<running, pid, recorded, calls>>
    BY <1>4 DEF Poll, Polls, Restart, Ask, Look, ReadGeneration, ReadData, console, links
  <2>2. read.pc # "revive"
    BY <1>4 DEF Poll, Polls, Restart, Look, ReadGeneration, ReadData
  <2>3. LinkInv'
    BY <2>1, LessLink
  <2> QED BY <1>0, <2>1, <2>2, <2>3
          DEF calls, ReaderBusy, ReaderOnlyOn, OwnerInFlash, EnabledOrBeing
<1> QED BY <1>1, <1>2, <1>3, <1>4 DEF ReaderStep, Serve

\* The owner begins something, or a flash switches the console, while no call of
\* the owner is under way.
LEMMA OwnerBeginsRace ==
    ASSUME TypeInv, RaceInv, PutEnable \/ PutDisable \/ PowerOff \/ PutFlash
    PROVE  RaceInv'
<1> USE TwoWorkers DEF RaceInv
<1>0. /\ UNCHANGED <<links, recorded, read>> /\ ~Busy(Owner) /\ flash.pc = "idle"
  BY DEF PutEnable, PutDisable, PowerOff, Operate, PutFlash, OwnerFree, At, console
<1>1. CASE PutEnable \/ PutDisable \/ PowerOff
  <2>1. PICK s \in {"on", "off"} : Enter(Owner, s) /\ flash' = flash
    BY <1>1 DEF PutEnable, PutDisable, PowerOff, Operate, flashing
  <2>2. LinkInv' /\ op'[Reader] = op[Reader]
    BY <1>0, <2>1, EnterLink, EnterMoves
  <2> QED BY <1>0, <2>1, <2>2 DEF ReaderBusy, ReaderOnlyOn, OwnerInFlash, EnabledOrBeing
<1>2. CASE PutFlash
  <2>1. flash'.pc = "disable" /\ Go(Owner, "none")
    BY <1>2, IdleTyped DEF PutFlash, Flashes
  <2>2. LinkInv' /\ op'[Reader] = op[Reader] /\ op'[Owner] = "none"
    BY <1>0, <2>1, DoneLink, ToElsewhere DEF Go
  <2> QED BY <1>0, <2>1, <2>2 DEF ReaderBusy, ReaderOnlyOn, OwnerInFlash, EnabledOrBeing
<1> QED BY <1>1, <1>2

LEMMA OwnerFlashesRace ==
    ASSUME TypeInv, RaceInv, Disable \/ Enable \/ Enabled
    PROVE  RaceInv'
<1> USE TwoWorkers DEF RaceInv
<1>0. UNCHANGED <<running, pid, recorded, read>>
  BY DEF Disable, Enable, Enabled, console, consoleRest, links
<1>1. CASE Disable
  <2>1. flash.pc = "disable" /\ flash'.pc = "start" /\ flash'.todo = Flashers /\ op[Owner] = "none"
    BY <1>1 DEF Disable, At, TypeInv, FlashTyped, Flashes, OwnerInFlash
  <2>2. LinkInv' /\ op'[Reader] = op[Reader]
    <3>1. CASE UNCHANGED calls
      BY <1>0, <3>1, LessLink DEF calls
    <3>2. CASE Enter(Owner, "off")
      BY <1>0, <2>1, <3>2, EnterLink, EnterMoves DEF links, Busy
    <3> QED BY <1>1, <3>1, <3>2 DEF Disable
  <2> QED BY <1>0, <2>1, <2>2 DEF ReaderBusy, ReaderOnlyOn, OwnerInFlash, EnabledOrBeing
<1>2. CASE Enable
  <2>1. flash.pc = "enable" /\ flash'.pc = "enabling" /\ op[Owner] = "none"
    BY <1>2 DEF Enable, Flow, Goto, At, TypeInv, FlashTyped, Flashes, OwnerInFlash
  <2>2. CASE Enter(Owner, "on")
    <3>1. LinkInv' /\ op'[Reader] = op[Reader] /\ op'[Owner] = "on"
      BY <1>0, <2>1, <2>2, EnterLink, EnterMoves DEF links, Busy
    <3> QED BY <1>0, <2>1, <3>1 DEF ReaderBusy, ReaderOnlyOn, OwnerInFlash, EnabledOrBeing
  <2>3. CASE Link /\ UNCHANGED calls
    <3>1. LinkInv' /\ UNCHANGED <<op, disorder>>
      BY <1>0, <2>3, LessLink DEF calls
    <3>2. recorded \/ op[Reader] \in Recording \/ disorder = "failed"
      BY <2>1, <2>3 DEF LinkInv, RunsUnrecorded, Recording
    <3> QED BY <1>0, <2>1, <3>1, <3>2 DEF ReaderBusy, ReaderOnlyOn, OwnerInFlash, EnabledOrBeing
  <2> QED BY <1>2, <2>2, <2>3 DEF Enable
<1>3. CASE Enabled
  <2>1. flash'.pc = "idle" /\ UNCHANGED calls
    BY <1>3 DEF Enabled, consoleRest, TypeInv, FlashTyped, Flashes
  <2>2. LinkInv'
    BY <1>0, <2>1, LessLink
  <2> QED BY <1>0, <2>1, <2>2 DEF calls, ReaderBusy, ReaderOnlyOn, OwnerInFlash, EnabledOrBeing
<1> QED BY <1>1, <1>2, <1>3

\* While flashers are started, polled and given up the owner does nothing else,
\* and from the first that is started the console is switched off.
LEMMA FlashersRace ==
    ASSUME TypeInv, RaceInv,
           Round \/ \E f \in Flashers : FlashStart(f) \/ NotDone(f) \/ Recorded(f) \/ Retry(f) \/ Failed(f)
    PROVE  RaceInv'
<1> USE DEF RaceInv
<1>1. UNCHANGED consoleRest
  BY DEF Round, FlashStart, NotDone, Recorded, Retry, Failed
<1>2. op[Owner] = "none"
  BY FlashBounds DEF Round, FlashStart, NotDone, Recorded, Retry, Failed, At, OwnerInFlash
<1>3. flash'.pc # "enabling"
  <2>1. ASSUME NEW r \in {"ok", "error"}, Finish(r)
        PROVE  flash'.pc = "enable"
    BY <2>1, IdleTyped DEF Finish, Flashes
  <2>2. CASE Round
    BY <2>1, <2>2 DEF Round, KillAll, Abandon, TypeInv, FlashTyped, Flashes
  <2>3. ASSUME NEW f \in Flashers, FlashStart(f) \/ NotDone(f) \/ Recorded(f) \/ Retry(f) \/ Failed(f)
        PROVE  flash'.pc # "enabling"
    BY <2>1, <2>3 DEF FlashStart, NotDone, Recorded, Retry, Failed, Raise, Abandon, KillAll, At,
                      TypeInv, FlashTyped, Flashes
  <2> QED BY <2>2, <2>3
<1>4. LinkInv'
  BY <1>1, LessLink DEF consoleRest, console, links
<1> QED BY <1>1, <1>2, <1>3, <1>4
        DEF consoleRest, console, calls, ReaderBusy, ReaderOnlyOn, OwnerInFlash, EnabledOrBeing

LEMMA InitRaceInv == Init => RaceInv
<1> SUFFICES ASSUME Init PROVE RaceInv
  OBVIOUS
<1>1. /\ \A w \in Workers : op[w] = "none"
      /\ crossed = {} /\ running \subseteq {pid} /\ (running # {} => recorded)
      /\ read.pc = "none" /\ flash.pc = "idle"
  BY DEF Init, ConsoleInit, NoRead, Idle
<1>2. LinkInv
  BY <1>1 DEF LinkInv, NotYetNamed, CrossedBusy, BothCrossed, Overlapped, AloneInOrder, RunsUnrecorded,
              RunningIsRecorded, Link, Busy, Workers
<1> QED BY <1>1, <1>2, TwoWorkers DEF RaceInv, ReaderBusy, ReaderOnlyOn, OwnerInFlash, EnabledOrBeing

LEMMA NextRaceInv == TypeInv /\ RaceInv /\ [Next]_vars => RaceInv'
<1> SUFFICES ASSUME TypeInv, RaceInv, [Next]_vars PROVE RaceInv'
  OBVIOUS
<1>0. Owner \in Workers /\ LinkInv /\ CallsInv
  BY TwoWorkers DEF RaceInv, CallsInv
<1>1. CASE (On(Owner) \/ Off(Owner)) /\ UNCHANGED flashing
  BY <1>0, <1>1, OnLink, OffLink, OnCalls, OffCalls DEF RaceInv, CallsInv
<1>2. CASE ReaderStep
  BY <1>2, ReaderRace
<1>3. CASE PutEnable \/ PutDisable \/ PowerOff \/ PutFlash \/ Disable \/ Enable \/ Enabled
  BY <1>3, OwnerBeginsRace, OwnerFlashesRace
<1>4. CASE Round \/ \E f \in Flashers : FlashStart(f) \/ NotDone(f) \/ Recorded(f) \/ Retry(f) \/ Failed(f)
  BY <1>4, FlashersRace
<1>5. CASE running' \subseteq running /\ UNCHANGED <<pid, recorded, calls, read, flash>>
  BY <1>0, <1>5, LessLink
     DEF RaceInv, calls, ReaderBusy, ReaderOnlyOn, OwnerInFlash, EnabledOrBeing
<1>6. CASE Environment \/ UNCHANGED vars
  BY <1>5, <1>6 DEF Environment, Output, Dies, Exits, StrayWrites, vars, flashing, console, links, consoleRest
<1> QED BY <1>1, <1>2, <1>3, <1>4, <1>6 DEF Next, OwnerStep, FlashStep

LEMMA RaceInvariant == Spec => []RaceInv
<1> QED BY InitRaceInv, NextRaceInv, TypeInvariant, PTL DEF Spec

\* Whatever calls overlapped and whatever starts failed, from the next start on
\* that no other call overlaps the one process that runs is the one that is looked
\* for, and is recorded.
THEOREM RunsRecorded == Spec => []RunningIsRecorded
<1>1. RaceInv => RunningIsRecorded
  BY DEF RaceInv, LinkInv
<1> QED BY <1>1, RaceInvariant, PTL

\* A flash leaves the console on, or coming on, unless enabling it failed or a
\* start was given up that it took for a console that is on.
THEOREM FlashGivesConsoleBack == Spec => ConsoleBack
<1>1. TypeInv /\ RaceInv /\ [Next]_vars =>
        [At("enabling") /\ flash'.pc = "idle" /\ op[Owner] = "none" =>
            \/ recorded
            \/ op[Reader] \in {"wait", "generation", "record"}
            \/ disorder = "failed"]_vars
  BY DEF RaceInv, EnabledOrBeing, Recording, At
<1> QED BY <1>1, TypeInvariant, RaceInvariant, PTL DEF Spec, ConsoleBack

-----------------------------------------------------------------------------
(* The client.  A read starts no later than where the client is; it starts    *)
(* over at the beginning; and what the client knows of the generation of a    *)
(* file, it captured from the file as it is.                                  *)

NotAhead == client.gen = NoGen \/ client.gen <= generation
FromWhereItWas == read.from <= client.offset
FromTheStart == client.gen = NoGen \/ read.redo => read.from = 0
Captured == text = "known" /\ client.gen = generation => 1 .. client.offset \subseteq client.got

ReadInv == NotAhead /\ FromWhereItWas /\ FromTheStart /\ Captured
           /\ (client.gen = NoGen => client.offset = 0)

\* The drivers: a truncated file has no generation of its own before it gets a new
\* one.
LEMMA DriverRead ==
    ASSUME TypeInv, ReadInv, NEW w \in Workers, On(w) \/ Off(w)
    PROVE  ReadInv'
<1> USE DEF TypeInv, ConsoleTyped, ReadingTyped, Clients, Requests
<1>0. generation \in Nat /\ generation >= 0 /\ NoGen # generation
  BY DEF NoGen
<1>1. CASE OnSpawn(w)
  <2>1. /\ client'.gen = client.gen /\ client'.offset = client.offset
        /\ UNCHANGED <<read, generation>>
    BY <1>1 DEF OnSpawn
  <2>2. text' # "known" \/ UNCHANGED <<client, text>>
    BY <1>1 DEF OnSpawn
  <2> QED BY <2>1, <2>2 DEF ReadInv, NotAhead, FromWhereItWas, FromTheStart, Captured
<1>2. CASE SetGeneration(w, generation + 1, TRUE)
  <2>1. generation' = generation + 1 /\ UNCHANGED <<client, read>>
    BY <1>2 DEF SetGeneration
  <2>2. client.gen # generation' /\ (client.gen = NoGen \/ client.gen <= generation')
    BY <1>0, <2>1 DEF ReadInv, NotAhead, NoGen
  <2> QED BY <2>1, <2>2 DEF ReadInv, NotAhead, FromWhereItWas, FromTheStart, Captured
<1>3. CASE SetGeneration(w, generation, FALSE)
  <2>1. text' # "known" /\ UNCHANGED <<client, read, generation>>
    BY <1>3 DEF SetGeneration
  <2> QED BY <2>1 DEF ReadInv, NotAhead, FromWhereItWas, FromTheStart, Captured
<1>4. CASE UNCHANGED <<client, read, generation, text>>
  BY <1>4 DEF ReadInv, NotAhead, FromWhereItWas, FromTheStart, Captured
<1> QED BY <1>1, <1>2, <1>3, <1>4
        DEF On, OnUnlink, OnPurge, OnPidfile, OnWait, OnGeneration, OnRecord,
            Off, OffRecord, OffKill, OffUnlink, console, texts

\* The answer comes: what there is from where the read started.
LEMMA DataRead ==
    ASSUME TypeInv, ReadInv, ReadData
    PROVE  ReadInv'
<1> USE DEF TypeInv, ConsoleTyped, ReadingTyped, Clients, Requests
<1> DEFINE from == IF read.from > file THEN file ELSE read.from
           first == client.gen = NoGen \/ read.redo
<1>1. UNCHANGED <<generation, text>> /\ read'.from = 0 /\ ~read'.redo
  BY DEF ReadData, console, texts, NoRead
<1>2. /\ client'.gen = IF first THEN read.gen ELSE client.gen
      /\ client'.offset = IF Newer THEN client.offset ELSE file
      /\ client'.got = client.got \cup (from + 1 .. file)
  BY DEF ReadData
<1>3. client'.gen # NoGen /\ client'.gen <= generation
  BY <1>2 DEF ReadInv, NotAhead, NoGen
<1>4. NotAhead' /\ FromWhereItWas' /\ FromTheStart'
  <2>1. client'.offset >= 0
    BY <1>2
  <2> QED BY <1>1, <1>3, <2>1 DEF NotAhead, FromWhereItWas, FromTheStart
<1>5. Captured'
  <2> SUFFICES ASSUME text = "known", client'.gen = generation
               PROVE  1 .. client'.offset \subseteq client'.got
    BY <1>1 DEF Captured
  <2>1. CASE first
    <3>1. read.from = 0 /\ ~Newer /\ from = 0
      BY <2>1 DEF ReadInv, FromTheStart, Newer
    <3> QED BY <1>2, <3>1
  <2>2. CASE ~first
    <3>1. client.gen = generation /\ ~Newer
      BY <1>2, <2>2 DEF Newer
    <3>2. 1 .. client.offset \subseteq client.got
      BY <3>1 DEF ReadInv, Captured
    <3>3. from <= client.offset
      BY DEF ReadInv, FromWhereItWas
    <3>4. \A i \in 1 .. file : i \in 1 .. client.offset \/ i \in from + 1 .. file
      BY <3>3
    <3> QED BY <1>2, <3>1, <3>2, <3>4
  <2> QED BY <2>1, <2>2
<1> QED BY <1>1, <1>3, <1>4, <1>5 DEF ReadInv

LEMMA ReaderRead ==
    ASSUME TypeInv, ReadInv, Poll \/ Serve
    PROVE  ReadInv'
<1> USE DEF TypeInv, ReadingTyped, Clients, Requests, console, texts
<1>1. Reader \in Workers
  BY DEF Workers
<1>2. CASE Poll
  <2>1. read'.from = client.offset /\ ~read'.redo /\ UNCHANGED <<generation, text, client>>
    BY <1>2 DEF Poll, Polls, Ask, NoRead
  <2> QED BY <2>1 DEF ReadInv, NotAhead, FromWhereItWas, FromTheStart, Captured
<1>3. CASE Restart
  <2>1. read'.from = 0 /\ UNCHANGED <<generation, text, client>>
    BY <1>3 DEF Restart, Ask, NoRead
  <2>2. 0 <= client.offset
    BY NumbersTyped
  <2> QED BY <2>1, <2>2 DEF ReadInv, NotAhead, FromWhereItWas, FromTheStart, Captured
<1>4. CASE Look \/ ReadGeneration \/ Revive
  <2>1. read'.from = read.from /\ read'.redo = read.redo /\ UNCHANGED <<generation, text, client>>
    BY <1>4 DEF Look, ReadGeneration, Revive, AfterLook
  <2> QED BY <2>1 DEF ReadInv, NotAhead, FromWhereItWas, FromTheStart, Captured
<1>5. CASE Revived
  <2>1. UNCHANGED <<generation, text, client>>
    BY <1>5 DEF Revived
  <2>2. (read'.from = read.from /\ read'.redo = read.redo) \/ (read'.from = 0 /\ ~read'.redo)
    <3>1. CASE read' = NoRead
      BY <3>1 DEF NoRead
    <3>2. CASE read' = [read EXCEPT !.pc = "generation"]
      BY <3>2
    <3> QED BY <1>5, <3>1, <3>2 DEF Revived
  <2> QED BY <2>1, <2>2, NumbersTyped DEF ReadInv, NotAhead, FromWhereItWas, FromTheStart, Captured
<1>6. CASE ReadData
  BY <1>6, DataRead
<1>7. CASE On(Reader)
  BY <1>1, <1>7, DriverRead
<1> QED BY <1>2, <1>3, <1>4, <1>5, <1>6, <1>7 DEF Serve

LEMMA InitReadInv == Init => ReadInv
<1> SUFFICES ASSUME Init PROVE ReadInv
  OBVIOUS
<1>1. client.gen = NoGen /\ client.offset = 0 /\ read.from = 0 /\ generation \in {0, 1}
  BY DEF Init, ConsoleInit, NoRead
<1> QED BY <1>1 DEF ReadInv, NotAhead, FromWhereItWas, FromTheStart, Captured, NoGen

LEMMA NextReadInv == TypeInv /\ ReadInv /\ [Next]_vars => ReadInv'
<1> SUFFICES ASSUME TypeInv, ReadInv, [Next]_vars PROVE ReadInv'
  OBVIOUS
<1>1. CASE On(Owner) \/ Off(Owner)
  BY <1>1, DriverRead DEF Workers
<1>2. CASE ReaderStep
  BY <1>2, ReaderRead DEF ReaderStep
<1>3. CASE UNCHANGED <<client, read, generation, text>>
  BY <1>3 DEF ReadInv, NotAhead, FromWhereItWas, FromTheStart, Captured
<1>4. CASE PutEnable \/ PutDisable \/ PowerOff \/ PutFlash \/ Disable \/ Enable
  BY <1>3, <1>4 DEF PutEnable, PutDisable, PowerOff, Operate, PutFlash, Disable, Enable, console, texts
<1>5. CASE Environment \/ UNCHANGED vars
  BY <1>3, <1>5 DEF Environment, Output, Dies, Exits, StrayWrites, vars, console, consoleRest, texts
<1>6. CASE Round \/ Enabled
           \/ \E f \in Flashers : FlashStart(f) \/ NotDone(f) \/ Recorded(f) \/ Retry(f) \/ Failed(f)
  BY <1>3, <1>6 DEF Round, Enabled, FlashStart, NotDone, Recorded, Retry, Failed, console, consoleRest, texts
<1> QED BY <1>1, <1>2, <1>4, <1>5, <1>6 DEF Next, OwnerStep, FlashStep

\* A client that reads while the console is started under it misses nothing of a
\* file that has a generation of its own.
THEOREM ClientMissesNothing == Spec => []NothingMissed
<1>1. ReadInv => NothingMissed
  BY DEF ReadInv, Captured, NothingMissed
<1> QED BY <1>1, InitReadInv, NextReadInv, TypeInvariant, PTL DEF Spec
=============================================================================
