----------------------------- MODULE FsdbProofs -----------------------------
(* Theorems about Fsdb for any fields, calls, writers and crashes.            *)
EXTENDS FsdbProperties, FiniteSetTheorems, SequenceTheorems, TLAPS

Around(j, k) == Related(j, k) /\ j # k

\* What a call is asked for, and, if it is property_set(), what it finds below that.
Own(c, it) == \E i \in DOMAIN c.list : it = c.list[i]
Found(c, it) ==
    c.kind = "property_set" /\ it.value = Absent /\ Below(c.list[1].key, it.key)

\* What setting k wipes.
Wiped(i, k) == (Below(i, k) /\ Plain(i)) \/ (Below(k, i) /\ Plain(k))

\* How far a call is says what it has to do to its field, and what it may wipe.
Steps(j) ==
    LET it == Head(j.todo) IN
    /\ j.pc = "index" => j.call.kind = "set_keys" /\ j.todo = j.call.list
    /\ j.pc = "unlink" => it.value = Absent
    /\ j.pc = "create" => it.value # Absent /\ ~j.call.force
    /\ j.pc = "rename" => it.value # Absent /\ j.call.force
    /\ j.pc = "sweep" => j.call.kind = "property_set" /\ j.todo = j.call.list
    /\ j.pc = "wipe" => \A i \in j.wipe : Wiped(i, it.key)

\* Its items are its own or found; only set_keys() has an index to share.
Listed(j) ==
    /\ \A m \in DOMAIN j.todo : Own(j.call, j.todo[m]) \/ Found(j.call, j.todo[m])
    /\ j.call.kind = "set" => j.todo = j.call.list
    /\ j.shared => j.call.kind = "set_keys"

JobInv == \A w \in Running : Steps(job[w]) /\ Listed(job[w])

\* Calls on related fields that run at one time are known to.
OverlapInv ==
    \A v, w \in Running : v # w /\ Meet(job[v].call, job[w].call) => w \in overlap

\* A call on fields none of which is above another.
Apart(c) == \A m, n \in DOMAIN c.list : m # n => ~Related(c.list[m].key, c.list[n].key)

\* In the files f a field is as it was asked for, and so is the space around it.
Clear(f, k) == Plain(k) => \A i \in Keys : Around(i, k) => f[i] = Absent
Settled(f, it) == f[it.key] = it.value /\ Clear(f, it.key)

\* Of a call that nothing overlapped: what is not to be done is done...
Pending(j, it) == j.pc # "sweep" /\ \E m \in DOMAIN j.todo : it = j.todo[m]
DoneSo(f, j) == \A i \in DOMAIN j.call.list :
                    Pending(j, j.call.list[i]) \/ Settled(f, j.call.list[i])

\* ...the field it works at is as the steps it took left it...
Put(f, j) ==
    LET it == Head(j.todo) IN
    j.pc \in {"cleanup", "wipe"} =>
        (it.value = Absent \/ ~j.call.force => f[it.key] = it.value)
Marked(f, j) ==
    LET k == Head(j.todo).key IN
    j.pc = "wipe" /\ Plain(k) => \A i \in Keys : Around(i, k) /\ f[i] # Absent => i \in j.wipe
HeadSo(f, j) ==
    Own(j.call, Head(j.todo)) =>
        Put(f, j) /\ Marked(f, j) /\ (j.pc = "rename" => Clear(f, Head(j.todo).key))

\* ...what property_set() found it could not clean, and an index that fields share
\* has all that is around those still to be done.
FoundSo(j) ==
    \A m \in DOMAIN j.todo : ~Own(j.call, j.todo[m]) => ~Plain(j.call.list[1].key)
ApartSo(j) ==
    j.call.kind = "set_keys" =>
        \A m, n \in DOMAIN j.todo : m # n => ~Related(j.todo[m].key, j.todo[n].key)
Indexed(f, index, k) == \A i \in Keys : Around(i, k) /\ f[i] # Absent => i \in index
IndexSo(f, j) ==
    j.shared => \A m \in DOMAIN j.todo :
        Indexed(f, j.index, j.todo[m].key) \/ (m = 1 /\ j.pc \in {"wipe", "rename"})

Effect(f, j) ==
    DoneSo(f, j) /\ HeadSo(f, j) /\ FoundSo(j) /\ ApartSo(j) /\ IndexSo(f, j)
EffectInv == \A w \in Running \ overlap : Apart(job[w].call) => Effect(file, job[w])

FsdbInv == TypeOK /\ JobInv /\ OverlapInv /\ EffectInv

-----------------------------------------------------------------------------
(* Lemmas: fields and their prefixes. *)

\* A prefix agrees with the sequence on all its places.
LEMMA PrefixIs ==
    ASSUME NEW a \in Seq(Parts), NEW b \in Seq(Parts)
    PROVE  IsPrefix(a, b) <=> Len(a) <= Len(b) /\ \A i \in 1 .. Len(a) : a[i] = b[i]
<1>1. Len(a) \in Nat /\ Len(b) \in Nat
  OBVIOUS
<1>2. SubSeq(a, 1, Len(a)) = a
  <2>1. /\ SubSeq(a, 1, Len(a)) \in Seq(Parts) /\ Len(SubSeq(a, 1, Len(a))) = Len(a)
        /\ \A i \in 1 .. Len(a) : SubSeq(a, 1, Len(a))[i] = a[i]
    BY <1>1, SubSeqProperties
  <2> QED
    BY <2>1, SeqEqual
<1>3. ASSUME Len(a) <= Len(b)
      PROVE  SubSeq(b, 1, Len(a)) = a <=> \A i \in 1 .. Len(a) : a[i] = b[i]
  <2> DEFINE front == SubSeq(b, 1, Len(a))
  <2>1. /\ front \in Seq(Parts) /\ Len(front) = Len(a)
        /\ \A i \in 1 .. Len(a) : front[i] = b[i]
    BY <1>1, <1>3, SubSeqProperties
  <2> HIDE DEF front
  <2>2. (\A i \in 1 .. Len(a) : a[i] = b[i]) => front = a
    BY <2>1, SeqEqual
  <2>3. front = a => \A i \in 1 .. Len(a) : a[i] = b[i]
    BY <2>1
  <2> QED
    BY <2>2, <2>3 DEF front
<1> QED
  BY <1>2, <1>3 DEF IsPrefix

\* Prefixes are ordered, those of one field totally; a field with quoted parts is
\* above quoted ones only.
LEMMA PrefixOrder ==
    ASSUME NEW a \in Keys, NEW b \in Keys, NEW c \in Keys
    PROVE  /\ IsPrefix(a, a)
           /\ IsPrefix(a, b) /\ IsPrefix(b, a) => a = b
           /\ IsPrefix(a, b) /\ IsPrefix(b, c) => IsPrefix(a, c)
           /\ IsPrefix(a, c) /\ IsPrefix(b, c) => IsPrefix(a, b) \/ IsPrefix(b, a)
           /\ IsPrefix(a, b) /\ Plain(b) => Plain(a)
<1>1. a \in Seq(Parts) /\ b \in Seq(Parts) /\ c \in Seq(Parts)
  BY KeysClosed
<1>2. Len(a) \in Nat /\ Len(b) \in Nat /\ Len(c) \in Nat
  BY <1>1
<1>3. IsPrefix(a, a)
  BY <1>1, <1>2, PrefixIs
<1>4. ASSUME IsPrefix(a, b), IsPrefix(b, a) PROVE a = b
  BY <1>1, <1>2, <1>4, PrefixIs, SeqEqual
<1>5. ASSUME IsPrefix(a, b), IsPrefix(b, c) PROVE IsPrefix(a, c)
  BY <1>1, <1>2, <1>5, PrefixIs
<1>6. ASSUME IsPrefix(a, c), IsPrefix(b, c) PROVE IsPrefix(a, b) \/ IsPrefix(b, a)
  BY <1>1, <1>2, <1>6, PrefixIs
<1>7. ASSUME IsPrefix(a, b), Plain(b) PROVE Plain(a)
  <2>1. DOMAIN a = 1 .. Len(a) /\ DOMAIN b = 1 .. Len(b)
    BY <1>1
  <2> QED
    BY <1>1, <1>2, <1>7, <2>1, PrefixIs DEF Plain
<1> QED
  BY <1>3, <1>4, <1>5, <1>6, <1>7

\* What is around a field that is below another is around that too.
LEMMA AroundBelow ==
    ASSUME NEW k \in Keys, NEW a \in Keys, NEW j \in Keys, IsPrefix(a, k), Related(j, k)
    PROVE  Related(j, a)
BY PrefixOrder DEF Related

\* Fields are related in both directions, and to themselves.
LEMMA RelatedIs ==
    ASSUME NEW k \in Keys, NEW j \in Keys
    PROVE  /\ Related(k, k) /\ (Related(j, k) <=> Related(k, j))
           /\ Around(j, k) <=> Below(j, k) \/ Below(k, j)
           /\ ~(Below(j, k) /\ Below(k, j)) /\ ~Below(k, k)
           /\ Wiped(j, k) => Around(j, k)
           /\ Around(j, k) /\ Plain(k) => Wiped(j, k)
BY PrefixOrder DEF Related, Around, Below, IsStrictPrefix, Wiped

-----------------------------------------------------------------------------
(* Lemmas: the calls. *)

\* What a call is.
LEMMA CallIs ==
    ASSUME NEW c \in Calls
    PROVE  /\ c.kind \in {"set", "set_keys", "property_set"} /\ c.force \in BOOLEAN
           /\ c.list \in Seq(Pair) /\ Len(c.list) \in Nat \ {0} /\ DOMAIN c.list = 1 .. Len(c.list)
           /\ \A i \in DOMAIN c.list : c.list[i] \in Pair /\ c.list[i].key \in Keys
           /\ c.kind # "set_keys" => Len(c.list) = 1
           /\ c.kind # "set" => c.force
<1>1. c \in [kind : {"set", "set_keys", "property_set"}, list : Seq(Pair) \ {<<>>}, force : BOOLEAN]
  BY CallsMade
<1>2. c.kind \in {"set", "set_keys", "property_set"} /\ c.force \in BOOLEAN
      /\ c.list \in Seq(Pair) \ {<<>>}
  BY <1>1
<1>3. Len(c.list) \in Nat \ {0} /\ DOMAIN c.list = 1 .. Len(c.list)
      /\ \A i \in DOMAIN c.list : c.list[i] \in Pair
  BY <1>2, EmptySeq
<1>4. (c.kind # "set_keys" => Len(c.list) = 1) /\ (c.kind # "set" => c.force)
  BY CallsMade
<1> QED
  BY <1>2, <1>3, <1>4 DEF Pair

Draft == [pc : PCs \cup {"idle"}, call : Calls, todo : Seq(Pair), index : SUBSET Keys,
          shared : BOOLEAN, wipe : SUBSET Keys]

\* set() begins with what the value and force say, and with nothing to wipe.
LEMMA EntryIs ==
    ASSUME NEW j \in Draft, NEW todo \in Seq(Pair)
    PROVE  /\ todo = <<>> => Entry(j, todo) = Idle
           /\ todo # <<>> =>
                /\ Entry(j, todo) \in Job
                /\ Entry(j, todo).call = j.call /\ Entry(j, todo).todo = todo
                /\ Entry(j, todo).index = j.index /\ Entry(j, todo).shared = j.shared
                /\ Entry(j, todo).pc = IF Head(todo).value = Absent THEN "unlink"
                                       ELSE IF j.call.force THEN "cleanup" ELSE "create"
<1>1. CASE todo = <<>>
  BY <1>1 DEF Entry
<1>2. CASE todo # <<>>
  <2> DEFINE pc == CASE Head(todo).value = Absent -> "unlink"
                     [] Head(todo).value # Absent /\ ~j.call.force -> "create"
                     [] OTHER -> "cleanup"
  <2>1. j.call.force \in BOOLEAN
    BY CallIs DEF Draft
  <2>2. pc = IF Head(todo).value = Absent THEN "unlink"
             ELSE IF j.call.force THEN "cleanup" ELSE "create"
    BY <2>1
  <2>3. Entry(j, todo) = [j EXCEPT !.todo = todo, !.wipe = {}, !.pc = pc]
    BY <1>2 DEF Entry, Draft
  <2> HIDE DEF pc
  <2> QED
    BY <1>2, <2>2, <2>3 DEF Draft, Job, PCs
<1> QED
  BY <1>1, <1>2

\* What a running process works at.
LEMMA ItemIs ==
    ASSUME TypeOK, NEW w \in Running
    PROVE  /\ w \in Writers /\ job[w] \in Job /\ job[w] \in Draft /\ job[w].call \in Calls
           /\ job[w].todo \in Seq(Pair) /\ job[w].todo # <<>>
           /\ Len(job[w].todo) \in Nat \ {0} /\ DOMAIN job[w].todo = 1 .. Len(job[w].todo)
           /\ Item(w) = job[w].todo[1] /\ Item(w) \in Pair /\ Key(w) \in Keys
           /\ Tail(job[w].todo) \in Seq(Pair)
           /\ Len(Tail(job[w].todo)) = Len(job[w].todo) - 1
           /\ \A m \in 1 .. Len(job[w].todo) - 1 : Tail(job[w].todo)[m] = job[w].todo[m + 1]
<1>1. w \in Writers /\ job[w] \in Job
  BY DEF TypeOK, Running, At, Idle
<1>2. job[w].todo \in Seq(Pair) /\ job[w].todo # <<>> /\ job[w].call \in Calls
  BY <1>1 DEF Job
<1>3. Len(job[w].todo) \in Nat \ {0} /\ DOMAIN job[w].todo = 1 .. Len(job[w].todo)
  BY <1>2, EmptySeq
<1>4. Item(w) = job[w].todo[1] /\ Item(w) \in Pair
  BY <1>2, <1>3 DEF Item
<1>5. Key(w) \in Keys
  BY <1>4 DEF Key, Pair
<1>6. job[w] \in Draft
  BY <1>1 DEF Job, Draft
<1>7. /\ Tail(job[w].todo) \in Seq(Pair)
      /\ Len(Tail(job[w].todo)) = Len(job[w].todo) - 1
      /\ \A m \in 1 .. Len(job[w].todo) - 1 : Tail(job[w].todo)[m] = job[w].todo[m + 1]
  BY <1>2, HeadTailProperties
<1> QED
  BY <1>1, <1>2, <1>3, <1>4, <1>5, <1>6, <1>7

\* What is left of a list is that list, if the rest were its items.
LEMMA EntrySteps ==
    ASSUME NEW j \in Draft, NEW todo \in Seq(Pair), todo # <<>>,
           \A m \in DOMAIN todo : Own(j.call, todo[m]) \/ Found(j.call, todo[m]),
           j.call.kind = "set" => todo = j.call.list,
           j.shared => j.call.kind = "set_keys"
    PROVE  Steps(Entry(j, todo)) /\ Listed(Entry(j, todo))
<1>1. j.call.force \in BOOLEAN
  BY CallIs DEF Draft
<1> DEFINE e == Entry(j, todo)
<1>2. /\ e.call = j.call /\ e.todo = todo /\ e.shared = j.shared
      /\ e.pc = IF Head(todo).value = Absent THEN "unlink"
                ELSE IF j.call.force THEN "cleanup" ELSE "create"
  BY EntryIs
<1> HIDE DEF e
<1>3. Steps(e)
  BY <1>1, <1>2 DEF Steps
<1>4. Listed(e)
  BY <1>2 DEF Listed
<1> QED
  BY <1>3, <1>4 DEF e

\* With its pair done, a call goes on to the next, or to look below, or returns.
LEMMA DoneIs ==
    ASSUME TypeOK, JobInv, NEW w \in Running
    PROVE  LET d == Done(job[w])
               rest == Tail(job[w].todo)
               last == job[w].call.kind = "property_set" /\ job[w].todo = job[w].call.list
           IN /\ last => d = [job[w] EXCEPT !.pc = "sweep"]
              /\ ~last => d = Entry(job[w], rest)
              /\ d \in Job \cup {Idle}
              /\ d # Idle => d.call = job[w].call /\ Steps(d) /\ Listed(d)
<1> DEFINE rest == Tail(job[w].todo)
           last == job[w].call.kind = "property_set" /\ job[w].todo = job[w].call.list
           d == Done(job[w])
<1>1. /\ job[w] \in Job /\ job[w] \in Draft /\ rest \in Seq(Pair) /\ job[w].todo \in Seq(Pair)
           /\ job[w].todo # <<>>
      /\ \A m \in DOMAIN rest : m + 1 \in DOMAIN job[w].todo /\ rest[m] = job[w].todo[m + 1]
      /\ Len(rest) = Len(job[w].todo) - 1 /\ DOMAIN rest = 1 .. Len(rest)
  BY ItemIs
<1>2. Steps(job[w]) /\ Listed(job[w])
  BY DEF JobInv
<1>3. CASE last
  <2>1. d = [job[w] EXCEPT !.pc = "sweep"]
    BY <1>3 DEF Done
  <2>2. d \in Job /\ d.call = job[w].call /\ d.todo = job[w].todo /\ d.shared = job[w].shared
          /\ d.pc = "sweep"
    BY <1>1, <2>1 DEF Job, PCs
  <2> HIDE DEF d
  <2>3. Steps(d)
    BY <1>3, <2>2 DEF Steps
  <2>4. Listed(d)
    BY <1>2, <2>2 DEF Listed
  <2> QED
    BY <1>3, <2>1, <2>2, <2>3, <2>4 DEF d
<1>4. CASE ~last
  <2>1. d = Entry(job[w], rest)
    BY <1>4 DEF Done
  <2>2. rest = <<>> => d = Idle
    BY <1>1, <2>1, EntryIs
  <2>3. rest # <<>> => d \in Job /\ d.call = job[w].call
    <3> HIDE DEF d, rest
    <3> QED
      BY <1>1, <2>1, EntryIs
  <2>4. ASSUME rest # <<>> PROVE Steps(d) /\ Listed(d)
    <3>1. \A m \in DOMAIN rest : Own(job[w].call, rest[m]) \/ Found(job[w].call, rest[m])
      BY <1>1, <1>2 DEF Listed
    <3>2. job[w].call.kind # "set"
      <4> SUFFICES ASSUME job[w].call.kind = "set" PROVE FALSE
        OBVIOUS
      <4>1. job[w].todo = job[w].call.list
        BY <1>2 DEF Listed
      <4>2. job[w].call \in Calls
        BY <1>1 DEF Job
      <4>3. Len(job[w].call.list) = 1
        BY <4>2, CallIs
      <4> QED
        BY <1>1, <2>4, <4>1, <4>3, EmptySeq
    <3>3. job[w].shared => job[w].call.kind = "set_keys"
      BY <1>2 DEF Listed
    <3> HIDE DEF rest
    <3> QED
      BY <1>1, <2>1, <2>4, <3>1, <3>2, <3>3, EntrySteps
  <2> HIDE DEF d, rest
  <2> QED
    BY <1>4, <2>1, <2>2, <2>3, <2>4 DEF d, rest
<1> QED
  BY <1>3, <1>4

\* What a step of a call does to the files: it wipes around the field it works at, or
\* the field gets its value.
Wrote(k, v) ==
    \/ file'[k] = file[k]
    \/ file'[k] = Absent /\ Wiped(k, Key(v))
    \/ k = Key(v) /\ file'[k] = Item(v).value

\* Each step of a call writes so, and lets the other calls be.
LEMMA SetFiles ==
    ASSUME TypeOK, JobInv, NEW v \in Writers, Set(v)
    PROVE  /\ v \in Running /\ UNCHANGED <<dead, calls, crashes, overlap>>
           /\ file' \in [Keys -> Values \cup {Absent}]
           /\ \A k \in Keys : Wrote(k, v)
           /\ job' = [w \in Writers |-> job'[w]] /\ \A w \in Writers \ {v} : job'[w] = job[w]
<1> USE DEF TypeOK
<1>1. v \in Running
  BY DEF Set, ShareIndex, Unlink, Create, Cleanup, Wipe, AllWiped, Rename, Sweep, Running, At
<1>2. UNCHANGED <<dead, calls, crashes, overlap>>
  BY DEF Set, ShareIndex, Unlink, Create, Cleanup, Wipe, AllWiped, Rename, Sweep
<1>0. job \in [Writers -> Job \cup {Idle}]
  OBVIOUS
<1>3. job' = [w \in Writers |-> job'[w]] /\ \A w \in Writers \ {v} : job'[w] = job[w]
  <2> HIDE DEF TypeOK
  <2>1. CASE ShareIndex(v)
    BY <1>0, <2>1 DEF ShareIndex
  <2>2. CASE Unlink(v) \/ Create(v)
    BY <1>0, <2>2 DEF Unlink, Create
  <2>3. CASE Cleanup(v)
    BY <1>0, <2>3 DEF Cleanup
  <2>4. CASE Wipe(v) \/ AllWiped(v)
    BY <1>0, <2>4 DEF Wipe, AllWiped
  <2>5. CASE Rename(v) \/ Sweep(v)
    BY <1>0, <2>5 DEF Rename, Sweep
  <2> QED
    BY <2>1, <2>2, <2>3, <2>4, <2>5 DEF Set
<1>4. Item(v) \in Pair /\ Key(v) \in Keys /\ job[v] \in Job
  BY <1>1, ItemIs
<1>5. Steps(job[v]) /\ Item(v) = Head(job[v].todo) /\ Key(v) = Item(v).key
  BY <1>1 DEF JobInv, Item, Key
<1> HIDE DEF TypeOK
<1>6. file \in [Keys -> Values \cup {Absent}] /\ Item(v).value \in Values \cup {Absent}
  BY <1>4 DEF TypeOK, Pair
<1>7. CASE UNCHANGED file
  BY <1>1, <1>2, <1>3, <1>6, <1>7 DEF Wrote
<1>8. CASE Unlink(v) \/ Rename(v) \/ Create(v)
  <2>1. UNCHANGED file \/ file' = [file EXCEPT ![Key(v)] = Item(v).value]
    BY <1>5, <1>8 DEF Unlink, Rename, Create, Steps, At
  <2> QED
    BY <1>1, <1>2, <1>3, <1>4, <1>6, <1>7, <2>1 DEF Wrote
<1>9. CASE Wipe(v)
  <2>1. PICK k \in job[v].wipe : file' = [file EXCEPT ![k] = Absent]
    BY <1>9 DEF Wipe
  <2>2. k \in Keys /\ Wiped(k, Key(v))
    BY <1>4, <1>5, <1>9, <2>1 DEF Wipe, At, Steps, Job
  <2> QED
    BY <1>1, <1>2, <1>3, <1>6, <2>1, <2>2 DEF Wrote
<1> QED
  BY <1>7, <1>8, <1>9 DEF Set, ShareIndex, Cleanup, AllWiped, Sweep

\* The rest of a call that only goes on.
LEMMA GoesOn ==
    ASSUME NEW j \in Job, NEW d \in Job, Listed(j),
           d.call = j.call, d.todo = j.todo, d.shared = j.shared
    PROVE  Listed(d)
BY DEF Listed

\* The index of the fields there are is of fields, and has all that exist.
LEMMA IndexIs ==
    ASSUME TypeOK
    PROVE  /\ Index(Present) \subseteq Keys
           /\ \A i \in Keys : file[i] # Absent => i \in Index(Present)
<1>1. \A i \in Keys : IsPrefix(i, i)
  BY PrefixOrder
<1> QED
  BY <1>1 DEF Index, Present

\* property_set() begins anew with what it found.
LEMMA SweepIs ==
    ASSUME TypeOK, JobInv, NEW v \in Running, Sweep(v)
    PROVE  /\ job[v].call.kind = "property_set" /\ job[v].todo = job[v].call.list
           /\ \E todo \in Seq(Pair) :
                /\ job'[v] = Entry(job[v], todo)
                /\ todo # <<>> => \E k \in Keys : file[k] # Absent /\ Below(Key(v), k)
                /\ \A m \in DOMAIN todo : todo[m].value = Absent /\ Below(Key(v), todo[m].key)
<1>1. job[v].call.kind = "property_set" /\ job[v].todo = job[v].call.list
  BY DEF JobInv, Steps, Sweep, At
<1> DEFINE below == {k \in Present : Below(Key(v), k)}
<1>2. PICK found \in Orders(below) :
        job' = [job EXCEPT ![v] =
                  Entry(@, [i \in DOMAIN found |-> [key |-> found[i], value |-> Absent]])]
  BY DEF Sweep
<1>3. Cardinality(below) \in Nat
  <2>1. below \subseteq Keys
    BY DEF Present
  <2> QED
    BY <2>1, KeysClosed, FS_Subset, FS_CardinalityType
<1>4. found \in [1 .. Cardinality(below) -> below]
  BY <1>2 DEF Orders
<1> DEFINE todo == [i \in DOMAIN found |-> [key |-> found[i], value |-> Absent]]
<1>5. /\ \A i \in DOMAIN found : found[i] \in Keys /\ file[found[i]] # Absent
           /\ Below(Key(v), found[i])
      /\ DOMAIN found = 1 .. Cardinality(below)
  BY <1>4 DEF Present
<1>6. todo \in Seq(Pair) /\ DOMAIN todo = DOMAIN found
      /\ \A m \in DOMAIN todo : todo[m].value = Absent /\ todo[m].key = found[m]
  <2> DEFINE n == Cardinality(below)
  <2>1. n \in Nat /\ todo \in [1 .. n -> Pair] /\ DOMAIN todo = DOMAIN found
        /\ \A m \in DOMAIN todo : todo[m] = [key |-> found[m], value |-> Absent]
    BY <1>3, <1>5 DEF Pair
  <2> HIDE DEF n, todo
  <2>2. todo \in Seq(Pair)
    BY <2>1, SeqDef
  <2>3. \A m \in DOMAIN todo : todo[m].value = Absent /\ todo[m].key = found[m]
    <3> TAKE m \in DOMAIN todo
    <3>1. todo[m] = [key |-> found[m], value |-> Absent]
      BY <2>1
    <3> QED
      BY <3>1
  <2> QED
    BY <2>1, <2>2, <2>3
<1>7. job'[v] = Entry(job[v], todo)
  <2>1. DOMAIN job = Writers /\ v \in Writers
    BY DEF TypeOK, Running
  <2> QED
    BY <1>2, <2>1
<1> HIDE DEF todo, below
<1>8. todo # <<>> => \E k \in Keys : file[k] # Absent /\ Below(Key(v), k)
  <2> SUFFICES ASSUME todo # <<>> PROVE \E k \in Keys : file[k] # Absent /\ Below(Key(v), k)
    OBVIOUS
  <2>1. 1 \in DOMAIN todo
    BY <1>6, EmptySeq
  <2> QED
    BY <1>5, <1>6, <2>1
<1>9. \A m \in DOMAIN todo : todo[m].value = Absent /\ Below(Key(v), todo[m].key)
  BY <1>5, <1>6
<1> QED
  BY <1>1, <1>6, <1>7, <1>8, <1>9

\* A step of a call leaves it as far as it says, or returns.
LEMMA SetJob ==
    ASSUME TypeOK, JobInv, NEW v \in Running, Set(v)
    PROVE  /\ job'[v] \in Job \cup {Idle}
           /\ job'[v] # Idle =>
                job'[v].call = job[v].call /\ Steps(job'[v]) /\ Listed(job'[v])
<1>1. /\ v \in Writers /\ job[v] \in Job /\ job[v] \in Draft
      /\ job[v].todo \in Seq(Pair) /\ job[v].todo # <<>> /\ DOMAIN job = Writers
      /\ Item(v) = Head(job[v].todo) /\ Key(v) \in Keys /\ Key(v) = Item(v).key
  BY ItemIs DEF TypeOK, Key, Item
<1>2. Steps(job[v]) /\ Listed(job[v])
  BY DEF JobInv
<1>3. ASSUME job'[v] = Done(job[v])
      PROVE  /\ job'[v] \in Job \cup {Idle}
             /\ job'[v] # Idle =>
                  job'[v].call = job[v].call /\ Steps(job'[v]) /\ Listed(job'[v])
  BY <1>3, DoneIs
<1>4. CASE ShareIndex(v)
  <2> DEFINE j == [job[v] EXCEPT !.index = Index(Present), !.shared = TRUE]
  <2>1. job'[v] = Entry(j, job[v].todo)
    BY <1>1, <1>4 DEF ShareIndex
  <2>2. j \in Draft /\ j.call = job[v].call /\ j.shared
    BY <1>1, IndexIs DEF Draft
  <2>3. job[v].call.kind = "set_keys"
    BY <1>2, <1>4 DEF ShareIndex, Steps, At
  <2>4. \A m \in DOMAIN job[v].todo : Own(j.call, job[v].todo[m]) \/ Found(j.call, job[v].todo[m])
    BY <1>2, <2>2 DEF Listed
  <2> HIDE DEF j
  <2>5. Steps(job'[v]) /\ Listed(job'[v])
    BY <1>1, <2>1, <2>2, <2>3, <2>4, EntrySteps
  <2> QED
    BY <1>1, <2>1, <2>2, <2>5, EntryIs
<1>5. CASE Unlink(v) \/ (Create(v) /\ file[Key(v)] = Absent)
  <2>1. job'[v] = [job[v] EXCEPT !.pc = "cleanup"]
    BY <1>1, <1>5 DEF Unlink, Create
  <2>2. job'[v] \in Job /\ job'[v].pc = "cleanup" /\ job'[v].call = job[v].call
        /\ job'[v].todo = job[v].todo /\ job'[v].shared = job[v].shared
    BY <1>1, <2>1 DEF Job, PCs
  <2>3. Steps(job'[v])
    BY <2>2 DEF Steps
  <2> QED
    BY <1>1, <1>2, <2>2, <2>3, GoesOn
<1>6. CASE Create(v) /\ file[Key(v)] # Absent
  <2>1. job'[v] = Done(job[v])
    BY <1>1, <1>6 DEF Create
  <2> QED
    BY <1>3, <2>1
<1>7. CASE Cleanup(v)
  <2>1. PICK index \in SUBSET Keys :
          job'[v] = [job[v] EXCEPT !.pc = "wipe",
                        !.wipe = SuperKeys(Key(v), index) \cup SubKeys(Key(v), index),
                        !.index = IF job[v].shared THEN index \ SubKeys(Key(v), index) ELSE {}]
    <3>1. (IF job[v].shared THEN job[v].index ELSE Index(Present)) \in SUBSET Keys
      BY <1>1, IndexIs DEF Job
    <3> QED
      BY <1>1, <1>7, <3>1 DEF Cleanup
  <2>2. SuperKeys(Key(v), index) \subseteq Keys /\ SubKeys(Key(v), index) \subseteq Keys
    BY DEF SuperKeys, SubKeys
  <2>3. job'[v] \in Job /\ job'[v].pc = "wipe" /\ job'[v].call = job[v].call
        /\ job'[v].todo = job[v].todo /\ job'[v].shared = job[v].shared
        /\ job'[v].wipe = SuperKeys(Key(v), index) \cup SubKeys(Key(v), index)
    <3>1. (IF job[v].shared THEN index \ SubKeys(Key(v), index) ELSE {}) \in SUBSET Keys
      OBVIOUS
    <3>2. SuperKeys(Key(v), index) \cup SubKeys(Key(v), index) \in SUBSET Keys
      BY <2>2
    <3> QED
      BY <1>1, <2>1, <3>1, <3>2 DEF Job, PCs
  <2>4. \A k \in job'[v].wipe : Wiped(k, Key(v))
    BY <2>3 DEF SuperKeys, SubKeys, Wiped
  <2>5. Steps(job'[v])
    BY <1>1, <2>3, <2>4 DEF Steps
  <2> QED
    BY <1>1, <1>2, <2>3, <2>5, GoesOn
<1>8. CASE Wipe(v)
  <2>1. PICK k \in job[v].wipe : job'[v] = [job[v] EXCEPT !.wipe = @ \ {k}]
    BY <1>1, <1>8 DEF Wipe
  <2>2. job'[v] \in Job /\ job'[v].pc = job[v].pc /\ job'[v].call = job[v].call
        /\ job'[v].todo = job[v].todo /\ job'[v].shared = job[v].shared
        /\ job'[v].wipe \subseteq job[v].wipe
    BY <1>1, <2>1 DEF Job, PCs
  <2>3. Steps(job'[v])
    BY <1>2, <2>2 DEF Steps
  <2> QED
    BY <1>1, <1>2, <2>2, <2>3, GoesOn
<1>9. CASE AllWiped(v)
  <2>1. CASE Item(v).value # Absent /\ job[v].call.force
    <3>1. job'[v] = [job[v] EXCEPT !.pc = "rename"]
      BY <1>1, <1>9, <2>1 DEF AllWiped
    <3>2. job'[v] \in Job /\ job'[v].pc = "rename" /\ job'[v].call = job[v].call
          /\ job'[v].todo = job[v].todo /\ job'[v].shared = job[v].shared
      BY <1>1, <3>1 DEF Job, PCs
    <3>3. Steps(job'[v])
      BY <1>1, <2>1, <3>2 DEF Steps
    <3> QED
      BY <1>1, <1>2, <3>2, <3>3, GoesOn
  <2>2. CASE ~(Item(v).value # Absent /\ job[v].call.force)
    <3>1. job'[v] = Done(job[v])
      BY <1>1, <1>9, <2>2 DEF AllWiped
    <3> QED
      BY <1>3, <3>1
  <2> QED
    BY <2>1, <2>2
<1>10. CASE Rename(v)
  <2>1. job'[v] = Done(job[v])
    BY <1>1, <1>10 DEF Rename
  <2> QED
    BY <1>3, <2>1
<1>11. CASE Sweep(v)
  <2>1. job[v].call.kind = "property_set" /\ job[v].todo = job[v].call.list
    BY <1>11, SweepIs
  <2>2. PICK todo \in Seq(Pair) :
          /\ job'[v] = Entry(job[v], todo)
          /\ \A m \in DOMAIN todo : todo[m].value = Absent /\ Below(Key(v), todo[m].key)
    BY <1>11, SweepIs
  <2>3. Key(v) = job[v].call.list[1].key
    BY <1>1, <2>1
  <2>4. \A m \in DOMAIN todo : Found(job[v].call, todo[m])
    BY <2>1, <2>2, <2>3 DEF Found
  <2>5. ~job[v].shared
    BY <1>2, <2>1 DEF Listed
  <2>6. todo # <<>> => Steps(job'[v]) /\ Listed(job'[v])
    BY <1>1, <2>1, <2>2, <2>4, <2>5, EntrySteps
  <2> QED
    BY <1>1, <2>2, <2>6, EntryIs
<1> QED
  BY <1>4, <1>5, <1>6, <1>7, <1>8, <1>9, <1>10, <1>11 DEF Set

-----------------------------------------------------------------------------
(* What a call that nothing overlaps did. *)

\* Files change under a call that goes on, but not its fields, and nothing comes up
\* around them.
LEMMA Undisturbed ==
    ASSUME NEW f, NEW g, NEW j \in Job, Listed(j), Effect(f, j),
           \A i \in DOMAIN j.call.list :
                /\ g[j.call.list[i].key] = f[j.call.list[i].key]
                /\ \A k \in Keys : Related(k, j.call.list[i].key) /\ f[k] = Absent
                                    => g[k] = Absent
    PROVE  Effect(g, j)
<1>1. ASSUME NEW i \in DOMAIN j.call.list, Clear(f, j.call.list[i].key)
      PROVE  Clear(g, j.call.list[i].key)
  BY <1>1 DEF Clear, Around
<1>2. DoneSo(g, j)
  BY <1>1 DEF Effect, DoneSo, Settled
<1>3. HeadSo(g, j)
  <2> SUFFICES ASSUME NEW i \in DOMAIN j.call.list, Head(j.todo) = j.call.list[i]
               PROVE  Put(g, j) /\ Marked(g, j) /\ (j.pc = "rename" => Clear(g, Head(j.todo).key))
    BY DEF HeadSo, Own
  <2>1. Put(f, j) /\ Marked(f, j) /\ (j.pc = "rename" => Clear(f, Head(j.todo).key))
    BY DEF Effect, HeadSo, Own
  <2>2. Put(g, j)
    BY <2>1 DEF Put
  <2>3. Marked(g, j)
    BY <2>1 DEF Marked, Around
  <2> QED
    BY <1>1, <2>1, <2>2, <2>3
<1>4. IndexSo(g, j)
  <2> SUFFICES ASSUME j.shared, NEW m \in DOMAIN j.todo, Indexed(f, j.index, j.todo[m].key)
               PROVE  Indexed(g, j.index, j.todo[m].key)
    BY DEF Effect, IndexSo
  <2>1. Own(j.call, j.todo[m])
    BY DEF Listed, Found
  <2> QED
    BY <2>1 DEF Own, Indexed, Around
<1> QED
  BY <1>2, <1>3, <1>4 DEF Effect

\* A call on fields that have nothing to do with those of another does not disturb it.
LEMMA StepsApart ==
    ASSUME TypeOK, JobInv, NEW v \in Running, NEW w \in Running, Set(v),
           ~Meet(job[v].call, job[w].call), NEW i \in DOMAIN job[w].call.list
    PROVE  LET b == job[w].call.list[i].key IN
           /\ file'[b] = file[b]
           /\ \A k \in Keys : Related(k, b) /\ file[k] = Absent => file'[k] = Absent
<1> DEFINE b == job[w].call.list[i].key
<1>1. b \in Keys /\ job[v].call \in Calls /\ Key(v) \in Keys /\ v \in Writers
  BY ItemIs, CallIs
<1>2. \A k \in Keys : Wrote(k, v)
  BY <1>1, SetFiles
<1>3. PICK n \in DOMAIN job[v].call.list :
        /\ IsPrefix(job[v].call.list[n].key, Key(v))
        /\ Item(v).value # Absent => Key(v) = job[v].call.list[n].key
  <2>1. Own(job[v].call, Item(v)) \/ Found(job[v].call, Item(v))
    BY ItemIs DEF JobInv, Listed
  <2>2. CASE Own(job[v].call, Item(v))
    <3>1. PICK n \in DOMAIN job[v].call.list : Item(v) = job[v].call.list[n]
      BY <2>2 DEF Own
    <3> QED
      BY <1>1, <3>1, PrefixOrder DEF Key
  <2>3. CASE Found(job[v].call, Item(v))
    <3>1. 1 \in DOMAIN job[v].call.list
      BY <1>1, CallIs
    <3> QED
      BY <2>3, <3>1 DEF Found, Below, IsStrictPrefix, Key
  <2> QED
    BY <2>1, <2>2, <2>3
<1> DEFINE a == job[v].call.list[n].key
<1>4. a \in Keys
  BY <1>1, <1>3, CallIs
<1>5. ~Related(b, a) /\ ~Related(a, b)
  BY <1>1, <1>3, <1>4, RelatedIs DEF Meet, Touches
<1> HIDE DEF a, b
<1>6. ~Related(b, Key(v))
  BY <1>1, <1>3, <1>4, <1>5, AroundBelow DEF a
<1>7. file'[b] = file[b]
  BY <1>1, <1>2, <1>6, RelatedIs DEF Wrote, Around
<1>8. ASSUME NEW k \in Keys, Related(k, b), file[k] = Absent PROVE file'[k] = Absent
  <2> SUFFICES ASSUME file'[k] # Absent PROVE FALSE
    OBVIOUS
  <2>1. k = Key(v) /\ Item(v).value # Absent
    BY <1>2, <1>8 DEF Wrote
  <2> QED
    BY <1>3, <1>5, <1>8, <2>1 DEF a
<1> QED
  BY <1>7, <1>8 DEF b

\* What a call has done stays while it goes on to the next.
LEMMA SettledKept ==
    ASSUME TypeOK, JobInv, NEW v \in Running, Set(v), Apart(job[v].call), FoundSo(job[v]),
           NEW i \in DOMAIN job[v].call.list, Settled(file, job[v].call.list[i]),
           job[v].call.list[i] # Item(v)
    PROVE  Settled(file', job[v].call.list[i])
<1> DEFINE it == job[v].call.list[i]
<1>1. it.key \in Keys /\ job[v].call \in Calls /\ Key(v) \in Keys /\ v \in Writers
  BY ItemIs, CallIs
<1>2. \A k \in Keys : Wrote(k, v)
  BY <1>1, SetFiles
<1>3. CASE Own(job[v].call, Item(v))
  <2>1. PICK n \in DOMAIN job[v].call.list : Item(v) = job[v].call.list[n]
    BY <1>3 DEF Own
  <2>2. ~Related(it.key, Key(v)) /\ ~Related(Key(v), it.key)
    BY <2>1 DEF Apart, Key
  <2> HIDE DEF it
  <2>3. file'[it.key] = file[it.key]
    BY <1>1, <1>2, <2>2, RelatedIs DEF Wrote, Around
  <2>4. \A k \in Keys : Around(k, it.key) /\ file[k] = Absent => file'[k] = Absent
    BY <1>1, <1>2, <2>2 DEF Wrote, Around
  <2> QED
    BY <2>3, <2>4 DEF Settled, Clear, it
<1>4. CASE ~Own(job[v].call, Item(v))
  <2>1. /\ Found(job[v].call, Item(v)) /\ ~Plain(job[v].call.list[1].key)
    BY <1>4, ItemIs DEF JobInv, Listed, FoundSo
  <2>2. it.key = job[v].call.list[1].key
    BY <1>1, <2>1, CallIs DEF Found
  <2>3. Below(it.key, Key(v)) /\ ~Plain(it.key)
    BY <2>1, <2>2 DEF Found, Key
  <2> HIDE DEF it
  <2>4. file'[it.key] = file[it.key]
    BY <1>1, <1>2, <2>3, RelatedIs DEF Wrote, Wiped
  <2> QED
    BY <2>3, <2>4 DEF Settled, Clear, it
<1> QED
  BY <1>3, <1>4

\* Its work on one field leaves what it has to do to the others in the index.
LEMMA IndexKept ==
    ASSUME TypeOK, JobInv, NEW v \in Running, Set(v), ApartSo(job[v]),
           NEW m \in DOMAIN job[v].todo, m # 1, job[v].shared, NEW index,
           Indexed(file, index, job[v].todo[m].key)
    PROVE  Indexed(file', index, job[v].todo[m].key)
<1>1. Key(v) \in Keys /\ v \in Writers /\ Key(v) = job[v].todo[1].key /\ 1 \in DOMAIN job[v].todo
      /\ job[v].todo[m].key \in Keys
  <2>1. job[v].todo[m] \in Pair
    BY ItemIs
  <2> QED
    BY <2>1, ItemIs DEF Key, Pair
<1>2. \A k \in Keys : Wrote(k, v)
  BY <1>1, SetFiles
<1>3. ~Related(Key(v), job[v].todo[m].key)
  BY <1>1 DEF ApartSo, JobInv, Listed
<1>4. \A k \in Keys : Around(k, job[v].todo[m].key) /\ file'[k] # Absent => file[k] # Absent
  BY <1>2, <1>3 DEF Wrote, Around
<1> QED
  BY <1>4 DEF Indexed

\* While it works at one field, what was done and is still to be done are the same.
LEMMA SameItem ==
    ASSUME TypeOK, JobInv, NEW v \in Running, Set(v), Apart(job[v].call),
           Effect(file, job[v]), ~At(v, "sweep"), NEW d,
           d.call = job[v].call, d.todo = job[v].todo, d.pc # "sweep"
    PROVE  DoneSo(file', d) /\ FoundSo(d) /\ ApartSo(d)
<1>1. FoundSo(d) /\ ApartSo(d)
  BY DEF Effect, FoundSo, ApartSo
<1>2. ASSUME NEW i \in DOMAIN d.call.list
      PROVE  Pending(d, d.call.list[i]) \/ Settled(file', d.call.list[i])
  <2>1. Pending(job[v], d.call.list[i]) => Pending(d, d.call.list[i])
    BY DEF Pending
  <2>2. d.call.list[i] = Item(v) => Pending(d, d.call.list[i])
    BY ItemIs DEF Pending
  <2>3. ~Pending(job[v], d.call.list[i]) => Settled(file, d.call.list[i])
    BY DEF Effect, DoneSo
  <2> QED
    BY <2>1, <2>2, <2>3, SettledKept DEF Effect
<1> QED
  BY <1>1, <1>2 DEF DoneSo

\* When a field is done the others are as before, and if it was the last all are done.
LEMMA AfterDone ==
    ASSUME TypeOK, JobInv, NEW v \in Running, Set(v), Apart(job[v].call),
           Effect(file, job[v]), job'[v] = Done(job[v]), ~At(v, "sweep"),
           Own(job[v].call, Item(v)) => Settled(file', Item(v))
    PROVE  /\ job'[v] # Idle => Effect(file', job'[v])
           /\ job'[v] = Idle =>
                \A i \in DOMAIN job[v].call.list : Settled(file', job[v].call.list[i])
<1> DEFINE rest == Tail(job[v].todo)
           last == job[v].call.kind = "property_set" /\ job[v].todo = job[v].call.list
           d == job'[v]
<1>1. /\ job[v] \in Job /\ job[v] \in Draft /\ rest \in Seq(Pair)
      /\ job[v].todo \in Seq(Pair) /\ job[v].todo # <<>>
      /\ DOMAIN job[v].todo = 1 .. Len(job[v].todo) /\ Len(job[v].todo) \in Nat \ {0}
      /\ \A m \in 1 .. Len(job[v].todo) - 1 : rest[m] = job[v].todo[m + 1]
      /\ Len(rest) = Len(job[v].todo) - 1 /\ DOMAIN rest = 1 .. Len(job[v].todo) - 1
      /\ Item(v) = job[v].todo[1] /\ job[v].call \in Calls
  BY ItemIs
<1> HIDE DEF rest
<1>2. Steps(job[v]) /\ Listed(job[v])
  BY DEF JobInv
<1>3. \A i \in DOMAIN job[v].call.list : \/ Settled(file', job[v].call.list[i])
                                        \/ \E m \in DOMAIN rest : job[v].call.list[i] = rest[m]
  <2> SUFFICES ASSUME NEW i \in DOMAIN job[v].call.list, ~Settled(file', job[v].call.list[i])
               PROVE  \E m \in DOMAIN rest : job[v].call.list[i] = rest[m]
    OBVIOUS
  <2>1. job[v].call.list[i] # Item(v)
    BY DEF Own
  <2>2. ~Settled(file, job[v].call.list[i])
    BY <2>1, SettledKept DEF Effect
  <2>3. PICK m \in DOMAIN job[v].todo : job[v].call.list[i] = job[v].todo[m]
    BY <2>2 DEF Effect, DoneSo, Pending
  <2>4. m # 1 /\ m - 1 \in DOMAIN rest /\ rest[m - 1] = job[v].todo[m]
    BY <1>1, <2>1, <2>3
  <2> QED
    BY <2>3, <2>4
<1>4. \A m \in DOMAIN rest : m + 1 \in DOMAIN job[v].todo /\ rest[m] = job[v].todo[m + 1]
  BY <1>1
<1>5. CASE last
  <2>1. d = [job[v] EXCEPT !.pc = "sweep"]
    BY <1>5, DoneIs
  <2>2. d \in Job /\ d.call = job[v].call /\ d.todo = job[v].todo
        /\ d.shared = job[v].shared /\ d.pc = "sweep"
    BY <1>1, <2>1 DEF Job, PCs
  <2> HIDE DEF d
  <2>3. Len(job[v].todo) = 1
    BY <1>1, <1>5, CallIs
  <2>4. \A i \in DOMAIN d.call.list : Settled(file', d.call.list[i])
    BY <1>1, <1>3, <2>2, <2>3
  <2>5. DoneSo(file', d)
    BY <2>4 DEF DoneSo
  <2>6. HeadSo(file', d)
    BY <2>2 DEF HeadSo, Put, Marked
  <2>7. FoundSo(d) /\ ApartSo(d)
    BY <2>2 DEF Effect, FoundSo, ApartSo
  <2>8. IndexSo(file', d)
    BY <1>2, <1>5, <2>2 DEF IndexSo, Listed
  <2>9. d # Idle
    BY <2>2 DEF Idle
  <2> QED
    BY <2>5, <2>6, <2>7, <2>8, <2>9 DEF Effect, d
<1>6. CASE ~last /\ rest = <<>>
  <2>1. d = Idle
    <3>1. d = Entry(job[v], rest)
      BY <1>6, DoneIs DEF rest
    <3> QED
      BY <1>1, <1>6, <3>1, EntryIs
  <2>2. DOMAIN rest = {}
    BY <1>6
  <2> QED
    BY <1>3, <2>1, <2>2
<1>7. CASE ~last /\ rest # <<>>
  <2>1. d = Entry(job[v], rest)
    BY <1>7, DoneIs DEF rest
  <2>2. /\ d.call = job[v].call /\ d.todo = rest /\ d.index = job[v].index
        /\ d.shared = job[v].shared /\ d.pc = IF Head(rest).value = Absent THEN "unlink"
                        ELSE IF job[v].call.force THEN "cleanup" ELSE "create"
        /\ d \in Job
    BY <1>1, <1>7, <2>1, EntryIs
  <2> HIDE DEF d
  <2>3. d # Idle
    BY <2>2 DEF Idle, Job, PCs
  <2>4. job[v].call.force \in BOOLEAN
    BY <1>1, CallIs
  <2>5. DoneSo(file', d)
    BY <1>3, <2>2 DEF DoneSo, Pending
  <2>6. HeadSo(file', d)
    BY <2>2, <2>4 DEF HeadSo, Put, Marked
  <2>7. FoundSo(d)
    BY <1>4, <2>2 DEF Effect, FoundSo
  <2>8. ApartSo(d)
    <3>1. ASSUME d.call.kind = "set_keys", NEW m \in DOMAIN rest, NEW n \in DOMAIN rest, m # n
          PROVE  ~Related(rest[m].key, rest[n].key)
      <4>1. m + 1 # n + 1
        BY <1>1, <3>1
      <4> QED
        BY <1>4, <2>2, <3>1, <4>1 DEF Effect, ApartSo
    <3> QED
      BY <2>2, <3>1 DEF ApartSo
  <2>9. IndexSo(file', d)
    <3> SUFFICES ASSUME d.shared, NEW m \in DOMAIN rest PROVE Indexed(file', d.index, rest[m].key)
      BY <2>2 DEF IndexSo
    <3>1. m + 1 \in DOMAIN job[v].todo /\ m + 1 # 1 /\ rest[m] = job[v].todo[m + 1]
      BY <1>1
    <3>2. Indexed(file, job[v].index, job[v].todo[m + 1].key)
      BY <2>2, <3>1 DEF Effect, IndexSo
    <3>3. ApartSo(job[v]) /\ job[v].shared
      BY <2>2 DEF Effect
    <3>4. Indexed(file', job[v].index, job[v].todo[m + 1].key)
      BY <3>1, <3>2, <3>3, IndexKept
    <3> QED
      BY <2>2, <3>1, <3>4
  <2> QED
    BY <2>3, <2>5, <2>6, <2>7, <2>8, <2>9 DEF Effect, d
<1> QED
  BY <1>5, <1>6, <1>7

\* What a call that nothing overlaps has done so far it has also done after its next
\* step; when it returns, everything, unless it was not to force.
LEMMA SetEffect ==
    ASSUME TypeOK, JobInv, NEW v \in Running, Set(v), Apart(job[v].call),
           Effect(file, job[v])
    PROVE  /\ job'[v] # Idle => Effect(file', job'[v])
           /\ job'[v] = Idle =>
                \/ At(v, "create") /\ \A i \in DOMAIN job[v].call.list :
                                          file'[job[v].call.list[i].key] # Absent
                \/ \A i \in DOMAIN job[v].call.list : Settled(file', job[v].call.list[i])
<1> DEFINE d == job'[v]
           k == Key(v)
<1>1. /\ job[v] \in Job /\ job[v] \in Draft /\ job[v].call \in Calls
      /\ job[v].todo \in Seq(Pair) /\ job[v].todo # <<>>
      /\ DOMAIN job[v].todo = 1 .. Len(job[v].todo) /\ Len(job[v].todo) \in Nat \ {0}
      /\ Item(v) = job[v].todo[1] /\ Item(v) = Head(job[v].todo) /\ Key(v) = Item(v).key
      /\ k \in Keys /\ v \in Writers /\ DOMAIN job = Writers
      /\ file \in [Keys -> Values \cup {Absent}]
  BY ItemIs DEF TypeOK, Key, Item
<1>2. Steps(job[v]) /\ Listed(job[v])
  BY DEF JobInv
<1>3. DoneSo(file, job[v]) /\ HeadSo(file, job[v]) /\ FoundSo(job[v])
      /\ ApartSo(job[v]) /\ IndexSo(file, job[v])
  BY DEF Effect
<1>4. job[v].pc = "idle" => FALSE
  BY DEF Running, At
<1>5. ASSUME d \in Job, d.call = job[v].call, d.todo = job[v].todo, d.pc # "sweep",
             ~At(v, "sweep"), HeadSo(file', d), IndexSo(file', d)
      PROVE  d # Idle /\ Effect(file', d)
  <2>1. d # Idle
    BY <1>5 DEF Job, PCs, Idle
  <2>2. DoneSo(file', d) /\ FoundSo(d) /\ ApartSo(d)
    BY <1>5, SameItem
  <2> QED
    BY <1>5, <2>1, <2>2 DEF Effect
<1>6. ASSUME job[v].shared, NEW m \in DOMAIN job[v].todo, m # 1
      PROVE  Indexed(file', job[v].index, job[v].todo[m].key)
  <2>1. Indexed(file, job[v].index, job[v].todo[m].key)
    BY <1>3, <1>6 DEF IndexSo
  <2> QED
    BY <1>3, <1>6, <2>1, IndexKept
<1>7. CASE ShareIndex(v)
  <2> DEFINE j == [job[v] EXCEPT !.index = Index(Present), !.shared = TRUE]
  <2>1. d = Entry(j, job[v].todo) /\ UNCHANGED file /\ ~At(v, "sweep")
    BY <1>1, <1>7 DEF ShareIndex, At
  <2>2. j \in Draft /\ j.call = job[v].call /\ j.index = Index(Present)
    BY <1>1, IndexIs DEF Draft
  <2> HIDE DEF j
  <2>3. d \in Job /\ d.call = job[v].call /\ d.todo = job[v].todo /\ d.index = Index(Present)
        /\ d.pc = IF Item(v).value = Absent THEN "unlink"
                  ELSE IF job[v].call.force THEN "cleanup" ELSE "create"
    BY <1>1, <2>1, <2>2, EntryIs
  <2>4. job[v].call.force \in BOOLEAN
    BY <1>1, CallIs
  <2> HIDE DEF d
  <2>5. HeadSo(file', d)
    BY <1>1, <2>3, <2>4 DEF HeadSo, Put, Marked
  <2>6. IndexSo(file', d)
    BY <2>1, <2>3, IndexIs DEF IndexSo, Indexed
  <2> QED
    BY <1>5, <2>1, <2>3, <2>5, <2>6 DEF d
<1>8. CASE Unlink(v) \/ (Create(v) /\ file[k] = Absent)
  <2>1. d = [job[v] EXCEPT !.pc = "cleanup"] /\ file' = [file EXCEPT ![k] = Item(v).value]
        /\ job[v].pc \in {"unlink", "create"}
    BY <1>1, <1>2, <1>8 DEF Unlink, Create, Steps, At
  <2>2. d \in Job /\ d.pc = "cleanup" /\ d.call = job[v].call /\ d.index = job[v].index
        /\ d.todo = job[v].todo /\ d.shared = job[v].shared
    BY <1>1, <2>1 DEF Job, PCs
  <2> HIDE DEF d
  <2>3. HeadSo(file', d)
    BY <1>1, <2>1, <2>2 DEF HeadSo, Put, Marked
  <2>4. IndexSo(file', d)
    <3>1. ASSUME job[v].shared PROVE Indexed(file', job[v].index, job[v].todo[1].key)
      <4>1. Indexed(file, job[v].index, job[v].todo[1].key)
        BY <1>1, <1>3, <2>1, <3>1 DEF IndexSo
      <4> QED
        BY <1>1, <2>1, <4>1 DEF Indexed, Around
    <3> QED
      BY <1>6, <2>2, <3>1 DEF IndexSo
  <2> QED
    BY <1>5, <2>1, <2>2, <2>3, <2>4 DEF At, d
<1>9. CASE Create(v) /\ file[k] # Absent
  <2>1. d = Done(job[v]) /\ UNCHANGED file /\ At(v, "create")
    BY <1>1, <1>9 DEF Create
  <2>2. ~job[v].call.force
    BY <1>2, <2>1 DEF Steps, At
  <2>3. job[v].call.kind = "set" /\ Len(job[v].call.list) = 1
    BY <1>1, <2>2, CallIs
  <2>4. job[v].todo = job[v].call.list
    BY <1>2, <2>3 DEF Listed
  <2>5. d = Entry(job[v], Tail(job[v].todo))
    BY <2>1, <2>3, DoneIs
  <2>6. Tail(job[v].todo) = <<>> /\ Tail(job[v].todo) \in Seq(Pair)
    <3>1. Tail(job[v].todo) \in Seq(Pair) /\ Len(Tail(job[v].todo)) = 0
      BY <2>3, <2>4, ItemIs
    <3> QED
      BY <3>1, EmptySeq
  <2>7. d = Idle
    BY <1>1, <2>5, <2>6, EntryIs
  <2>8. \A i \in DOMAIN job[v].call.list : file'[job[v].call.list[i].key] # Absent
    BY <1>1, <1>9, <2>1, <2>3, <2>4
  <2> QED
    BY <2>1, <2>7, <2>8
<1>10. CASE Cleanup(v)
  <2> DEFINE index == IF job[v].shared THEN job[v].index ELSE Index(Present)
  <2>1. /\ d = [job[v] EXCEPT !.pc = "wipe",
                        !.wipe = SuperKeys(k, index) \cup SubKeys(k, index),
                        !.index = IF job[v].shared THEN index \ SubKeys(k, index) ELSE {}]
        /\ UNCHANGED file /\ job[v].pc = "cleanup"
    BY <1>1, <1>10 DEF Cleanup, At
  <2>2. d \in Job \cup {Idle}
    BY SetJob
  <2>3. /\ d.pc = "wipe" /\ d.call = job[v].call /\ d.todo = job[v].todo
        /\ d.shared = job[v].shared /\ d.wipe = SuperKeys(k, index) \cup SubKeys(k, index)
        /\ d.shared => d.index = job[v].index \ SubKeys(k, index)
    BY <1>1, <2>1 DEF Job
  <2>4. d \in Job
    BY <2>2, <2>3 DEF Idle
  <2>5. Indexed(file, index, k)
    BY <1>1, <1>3, <2>1, IndexIs DEF IndexSo, Indexed
  <2> HIDE DEF d, index
  <2>6. HeadSo(file', d)
    <3>1. Own(job[v].call, Item(v)) => Put(file', d)
      BY <1>1, <1>3, <2>1, <2>3 DEF HeadSo, Put
    <3>2. ASSUME Plain(k), NEW i \in Keys, Around(i, k), file[i] # Absent PROVE i \in d.wipe
      <4>1. i \in index
        BY <2>5, <3>2 DEF Indexed
      <4>2. Wiped(i, k)
        BY <1>1, <3>2, RelatedIs
      <4> QED
        BY <2>3, <3>2, <4>1, <4>2 DEF Wiped, SuperKeys, SubKeys
    <3>3. Marked(file', d)
      BY <1>1, <2>1, <2>3, <3>2 DEF Marked
    <3> QED
      BY <1>1, <2>3, <3>1, <3>3 DEF HeadSo
  <2>7. IndexSo(file', d)
    <3> SUFFICES ASSUME d.shared, NEW m \in DOMAIN job[v].todo, m # 1
                 PROVE  Indexed(file', d.index, job[v].todo[m].key)
      BY <2>3 DEF IndexSo
    <3> DEFINE b == job[v].todo[m].key
    <3>1. b \in Keys
      <4>1. job[v].todo[m] \in Pair
        BY <1>1
      <4> QED
        BY <4>1 DEF Pair
    <3>2. ~Related(k, b)
      BY <1>1, <1>2, <1>3, <2>3 DEF ApartSo, Listed
    <3>3. Indexed(file', job[v].index, b)
      BY <1>6, <2>3
    <3> HIDE DEF b
    <3>4. ASSUME NEW i \in Keys, Around(i, b), i \in SubKeys(k, index) PROVE FALSE
      <4>1. IsPrefix(k, i) /\ Related(i, b)
        BY <3>4 DEF SubKeys, Below, IsStrictPrefix, Around
      <4> QED
        BY <1>1, <3>1, <3>2, <4>1, PrefixOrder DEF Related
    <3>5. Indexed(file', d.index, b)
      BY <2>3, <3>3, <3>4 DEF Indexed
    <3> QED
      BY <3>5 DEF b
  <2> QED
    BY <1>5, <2>1, <2>3, <2>4, <2>6, <2>7 DEF At, d
<1>11. CASE Wipe(v)
  <2>1. PICK i \in job[v].wipe : file' = [file EXCEPT ![i] = Absent]
                                 /\ d = [job[v] EXCEPT !.wipe = @ \ {i}] /\ job[v].pc = "wipe"
    BY <1>1, <1>11 DEF Wipe, At
  <2>2. d \in Job /\ d.pc = "wipe" /\ d.call = job[v].call /\ d.todo = job[v].todo
        /\ d.shared = job[v].shared /\ d.index = job[v].index /\ d.wipe = job[v].wipe \ {i}
        /\ i \in Keys
    BY <1>1, <2>1 DEF Job, PCs
  <2>3. i # k
    BY <1>1, <1>2, <2>1, RelatedIs DEF Steps, Wiped
  <2> HIDE DEF d
  <2>4. HeadSo(file', d)
    <3>1. Own(job[v].call, Item(v)) => Put(file, job[v]) /\ Marked(file, job[v])
      BY <1>1, <1>3 DEF HeadSo
    <3>2. Put(file, job[v]) => Put(file', d)
      BY <1>1, <2>1, <2>2, <2>3 DEF Put
    <3>3. Marked(file, job[v]) => Marked(file', d)
      BY <1>1, <2>1, <2>2 DEF Marked
    <3> QED
      BY <1>1, <2>2, <3>1, <3>2, <3>3 DEF HeadSo
  <2>5. IndexSo(file', d)
    BY <1>6, <2>2 DEF IndexSo
  <2> QED
    BY <1>5, <2>1, <2>2, <2>4, <2>5 DEF At, d
<1>12. CASE AllWiped(v)
  <2>1. job[v].wipe = {} /\ job[v].pc = "wipe" /\ UNCHANGED file
    BY <1>12 DEF AllWiped, At
  <2>2. Own(job[v].call, Item(v)) => Clear(file', k) /\ Put(file, job[v])
    BY <1>1, <1>3, <2>1 DEF HeadSo, Marked, Clear
  <2>3. CASE Item(v).value # Absent /\ job[v].call.force
    <3>1. d = [job[v] EXCEPT !.pc = "rename"]
      BY <1>1, <1>12, <2>3 DEF AllWiped
    <3>2. d \in Job /\ d.pc = "rename" /\ d.call = job[v].call /\ d.index = job[v].index
          /\ d.todo = job[v].todo /\ d.shared = job[v].shared
      BY <1>1, <3>1 DEF Job, PCs
    <3> HIDE DEF d
    <3>3. HeadSo(file', d)
      BY <1>1, <2>2, <3>2 DEF HeadSo, Put, Marked
    <3>4. IndexSo(file', d)
      BY <1>6, <3>2 DEF IndexSo
    <3> QED
      BY <1>5, <2>1, <3>2, <3>3, <3>4 DEF At, d
  <2>4. CASE ~(Item(v).value # Absent /\ job[v].call.force)
    <3>1. d = Done(job[v])
      BY <1>1, <1>12, <2>4 DEF AllWiped
    <3>2. Own(job[v].call, Item(v)) => Settled(file', Item(v))
      BY <1>1, <2>1, <2>2, <2>4 DEF Settled, Put
    <3> QED
      BY <2>1, <3>1, <3>2, AfterDone DEF At
  <2> QED
    BY <2>3, <2>4
<1>13. CASE Rename(v)
  <2>1. d = Done(job[v]) /\ job[v].pc = "rename" /\ file' = [file EXCEPT ![k] = Item(v).value]
    BY <1>1, <1>13 DEF Rename, At
  <2>2. Own(job[v].call, Item(v)) => Settled(file', Item(v))
    <3>1. Own(job[v].call, Item(v)) => Clear(file, k)
      BY <1>1, <1>3, <2>1 DEF HeadSo
    <3>2. Clear(file, k) => Clear(file', k)
      BY <1>1, <2>1 DEF Clear, Around
    <3> QED
      BY <1>1, <2>1, <3>1, <3>2 DEF Settled
  <2> QED
    BY <2>1, <2>2, AfterDone DEF At
<1>14. CASE Sweep(v)
  <2>1. job[v].call.kind = "property_set" /\ job[v].todo = job[v].call.list
    BY <1>14, SweepIs
  <2>2. PICK todo \in Seq(Pair) :
          /\ d = Entry(job[v], todo)
          /\ todo # <<>> => \E i \in Keys : file[i] # Absent /\ Below(k, i)
          /\ \A m \in DOMAIN todo : todo[m].value = Absent /\ Below(k, todo[m].key)
    BY <1>14, SweepIs
  <2>3. UNCHANGED file /\ job[v].pc = "sweep"
    BY <1>14 DEF Sweep, At
  <2>4. \A i \in DOMAIN job[v].call.list : Settled(file', job[v].call.list[i])
    BY <1>3, <2>3 DEF DoneSo, Pending
  <2>5. ASSUME todo # <<>> PROVE Effect(file', d)
    <3>1. d.call = job[v].call /\ d.todo = todo /\ d.shared = job[v].shared /\ d.pc = "unlink"
      <4>1. Head(todo).value = Absent
        BY <2>2, <2>5, EmptySeq
      <4> QED
        BY <1>1, <2>2, <2>5, <4>1, EntryIs
    <3> HIDE DEF d
    <3>2. DoneSo(file', d)
      BY <2>4, <3>1 DEF DoneSo
    <3>3. HeadSo(file', d)
      BY <3>1 DEF HeadSo, Put, Marked
    <3>4. ~Plain(k)
      <4>1. PICK i \in Keys : file[i] # Absent /\ Below(k, i)
        BY <2>2, <2>5
      <4>2. Around(i, k)
        BY <1>1, <4>1, RelatedIs
      <4>3. Clear(file, k)
        BY <1>1, <2>1, <2>3, <2>4 DEF Settled
      <4> QED
        BY <4>1, <4>2, <4>3 DEF Clear
    <3>5. FoundSo(d)
      BY <1>1, <2>1, <3>1, <3>4 DEF FoundSo
    <3>6. ApartSo(d) /\ IndexSo(file', d)
      BY <1>2, <2>1, <3>1 DEF ApartSo, IndexSo, Listed
    <3> QED
      BY <3>2, <3>3, <3>5, <3>6 DEF Effect, d
  <2>6. todo = <<>> => d = Idle
    BY <1>1, <2>2, EntryIs
  <2> QED
    BY <2>4, <2>5, <2>6
<1> QED
  BY <1>7, <1>8, <1>9, <1>10, <1>11, <1>12, <1>13, <1>14 DEF Set

-----------------------------------------------------------------------------
(* The theorems. *)

\* A call begins with all its items to do.
LEMMA CallJob ==
    ASSUME TypeOK, NEW v \in Writers, Call(v)
    PROVE  /\ At(v, "idle") /\ UNCHANGED <<file, dead, crashes>>
           /\ job' = [w \in Writers |-> job'[w]] /\ \A w \in Writers \ {v} : job'[w] = job[w]
           /\ job'[v] \in Job /\ Steps(job'[v]) /\ Listed(job'[v])
           /\ Apart(job'[v].call) => Effect(file', job'[v])
           /\ overlap' = LET met == {w \in Running : Meet(job[w].call, job'[v].call)} IN
                         (overlap \ {v}) \cup met \cup (IF met = {} THEN {} ELSE {v})
<1>1. /\ At(v, "idle") /\ UNCHANGED <<file, dead, crashes>>
      /\ job' = [w \in Writers |-> job'[w]] /\ \A w \in Writers \ {v} : job'[w] = job[w]
  BY DEF Call, TypeOK
<1>2. PICK c \in Calls :
        LET j == [Idle EXCEPT !.call = c]
            met == {w \in Running : Meet(job[w].call, c)}
        IN /\ job' = [job EXCEPT ![v] =
                IF c.kind = "set_keys" THEN [j EXCEPT !.pc = "index", !.todo = c.list]
                ELSE Entry(j, c.list)]
           /\ overlap' = (overlap \ {v}) \cup met \cup (IF met = {} THEN {} ELSE {v})
  BY DEF Call
<1> DEFINE j == [Idle EXCEPT !.call = c]
<1>3. c.kind \in {"set", "set_keys", "property_set"} /\ c.force \in BOOLEAN
      /\ c.list \in Seq(Pair) /\ c.list # <<>> /\ DOMAIN c.list = 1 .. Len(c.list)
      /\ Head(c.list) = c.list[1] /\ Len(c.list) \in Nat \ {0}
  BY CallIs, EmptySeq
<1>4. j \in [pc : {"idle"}, call : {c}, todo : {<<>>}, index : {{}}, shared : {FALSE}, wipe : {{}}]
  <2>1. Idle \in [pc : {"idle"}, call : {<<>>}, todo : {<<>>}, index : {{}}, shared : {FALSE},
          wipe : {{}}]
    BY DEF Idle
  <2> QED
    BY <2>1
<1>5. j \in Draft /\ j.call = c /\ j.shared = FALSE
  <2> HIDE DEF j
  <2>1. <<>> \in Seq(Pair)
    OBVIOUS
  <2> QED
    BY <1>4, <2>1 DEF Draft
<1> HIDE DEF j
<1> DEFINE d == job'[v]
<1>6. d = IF c.kind = "set_keys" THEN [j EXCEPT !.pc = "index", !.todo = c.list]
          ELSE Entry(j, c.list)
  BY <1>2 DEF j, TypeOK
<1>7. /\ d \in Job /\ d.call = c /\ d.todo = c.list /\ d.shared = FALSE
      /\ d.pc \in {"index", "unlink", "create", "cleanup"}
      /\ d.pc = "cleanup" => d.todo[1].value # Absent /\ c.force
  <2>1. CASE c.kind = "set_keys"
    <3>1. d \in [pc : {"index"}, call : {c}, todo : {c.list}, index : {{}}, shared : {FALSE},
                 wipe : {{}}]
      BY <1>4, <1>6, <2>1
    <3> HIDE DEF d
    <3> QED
      BY <1>3, <3>1 DEF Job, PCs
  <2>2. CASE c.kind # "set_keys"
    <3>1. d = Entry(j, c.list)
      BY <1>6, <2>2
    <3> HIDE DEF d
    <3> QED
      BY <1>3, <1>5, <3>1, EntryIs
  <2> QED
    BY <2>1, <2>2
<1>8. \A m \in DOMAIN c.list : Own(c, c.list[m])
  BY DEF Own
<1>9. Steps(d) /\ Listed(d)
  <2>1. CASE c.kind = "set_keys"
    <3>1. d.pc = "index"
      BY <1>5, <1>6, <2>1 DEF Draft
    <3> HIDE DEF d
    <3> QED
      BY <1>7, <1>8, <2>1, <3>1 DEF Steps, Listed
  <2>2. CASE c.kind # "set_keys"
    <3>1. d = Entry(j, c.list)
      BY <1>6, <2>2
    <3> QED
      BY <1>3, <1>5, <1>8, <3>1, EntrySteps
  <2> QED
    BY <2>1, <2>2
<1> HIDE DEF d
<1>10. ASSUME Apart(c) PROVE Effect(file', d)
  <2>1. DoneSo(file', d)
    BY <1>7 DEF DoneSo, Pending
  <2>2. HeadSo(file', d)
    BY <1>3, <1>7 DEF HeadSo, Put, Marked
  <2>3. FoundSo(d) /\ IndexSo(file', d)
    BY <1>7, <1>8 DEF FoundSo, IndexSo
  <2>4. ApartSo(d)
    BY <1>7, <1>10 DEF ApartSo, Apart
  <2> QED
    BY <2>1, <2>2, <2>3, <2>4 DEF Effect
<1> QED
  BY <1>1, <1>2, <1>7, <1>9, <1>10 DEF d

\* One call begins: those it meets are known to overlap it.
LEMMA CallInv == ASSUME FsdbInv, NEW v \in Writers, Call(v) PROVE FsdbInv'
<1>1. TypeOK /\ JobInv /\ OverlapInv /\ EffectInv
  BY DEF FsdbInv
<1>2. /\ At(v, "idle") /\ UNCHANGED <<file, dead, crashes>>
      /\ job' = [w \in Writers |-> job'[w]] /\ \A w \in Writers \ {v} : job'[w] = job[w]
      /\ job'[v] \in Job /\ Steps(job'[v]) /\ Listed(job'[v])
      /\ Apart(job'[v].call) => Effect(file', job'[v])
  BY <1>1, CallJob
<1> DEFINE met == {w \in Running : Meet(job[w].call, job'[v].call)}
<1>3. overlap' = (overlap \ {v}) \cup met \cup (IF met = {} THEN {} ELSE {v})
  BY <1>1, CallJob
<1>4. \A w \in Running' : w # v => w \in Running /\ w \in Writers \ {v}
  BY <1>2 DEF Running, At
<1>5. TypeOK'
  <2>1. job' \in [Writers -> Job \cup {Idle}]
    <3>1. \A w \in Writers : job'[w] \in Job \cup {Idle}
      BY <1>1, <1>2 DEF TypeOK
    <3> QED
      BY <1>1, <3>1, CallJob
  <2>2. calls' \in 0 .. MaxCalls
    BY <1>1, BoundsNat DEF TypeOK, Call
  <2>3. overlap' \subseteq Writers
    BY <1>1, <1>3 DEF TypeOK, Running
  <2> QED
    BY <1>1, <1>2, <2>1, <2>2, <2>3 DEF TypeOK
<1>6. JobInv'
  BY <1>1, <1>2, <1>4 DEF JobInv
<1>7. ASSUME NEW a \in Running', NEW b \in Running', a # b, Meet(job'[a].call, job'[b].call)
      PROVE  b \in overlap'
  <2>1. CASE a # v /\ b # v
    BY <1>1, <1>2, <1>3, <1>4, <1>7, <2>1 DEF OverlapInv
  <2>2. CASE a = v
    <3>1. b \in Running /\ job'[b] = job[b] /\ b \in Writers
      BY <1>2, <1>4, <1>7, <2>2
    <3>2. Meet(job[b].call, job'[v].call)
      <4>1. job[b].call \in Calls /\ job'[v].call \in Calls
        BY <1>1, <1>2, <3>1, ItemIs DEF Job
      <4> QED
        BY <1>7, <2>2, <3>1, <4>1, CallIs, RelatedIs DEF Meet, Touches
    <3> QED
      BY <1>3, <3>1, <3>2
  <2>3. CASE b = v
    <3>1. a \in Running /\ job'[a] = job[a]
      BY <1>2, <1>4, <1>7, <2>3
    <3>2. a \in met
      BY <1>7, <2>3, <3>1
    <3> QED
      BY <1>3, <2>3, <3>2
  <2> QED
    BY <2>1, <2>2, <2>3
<1>8. ASSUME NEW w \in Running' \ overlap', Apart(job'[w].call)
      PROVE  Effect(file', job'[w])
  <2>1. CASE w = v
    BY <1>2, <1>8, <2>1
  <2>2. CASE w # v
    <3>1. w \in Running \ overlap /\ job'[w] = job[w]
      BY <1>2, <1>3, <1>4, <1>8, <2>2
    <3> QED
      BY <1>1, <1>2, <1>8, <3>1 DEF EffectInv
  <2> QED
    BY <2>1, <2>2
<1> QED
  BY <1>5, <1>6, <1>7, <1>8 DEF FsdbInv, OverlapInv, EffectInv

\* A call goes a step on.
LEMMA SetInv == ASSUME FsdbInv, NEW v \in Writers, Set(v) PROVE FsdbInv'
<1>1. TypeOK /\ JobInv /\ OverlapInv /\ EffectInv
  BY DEF FsdbInv
<1>2. /\ v \in Running /\ UNCHANGED <<dead, calls, crashes, overlap>>
      /\ file' \in [Keys -> Values \cup {Absent}]
      /\ job' = [w \in Writers |-> job'[w]] /\ \A w \in Writers \ {v} : job'[w] = job[w]
  BY <1>1, SetFiles
<1>3. /\ job'[v] \in Job \cup {Idle}
      /\ job'[v] # Idle =>
            job'[v].call = job[v].call /\ Steps(job'[v]) /\ Listed(job'[v])
  BY <1>1, <1>2, SetJob
<1>4. \A w \in Running' :
        /\ w \in Running /\ w \in Writers
        /\ w # v => job'[w] = job[w]
        /\ w = v => job'[w] # Idle
        /\ job'[w].call = job[w].call
  BY <1>2, <1>3 DEF Running, At, Idle
<1>5. TypeOK'
  <2>1. job' \in [Writers -> Job \cup {Idle}]
    <3>1. \A w \in Writers : job'[w] \in Job \cup {Idle}
      BY <1>1, <1>2, <1>3 DEF TypeOK
    <3> QED
      BY <1>1, <3>1, SetFiles
  <2> QED
    BY <1>1, <1>2, <2>1 DEF TypeOK
<1>6. JobInv'
  BY <1>1, <1>3, <1>4 DEF JobInv
<1>7. OverlapInv'
  <2>1. \A w \in Running' : job'[w].call = job[w].call
    BY <1>4
  <2> QED
    BY <1>1, <1>2, <1>4, <2>1 DEF OverlapInv
<1>8. ASSUME NEW w \in Running' \ overlap', Apart(job'[w].call)
      PROVE  Effect(file', job'[w])
  <2>1. w \in Running \ overlap /\ job'[w].call = job[w].call
    BY <1>2, <1>4, <1>8
  <2>2. Effect(file, job[w])
    BY <1>1, <1>8, <2>1 DEF EffectInv
  <2>3. CASE w = v
    BY <1>1, <1>2, <1>4, <1>8, <2>1, <2>2, <2>3, SetEffect
  <2>4. CASE w # v
    <3>1. ~Meet(job[v].call, job[w].call)
      BY <1>1, <1>2, <2>1, <2>4 DEF OverlapInv
    <3>2. job'[w] = job[w] /\ job[w] \in Job /\ Listed(job[w])
      BY <1>1, <1>4, <1>8, <2>1, <2>4, ItemIs DEF JobInv
    <3>3. Effect(file', job[w])
      <4>1. \A i \in DOMAIN job[w].call.list :
                /\ file'[job[w].call.list[i].key] = file[job[w].call.list[i].key]
                /\ \A k \in Keys : Related(k, job[w].call.list[i].key) /\ file[k] = Absent
                                    => file'[k] = Absent
        BY <1>1, <1>2, <2>1, <3>1, StepsApart
      <4> QED
        BY <2>2, <3>2, <4>1, Undisturbed
    <3> QED
      BY <3>2, <3>3
  <2> QED
    BY <2>3, <2>4
<1> QED
  BY <1>5, <1>6, <1>7, <1>8 DEF FsdbInv, EffectInv

\* A process dies.
LEMMA CrashInv == ASSUME FsdbInv, NEW v \in Writers, Crash(v) PROVE FsdbInv'
<1>1. TypeOK /\ JobInv /\ OverlapInv /\ EffectInv
  BY DEF FsdbInv
<1>2. /\ UNCHANGED <<file, calls, overlap>> /\ job' = [job EXCEPT ![v] = Idle]
      /\ v \in Running /\ crashes' \in 0 .. MaxCrashes /\ dead' \subseteq Keys
  <2>1. Crash(v) => v \in Running
    BY DEF Crash
  <2>2. Key(v) \in Keys
    BY <1>1, <2>1, ItemIs
  <2> QED
    BY <1>1, <2>2, BoundsNat DEF Crash, TypeOK
<1>3. \A w \in Running' : w \in Running /\ job'[w] = job[w]
  BY <1>1, <1>2 DEF Running, At, Idle, TypeOK
<1>4. TypeOK'
  BY <1>1, <1>2 DEF TypeOK
<1>5. JobInv' /\ OverlapInv' /\ EffectInv'
  BY <1>1, <1>2, <1>3 DEF JobInv, OverlapInv, EffectInv
<1> QED
  BY <1>4, <1>5 DEF FsdbInv

\* At first there are no fields and no calls.
LEMMA InitInv == ASSUME Init PROVE FsdbInv
<1>1. Running = {}
  BY DEF Init, Running, At, Idle
<1>2. TypeOK
  BY BoundsNat DEF Init, TypeOK
<1> QED
  BY <1>1, <1>2 DEF FsdbInv, JobInv, OverlapInv, EffectInv

\* The invariant holds always.
THEOREM Invariant == Spec => []FsdbInv
<1>1. ASSUME FsdbInv, [Next]_vars PROVE FsdbInv'
  <2>1. CASE UNCHANGED vars
    BY <1>1, <2>1 DEF vars, FsdbInv, TypeOK, JobInv, OverlapInv, EffectInv, Running, At
  <2>2. CASE Next
    BY <1>1, <2>2, CallInv, SetInv, CrashInv DEF Next
  <2> QED
    BY <1>1, <2>1, <2>2
<1> QED
  BY InitInv, <1>1, PTL DEF Spec

\* Every variable of the database keeps its type.
THEOREM TypeCorrect == Spec => []TypeOK
<1>1. FsdbInv => TypeOK
  BY DEF FsdbInv
<1> QED
  BY Invariant, <1>1, PTL

\* However many processes set fields and die: a field only goes because somebody sets it
\* to nothing, or sets one above or below it.
THEOREM Removals == Spec => OnlyConflictsRemoved
<1> DEFINE Conflict == \A k \in Keys : file[k] # Absent /\ file'[k] = Absent =>
                         \E w \in Running :
                            \/ Key(w) = k /\ Item(w).value = Absent
                            \/ Key(w) # k /\ Related(Key(w), k)
<1>1. ASSUME FsdbInv, [Next]_vars PROVE [Conflict]_vars
  <2> SUFFICES ASSUME Next, NEW k \in Keys, file[k] # Absent, file'[k] = Absent
               PROVE  \E w \in Running : \/ Key(w) = k /\ Item(w).value = Absent
                                         \/ Key(w) # k /\ Related(Key(w), k)
    BY <1>1
  <2>1. PICK v \in Writers : Set(v)
    BY DEF Next, Call, Crash
  <2>2. v \in Running /\ Wrote(k, v)
    BY <1>1, <2>1, SetFiles DEF FsdbInv
  <2>3. Key(v) \in Keys
    BY <1>1, <2>2, ItemIs DEF FsdbInv
  <2>4. Wiped(k, Key(v)) => Key(v) # k /\ Related(Key(v), k)
    BY <2>3, RelatedIs DEF Around
  <2> QED
    BY <2>2, <2>4 DEF Wrote
<1> QED
  BY Invariant, <1>1, PTL DEF Spec, OnlyConflictsRemoved

\* If no call has fields one above the other: when one returns that no other on related
\* fields ran along, these have the values it was given, and the space around them is clean.
THEOREM TakesEffect ==
    ASSUME \A c \in Calls : Apart(c)
    PROVE  Spec => CallTakesEffect
<1> DEFINE Effective == \A w \in Writers : Returns(w) /\ w \notin overlap =>
         \A i \in DOMAIN job[w].call.list :
            LET k == job[w].call.list[i].key IN
            IF Refused(w) THEN file'[k] # Absent
            ELSE /\ file'[k] = job[w].call.list[i].value
                 /\ Plain(k) => CleanAround(job[w].call, k)
<1>1. ASSUME FsdbInv, FsdbInv', [Next]_vars PROVE [Effective]_vars
  <2> SUFFICES ASSUME Next, NEW w \in Writers, Returns(w), w \notin overlap
               PROVE  \A i \in DOMAIN job[w].call.list :
                        LET k == job[w].call.list[i].key IN
                        IF Refused(w) THEN file'[k] # Absent
                        ELSE /\ file'[k] = job[w].call.list[i].value
                             /\ Plain(k) => CleanAround(job[w].call, k)
    BY <1>1
  <2>1. TypeOK /\ JobInv /\ EffectInv /\ TypeOK'
    BY <1>1 DEF FsdbInv
  <2>2. w \in Running /\ job'[w].pc = "idle" /\ crashes' = crashes
    BY DEF Returns, Running
  <2>3. job'[w] = Idle
    BY <2>1, <2>2 DEF TypeOK, Job, PCs
  <2>4. Set(w)
    <3>1. PICK v \in Writers : Call(v) \/ Set(v) \/ Crash(v)
      BY DEF Next
    <3>2. ~Crash(v)
      BY <2>1, <2>2 DEF Crash, TypeOK
    <3>3. ~Call(v)
      <4> SUFFICES ASSUME Call(v) PROVE FALSE
        OBVIOUS
      <4>1. v # w
        BY <2>1, <2>2, CallJob DEF Running
      <4>2. job'[w] = job[w]
        BY <2>1, <4>1, CallJob
      <4> QED
        BY <2>2, <4>2 DEF Running, At
    <3>4. v # w => job'[w] = job[w]
      BY <2>1, <3>1, <3>2, <3>3, SetFiles
    <3> QED
      BY <2>2, <3>1, <3>2, <3>3, <3>4 DEF Running, At
  <2>5. Apart(job[w].call) /\ Effect(file, job[w])
    BY <2>1, <2>2, ItemIs DEF EffectInv
  <2>6. \/ At(w, "create") /\ \A i \in DOMAIN job[w].call.list :
                                  file'[job[w].call.list[i].key] # Absent
        \/ \A i \in DOMAIN job[w].call.list : Settled(file', job[w].call.list[i])
    BY <2>1, <2>2, <2>3, <2>4, <2>5, SetEffect
  <2>7. ASSUME At(w, "create")
        PROVE  \A i \in DOMAIN job[w].call.list : file'[job[w].call.list[i].key] # Absent
    <3> SUFFICES ASSUME NEW i \in DOMAIN job[w].call.list, Settled(file', job[w].call.list[i])
                 PROVE  file'[job[w].call.list[i].key] # Absent
      BY <2>6
    <3>1. ~job[w].call.force /\ Item(w).value # Absent
      BY <2>1, <2>2, <2>7 DEF JobInv, Steps, At, Item
    <3>2. job[w].call.kind = "set" /\ Len(job[w].call.list) = 1
      BY <2>1, <2>2, <3>1, ItemIs, CallIs
    <3>3. job[w].call.list[i] = Item(w)
      BY <2>1, <2>2, <3>2, ItemIs, CallIs DEF JobInv, Listed
    <3> QED
      BY <3>1, <3>3 DEF Settled
  <2>8. ASSUME ~At(w, "create"), NEW i \in DOMAIN job[w].call.list
        PROVE  LET k == job[w].call.list[i].key IN
               /\ file'[k] = job[w].call.list[i].value
               /\ Plain(k) => CleanAround(job[w].call, k)
    BY <2>6, <2>8 DEF Settled, Clear, Around, CleanAround
  <2> QED
    BY <2>7, <2>8 DEF Refused
<1> QED
  BY Invariant, <1>1, PTL DEF Spec, CallTakesEffect
=============================================================================
