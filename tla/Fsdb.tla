-------------------------------- MODULE Fsdb --------------------------------
(* The field database of commonl (fsdb_symlink_c): one symbolic link per     *)
(* field, its target the value.  Many processes of the server use one        *)
(* directory with no lock; each system call is a step.                       *)
(*                                                                           *)
(* Fields are named by paths ("a.b" is <<"a", "b">>).  The space is nested: a *)
(* field that has a value has no fields under it, which whoever sets one      *)
(* restores by removing those above and below.                               *)
EXTENDS Integers, Sequences, FiniteSets, SequencesExt

CONSTANTS Parts,      \* of names of fields
          Odd,        \* parts with characters that are quoted in file names
          Keys,       \* the fields: sequences of parts, closed under prefixes
          Values,     \* of fields
          Absent,     \* no link; also Python's None, which removes
          Calls,      \* calls processes make: [kind, list, force]
          Writers,    \* the processes
          MaxCalls,   \* bound: calls made in a behaviour
          MaxCrashes  \* bound: processes killed in a behaviour

Pair == [key : Keys, value : Values \cup {Absent}]

ASSUME KeysClosed ==
    /\ IsFiniteSet(Keys)
    /\ Keys \subseteq Seq(Parts) \ {<<>>}
    /\ \A k \in Keys : Len(k) > 1 => Front(k) \in Keys
\* Only set_keys() is given more than one field, only set() is called not to force.
ASSUME CallsMade ==
    /\ Calls \subseteq [kind : {"set", "set_keys", "property_set"},
                       list : Seq(Pair) \ {<<>>}, force : BOOLEAN]
    /\ \A c \in Calls : c.kind # "set_keys" => Len(c.list) = 1
    /\ \A c \in Calls : c.kind # "set" => c.force
ASSUME BoundsNat == MaxCalls \in Nat /\ MaxCrashes \in Nat

VARIABLES file,      \* what each field's link points to
          job,       \* the call each process is in
          dead,      \* fields with a creation file of a process that died
          calls, crashes,
          overlap    \* history: processes whose call ran along one on related fields

vars == <<file, job, dead, calls, crashes, overlap>>

Idle == [pc |-> "idle", call |-> <<>>, todo |-> <<>>, index |-> {}, shared |-> FALSE, wipe |-> {}]

Below(k, j) == IsStrictPrefix(k, j)
Related(k, j) == IsPrefix(k, j) \/ IsPrefix(j, k)

\* _key_quote() changes some names, and _keys_cleanup() is given the quoted one.
Plain(k) == \A i \in DOMAIN k : k[i] \notin Odd

\* keys(): the links there are.  A creation file is never among them: it is
\* stat()ed through its dangling link, which fails.
Present == {k \in Keys : file[k] # Absent}

\* _mkindex(): every path that is, or leads to, a field.
Index(present) == {k \in Keys : \E j \in present : IsPrefix(k, j)}

\* (mutant) the field itself among those above it
SuperAndItself(k, index) == {j \in index : IsPrefix(j, k) /\ Plain(j)}

\* The fields _superkey_cleanup_recurse() sets to None: those above k, until a
\* part that is not in the index, as a quoted one is not.
SuperKeys(k, index) == {j \in index : Below(j, k) /\ Plain(j)}

\* (mutant) only one level
SubKeysDirect(k, index) ==
    IF Plain(k) THEN {j \in index : Below(k, j) /\ Len(j) = Len(k) + 1} ELSE {}

\* The fields _subkey_space_remove() sets to None: those below k, if k is found.
SubKeys(k, index) == IF Plain(k) THEN {j \in index : Below(k, j)} ELSE {}

Init ==
    /\ file = [k \in Keys |-> Absent]
    /\ job = [w \in Writers |-> Idle]
    /\ dead = {}
    /\ calls = 0 /\ crashes = 0
    /\ overlap = {}

At(w, pc) == job[w].pc = pc
Running == {w \in Writers : ~At(w, "idle")}
Item(w) == Head(job[w].todo)
Key(w) == Item(w).key

Touches(call, k) == \E i \in DOMAIN call.list : Related(call.list[i].key, k)
Meet(c, d) == \E i \in DOMAIN c.list : Touches(d, c.list[i].key)

\* Where set() starts for the next pair, if there is one.
Entry(j, todo) ==
    IF todo = <<>> THEN Idle
    ELSE LET it == Head(todo)
             at == [j EXCEPT !.todo = todo, !.wipe = {}]
         IN [at EXCEPT !.pc = CASE it.value = Absent -> "unlink"
                                [] it.value # Absent /\ ~j.call.force -> "create"
                                [] OTHER -> "cleanup"]

\* set(), set_keys() and test_target.property_set() are called.
Call(w) ==
    /\ At(w, "idle") /\ calls < MaxCalls
    /\ \E c \in Calls :
         LET j == [Idle EXCEPT !.call = c]
             met == {v \in Running : Meet(job[v].call, c)}
         IN /\ job' = [job EXCEPT ![w] =
                  IF c.kind = "set_keys" THEN [j EXCEPT !.pc = "index", !.todo = c.list]
                  ELSE Entry(j, c.list)]
            /\ overlap' = (overlap \ {w}) \cup met \cup (IF met = {} THEN {} ELSE {w})
    /\ calls' = calls + 1
    /\ UNCHANGED <<file, dead, crashes>>

\* set_keys(): one index for all the fields it sets.
ShareIndex(w) ==
    /\ At(w, "index")
    /\ job' = [job EXCEPT ![w] =
                 Entry([@ EXCEPT !.index = Index(Present), !.shared = TRUE], @.todo)]
    /\ UNCHANGED <<file, dead, calls, crashes, overlap>>

\* The pair is done: set_keys() goes on to the next; property_set() looks once
\* more for fields below.
Done(j) ==
    IF j.call.kind = "property_set" /\ j.todo = j.call.list THEN [j EXCEPT !.pc = "sweep"]
    ELSE Entry(j, Tail(j.todo))

\* set() with None.
Unlink(w) ==
    /\ At(w, "unlink")
    /\ file' = [file EXCEPT ![Key(w)] = Absent]
    /\ job' = [job EXCEPT ![w].pc = "cleanup"]
    /\ UNCHANGED <<dead, calls, crashes, overlap>>

\* set() with force = False: symlink() creates the field or fails.
Create(w) ==
    /\ At(w, "create")
    /\ IF file[Key(w)] = Absent
       THEN /\ file' = [file EXCEPT ![Key(w)] = Item(w).value]
            /\ job' = [job EXCEPT ![w].pc = "cleanup"]
       ELSE /\ job' = [job EXCEPT ![w] = Done(@)]
            /\ UNCHANGED file
    /\ UNCHANGED <<dead, calls, crashes, overlap>>

\* _keys_cleanup() finds what is to be wiped; the part of the index below the
\* field is cleared.
Cleanup(w) ==
    /\ At(w, "cleanup")
    /\ LET index == IF job[w].shared THEN job[w].index ELSE Index(Present) IN
         job' = [job EXCEPT ![w].pc = "wipe",
                            ![w].wipe = SuperKeys(Key(w), index) \cup SubKeys(Key(w), index),
                            ![w].index = IF job[w].shared
                                         THEN index \ SubKeys(Key(w), index) ELSE {}]
    /\ UNCHANGED <<file, dead, calls, crashes, overlap>>

\* ... and unlinks it one by one, from the top.
Wipe(w) ==
    /\ At(w, "wipe")
    /\ \E k \in job[w].wipe :
         /\ \A j \in job[w].wipe : ~Below(j, k)
         /\ file' = [file EXCEPT ![k] = Absent]
         /\ job' = [job EXCEPT ![w].wipe = @ \ {k}]
    /\ UNCHANGED <<dead, calls, crashes, overlap>>

\* Nothing is left to wipe: set() returns, or writes the creation file.
AllWiped(w) ==
    /\ At(w, "wipe") /\ job[w].wipe = {}
    /\ job' = [job EXCEPT ![w] =
                 IF Item(w).value # Absent /\ job[w].call.force
                 THEN [@ EXCEPT !.pc = "rename"] ELSE Done(@)]
    /\ UNCHANGED <<file, dead, calls, crashes, overlap>>

\* The creation file, of a name of the process's own, replaces the field.
Rename(w) ==
    /\ At(w, "rename")
    /\ file' = [file EXCEPT ![Key(w)] = Item(w).value]
    /\ job' = [job EXCEPT ![w] = Done(@)]
    /\ UNCHANGED <<dead, calls, crashes, overlap>>

Orders(S) == {s \in [1 .. Cardinality(S) -> S] : IsInjective(s)}

\* property_set(): the fields found below are set to None too, and what is above
\* each of them with it.
Sweep(w) ==
    /\ At(w, "sweep")
    /\ \E found \in Orders({k \in Present : Below(Key(w), k)}) :
         job' = [job EXCEPT ![w] =
                   Entry(@, [i \in DOMAIN found |-> [key |-> found[i], value |-> Absent]])]
    /\ UNCHANGED <<file, dead, calls, crashes, overlap>>

\* The process is killed; its creation file stays, and no later one has its name.
Crash(w) ==
    /\ w \in Running /\ crashes < MaxCrashes
    /\ dead' = IF At(w, "rename") THEN dead \cup {Key(w)} ELSE dead
    /\ job' = [job EXCEPT ![w] = Idle]
    /\ crashes' = crashes + 1
    /\ UNCHANGED <<file, calls, overlap>>

Set(w) ==
    \/ ShareIndex(w) \/ Unlink(w) \/ Create(w) \/ Cleanup(w)
    \/ Wipe(w) \/ AllWiped(w) \/ Rename(w) \/ Sweep(w)

Next == \E w \in Writers : Call(w) \/ Set(w) \/ Crash(w)

Spec == Init /\ [][Next]_vars
=============================================================================
