--------------------------- MODULE FsdbProperties ---------------------------
(* What the field database promises: properties of the behaviours of Fsdb.   *)
EXTENDS Fsdb

PCs == {"index", "unlink", "create", "cleanup", "wipe", "rename", "sweep"}
Job == [pc : PCs, call : Calls, todo : Seq(Pair) \ {<<>>}, index : SUBSET Keys,
        shared : BOOLEAN, wipe : SUBSET Keys]

TypeOK ==
    /\ file \in [Keys -> Values \cup {Absent}]
    /\ job \in [Writers -> Job \cup {Idle}]
    /\ dead \subseteq Keys
    /\ overlap \subseteq Writers
    /\ calls \in 0 .. MaxCalls
    /\ crashes \in 0 .. MaxCrashes

\* A field only goes away because somebody sets it to None or sets one above or
\* below it; whoever sets it to a value replaces it, and readers "will always see
\* the data consistently written, either the old data or the new data".
OnlyConflictsRemoved ==
    [][\A k \in Keys : file[k] # Absent /\ file'[k] = Absent =>
         \E w \in Running :
            \/ Key(w) = k /\ Item(w).value = Absent
            \/ Key(w) # k /\ Related(Key(w), k)]_vars

\* When a call on some fields returns, and no other one ran along it on these,
\* or on any above or below, they have the values it was given and the space
\* around them is clean, whatever other calls, and others that died half way,
\* left there.  Not so for set() and set_keys() on a field whose name is quoted:
\* what was below and above it stays.
Returns(w) == ~At(w, "idle") /\ job'[w].pc = "idle" /\ crashes' = crashes

CleanAround(c, k) ==
    \A j \in Keys : Related(j, k) /\ j # k /\ (\A i \in DOMAIN c.list : c.list[i].key # j)
                    => file'[j] = Absent

\* force = False failed: the field has a value already.
Refused(w) == At(w, "create")

CallTakesEffect ==
    [][\A w \in Writers : Returns(w) /\ w \notin overlap =>
         \A i \in DOMAIN job[w].call.list :
            LET k == job[w].call.list[i].key IN
            IF Refused(w) THEN file'[k] # Absent
            ELSE /\ file'[k] = job[w].call.list[i].value
                 /\ Plain(k) => CleanAround(job[w].call, k)]_vars
=============================================================================
