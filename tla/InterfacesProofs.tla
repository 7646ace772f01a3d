-------------------------- MODULE InterfacesProofs --------------------------
(* Theorems about Interfaces for any number of owners, programs, keys and      *)
(* client certificates: captures and certificates are of who has the target,   *)
(* or gave it back as an extra, whatever failed before it was last released.   *)
EXTENDS InterfacesProperties, FiniteSetTheorems, TLAPS

\* Where a request may be, by what was asked for.
CapturePCs == {"field", "read", "kill", "unlink", "spawn", "settle", "note", "clear",
               "publish", "remove"}
StartPCs == {"spawn", "settle", "note", "clear", "publish"}
SetupPCs == {"mkdir", "authority", "server"}
MakePCs == {"key", "req", "sign"}
PutPCs == {"dirs", "look"} \cup SetupPCs \cup MakePCs
WipePCs == {"wipe", "wipe_clients"}
DropPCs == {"drop_key", "drop_req", "drop_cert"}
PCs == {"idle", "hooks"} \cup CapturePCs \cup PutPCs \cup WipePCs \cup DropPCs

Ops == {"none", "start", "stop", "release", "put", "undo", "delete"}

Job == [pc : PCs, op : Ops, who : Allocs \cup {NoAlloc},
        hooks : SUBSET {"capture", "certificates"}, pid : Pids \cup {None}, name : SUBSET Names]

OpsTyped ==
    /\ job.pc = "idle" <=> job.op = "none"
    /\ job.pc \in StartPCs => job.op = "start"
    /\ job.pc = "field" => job.op \in {"stop", "release"}
    /\ job.pc \in {"read", "kill", "unlink"} => job.op \in {"start", "stop", "release"}
    /\ job.pc \in {"remove", "hooks"} => job.op = "release"
    /\ job.pc \in PutPCs => job.op = "put"
    /\ job.pc \in WipePCs => job.op \in {"put", "undo", "release"}
    /\ job.pc \in DropPCs => job.op \in {"put", "delete"}

\* A request is about one certificate at most.
OneName == \A m, n \in job.name : m = n

JobInv == job \in Job /\ OpsTyped /\ OneName

TypeInv == TypeOK /\ JobInv

\* What runs is known: outside the requests of the capture interface by the pid
\* file and the field, within them by one of these or by the request itself.
Watched == running \subseteq {pidfile} /\ (running # {} => capturing = "yes")

CaptureInv ==
    /\ job.pc \notin CapturePCs \ {"field"} => Watched
    /\ job.pc \in {"read", "clear", "publish"} => running \subseteq {pidfile}
    /\ job.pc = "kill" => running \subseteq {pidfile} /\ job.pid = pidfile
    /\ job.pc \in {"unlink", "spawn", "remove"} => running = {}
    /\ job.pc \in {"settle", "note"} => running \subseteq {job.pid}

\* What is there was made for who has the target or gave it back as an extra, and so is
\* what a request makes, which is one of theirs.  A hook that ran left nothing.
NoCaptures == running = {} /\ data = NoAlloc
NoFiles == authority = None /\ server = None /\ \A n \in Names : key[n] = None /\ cert[n] = Unsigned

Theirs(k) == k # None => maker[k] \in Holders
AllTheirs ==
    /\ data \in Holders \cup {NoAlloc}
    /\ Theirs(authority) /\ Theirs(server)
    /\ \A n \in Names : Theirs(key[n]) /\ Theirs(cert[n].ca)

OwnerInv ==
    /\ running # {} => data # NoAlloc
    /\ job.op # "release" => AllTheirs
    /\ job.op \notin {"none", "release"} => job.who \in Holders
    /\ job.op = "release" =>
        /\ "capture" \notin job.hooks /\ job.pc \notin CapturePCs => NoCaptures
        /\ "certificates" \notin job.hooks /\ job.pc \notin WipePCs => NoFiles
    /\ job.pc = "wipe_clients" => authority = None /\ server = None

\* A certificate goes with its key and the authority, but while it is removed.
Settled(n) ==
    cert[n] # Unsigned => dir /\ cdir /\ key[n] # None
      /\ cert[n] = [key |-> key[n], ca |-> authority]

PairsInv ==
    /\ job.pc \notin {"wipe_clients", "drop_req", "drop_cert"} => \A n \in Names : Settled(n)
    /\ job.pc \in {"drop_req", "drop_cert"} => \A n \in Names \ job.name : Settled(n)
    /\ job.pc \in SetupPCs => \A n \in Names : cert[n] = Unsigned
    /\ job.pc \in MakePCs => \A n \in job.name : cert[n] = Unsigned
    /\ job.pc \in {"req", "sign"} => \A n \in job.name : key[n] # None
    /\ job.pc = "sign" => \A n \in job.name : req[n] = key[n]
    /\ job.pc \in {"authority", "server", "look"} \cup MakePCs => dir /\ cdir

Inv == TypeInv /\ CaptureInv /\ OwnerInv /\ PairsInv
-----------------------------------------------------------------------------
(* The request that is served.                                                *)

USE DEF None, Pids, Keys, Unsigned, Idle, At, Flow, Finish

\* What a request does once the capture program is stopped follows from what was asked.
LEMMA StoppedJob ==
    ASSUME JobInv, job.op \in {"start", "stop", "release"}, job' = Stopped
    PROVE  JobInv'
<1> USE DEF JobInv, Job, OpsTyped, OneName, PCs, Ops, CapturePCs, StartPCs, SetupPCs, MakePCs,
    PutPCs, WipePCs, DropPCs
<1>1. CASE job.op = "start"
  <2>1. job' = [job EXCEPT !.pc = "spawn", !.pid = None]
    BY <1>1 DEF Stopped
  <2> QED  BY <1>1, <2>1
<1>2. CASE job.op = "stop"
  <2>1. job' = Idle
    BY <1>2 DEF Stopped
  <2> QED  BY <2>1
<1>3. CASE job.op = "release"
  <2>1. job' = [job EXCEPT !.pc = "remove", !.pid = None]
    BY <1>3 DEF Stopped
  <2> QED  BY <1>3, <2>1
<1> QED
  BY <1>1, <1>2, <1>3

\* What it does once the directories of the certificates are removed, too.
LEMMA WipedJob ==
    ASSUME JobInv, job.op \in {"put", "undo", "release"}, job' = Wiped
    PROVE  JobInv'
<1> USE DEF JobInv, Job, OpsTyped, OneName, PCs, Ops, CapturePCs, StartPCs, SetupPCs, MakePCs,
    PutPCs, WipePCs, DropPCs
<1>1. CASE job.op = "put"
  <2>1. job' = [job EXCEPT !.pc = "mkdir"]
    BY <1>1 DEF Wiped
  <2> QED  BY <1>1, <2>1
<1>2. CASE job.op = "undo"
  <2>1. job' = Idle
    BY <1>2 DEF Wiped
  <2> QED  BY <2>1
<1>3. CASE job.op = "release"
  <2>1. job' = [job EXCEPT !.pc = "hooks", !.pid = None]
    BY <1>3 DEF Wiped, HookDone
  <2> QED  BY <1>3, <2>1
<1> QED
  BY <1>1, <1>2, <1>3

\* The capture interface goes from each of its steps to one that exists for what was asked.
LEMMA CaptureJob ==
    ASSUME TypeInv, CaptureNext
    PROVE  JobInv'
<1> USE CaptureAssumption DEF TypeInv, TypeOK, JobInv, Job, OpsTyped, OneName, PCs, Ops,
    CapturePCs, StartPCs, SetupPCs, MakePCs, PutPCs, WipePCs, DropPCs
<1>1. CASE PutStart
  BY <1>1 DEF PutStart, Begin
<1>2. CASE PutStop
  BY <1>2 DEF PutStop, Begin
<1>3. CASE SkipStop
  <2>1. CASE job.op = "stop"
    BY <1>3, <2>1 DEF SkipStop
  <2>2. CASE job.op # "stop"
    BY <1>3, <2>2 DEF SkipStop
  <2> QED  BY <2>1, <2>2
<1>4. CASE SetNotCapturing
  BY <1>4 DEF SetNotCapturing
<1>5. CASE Kill
  BY <1>5 DEF Kill
<1>6. CASE Spawn
  <2>1. spawned + 1 \in Pids /\ job.op = "start"
    BY <1>6 DEF Spawn
  <2>2. job' = [job EXCEPT !.pc = "settle", !.pid = spawned + 1]
    BY <1>6 DEF Spawn
  <2> HIDE DEF Pids
  <2> QED  BY <2>1, <2>2
<1>7. CASE StartFails
  BY <1>7 DEF StartFails
<1>8. CASE Settle
  BY <1>8 DEF Settle
<1>9. CASE NotePid
  BY <1>9 DEF NotePid
<1>10. CASE Clear
  BY <1>10 DEF Clear
<1>11. CASE Publish
  BY <1>11 DEF Publish
<1>12. CASE RemoveCaptures
  BY <1>12 DEF RemoveCaptures, HookDone
<1>13. CASE ReadPid
  <2>1. CASE pidfile = None
    BY <1>13, <2>1, StoppedJob DEF ReadPid
  <2>2. CASE pidfile # None
    BY <1>13, <2>2 DEF ReadPid
  <2> QED  BY <2>1, <2>2
<1>14. CASE Unlink
  BY <1>14, StoppedJob DEF Unlink
<1>15. ASSUME NEW pid \in Pids, Ends(pid) PROVE JobInv'
  BY <1>15 DEF Ends
<1> QED
  BY <1>1, <1>2, <1>3, <1>4, <1>5, <1>6, <1>7, <1>8, <1>9, <1>10, <1>11, <1>12, <1>13, <1>14,
      <1>15 DEF CaptureNext, CaptureStep

\* The interface of the certificates does too.
LEMMA CertsJob ==
    ASSUME TypeInv, CertsNext
    PROVE  JobInv'
<1> USE DEF TypeInv, JobInv, Job, OpsTyped, OneName, PCs, Ops, CapturePCs, StartPCs, SetupPCs,
    MakePCs, PutPCs, WipePCs, DropPCs
<1>1. ASSUME NEW n \in Names, PutCertificate(n) PROVE JobInv'
  <2>1. job' = [Idle EXCEPT !.pc = "dirs", !.op = "put", !.who = owner,
                     !.name = {n}]
    BY <1>1 DEF PutCertificate, Begin
  <2>2. job' = [pc |-> "dirs", op |-> "put", who |-> owner, hooks |-> {}, pid |-> None,
             name |-> {n}]
    BY <2>1
  <2>3. job' \in Job /\ OneName'
    BY <2>2 DEF TypeOK
  <2> QED  BY <2>2, <2>3
<1>2. ASSUME NEW n \in Names, DeleteCertificate(n) PROVE JobInv'
  <2>1. job' = [Idle EXCEPT !.pc = "drop_key", !.op = "delete", !.who = owner,
                     !.name = {n}]
    BY <1>2 DEF DeleteCertificate, Begin
  <2>2. job' = [pc |-> "drop_key", op |-> "delete", who |-> owner, hooks |-> {}, pid |-> None,
             name |-> {n}]
    BY <2>1
  <2>3. job' \in Job /\ OneName'
    BY <2>2 DEF TypeOK
  <2> QED  BY <2>2, <2>3
<1>3. CASE WipeClients
  BY <1>3, WipedJob DEF WipeClients
<1>4. CASE Dirs
  BY <1>4 DEF Dirs
<1>5. CASE WipeDir
  BY <1>5 DEF WipeDir
<1>6. CASE MakeDirs
  BY <1>6 DEF MakeDirs
<1>7. CASE MakeAuthority
  BY <1>7 DEF MakeAuthority
<1>8. CASE MakeServer
  BY <1>8 DEF MakeServer
<1>9. CASE SetupFails
  BY <1>9 DEF SetupFails
<1>10. CASE SetupUndone
  BY <1>10 DEF SetupUndone
<1>11. CASE Look
  BY <1>11 DEF Look
<1>12. CASE MakeKey
  BY <1>12 DEF MakeKey
<1>13. CASE MakeRequest
  BY <1>13 DEF MakeRequest
<1>14. CASE Sign
  BY <1>14 DEF Sign
<1>15. CASE CommandFails
  BY <1>15 DEF CommandFails
<1>16. CASE CommandRaises
  BY <1>16 DEF CommandRaises
<1>17. CASE DropKey
  BY <1>17 DEF DropKey
<1>18. CASE DropRequest
  BY <1>18 DEF DropRequest
<1>19. CASE DropCert
  BY <1>19 DEF DropCert
<1> QED
  BY <1>1, <1>2, <1>3, <1>4, <1>5, <1>6, <1>7, <1>8, <1>9, <1>10, <1>11, <1>12, <1>13, <1>14,
      <1>15, <1>16, <1>17, <1>18, <1>19 DEF CertsNext, CertsStep

\* A request is somewhere it can be, for what was asked, about one certificate at most.
LEMMA JobPreserved ==
    ASSUME TypeInv, [Next]_vars
    PROVE  JobInv'
<1> USE DEF TypeInv, JobInv, Job, OpsTyped, OneName, PCs, Ops, CapturePCs, StartPCs, SetupPCs,
    MakePCs, PutPCs, WipePCs, DropPCs
<1>1. ASSUME NEW a \in Allocs, Acquire(a) PROVE JobInv'
  BY <1>1 DEF Acquire
<1>6. CASE ReleaseExtra
  BY <1>6 DEF ReleaseExtra
<1>2. CASE Release
  BY <1>2 DEF Release
<1>3. CASE RunHook
  <2>1. PICK h \in job.hooks : job' = [job EXCEPT !.hooks = @ \ {h},
          !.pc = IF h = "capture" THEN "field" ELSE "wipe"]
    BY <1>3 DEF RunHook
  <2> QED  BY <1>3, <2>1 DEF RunHook
<1>4. CASE Released
  BY <1>4 DEF Released
<1>5. CASE UNCHANGED vars
  BY <1>5 DEF vars
<1> QED
  BY <1>1, <1>2, <1>3, <1>4, <1>5, <1>6, CaptureJob, CertsJob DEF Next

-----------------------------------------------------------------------------
(* Types *)

\* The capture interface keeps the types.
LEMMA CaptureTyped ==
    ASSUME TypeInv, JobInv', CaptureNext, UNCHANGED certs
    PROVE  TypeOK'
<1> USE CaptureAssumption DEF TypeInv, TypeOK, JobInv, Job, certs, keys, store, client,
    capture, programs, records, holding
<1>1. CASE PutStart
  BY <1>1 DEF PutStart, Begin
<1>2. CASE PutStop
  BY <1>2 DEF PutStop, Begin
<1>3. CASE SkipStop
  BY <1>3 DEF SkipStop
<1>4. CASE SetNotCapturing
  BY <1>4 DEF SetNotCapturing
<1>5. CASE Kill
  BY <1>5 DEF Kill
<1>6. CASE Spawn
  BY <1>6 DEF Spawn
<1>7. CASE StartFails
  BY <1>7 DEF StartFails
<1>8. CASE Settle
  BY <1>8 DEF Settle
<1>9. CASE NotePid
  BY <1>9 DEF NotePid
<1>10. CASE Clear
  BY <1>10 DEF Clear
<1>11. CASE Publish
  BY <1>11 DEF Publish
<1>12. CASE RemoveCaptures
  BY <1>12 DEF RemoveCaptures
<1>13. CASE ReadPid
  BY <1>13 DEF ReadPid
<1>14. CASE Unlink
  BY <1>14 DEF Unlink
<1>15. ASSUME NEW pid \in Pids, Ends(pid) PROVE TypeOK'
  BY <1>15 DEF Ends
<1> QED
  BY <1>1, <1>2, <1>3, <1>4, <1>5, <1>6, <1>7, <1>8, <1>9, <1>10, <1>11, <1>12, <1>13, <1>14,
      <1>15 DEF CaptureNext, CaptureStep

\* The interface of the certificates keeps the types.
LEMMA CertsTyped ==
    ASSUME TypeInv, JobInv', CertsNext, UNCHANGED capture
    PROVE  TypeOK'
<1> USE CertsAssumption DEF TypeInv, TypeOK, JobInv, Job, certs, keys, store, client, capture,
    programs, records, holding
<1>1. ASSUME NEW n \in Names, PutCertificate(n) PROVE TypeOK'
  BY <1>1 DEF PutCertificate, Begin
<1>2. ASSUME NEW n \in Names, DeleteCertificate(n) PROVE TypeOK'
  BY <1>2 DEF DeleteCertificate, Begin
<1>3. CASE WipeClients
  BY <1>3 DEF WipeClients
<1>4. CASE Dirs
  BY <1>4 DEF Dirs
<1>5. CASE WipeDir
  BY <1>5 DEF WipeDir
<1>6. CASE MakeDirs
  BY <1>6 DEF MakeDirs
<1>7. CASE MakeAuthority
  BY <1>7 DEF MakeAuthority, NewKey
<1>8. CASE MakeServer
  BY <1>8 DEF MakeServer
<1>9. CASE SetupFails
  BY <1>9 DEF SetupFails
<1>10. CASE SetupUndone
  BY <1>10 DEF SetupUndone
<1>11. CASE Look
  BY <1>11 DEF Look
<1>12. CASE MakeKey
  BY <1>12 DEF MakeKey, NewKey
<1>13. CASE MakeRequest
  BY <1>13 DEF MakeRequest
<1>14. CASE Sign
  BY <1>14 DEF Sign
<1>15. CASE CommandFails
  BY <1>15 DEF CommandFails
<1>16. CASE CommandRaises
  BY <1>16 DEF CommandRaises
<1>17. CASE DropKey
  BY <1>17 DEF DropKey
<1>18. CASE DropRequest
  BY <1>18 DEF DropRequest
<1>19. CASE DropCert
  BY <1>19 DEF DropCert
<1> QED
  BY <1>1, <1>2, <1>3, <1>4, <1>5, <1>6, <1>7, <1>8, <1>9, <1>10, <1>11, <1>12, <1>13, <1>14,
      <1>15, <1>16, <1>17, <1>18, <1>19 DEF CertsNext, CertsStep

\* Every step keeps the types.
LEMMA TypePreserved ==
    ASSUME TypeInv, [Next]_vars
    PROVE  TypeInv'
<1>0. JobInv'
  BY JobPreserved
<1> USE DEF TypeInv, TypeOK, JobInv, Job, certs, keys, store, client, capture, programs,
    records,
    holding
<1>1. ASSUME NEW a \in Allocs, Acquire(a), UNCHANGED <<capture, certs>> PROVE TypeOK'
  BY <1>0, <1>1 DEF Acquire
<1>6. CASE ReleaseExtra /\ UNCHANGED <<capture, certs>>
  BY <1>0, <1>6 DEF ReleaseExtra
<1>2. CASE Release
  BY <1>0, <1>2 DEF Release
<1>3. CASE RunHook
  BY <1>0, <1>3 DEF RunHook
<1>4. CASE Released
  BY <1>0, <1>4 DEF Released
<1>5. CASE UNCHANGED vars
  BY <1>0, <1>5 DEF vars
<1> HIDE DEF TypeOK, JobInv
<1> QED
  BY <1>0, <1>1, <1>2, <1>3, <1>4, <1>5, <1>6, CaptureTyped, CertsTyped DEF Next

-----------------------------------------------------------------------------
(* What captures is known. *)

\* Every step keeps track of the program that captures: what was spawned is noted in the
\* pid file before the request ends, and forgotten only once it does not run.
LEMMA CapturePreserved ==
    ASSUME TypeInv, JobInv', CaptureInv, [Next]_vars
    PROVE  CaptureInv'
<1> USE DEF TypeInv, TypeOK, JobInv, OpsTyped, Job, CaptureInv, Watched, CapturePCs, StartPCs,
    SetupPCs, MakePCs, PutPCs, WipePCs, DropPCs
<1>1. CASE PutStart
  BY <1>1 DEF PutStart, Begin, capture, programs, records
<1>2. CASE PutStop
  BY <1>2 DEF PutStop, Begin, capture, programs, records
<1>3. CASE SkipStop
  BY <1>3 DEF SkipStop, capture, programs, records
<1>4. CASE SetNotCapturing
  BY <1>4 DEF SetNotCapturing, capture, programs, records
<1>5. CASE Kill
  BY <1>5 DEF Kill, capture, programs, records
<1>6. CASE Spawn
  BY <1>6 DEF Spawn, capture, programs, records
<1>7. CASE StartFails
  BY <1>7 DEF StartFails, capture, programs, records
<1>8. CASE Settle
  BY <1>8 DEF Settle, capture, programs, records
<1>9. CASE NotePid
  BY <1>9 DEF NotePid, capture, programs, records
<1>10. CASE Clear
  BY <1>10 DEF Clear, capture, programs, records
<1>11. CASE Publish
  BY <1>11 DEF Publish, capture, programs, records
<1>12. CASE RemoveCaptures
  BY <1>12 DEF RemoveCaptures, HookDone, capture, programs, records
<1>13. CASE ReadPid
  BY <1>13 DEF ReadPid, Stopped, capture, programs, records
<1>14. CASE Unlink
  BY <1>14 DEF Unlink, Stopped, capture, programs, records
<1>15. ASSUME NEW pid \in Pids, Ends(pid) PROVE CaptureInv'
  BY <1>15 DEF Ends, records
<1>16. ASSUME CertsNext, UNCHANGED capture PROVE CaptureInv'
  <2>1. job.pc \notin CapturePCs /\ job'.pc \notin CapturePCs
    <3>1. CASE \E n \in Names : PutCertificate(n) \/ DeleteCertificate(n)
      BY <3>1 DEF PutCertificate, DeleteCertificate, Begin
    <3>2. CASE Dirs
      BY <3>2 DEF Dirs
    <3>6. CASE WipeDir \/ MakeDirs \/ MakeAuthority \/ MakeServer
      BY <3>6 DEF WipeDir, MakeDirs, MakeAuthority, MakeServer
    <3>7. CASE SetupFails
      BY <3>7 DEF SetupFails
    <3>8. CASE SetupUndone
      BY <3>8 DEF SetupUndone
    <3>3. CASE WipeClients
      BY <3>3 DEF WipeClients, Wiped, HookDone
    <3>4. CASE Look \/ MakeKey \/ MakeRequest \/ Sign \/ CommandFails \/ CommandRaises
      BY <3>4 DEF Look, MakeKey, MakeRequest, Sign, CommandFails, CommandRaises
    <3>5. CASE DropKey \/ DropRequest \/ DropCert
      BY <3>5 DEF DropKey, DropRequest, DropCert
    <3> QED
      BY <1>16, <3>1, <3>2, <3>3, <3>4, <3>5, <3>6, <3>7, <3>8 DEF CertsNext, CertsStep
  <2> QED
    BY <1>16, <2>1 DEF capture, programs, records
<1>17. CASE ((\E a \in Allocs : Acquire(a)) \/ ReleaseExtra) /\ UNCHANGED <<capture, certs>>
  BY <1>17 DEF Acquire, ReleaseExtra, capture, programs, records
<1>18. CASE Release
  BY <1>18 DEF Release, capture, programs, records
<1>19. CASE RunHook
  BY <1>19 DEF RunHook, capture, programs, records
<1>20. CASE Released
  BY <1>20 DEF Released, capture, programs, records
<1>21. CASE UNCHANGED vars
  BY <1>21 DEF vars, capture, programs, records
<1> QED
  BY <1>1, <1>2, <1>3, <1>4, <1>5, <1>6, <1>7, <1>8, <1>9, <1>10, <1>11, <1>12, <1>13, <1>14,
      <1>15, <1>16, <1>17, <1>18, <1>19, <1>20, <1>21 DEF Next, CaptureNext, CaptureStep

\* What a step leaves behind is of one who has the target or gave it back as an extra, and
\* a hook that ran left nothing.
LEMMA OwnerPreserved ==
    ASSUME TypeInv, JobInv', CaptureInv, OwnerInv, [Next]_vars
    PROVE  OwnerInv'
<1> USE AllocsAssumption DEF TypeInv, TypeOK, JobInv, OpsTyped, Job, OwnerInv, AllTheirs,
    Theirs, Holders, holding, NoCaptures, NoFiles, CapturePCs, StartPCs, SetupPCs, MakePCs,
      PutPCs, WipePCs, DropPCs
<1>1. ASSUME PutStart, UNCHANGED certs PROVE OwnerInv'
  BY <1>1 DEF PutStart, Begin, programs, records, capture, certs, keys, store, client
<1>2. ASSUME PutStop, UNCHANGED certs PROVE OwnerInv'
  BY <1>2 DEF PutStop, Begin, programs, records, capture, certs, keys, store, client
<1>3. ASSUME SkipStop, UNCHANGED certs PROVE OwnerInv'
  BY <1>3 DEF SkipStop, programs, records, capture, certs, keys, store, client
<1>4. ASSUME SetNotCapturing, UNCHANGED certs PROVE OwnerInv'
  BY <1>4 DEF SetNotCapturing, programs, records, capture, certs, keys, store, client
<1>5. ASSUME Kill, UNCHANGED certs PROVE OwnerInv'
  BY <1>5 DEF Kill, programs, records, capture, certs, keys, store, client
<1>6. ASSUME Spawn, UNCHANGED certs PROVE OwnerInv'
  BY <1>6 DEF Spawn, programs, records, capture, certs, keys, store, client
<1>7. ASSUME StartFails, UNCHANGED certs PROVE OwnerInv'
  BY <1>7 DEF StartFails, programs, records, capture, certs, keys, store, client
<1>8. ASSUME Settle, UNCHANGED certs PROVE OwnerInv'
  BY <1>8 DEF Settle, programs, records, capture, certs, keys, store, client
<1>9. ASSUME NotePid, UNCHANGED certs PROVE OwnerInv'
  BY <1>9 DEF NotePid, programs, records, capture, certs, keys, store, client
<1>10. ASSUME Clear, UNCHANGED certs PROVE OwnerInv'
  BY <1>10 DEF Clear, programs, records, capture, certs, keys, store, client
<1>11. ASSUME Publish, UNCHANGED certs PROVE OwnerInv'
  BY <1>11 DEF Publish, programs, records, capture, certs, keys, store, client
<1>12. ASSUME RemoveCaptures, UNCHANGED certs PROVE OwnerInv'
  BY <1>12 DEF RemoveCaptures, HookDone, CaptureInv, programs, records, capture, certs, keys,
      store, client
<1>13. ASSUME ReadPid, UNCHANGED certs PROVE OwnerInv'
  BY <1>13 DEF ReadPid, Stopped, programs, records, capture, certs, keys, store, client
<1>14. ASSUME Unlink, UNCHANGED certs PROVE OwnerInv'
  <2>1. job.op \in {"start", "stop", "release"}
          /\ UNCHANGED <<owner, handed, data, running, maker, authority, server, key, cert>>
    BY <1>14 DEF Unlink, holding, programs, certs, keys, store, client
  <2>2. job'.hooks \in {job.hooks, {}} /\ job'.pc \in {"spawn", "idle", "remove"}
    BY <1>14, <2>1 DEF Unlink, Stopped
  <2>3. job'.op \in {job.op, "none"} /\ (job'.op = "release" <=> job.op = "release")
          /\ (job.op = "release" => job'.hooks = job.hooks) /\ job'.who \in {job.who, NoAlloc}
          /\ (job'.op # "none" => job'.who = job.who)
    BY <1>14, <2>1 DEF Unlink, Stopped
  <2>4. job.pc = "unlink"
    BY <1>14 DEF Unlink
  <2> QED
    BY <2>1, <2>2, <2>3, <2>4
<1>15. ASSUME NEW pid \in Pids, Ends(pid), UNCHANGED certs PROVE OwnerInv'
  BY <1>15 DEF Ends, certs, keys, store, client
<1>16. ASSUME NEW n \in Names, PutCertificate(n), UNCHANGED capture PROVE OwnerInv'
  BY <1>16 DEF PutCertificate, Begin, programs, records, capture, certs, keys, store, client
<1>17. ASSUME NEW n \in Names, DeleteCertificate(n), UNCHANGED capture PROVE OwnerInv'
  BY <1>17 DEF DeleteCertificate, Begin, programs, records, capture, certs, keys, store, client
<1>18. ASSUME WipeClients, UNCHANGED capture PROVE OwnerInv'
  BY <1>18, CertsAssumption DEF WipeClients, Wiped, HookDone, programs, records, capture,
      certs, keys, store, client
<1>19. ASSUME Dirs, UNCHANGED capture PROVE OwnerInv'
  BY <1>19, CertsAssumption DEF Dirs, programs, records, capture, certs, keys, store, client
<1>20. ASSUME WipeDir, UNCHANGED capture PROVE OwnerInv'
  BY <1>20, CertsAssumption DEF WipeDir, programs, records, capture, certs, keys, store, client
<1>21. ASSUME MakeDirs, UNCHANGED capture PROVE OwnerInv'
  BY <1>21, CertsAssumption DEF MakeDirs, programs, records, capture, certs, keys, store, client
<1>22. ASSUME MakeAuthority, UNCHANGED capture PROVE OwnerInv'
  BY <1>22, CertsAssumption DEF MakeAuthority, NewKey, programs, records, capture, certs,
      keys, store, client
<1>23. ASSUME MakeServer, UNCHANGED capture PROVE OwnerInv'
  BY <1>23, CertsAssumption DEF MakeServer, programs, records, capture, certs, keys, store,
      client
<1>24. ASSUME SetupFails, UNCHANGED capture PROVE OwnerInv'
  BY <1>24, CertsAssumption DEF SetupFails, programs, records, capture, certs, keys, store,
      client
<1>25. ASSUME SetupUndone, UNCHANGED capture PROVE OwnerInv'
  BY <1>25, CertsAssumption DEF SetupUndone, programs, records, capture, certs, keys, store,
      client
<1>26. ASSUME Look, UNCHANGED capture PROVE OwnerInv'
  BY <1>26, CertsAssumption DEF Look, programs, records, capture, certs, keys, store, client
<1>27. ASSUME MakeKey, UNCHANGED capture PROVE OwnerInv'
  BY <1>27, CertsAssumption DEF MakeKey, NewKey, programs, records, capture, certs, keys,
      store, client
<1>28. ASSUME MakeRequest, UNCHANGED capture PROVE OwnerInv'
  BY <1>28, CertsAssumption DEF MakeRequest, programs, records, capture, certs, keys, store,
      client
<1>29. ASSUME Sign, UNCHANGED capture PROVE OwnerInv'
  BY <1>29, CertsAssumption DEF Sign, programs, records, capture, certs, keys, store, client
<1>30. ASSUME CommandFails, UNCHANGED capture PROVE OwnerInv'
  BY <1>30, CertsAssumption DEF CommandFails, programs, records, capture, certs, keys, store,
      client
<1>31. ASSUME CommandRaises, UNCHANGED capture PROVE OwnerInv'
  BY <1>31, CertsAssumption DEF CommandRaises, programs, records, capture, certs, keys, store,
      client
<1>32. ASSUME DropKey, UNCHANGED capture PROVE OwnerInv'
  BY <1>32, CertsAssumption DEF DropKey, programs, records, capture, certs, keys, store, client
<1>33. ASSUME DropRequest, UNCHANGED capture PROVE OwnerInv'
  BY <1>33, CertsAssumption DEF DropRequest, programs, records, capture, certs, keys, store,
      client
<1>34. ASSUME DropCert, UNCHANGED capture PROVE OwnerInv'
  BY <1>34, CertsAssumption DEF DropCert, programs, records, capture, certs, keys, store, client
<1>35. ASSUME NEW a \in Allocs, Acquire(a), UNCHANGED <<capture, certs>> PROVE OwnerInv'
  BY <1>35 DEF Acquire, programs, records, capture, certs, keys, store, client
<1>40. ASSUME ReleaseExtra, UNCHANGED <<capture, certs>> PROVE OwnerInv'
  BY <1>40 DEF ReleaseExtra, programs, records, capture, certs, keys, store, client
<1>36. CASE Release
  BY <1>36 DEF Release, programs, records, capture, certs, keys, store, client
<1>37. CASE RunHook
  BY <1>37 DEF RunHook, programs, records, capture, certs, keys, store, client
<1>38. CASE Released
  BY <1>38 DEF Released, programs, records, capture, certs, keys, store, client
<1>39. CASE UNCHANGED vars
  BY <1>39 DEF vars, programs, records, capture, certs, keys, store, client
<1> HIDE DEF OwnerInv
<1> QED
  BY <1>1, <1>2, <1>3, <1>4, <1>5, <1>6, <1>7, <1>8, <1>9, <1>10, <1>11, <1>12, <1>13, <1>14,
      <1>15, <1>16, <1>17, <1>18, <1>19, <1>20, <1>21, <1>22, <1>23, <1>24, <1>25, <1>26,
      <1>27, <1>28, <1>29, <1>30, <1>31, <1>32, <1>33, <1>34, <1>35, <1>36, <1>37, <1>38,
      <1>39, <1>40 DEF Next, CaptureNext, CaptureStep, CertsNext, CertsStep

\* A certificate that is there goes with the key beside it and the authority.
LEMMA PairsPreserved ==
    ASSUME TypeInv, JobInv', OwnerInv, PairsInv, [Next]_vars
    PROVE  PairsInv'
<1> USE AllocsAssumption DEF TypeInv, TypeOK, JobInv, OpsTyped, OneName, Job, PairsInv,
    Settled, CapturePCs, StartPCs, SetupPCs, MakePCs, PutPCs, WipePCs, DropPCs
<1>1. ASSUME CaptureNext, UNCHANGED certs PROVE PairsInv'
  <2>1. ASSUME NEW pid \in Pids, Ends(pid) PROVE PairsInv'
    BY <1>1, <2>1 DEF Ends, certs, keys, store, client
  <2>2. ASSUME PutStart \/ PutStop \/ CaptureStep
        PROVE  job.pc \in CapturePCs \cup {"idle"} /\ job'.pc \in CapturePCs \cup {"idle", "hooks"}
    <3>1. CASE PutStart  BY <3>1 DEF PutStart, Begin
    <3>2. CASE PutStop  BY <3>2 DEF PutStop, Begin
    <3>3. CASE SkipStop  BY <3>3 DEF SkipStop
    <3>4. CASE SetNotCapturing  BY <3>4 DEF SetNotCapturing
    <3>5. CASE Kill  BY <3>5 DEF Kill
    <3>6. CASE Spawn  BY <3>6 DEF Spawn
    <3>7. CASE StartFails  BY <3>7 DEF StartFails
    <3>8. CASE Settle  BY <3>8 DEF Settle
    <3>9. CASE NotePid  BY <3>9 DEF NotePid
    <3>10. CASE Clear  BY <3>10 DEF Clear
    <3>11. CASE Publish  BY <3>11 DEF Publish
    <3>12. CASE RemoveCaptures  BY <3>12 DEF RemoveCaptures, HookDone
    <3>13. CASE ReadPid  BY <3>13 DEF ReadPid, Stopped
    <3>14. CASE Unlink  BY <3>14 DEF Unlink, Stopped
    <3> QED
      BY <2>2, <3>1, <3>2, <3>3, <3>4, <3>5, <3>6, <3>7, <3>8, <3>9, <3>10, <3>11, <3>12,
          <3>13, <3>14 DEF CaptureStep
  <2> QED
    BY <1>1, <2>1, <2>2 DEF CaptureNext, certs, keys, store, client
<1>2. ASSUME NEW n \in Names, PutCertificate(n) PROVE PairsInv'
  BY <1>2 DEF PutCertificate, Begin, certs, keys, store, client
<1>3. ASSUME NEW n \in Names, DeleteCertificate(n) PROVE PairsInv'
  BY <1>3 DEF DeleteCertificate, Begin, certs, keys, store, client
<1>4. CASE WipeClients
  BY <1>4, CertsAssumption DEF WipeClients, Wiped, HookDone, certs, keys, store, client
<1>5. CASE Dirs
  BY <1>5, CertsAssumption DEF Dirs, certs, keys, store, client
<1>6. CASE WipeDir
  BY <1>6, CertsAssumption DEF WipeDir, certs, keys, store, client
<1>7. CASE MakeDirs
  BY <1>7, CertsAssumption DEF MakeDirs, certs, keys, store, client
<1>8. CASE MakeAuthority
  BY <1>8, CertsAssumption DEF MakeAuthority, NewKey, certs, keys, store, client
<1>9. CASE MakeServer
  BY <1>9, CertsAssumption DEF MakeServer, certs, keys, store, client
<1>10. CASE SetupFails
  BY <1>10, CertsAssumption DEF SetupFails, certs, keys, store, client
<1>11. CASE SetupUndone
  BY <1>11, CertsAssumption DEF SetupUndone, certs, keys, store, client
<1>12. CASE Look
  BY <1>12, CertsAssumption DEF Look, AlreadyMade, certs, keys, store, client
<1>13. CASE MakeKey
  BY <1>13, CertsAssumption DEF MakeKey, NewKey, certs, keys, store, client
<1>14. CASE MakeRequest
  BY <1>14, CertsAssumption DEF MakeRequest, certs, keys, store, client
<1>15. CASE Sign
  BY <1>15, CertsAssumption DEF Sign, certs, keys, store, client
<1>16. CASE CommandFails
  BY <1>16, CertsAssumption DEF CommandFails, certs, keys, store, client
<1>17. CASE CommandRaises
  BY <1>17, CertsAssumption DEF CommandRaises, certs, keys, store, client
<1>18. CASE DropKey
  BY <1>18, CertsAssumption DEF DropKey, certs, keys, store, client
<1>19. CASE DropRequest
  BY <1>19, CertsAssumption DEF DropRequest, certs, keys, store, client
<1>20. CASE DropCert
  BY <1>20, CertsAssumption DEF DropCert, certs, keys, store, client
<1>21. ASSUME NEW a \in Allocs, Acquire(a), UNCHANGED <<capture, certs>> PROVE PairsInv'
  BY <1>21 DEF Acquire, certs, keys, store, client
<1>26. ASSUME ReleaseExtra, UNCHANGED <<capture, certs>> PROVE PairsInv'
  BY <1>26 DEF ReleaseExtra, certs, keys, store, client
<1>22. CASE Release
  BY <1>22 DEF Release, certs, keys, store, client
<1>23. CASE RunHook
  BY <1>23 DEF RunHook, certs, keys, store, client
<1>24. CASE Released
  BY <1>24 DEF Released, certs, keys, store, client
<1>25. CASE UNCHANGED vars
  BY <1>25 DEF vars, certs, keys, store, client
<1> HIDE DEF PairsInv
<1> QED
  BY <1>1, <1>2, <1>3, <1>4, <1>5, <1>6, <1>7, <1>8, <1>9, <1>10, <1>11, <1>12, <1>13, <1>14,
      <1>15, <1>16, <1>17, <1>18, <1>19, <1>20, <1>21, <1>22, <1>23, <1>24, <1>25,
          <1>26 DEF Next,
      CertsNext, CertsStep
-----------------------------------------------------------------------------
(* The theorems. *)

\* The invariant holds at first.
LEMMA InitInv == Init => Inv
<1> SUFFICES ASSUME Init PROVE Inv
  OBVIOUS
<1> USE DEF Init, HolderInit, CaptureInit, CertsInit
<1>1. TypeOK
  <2>1. key \in [Names -> Keys \cup {None}] /\ req \in [Names -> Keys \cup {None}]
    OBVIOUS
  <2>2. maker \in [Keys -> Allocs \cup {NoAlloc}]
    OBVIOUS
  <2>3. cert \in [Names -> [key : Keys \cup {None}, ca : Keys \cup {None}]]
    OBVIOUS
  <2>4. spawned \in 0 .. MaxPids /\ made \in 0 .. MaxKeys
    BY CaptureAssumption, CertsAssumption
  <2>5. job.pid \in Pids \cup {None} /\ job.name \subseteq Names
    OBVIOUS
  <2>6. pidfile \in Pids \cup {None} /\ {authority, server} \subseteq Keys \cup {None}
    OBVIOUS
  <2> HIDE DEF Pids, Keys
  <2> QED
    BY <2>1, <2>2, <2>3, <2>4, <2>5, <2>6 DEF TypeOK
<1>2. JobInv
  BY DEF JobInv, Job, OpsTyped, OneName, PCs, Ops, StartPCs, SetupPCs, MakePCs, PutPCs,
         WipePCs, DropPCs
<1>3. CaptureInv
  BY DEF CaptureInv, Watched
<1>4. OwnerInv
  BY DEF OwnerInv, AllTheirs, Theirs, NoCaptures, NoFiles
<1>5. PairsInv
  BY DEF PairsInv, Settled, SetupPCs, MakePCs
<1> QED
  BY <1>1, <1>2, <1>3, <1>4, <1>5 DEF Inv, TypeInv

\* And always.
THEOREM Invariant == Spec => []Inv
<1>1. Inv /\ [Next]_vars => Inv'
  BY TypePreserved, CapturePreserved, OwnerPreserved, PairsPreserved DEF Inv, TypeInv
<1> QED
  BY InitInv, <1>1, PTL DEF Spec

\* Every variable of captures and certificates keeps its type.
THEOREM TypeCorrect == Spec => []TypeOK
<1>1. Inv => TypeOK
  BY DEF Inv, TypeInv
<1> QED
  BY Invariant, <1>1, PTL

\* Wherever a start, a stop or a release is, one program captures at most.
THEOREM AtMostOneCapture == Spec => []OneCapture
<1>1. ASSUME Inv PROVE OneCapture
  <2>1. \E pid : running \subseteq {pid}
    BY <1>1 DEF Inv, CaptureInv, Watched, CapturePCs
  <2>2. PICK pid : running = {} \/ running = {pid}
    BY <2>1
  <2>3. Cardinality({}) = 0 /\ Cardinality({pid}) = 1
    BY FS_EmptySet, FS_Singleton
  <2> QED
    BY <2>2, <2>3 DEF OneCapture
<1> QED
  BY Invariant, <1>1, PTL

\* When no request is served, what captures is in the pid file and the field.
THEOREM FoundAgain == Spec => []Stoppable
<1>1. ASSUME Inv PROVE Stoppable
  BY <1>1 DEF Inv, CaptureInv, Watched, CapturePCs, Stoppable, Quiet
<1> QED
  BY Invariant, <1>1, PTL

\* When no request is served, what is on the target is of who has it, or who gave it back
\* as an extra since it was last released: a release leaves nothing, whatever failed.
THEOREM NothingLeft == Spec => []NothingOfOthers
<1>1. ASSUME Inv, Quiet PROVE job.op = "none"
  BY <1>1 DEF Inv, TypeInv, JobInv, OpsTyped, Quiet
<1>2. ASSUME Inv PROVE NothingOfOthers
  BY <1>1, <1>2 DEF Inv, OwnerInv, AllTheirs, Theirs, NothingOfOthers
<1> QED
  BY Invariant, <1>2, PTL

\* When no request is served, a certificate that will be taken as made is for the key
\* beside it, by the authority of the target.
THEOREM CertificatesMatch == Spec => []PairsMatch
<1>1. ASSUME Inv PROVE PairsMatch
  BY <1>1 DEF Inv, PairsInv, Settled, PairsMatch, Quiet, AlreadyMade, MakePCs, SetupPCs
<1> QED
  BY Invariant, <1>1, PTL
=============================================================================
