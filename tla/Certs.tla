------------------------------- MODULE Certs -------------------------------
(***************************************************************************)
(* The certificates of a target, ttbd/ttbl/certs.py: put_certificate(),    *)
(* delete_certificate() and the release hook.  The first certificate asked *)
(* for sets up two directories, an authority and a server certificate;     *)
(* each client certificate is a key, a request and a certificate, files    *)
(* made by one openssl command each, which may fail or take too long.  One *)
(* action is one command, one file or one directory.                       *)
(***************************************************************************)
EXTENDS Holder

CONSTANTS
    Names,      \* client certificates
    MaxKeys     \* bound on the keys ever made

ASSUME CertsAssumption == MaxKeys \in Nat

VARIABLES
    made, maker,   \* keys made so far, and for whom each was
    dir, cdir,     \* directories certificates/ and certificates_client/ exist
    authority,     \* the key of ca.key and ca.cert; None: not there
    server,        \* the authority that signed server.cert
    key, req, cert \* NAME.key, NAME.req (the key it is for), NAME.cert

Keys == 1 .. MaxKeys
Unsigned == [key |-> None, ca |-> None]

store == <<dir, cdir, authority, server>>
client == <<key, req, cert>>
keys == <<made, maker>>
certs == <<keys, store, client>>

CertsInit ==
    /\ made = 0
    /\ maker = [k \in Keys |-> NoAlloc]
    /\ dir = FALSE
    /\ cdir = FALSE
    /\ authority = None
    /\ server = None
    /\ key = [n \in Names |-> None]
    /\ req = [n \in Names |-> None]
    /\ cert = [n \in Names |-> Unsigned]

PutCertificate(n) == Begin("put", "dirs", {n}) /\ UNCHANGED certs

DeleteCertificate(n) == Begin("delete", "drop_key", {n}) /\ UNCHANGED certs

-----------------------------------------------------------------------------
(* _setup_maybe() and the release hook *)

\* Both directories are there: so is what should be in them.
Dirs ==
    /\ At("dirs")
    /\ Flow(IF dir /\ cdir THEN "look" ELSE "wipe")
    /\ UNCHANGED <<holding, certs>>

\* rmtree() of one directory, then of the other.
WipeDir ==
    /\ At("wipe")
    /\ dir' = FALSE
    /\ authority' = None
    /\ server' = None
    /\ Flow("wipe_clients")
    /\ UNCHANGED <<holding, keys, cdir, client>>

Wiped ==
    CASE job.op = "put" -> [job EXCEPT !.pc = "mkdir"]
      [] job.op = "undo" -> Idle
      [] job.op = "release" -> HookDone

\* (mutant) the certificates of the clients stay
KeepClients ==
    /\ At("wipe_clients")
    /\ job' = Wiped
    /\ UNCHANGED <<holding, certs>>

WipeClients ==
    /\ At("wipe_clients")
    /\ cdir' = FALSE
    /\ key' = [n \in Names |-> None]
    /\ req' = [n \in Names |-> None]
    /\ cert' = [n \in Names |-> Unsigned]
    /\ job' = Wiped
    /\ UNCHANGED <<holding, keys, dir, authority, server>>

MakeDirs ==
    /\ At("mkdir")
    /\ dir' = TRUE
    /\ cdir' = TRUE
    /\ Flow("authority")
    /\ UNCHANGED <<holding, keys, authority, server, client>>

NewKey ==
    /\ made < MaxKeys
    /\ made' = made + 1
    /\ maker' = [maker EXCEPT ![made + 1] = job.who]

MakeAuthority ==
    /\ At("authority")
    /\ NewKey
    /\ authority' = made + 1
    /\ Flow("server")
    /\ UNCHANGED <<holding, dir, cdir, server, client>>

\* Three commands: a key, a request, and the authority signs it.
MakeServer ==
    /\ At("server")
    /\ server' = authority
    /\ Flow("look")
    /\ UNCHANGED <<holding, keys, dir, cdir, authority, client>>

\* A command of the setup exits with an error: what was set up stays.
SetupFails ==
    /\ At("authority") \/ At("server")
    /\ Finish
    /\ UNCHANGED <<holding, certs>>

\* It takes too long: everything is wiped.
SetupUndone ==
    /\ At("authority") \/ At("server")
    /\ job' = [job EXCEPT !.pc = "wipe", !.op = "undo"]
    /\ UNCHANGED <<holding, certs>>

-----------------------------------------------------------------------------
(* put_certificate() *)

AlreadyMade(n) == key[n] # None /\ cert[n] # Unsigned

\* What is made already is the reply.
Look ==
    /\ At("look")
    /\ \E n \in job.name : IF AlreadyMade(n) THEN Finish ELSE Flow("key")
    /\ UNCHANGED <<holding, certs>>

MakeKey ==
    /\ At("key")
    /\ NewKey
    /\ \E n \in job.name : key' = [key EXCEPT ![n] = made + 1]
    /\ Flow("req")
    /\ UNCHANGED <<holding, store, req, cert>>

MakeRequest ==
    /\ At("req")
    /\ \E n \in job.name : req' = [req EXCEPT ![n] = key[n]]
    /\ Flow("sign")
    /\ UNCHANGED <<holding, keys, store, key, cert>>

Sign ==
    /\ At("sign")
    /\ authority # None
    /\ \E n \in job.name : cert' = [cert EXCEPT ![n] = [key |-> req[n], ca |-> authority]]
    /\ Finish
    /\ UNCHANGED <<holding, keys, store, key, req>>

\* A command exits with an error: the files of this client are removed.
CommandFails ==
    /\ job.pc \in {"key", "req", "sign"}
    /\ Flow("drop_key")
    /\ UNCHANGED <<holding, certs>>

\* It takes too long: they stay.
CommandRaises ==
    /\ job.pc \in {"key", "req", "sign"}
    /\ Finish
    /\ UNCHANGED <<holding, certs>>

-----------------------------------------------------------------------------
(* _client_wipe() *)

DropKey ==
    /\ At("drop_key")
    /\ \E n \in job.name : key' = [key EXCEPT ![n] = None]
    /\ Flow("drop_req")
    /\ UNCHANGED <<holding, keys, store, req, cert>>

DropRequest ==
    /\ At("drop_req")
    /\ \E n \in job.name : req' = [req EXCEPT ![n] = None]
    /\ Flow("drop_cert")
    /\ UNCHANGED <<holding, keys, store, key, cert>>

\* (mutant) the certificate itself stays
DropNoCert ==
    /\ At("drop_cert")
    /\ Finish
    /\ UNCHANGED <<holding, certs>>

DropCert ==
    /\ At("drop_cert")
    /\ \E n \in job.name : cert' = [cert EXCEPT ![n] = Unsigned]
    /\ Finish
    /\ UNCHANGED <<holding, keys, store, key, req>>

CertsStep ==
    \/ Dirs \/ WipeDir \/ WipeClients \/ MakeDirs
    \/ MakeAuthority \/ MakeServer \/ SetupFails \/ SetupUndone
    \/ Look \/ MakeKey \/ MakeRequest \/ Sign \/ CommandFails \/ CommandRaises
    \/ DropKey \/ DropRequest \/ DropCert

CertsNext ==
    \/ \E n \in Names : PutCertificate(n) \/ DeleteCertificate(n)
    \/ CertsStep
=============================================================================
