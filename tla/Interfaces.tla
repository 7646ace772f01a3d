----------------------------- MODULE Interfaces -----------------------------
(***************************************************************************)
(* Two interfaces of one target, captures and certificates, from owner to  *)
(* owner: the release of the target runs the hooks of both, in any order,  *)
(* before the owner is forgotten or after.  A target that is given back as *)
(* the extra of an allocation is not released in this way.                 *)
(***************************************************************************)
EXTENDS Capture, Certs

vars == <<holding, job, capture, certs>>

\* _deallocate() drops the owner first; delete(), and who finds the record of the
\* owner gone, at last.
Release ==
    /\ At("idle")
    /\ owner # NoAlloc
    /\ owner' \in {owner, NoAlloc}
    /\ job' = [Idle EXCEPT !.pc = "hooks", !.op = "release",
                !.hooks = {"capture", "certificates"}]
    /\ UNCHANGED <<past, handed, capture, certs>>

\* _state_cleanup() goes through a set of hooks.
RunHook ==
    /\ At("hooks")
    /\ \E h \in job.hooks :
        job' = [job EXCEPT !.hooks = @ \ {h}, !.pc = IF h = "capture" THEN "field" ELSE "wipe"]
    /\ UNCHANGED <<holding, capture, certs>>

Released ==
    /\ At("hooks")
    /\ job.hooks = {}
    /\ owner' = NoAlloc
    /\ handed' = {}
    /\ Finish
    /\ UNCHANGED <<past, capture, certs>>

Init == HolderInit /\ CaptureInit /\ CertsInit

Next ==
    \/ ((\E a \in Allocs : Acquire(a)) \/ ReleaseExtra) /\ UNCHANGED <<capture, certs>>
    \/ CaptureNext /\ UNCHANGED certs
    \/ CertsNext /\ UNCHANGED capture
    \/ Release \/ RunHook \/ Released

Spec == Init /\ [][Next]_vars
=============================================================================
