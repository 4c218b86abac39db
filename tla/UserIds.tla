------------------------------ MODULE UserIds ------------------------------
(***************************************************************************)
(* The emulated set*id() family: what a call makes of the real, effective, *)
(* saved and file system id of a process.  The operators are the same for  *)
(* user and for group ids; in both cases the privilege is an effective     *)
(* USER id of 0.                                                           *)
(***************************************************************************)
EXTENDS Integers

CONSTANTS Ids          \* the user and group ids that occur, 0 among them

ASSUME IdsAssumption == Ids \subseteq Nat /\ 0 \in Ids

\* the argument -1 of setre*id() and setres*id(): leave this id alone
Keep == -1
Args == Ids \cup {Keep}

Identity == [r : Ids, e : Ids, s : Ids, f : Ids]
Everyone(id) == [r |-> id, e |-> id, s |-> id, f |-> id]

\* the ids a process may switch to without privilege
Held(c) == {c.r, c.e, c.s}

\* A call is allowed when each id it names is held; otherwise EPERM, and
\* nothing changes.
MaySet(c, priv, args) == priv \/ args \subseteq Held(c) \cup {Keep}

\* the value of an id after a call that was given arg for it
Given(arg, old) == IF arg = Keep THEN old ELSE arg

\* The identity after an allowed call.
SetId(c, priv, id) == IF priv THEN Everyone(id) ELSE [c EXCEPT !.e = id, !.f = id]

SetEffective(c, id) == [c EXCEPT !.e = id, !.f = id]

\* unlike the kernel's setreuid(), the saved id stays as it is
SetReal(c, rid, eid) ==
    [c EXCEPT !.r = Given(rid, c.r), !.e = Given(eid, c.e), !.f = Given(eid, c.e)]

SetAll(c, rid, eid, sid) == [SetReal(c, rid, eid) EXCEPT !.s = Given(sid, c.s)]

SetFs(c, id) == [c EXCEPT !.f = id]
=============================================================================
