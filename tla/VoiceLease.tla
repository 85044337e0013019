------------------------------ MODULE VoiceLease ------------------------------
(***************************************************************************)
(* The voice lease of every execution session: one row of D1 per session,   *)
(* and what the calls of the session's agent do to it. The agent runs them  *)
(* one at a time, so each is one step.                                      *)
(***************************************************************************)
EXTENDS Integers

CONSTANTS Session, Actor

VARIABLE leases

\* No handle; handles are numbered as the provider gives them out.
Null == 0

\* The row of a session; there is none before the first acquire. `id` counts its leases,
\* `holder` is the actor of the active one. A lease that is past its expires_at has none,
\* whether or not a call has noticed.
NoLease(nobody) == [id |-> 0, holder |-> nobody, handle |-> Null]

\* requireActiveHolder.
Holds(s, a) == leases[s].holder = a

MayAcquire(s, a, nobody) == leases[s].holder \in {a, nobody}

\* acquire: its own lease again, with a new expires_at, or a new one with the old handle.
Acquire(s, a) ==
  leases' = [leases EXCEPT ![s].id = IF Holds(s, a) THEN @ ELSE @ + 1, ![s].holder = a]

\* The lease is released, or its DEFAULT_VOICE_LEASE_TTL_MS have gone by.
Ends(s, nobody) == leases' = [leases EXCEPT ![s].holder = nobody]

\* release: whatever lease the actor holds by now.
Release(s, a, nobody) == IF Holds(s, a) THEN Ends(s, nobody) ELSE UNCHANGED leases

\* Mutant of SetResumeHandle: a write of the current lease always counts.
MutantAnyPredecessor(s, a, id, expected, handle) ==
  leases' = [leases EXCEPT ![s].handle =
               IF Holds(s, a) /\ leases[s].id = id THEN handle ELSE @]

\* setResumeHandle: a write for an earlier lease or with a stale predecessor changes
\* nothing, and is answered like the others with the handle the lease has.
SetResumeHandle(s, a, id, expected, handle) ==
  leases' = [leases EXCEPT ![s].handle =
               IF Holds(s, a) /\ leases[s].id = id /\ @ \in expected THEN handle ELSE @]

===============================================================================
