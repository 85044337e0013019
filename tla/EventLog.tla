------------------------------- MODULE EventLog -------------------------------
(***************************************************************************)
(* What an Execution Session promises its clients about events: one log,   *)
(* to which an event is added only if its identity is new and the reducer  *)
(* accepts it in the state its predecessors left; a revision pulse that    *)
(* never goes back; and no acknowledgement of an event that is not in the  *)
(* published log.  SessionAgent implements this.                           *)
(***************************************************************************)
EXTENDS Integers, Sequences

CONSTANTS
  Entry,    \* the events a log may hold: records with an id, a key and a type
  Closing,  \* types after which the session is completed or cancelled
  Needs     \* by type, the types the reducer wants to have seen before

VARIABLES
  log,        \* the rows of runtime_events of the session, in append order
  published,  \* how much of the log the latest pulse announced
  acked       \* the events a client was told are recorded

logVars == <<log, published, acked>>

Entries(s) == {s[i] : i \in DOMAIN s}

\* An event is known by its id or by its idempotency key.
Known(h, e) == \E x \in h : x.id = e.id \/ x.key = e.key

\* The session the events of h made is completed or cancelled.
Over(h) == \E x \in h : x.type \in Closing

\* The reducer applies e to the state the events of h made.
Accepts(h, e) ==
  /\ ~Over(h)
  /\ \A t \in Needs[e.type] : \E x \in h : x.type = t

Init ==
  /\ log = <<>>
  /\ published = 0
  /\ acked = {}

Record(e) ==
  /\ ~Known(Entries(log), e)
  /\ Accepts(Entries(log), e)
  /\ log' = Append(log, e)
  /\ UNCHANGED <<published, acked>>

\* Everything recorded so far is announced, and some of it acknowledged.
Publish ==
  /\ published' = Len(log)
  /\ \E A \in SUBSET {e \in Entry : Known(Entries(log), e)} : acked' = acked \cup A
  /\ UNCHANGED log

Next == Publish \/ \E e \in Entry : Record(e)

Spec == Init /\ [][Next]_logVars
===============================================================================
