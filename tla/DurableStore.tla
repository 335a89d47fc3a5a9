----------------------------- MODULE DurableStore -----------------------------
(***************************************************************************)
(* What the shared content store of the precache promises its callers,     *)
(* whatever files it is made of (ContentStore implements it).              *)
(*                                                                         *)
(* A key put into the store is known at once and durable some time later.  *)
(* A flush that answers "flushed" has made every known key durable.  After *)
(* a failure the handle may be broken: it still knows its keys, but never  *)
(* stores or flushes again.  A crash or a close forgets what is not        *)
(* durable, and nothing that is.                                           *)
(***************************************************************************)
EXTENDS Naturals

CONSTANT Keys

VARIABLES up,       \* a process holds the store open
          known,    \* keys this handle answers contains() for
          durable,  \* keys every later open() will find
          broken,   \* this handle can no longer publish
          reply     \* the call under way, or the answer of the last one

vars == <<up, known, durable, broken, reply>>

Calls   == {"putting", "flushing"}
Replies == {"none", "stored", "flushed", "failed"}

TypeOK ==
    /\ up \in BOOLEAN /\ broken \in BOOLEAN
    /\ known \subseteq Keys /\ durable \subseteq Keys
    /\ reply \in Calls \cup Replies

Init ==
    /\ up = FALSE /\ known = {} /\ durable = {} /\ broken = FALSE
    /\ reply = "none"

Idle == up /\ reply \in Replies

Open ==
    /\ ~up
    /\ up' = TRUE /\ known' = durable /\ broken' = FALSE /\ reply' = "none"
    /\ UNCHANGED durable

\* A key already known is not stored again.
PutKnown(k) ==
    /\ Idle /\ k \in known
    /\ reply' = "stored"
    /\ UNCHANGED <<up, known, durable, broken>>

\* A new key: the call ends at once, or goes on to publish what is pending.
PutNew(k) ==
    /\ Idle /\ ~broken /\ k \notin known
    /\ known' = known \cup {k}
    /\ reply' \in {"stored", "putting"}
    /\ UNCHANGED <<up, durable, broken>>

\* With nothing pending a flush answers at once.
Flush ==
    /\ Idle
    /\ \/ reply' = "flushing"
       \/ known \subseteq durable /\ ~broken /\ reply' = "flushed"
    /\ UNCHANGED <<up, known, durable, broken>>

\* The one moment at which pending keys become durable, all together.
Publish ==
    /\ up /\ reply \in Calls /\ ~broken
    /\ durable' = durable \cup known
    /\ UNCHANGED <<up, known, broken, reply>>

\* A call ends well only when nothing it was asked to publish is pending.
Answer ==
    /\ up /\ reply \in Calls /\ ~broken
    /\ known \subseteq durable
    /\ reply' = IF reply = "putting" THEN "stored" ELSE "flushed"
    /\ UNCHANGED <<up, known, durable, broken>>

Fail ==
    /\ up
    /\ reply' = "failed" /\ broken' \in {broken, TRUE}
    /\ UNCHANGED <<up, known, durable>>

\* Closed, or killed at any step.
Stop ==
    /\ up
    /\ up' = FALSE /\ known' = {} /\ broken' = FALSE /\ reply' = "none"
    /\ UNCHANGED durable

Next ==
    \/ Open \/ Flush \/ Publish \/ Answer \/ Fail \/ Stop
    \/ \E k \in Keys : PutKnown(k) \/ PutNew(k)

Spec == Init /\ [][Next]_vars
=============================================================================
