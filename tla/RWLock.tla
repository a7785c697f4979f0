------------------------------- MODULE RWLock -------------------------------
(***************************************************************************)
(* The reader-writer lock of the LLM runtime (srt/utils/aio_rwlock.py),    *)
(* used by asyncio tasks of one event loop.  No task is suspended while it *)
(* holds the inner asyncio.Lock, except in Condition.wait, which gives it  *)
(* up; so every method is one step up to the point where it waits, and one *)
(* step from the point where it is woken.                                  *)
(*                                                                         *)
(* notify_all makes the waiting tasks ready.  Each checks its condition    *)
(* again when the event loop runs it; a task that was not waiting may get  *)
(* the lock in between.                                                    *)
(***************************************************************************)
EXTENDS Integers, FiniteSets

CONSTANTS
  Readers, Writers,     \* tasks that take the reader or the writer lock
  MayCancel             \* whether waiting tasks may be cancelled

Users == Readers \cup Writers

ASSUME LockAssumption ==
  /\ IsFiniteSet(Readers) /\ IsFiniteSet(Writers)
  /\ Readers \cap Writers = {}
  /\ MayCancel \in BOOLEAN

VARIABLES
  readers,              \* _readers
  writer_active,        \* _writer_active
  waiting_writers,      \* _waiting_writers
  state,                \* state[t]: "idle", "waiting" or "holding"
  notified              \* waiting tasks that have been woken and not run yet

lockVars == <<readers, writer_active, waiting_writers, state, notified>>

In(S, s) == {t \in S : state[t] = s}

LockInit ==
  /\ readers = 0
  /\ writer_active = FALSE
  /\ waiting_writers = 0
  /\ state = [t \in Users |-> "idle"]
  /\ notified = {}

----------------------------------------------------------------------------
(* Mutant of ReaderMustWait: readers overtake waiting writers.             *)
ReaderIgnoresWaiting == writer_active

ReaderMustWait == writer_active \/ waiting_writers > 0
WriterMustWait == writer_active \/ readers > 0

Wait(t) ==
  /\ state' = [state EXCEPT ![t] = "waiting"]
  /\ notified' = notified \ {t}

Hold(t) ==
  /\ state' = [state EXCEPT ![t] = "holding"]
  /\ notified' = notified \ {t}

(* acquire_reader, from its call or from a wake-up.                        *)
AcquireReader(t) ==
  /\ t \in Readers
  /\ state[t] = "idle" \/ t \in notified
  /\ IF ReaderMustWait
       THEN Wait(t) /\ UNCHANGED readers
       ELSE Hold(t) /\ readers' = readers + 1
  /\ UNCHANGED <<writer_active, waiting_writers>>

(* Mutant of AcquireWriter: the condition is not checked after a wake-up.  *)
AcquireWriterUnchecked(t) ==
  /\ t \in Writers
  /\ state[t] = "idle" \/ t \in notified
  /\ LET waiting == waiting_writers + (IF state[t] = "idle" THEN 1 ELSE 0)
     IN  IF WriterMustWait /\ t \notin notified
           THEN Wait(t) /\ waiting_writers' = waiting /\ UNCHANGED writer_active
           ELSE Hold(t) /\ waiting_writers' = waiting - 1 /\ writer_active' = TRUE
  /\ UNCHANGED readers

(* acquire_writer: the task counts as waiting from its call until it has   *)
(* the lock.                                                               *)
AcquireWriter(t) ==
  /\ t \in Writers
  /\ state[t] = "idle" \/ t \in notified
  /\ LET waiting == waiting_writers + (IF state[t] = "idle" THEN 1 ELSE 0)
     IN  IF WriterMustWait
           THEN Wait(t) /\ waiting_writers' = waiting /\ UNCHANGED writer_active
           ELSE Hold(t) /\ waiting_writers' = waiting - 1 /\ writer_active' = TRUE
  /\ UNCHANGED readers

(* Mutant of NotifyAll: only readers are woken.                            *)
NotifyReaders == In(Readers, "waiting")

(* notify_all                                                              *)
NotifyAll == In(Users, "waiting")

ReleaseReader(t) ==
  /\ t \in Readers
  /\ state[t] = "holding"
  /\ state' = [state EXCEPT ![t] = "idle"]
  /\ readers' = readers - 1
  /\ notified' = IF readers = 1 THEN NotifyAll ELSE notified
  /\ UNCHANGED <<writer_active, waiting_writers>>

ReleaseWriter(t) ==
  /\ t \in Writers
  /\ state[t] = "holding"
  /\ state' = [state EXCEPT ![t] = "idle"]
  /\ writer_active' = FALSE
  /\ notified' = NotifyAll
  /\ UNCHANGED <<readers, waiting_writers>>

(* Mutant of Cancel: a cancelled writer stays counted.                     *)
CancelKeepsCount(t) ==
  /\ MayCancel
  /\ state[t] = "waiting"
  /\ state' = [state EXCEPT ![t] = "idle"]
  /\ notified' = notified \ {t}
  /\ UNCHANGED <<readers, writer_active, waiting_writers>>

(* The wait is cancelled: the `finally' of acquire_writer takes the task   *)
(* off the count and nobody is notified.  (Up to Python 3.12; from 3.13 on *)
(* Condition.wait passes the notification of a cancelled task on.)         *)
Cancel(t) ==
  /\ MayCancel
  /\ state[t] = "waiting"
  /\ state' = [state EXCEPT ![t] = "idle"]
  /\ notified' = notified \ {t}
  /\ waiting_writers' = IF t \in Writers THEN waiting_writers - 1 ELSE waiting_writers
  /\ UNCHANGED <<readers, writer_active>>

AcquireLock(t) == AcquireReader(t) \/ AcquireWriter(t)
ReleaseLock(t) == ReleaseReader(t) \/ ReleaseWriter(t)

LockNext == \E t \in Users : AcquireLock(t) \/ ReleaseLock(t) \/ Cancel(t)

LockSpec == LockInit /\ [][LockNext]_lockVars

(* The event loop runs every ready task, and a task that holds the lock    *)
(* releases it.  No task has to ask for the lock.                          *)
FairLockSpec ==
  /\ LockSpec
  /\ \A t \in Users : WF_lockVars(t \in notified /\ AcquireLock(t)) /\ WF_lockVars(ReleaseLock(t))

----------------------------------------------------------------------------
(* The variables have their types and only waiting tasks are notified.     *)
LockTypeOK ==
  /\ readers \in Nat
  /\ writer_active \in BOOLEAN
  /\ waiting_writers \in Nat
  /\ state \in [Users -> {"idle", "waiting", "holding"}]
  /\ notified \subseteq In(Users, "waiting")

(* A writer holds the lock alone: no interleaving of calls, wake-ups and   *)
(* cancellations lets in a second holder.                                  *)
MutualExclusion ==
  \A w \in Writers : \A t \in Users :
    state[w] = "holding" /\ state[t] = "holding" => t = w

(* The three counters are what they count, cancelled waits included: a     *)
(* count that is too high would keep the others out for ever.              *)
CountsExact ==
  /\ readers = Cardinality(In(Readers, "holding"))
  /\ writer_active <=> In(Writers, "holding") # {}
  /\ waiting_writers = Cardinality(In(Writers, "waiting"))

(* No wake-up of a writer is lost: while nobody holds the lock, every      *)
(* waiting writer has been notified, although release_reader notifies only *)
(* when the last reader leaves and cancelled tasks notify nobody.          *)
NoLostWakeup ==
  In(Users, "holding") = {} => In(Writers, "waiting") \subseteq notified

(* Readers that keep coming do not starve writers: while a writer waits    *)
(* the readers drain, and it or another writer gets the lock, unless it is *)
(* cancelled.  (Not always that one: another writer may take the lock each *)
(* time before it has run.)                                                *)
WritersNotStarved ==
  \A w \in Writers : state[w] = "waiting" ~> (state[w] # "waiting" \/ writer_active)

(* A reader waits only for writers ("Wait until there is no active writer  *)
(* or waiting writer"): once there is none, it gets the lock unless a new  *)
(* one comes.  It holds while no wait is cancelled (MayCancel = FALSE) and *)
(* fails otherwise: a cancelled writer passes its wake-up on to nobody.    *)
ReaderWaitsForWriters ==
  \A r \in Readers :
    state[r] = "waiting" ~> (state[r] # "waiting" \/ ReaderMustWait)
=============================================================================
