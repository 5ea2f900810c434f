------------------------------ MODULE Keepalive ------------------------------
(***************************************************************************)
(* The NETCONF session and the two threads that use it: the thread that    *)
(* owns NetconfAccess, and the thread of SessionKeepalive that runs an     *)
(* io_context with one timer.  netconf_access.hpp and netconf_access.cpp.  *)
(*                                                                         *)
(* External, modelled from how they are used here: io_context::run, which  *)
(* returns at once when it finds no work; the timer; the session, whose    *)
(* requests are answered or throw.                                         *)
(***************************************************************************)
EXTENDS Naturals

VARIABLES
  main,     \* the thread that owns NetconfAccess
  worker,   \* m_thr
  timer,    \* the one wait on m_timer: none, armed, or its handler is queued
  stopped,  \* has m_io been stopped?
  mutex,    \* who holds m_sessionMutex
  session,  \* m_session
  failed    \* a keepalive has thrown out of the thread: std::terminate

vars == <<main, worker, timer, stopped, mutex, session, failed>>

Init ==
  /\ main = "absent"
  /\ worker = "none"
  /\ timer = "none"
  /\ stopped = FALSE
  /\ mutex = "free"
  /\ session = "open"
  /\ failed = FALSE

-----------------------------------------------------------------------------
(***************************************************************************)
(* The thread that owns NetconfAccess.                                     *)
(***************************************************************************)

\* initKeepAlive: SessionKeepalive's members are initialised in the order of
\* their declaration, so the thread is started before the timer exists.
StartThread ==
  /\ main = "absent"
  /\ main' = "constructing"
  /\ worker' = "starting"
  /\ UNCHANGED <<timer, stopped, mutex, session, failed>>

\* The body of the constructor: schedule() arms the timer.
Schedule ==
  /\ main = "constructing"
  /\ timer' = "armed"
  /\ main' = "idle"
  /\ UNCHANGED <<worker, stopped, mutex, session, failed>>

\* getItems, doEditFromDataNode, commitChanges, discardChanges, execute,
\* copyConfig, listInstances, dump: each takes the mutex before it uses the
\* session and releases it when it returns or throws.
Call ==
  /\ main = "idle"
  /\ main' = "locking"
  /\ UNCHANGED <<worker, timer, stopped, mutex, session, failed>>

\* A mistake to be caught: the mutex is not taken.
LockNothing ==
  /\ main = "locking"
  /\ main' = "calling"
  /\ UNCHANGED <<worker, timer, stopped, mutex, session, failed>>

Lock ==
  /\ main = "locking"
  /\ mutex = "free"
  /\ mutex' = "main"
  /\ main' = "calling"
  /\ UNCHANGED <<worker, timer, stopped, session, failed>>

\* A mistake to be caught: the mutex is released only when the server answers.
ReturnLocked ==
  /\ main = "calling"
  /\ mutex' \in {"free", "main"}
  /\ main' = "idle"
  /\ UNCHANGED <<worker, timer, stopped, session, failed>>

Return ==
  /\ main = "calling"
  /\ mutex' = "free"
  /\ main' = "idle"
  /\ UNCHANGED <<worker, timer, stopped, session, failed>>

\* ~SessionKeepalive: m_timer.cancel(), m_io.stop(), m_thr.join().
Cancel ==
  /\ main = "idle"
  /\ timer' = IF timer = "armed" THEN "aborted" ELSE timer
  /\ main' = "stopping"
  /\ UNCHANGED <<worker, stopped, mutex, session, failed>>

\* A mistake to be caught: only the timer is cancelled.
StopNothing ==
  /\ main = "stopping"
  /\ main' = "joining"
  /\ UNCHANGED <<worker, timer, stopped, mutex, session, failed>>

Stop ==
  /\ main = "stopping"
  /\ stopped' = TRUE
  /\ main' = "joining"
  /\ UNCHANGED <<worker, timer, mutex, session, failed>>

\* A mistake to be caught: the thread is not waited for.
JoinNothing ==
  /\ main = "joining"
  /\ main' = "joined"
  /\ UNCHANGED <<worker, timer, stopped, mutex, session, failed>>

Join ==
  /\ main = "joining"
  /\ worker = "done"
  /\ main' = "joined"
  /\ UNCHANGED <<worker, timer, stopped, mutex, session, failed>>

\* The session is declared before the keepalive, so it is destroyed after it.
DestroySession ==
  /\ main = "joined"
  /\ session' = "destroyed"
  /\ main' = "destroyed"
  /\ UNCHANGED <<worker, timer, stopped, mutex, failed>>

-----------------------------------------------------------------------------
(***************************************************************************)
(* The keepalive's thread: m_io.run().                                     *)
(***************************************************************************)

\* run() stops the context and returns when there is nothing to wait for.
Run ==
  /\ worker = "starting"
  /\ IF timer = "none" \/ stopped
     THEN worker' = "done" /\ stopped' = TRUE
     ELSE worker' = "running" /\ UNCHANGED stopped
  /\ UNCHANGED <<main, timer, mutex, session, failed>>

\* The interval passes; only a running context notices.
Expire ==
  /\ worker = "running"
  /\ timer = "armed"
  /\ timer' = "expired"
  /\ UNCHANGED <<main, worker, stopped, mutex, session, failed>>

Handle ==
  /\ worker = "running"
  /\ ~stopped
  /\ timer = "expired"
  /\ timer' = "none"
  /\ worker' = "locking"
  /\ UNCHANGED <<main, stopped, mutex, session, failed>>

\* The handler of a cancelled wait returns, and leaves run() without work.
HandleAborted ==
  /\ worker = "running"
  /\ ~stopped
  /\ timer = "aborted"
  /\ timer' = "none"
  /\ stopped' = TRUE
  /\ worker' = "done"
  /\ UNCHANGED <<main, mutex, session, failed>>

WorkerLock ==
  /\ worker = "locking"
  /\ mutex = "free"
  /\ mutex' = "worker"
  /\ worker' = "asking"
  /\ UNCHANGED <<main, timer, stopped, session, failed>>

\* A mistake to be caught: the handler does not schedule the next keepalive.
AnsweredLast ==
  /\ worker = "asking"
  /\ worker' = "unlocking"
  /\ UNCHANGED <<main, timer, stopped, mutex, session, failed>>

\* The handler schedules itself again before it unlocks; the destructor's
\* cancel() may come before or after.
Answered ==
  /\ worker = "asking"
  /\ timer' = "armed"
  /\ worker' = "unlocking"
  /\ UNCHANGED <<main, stopped, mutex, session, failed>>

\* The request throws, and nothing in the thread catches.
Thrown ==
  /\ worker = "asking"
  /\ failed' = TRUE
  /\ UNCHANGED <<main, worker, timer, stopped, mutex, session>>

WorkerUnlock ==
  /\ worker = "unlocking"
  /\ mutex' = "free"
  /\ IF timer = "none"
     THEN worker' = "done" /\ stopped' = TRUE
     ELSE worker' = "running" /\ UNCHANGED stopped
  /\ UNCHANGED <<main, timer, session, failed>>

\* A stopped context returns whatever is queued.
RunReturns ==
  /\ worker = "running"
  /\ stopped
  /\ worker' = "done"
  /\ UNCHANGED <<main, timer, stopped, mutex, session, failed>>

-----------------------------------------------------------------------------
MainSteps == Schedule \/ Return \/ Stop \/ Join \/ DestroySession

WorkerSteps ==
  \/ Run
  \/ Expire
  \/ Handle
  \/ HandleAborted
  \/ Answered
  \/ WorkerUnlock
  \/ RunReturns

\* std::terminate ends both threads.
Next ==
  /\ ~failed
  /\ \/ StartThread \/ Call \/ Lock \/ Cancel \/ MainSteps
     \/ WorkerLock \/ Thrown \/ WorkerSteps

(***************************************************************************)
(* Fairness: both threads are scheduled, a request is answered or throws,  *)
(* the interval passes.  A keepalive is sent once in an interval and the   *)
(* user's requests come at a person's pace: the mutex is free most of the  *)
(* time, and a thread that waits for it gets it.  Nothing obliges the      *)
(* owner to call or to close.                                              *)
(***************************************************************************)
Fairness ==
  /\ WF_vars(~failed /\ MainSteps)
  /\ WF_vars(~failed /\ WorkerSteps)
  /\ SF_vars(~failed /\ Lock)
  /\ SF_vars(~failed /\ WorkerLock)

Spec == Init /\ [][Next]_vars /\ Fairness

-----------------------------------------------------------------------------
(***************************************************************************)
(* Properties                                                              *)
(***************************************************************************)

\* NetconfAccess exists and nobody has begun to destroy it.
Open == {"constructing", "idle", "locking", "calling"}

\* The ranges of the state.
TypeOK ==
  /\ main \in {"absent", "stopping", "joining", "joined", "destroyed"} \cup Open
  /\ worker \in {"none", "starting", "running", "locking", "asking", "unlocking", "done"}
  /\ timer \in {"none", "armed", "expired", "aborted"}
  /\ stopped \in BOOLEAN
  /\ mutex \in {"free", "main", "worker"}
  /\ session \in {"open", "destroyed"}
  /\ failed \in BOOLEAN

\* m_sessionMutex: a request of the user and a keepalive never run at once on
\* the one session, whenever the timer expires.
OneRequestAtATime == ~(main = "calling" /\ worker = "asking")

\* ~SessionKeepalive and the order of NetconfAccess's members: when the session
\* is destroyed the thread is out of run() for good, although its handler may
\* have been waiting for the mutex, asking, or arming the timer again when
\* the timer was cancelled.
NobodyUsesADestroyedSession ==
  session = "destroyed" => worker = "done" /\ mutex = "free"

\* Whatever the thread is doing when NetconfAccess is destroyed, cancel(),
\* stop() and join() end: the program can always be left.
ClosingEnds == (main = "stopping") ~> (main = "destroyed" \/ failed)

\* A command is not kept waiting for ever by the keepalives, and a command that
\* throws does not keep the next one waiting.
CallsReturn == (main = "locking") ~> (main = "idle" \/ failed)

\* Once the context is running there is always a next keepalive, until the
\* session is closed.
KeepalivesGoOn ==
  (worker \in {"running", "unlocking"}) ~> (worker = "asking" \/ main \notin Open \/ failed)

\* "Keeps the NETCONF session alive by sending periodic keepalive messages":
\* a session that stays open has a keepalive sent.  The thread may find its
\* context without work, before schedule() arms the timer, and return.
KeepsSessionAlive ==
  (main = "constructing") ~> (worker = "asking" \/ main \notin Open \/ failed)

=============================================================================
