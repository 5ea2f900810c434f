------------------------- MODULE NetconfConsoleProofs -------------------------
(***************************************************************************)
(* Proofs of the safety properties of netconf-cli's threads.               *)
(*                                                                         *)
(* KInv is about the session and the two threads that use it, and every    *)
(* step of Keepalive preserves it; a step of the console is one of those   *)
(* or leaves Keepalive's state alone.  ConsoleInv adds what the main loop  *)
(* and the watcher of ssh know about each other.                           *)
(***************************************************************************)
EXTENDS NetconfConsole, TLAPS

\* The mutex is held by whoever uses the session, the thread exists from the
\* construction on, and it is out of run() once it has been joined.
KInv ==
  /\ TypeOK
  /\ mutex = "main" <=> main = "calling"
  /\ mutex = "worker" <=> worker \in {"asking", "unlocking"}
  /\ worker = "none" <=> main = "absent"
  /\ main \in {"joined", "destroyed"} => worker = "done"
  /\ session = "destroyed" <=> main = "destroyed"

ConsoleInv ==
  /\ KInv
  /\ loop \in {"joining", "exited"} => main \in {"absent", "destroyed"}
  /\ loop = "exited" => watcher = "done"
  /\ watcher # "waiting" => child # "running" /\ code = ExitCode
  /\ keys # << >> => watcher # "waiting"

-----------------------------------------------------------------------------
(***************************************************************************)
(* Keepalive                                                               *)
(***************************************************************************)
LEMMA InitKInv == Init => KInv
  BY DEF Init, KInv, TypeOK, Open

\* The steps of the thread that owns the session.
LEMMA OwnerKeepsKInv ==
  ASSUME KInv, StartThread \/ Call \/ Lock \/ Cancel \/ MainSteps
  PROVE  KInv'
<1>1. CASE StartThread
  BY <1>1 DEF KInv, TypeOK, Open, StartThread
<1>2. CASE Call
  BY <1>2 DEF KInv, TypeOK, Open, Call
<1>3. CASE Lock
  BY <1>3 DEF KInv, TypeOK, Open, Lock
<1>4. CASE Cancel
  BY <1>4 DEF KInv, TypeOK, Open, Cancel
<1>5. CASE MainSteps
  <2>1. CASE Schedule
    BY <2>1 DEF KInv, TypeOK, Open, Schedule
  <2>2. CASE Return
    BY <2>2 DEF KInv, TypeOK, Open, Return
  <2>3. CASE Stop
    BY <2>3 DEF KInv, TypeOK, Open, Stop
  <2>4. CASE Join
    BY <2>4 DEF KInv, TypeOK, Open, Join
  <2>5. CASE DestroySession
    BY <2>5 DEF KInv, TypeOK, Open, DestroySession
  <2> QED
    BY <1>5, <2>1, <2>2, <2>3, <2>4, <2>5 DEF MainSteps
<1> QED
  BY <1>1, <1>2, <1>3, <1>4, <1>5

\* The steps of the keepalive's thread.
LEMMA WorkerKeepsKInv ==
  ASSUME KInv, WorkerLock \/ Thrown \/ WorkerSteps
  PROVE  KInv'
<1>1. CASE WorkerLock
  BY <1>1 DEF KInv, TypeOK, Open, WorkerLock
<1>2. CASE Thrown
  BY <1>2 DEF KInv, TypeOK, Open, Thrown
<1>3. CASE WorkerSteps
  <2>1. CASE Run
    BY <2>1 DEF KInv, TypeOK, Open, Run
  <2>2. CASE Expire
    BY <2>2 DEF KInv, TypeOK, Open, Expire
  <2>3. CASE Handle
    BY <2>3 DEF KInv, TypeOK, Open, Handle
  <2>4. CASE HandleAborted
    BY <2>4 DEF KInv, TypeOK, Open, HandleAborted
  <2>5. CASE Answered
    BY <2>5 DEF KInv, TypeOK, Open, Answered
  <2>6. CASE WorkerUnlock
    BY <2>6 DEF KInv, TypeOK, Open, WorkerUnlock
  <2>7. CASE RunReturns
    BY <2>7 DEF KInv, TypeOK, Open, RunReturns
  <2> QED
    BY <1>3, <2>1, <2>2, <2>3, <2>4, <2>5, <2>6, <2>7 DEF WorkerSteps
<1> QED
  BY <1>1, <1>2, <1>3

LEMMA StutterKeepsKInv ==
  ASSUME KInv, UNCHANGED vars
  PROVE  KInv'
  BY DEF KInv, TypeOK, Open, vars

-----------------------------------------------------------------------------
(***************************************************************************)
(* The console                                                             *)
(***************************************************************************)

\* What the steps that the console adds to Keepalive are to Keepalive.
LEMMA ConsoleSteps ==
  ASSUME ConsoleNext
  PROVE  \/ StartThread \/ Call \/ Lock \/ Cancel \/ MainSteps
         \/ WorkerLock \/ Thrown \/ WorkerSteps
         \/ UNCHANGED vars
  BY DEF ConsoleNext, Connect, ConnectFails, UserEdits, UserEnters, UserEndsInput, Request,
         FinishCommand, MainThread, Connected, CheckLoop, TakeKey, Leave, Close, Closed,
         JoinWatcher, MainProceeds, MainLocks, WorkerProceeds, WorkerLocks, WorkerThrows,
         WatcherThread, WatcherWakes, WatcherPresses, ChildExits

LEMMA ConsoleKeepsKInv ==
  ASSUME KInv, [ConsoleNext]_consoleVars
  PROVE  KInv'
<1>1. CASE UNCHANGED consoleVars
  BY <1>1, StutterKeepsKInv DEF consoleVars
<1>2. CASE ConsoleNext
  BY <1>2, ConsoleSteps, OwnerKeepsKInv, WorkerKeepsKInv, StutterKeepsKInv
<1> QED
  BY <1>1, <1>2

\* main() leaves the loop for good: only before the session exists, or when it is
\* gone, are the threads joined.
LEMMA JoiningIsLast ==
  ASSUME ConsoleInv, [ConsoleNext]_consoleVars
  PROVE  loop' \in {"joining", "exited"} => main' \in {"absent", "destroyed"}
<1> USE DEF ConsoleInv, KInv
<1>1. CASE UNCHANGED consoleVars
  BY <1>1 DEF consoleVars, vars
<1>2. CASE Connect \/ Request \/ MainLocks \/ Close \/ MainProceeds
  BY <1>2 DEF Connect, Request, Call, MainLocks, Lock, Close, Cancel, MainProceeds, MainSteps,
              Schedule, Return, Stop, Join, DestroySession, StartThread
<1>3. CASE WorkerProceeds \/ WorkerLocks \/ WorkerThrows
  BY <1>3 DEF WorkerProceeds, WorkerSteps, Run, Expire, Handle, HandleAborted, Answered,
              WorkerUnlock, RunReturns, WorkerLocks, WorkerLock, WorkerThrows, Thrown
<1>4. CASE ConnectFails \/ UserEdits \/ UserEnters \/ UserEndsInput \/ FinishCommand
  BY <1>4 DEF ConnectFails, UserEdits, UserEnters, UserEndsInput, FinishCommand, vars
<1>5. CASE Connected \/ CheckLoop \/ TakeKey \/ Leave \/ Closed \/ JoinWatcher
  BY <1>5 DEF Connected, CheckLoop, TakeKey, Leave, Closed, JoinWatcher, vars
<1>6. CASE WatcherThread \/ ChildExits
  BY <1>6 DEF WatcherThread, WatcherWakes, WatcherPresses, ChildExits, vars
<1> QED
  BY <1>1, <1>2, <1>3, <1>4, <1>5, <1>6 DEF ConsoleNext, MainThread

LEMMA WatcherIsJoined ==
  ASSUME ConsoleInv, [ConsoleNext]_consoleVars
  PROVE  loop' = "exited" => watcher' = "done"
<1>1. CASE UNCHANGED consoleVars
  BY <1>1 DEF ConsoleInv, consoleVars
<1>2. CASE ConsoleNext
  BY <1>2 DEF ConsoleInv, ConsoleNext, Alive, Connect, ConnectFails, UserEdits, UserEnters,
              UserEndsInput, Request, FinishCommand, MainThread, Connected, CheckLoop, TakeKey,
              Leave, Close, Closed, JoinWatcher, MainProceeds, MainLocks, WorkerProceeds,
              WorkerLocks, WorkerThrows, WatcherThread, WatcherWakes, WatcherPresses,
              ChildExits, processVars
<1> QED
  BY <1>1, <1>2

\* The code is stored before the first key is pressed, and ssh ends once.
LEMMA CodeBeforeKeys ==
  ASSUME ConsoleInv, [ConsoleNext]_consoleVars
  PROVE  /\ watcher' # "waiting" => child' # "running" /\ code' = ExitCode'
         /\ keys' # << >> => watcher' # "waiting"
<1> USE DEF ConsoleInv, ExitCode
<1>1. CASE UNCHANGED consoleVars
  BY <1>1 DEF consoleVars
<1>2. CASE Connect \/ Request \/ MainLocks \/ Close \/ MainProceeds
           \/ WorkerProceeds \/ WorkerLocks \/ WorkerThrows
  BY <1>2 DEF Connect, Request, MainLocks, Close, MainProceeds, WorkerProceeds, WorkerLocks,
              WorkerThrows, processVars, editorVars
<1>3. CASE ConnectFails \/ UserEdits \/ UserEnters \/ UserEndsInput \/ FinishCommand
           \/ Connected \/ CheckLoop \/ Leave \/ Closed \/ JoinWatcher
  BY <1>3 DEF ConnectFails, UserEdits, UserEnters, UserEndsInput, FinishCommand, Connected,
              CheckLoop, Leave, Closed, JoinWatcher, processVars, editorVars
<1>4. CASE TakeKey
  BY <1>4 DEF TakeKey, processVars
<1>5. CASE WatcherWakes
  BY <1>5 DEF WatcherWakes, editorVars
<1>6. CASE WatcherPresses
  BY <1>6 DEF WatcherPresses, NextKey
<1>7. CASE ChildExits
  BY <1>7 DEF ChildExits, editorVars
<1> QED
  BY <1>1, <1>2, <1>3, <1>4, <1>5, <1>6, <1>7 DEF ConsoleNext, MainThread, WatcherThread

LEMMA InitConsoleInv == ConsoleInit => ConsoleInv
  BY InitKInv DEF ConsoleInit, ConsoleInv

LEMMA StepConsoleInv == ConsoleInv /\ [ConsoleNext]_consoleVars => ConsoleInv'
<1> SUFFICES ASSUME ConsoleInv, [ConsoleNext]_consoleVars PROVE ConsoleInv'
  OBVIOUS
<1>1. KInv'
  BY ConsoleKeepsKInv DEF ConsoleInv
<1> QED
  BY <1>1, JoiningIsLast, WatcherIsJoined, CodeBeforeKeys DEF ConsoleInv

LEMMA SpecConsoleInv == ConsoleSpec => []ConsoleInv
  BY InitConsoleInv, StepConsoleInv, PTL DEF ConsoleSpec

-----------------------------------------------------------------------------
(***************************************************************************)
(* Theorems                                                                *)
(***************************************************************************)

\* The user's requests and the keepalives never run at once on the session.
THEOREM ConsoleOneRequestAtATime == ConsoleSpec => []OneRequestAtATime
<1>1. ConsoleInv => OneRequestAtATime
  BY DEF ConsoleInv, KInv, OneRequestAtATime
<1> QED
  BY <1>1, SpecConsoleInv, PTL

\* When the session is destroyed the keepalive's thread is out of run() for good.
THEOREM ConsoleNobodyUsesADestroyedSession == ConsoleSpec => []NobodyUsesADestroyedSession
<1>1. ConsoleInv => NobodyUsesADestroyedSession
  BY DEF ConsoleInv, KInv, TypeOK, NobodyUsesADestroyedSession
<1> QED
  BY <1>1, SpecConsoleInv, PTL

\* Neither thread outlives main().
THEOREM ConsoleThreadsEndBeforeMain == ConsoleSpec => []ThreadsEndBeforeMain
<1>1. ConsoleInv => ThreadsEndBeforeMain
  BY DEF ConsoleInv, KInv, ThreadsEndBeforeMain
<1> QED
  BY <1>1, SpecConsoleInv, PTL

\* When the watcher ends the input, main() returns the exit code of ssh.
THEOREM ConsoleEmulatedEofReportsChild == ConsoleSpec => EmulatedEofReportsChild
<1>1. ConsoleInv /\ [ConsoleNext]_consoleVars =>
        [loop = "reading" /\ loop' = "leaving" /\ keys' # keys => code = ExitCode]_consoleVars
  <2> SUFFICES ASSUME ConsoleInv, ConsoleNext,
                      loop = "reading", loop' = "leaving", keys' # keys
               PROVE  code = ExitCode
    OBVIOUS
  <2>1. TakeKey \/ WatcherPresses
    BY DEF ConsoleNext, Connect, ConnectFails, UserEdits, UserEnters, UserEndsInput, Request,
           FinishCommand, MainThread, Connected, CheckLoop, Leave, Close, Closed, JoinWatcher,
           MainProceeds, MainLocks, WorkerProceeds, WorkerLocks, WorkerThrows, WatcherThread,
           WatcherWakes, ChildExits, editorVars
  <2> QED
    BY <2>1 DEF ConsoleInv, TakeKey, WatcherPresses
<1> QED
  BY <1>1, SpecConsoleInv, PTL DEF ConsoleSpec, EmulatedEofReportsChild

=============================================================================
