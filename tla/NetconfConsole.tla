--------------------------- MODULE NetconfConsole ---------------------------
(***************************************************************************)
(* netconf-cli as a process: main() of cli.cpp built with NETCONF_CLI, the *)
(* ssh child it talks through, the thread that waits for the child, and    *)
(* the session with its keepalive (module Keepalive).                      *)
(*                                                                         *)
(* What the commands do is the subject of CliSession; here a command is    *)
(* some requests on the session.  External, modelled from how main() uses  *)
(* them: ssh, and replxx, whose input() takes the keys of the terminal and *)
(* the emulated ones.                                                      *)
(***************************************************************************)
EXTENDS Keepalive, Sequences

VARIABLES
  loop,     \* where main() is
  child,    \* the ssh process
  watcher,  \* processWatcher: what it waits for, or the next key it presses
  code,     \* backendReturnCode
  keys,     \* the emulated keys that input() has not taken yet
  line,     \* where the edited line has text: before the cursor, after it
  exit      \* what main() returns

consoleVars == <<vars, loop, child, watcher, code, keys, line, exit>>
processVars == <<child, watcher, code>>
editorVars == <<keys, line>>

\* The exit code of the child once it has ended.
ExitCode == IF child = "ended" THEN 0 ELSE 1

ConsoleInit ==
  /\ Init
  /\ loop = "connecting"
  /\ child = "running"
  /\ watcher = "waiting"
  /\ code = 0
  /\ keys = << >>
  /\ line = {}
  /\ exit = 0

-----------------------------------------------------------------------------
(***************************************************************************)
(* Connecting                                                              *)
(***************************************************************************)

\* The hello exchange succeeds; the constructor of NetconfAccess ends with
\* StartThread and Schedule.
Connect ==
  /\ loop = "connecting"
  /\ child = "running"
  /\ StartThread
  /\ UNCHANGED <<loop, exit, processVars, editorVars>>

Connected ==
  /\ loop = "connecting"
  /\ main = "idle"
  /\ loop' = "checking"
  /\ UNCHANGED <<vars, exit, processVars, editorVars>>

\* connectFd throws: main() returns 1, which destroys the watcher and then ssh.
ConnectFails ==
  /\ loop = "connecting"
  /\ main = "absent"
  /\ loop' = "joining"
  /\ exit' = 1
  /\ UNCHANGED <<vars, processVars, editorVars>>

-----------------------------------------------------------------------------
(***************************************************************************)
(* The main loop                                                           *)
(***************************************************************************)

\* while (backendReturnCode == 0), then lineEditor.input()
CheckLoop ==
  /\ loop = "checking"
  /\ loop' = IF code = 0 THEN "reading" ELSE "leaving"
  /\ line' = {}
  /\ UNCHANGED <<vars, exit, processVars, keys>>

UserEdits ==
  /\ loop = "reading"
  /\ main = "idle"
  /\ line' \in SUBSET {"before", "after"}
  /\ UNCHANGED <<vars, loop, exit, processVars, keys>>

\* Enter: a line to parse, or a blank one; and an interrupted line.
UserEnters ==
  /\ loop = "reading"
  /\ main = "idle"
  /\ loop' \in {"checking"} \cup (IF line # {} THEN {"working"} ELSE {})
  /\ UNCHANGED <<vars, exit, processVars, editorVars>>

UserEndsInput ==
  /\ loop = "reading"
  /\ main = "idle"
  /\ line = {}
  /\ loop' = "leaving"
  /\ UNCHANGED <<vars, exit, processVars, editorVars>>

\* A command makes requests, and so do the completions while a line is read.
Request ==
  /\ loop \in {"reading", "working"}
  /\ Call
  /\ UNCHANGED <<loop, exit, processVars, editorVars>>

\* `quit` breaks the loop; any other command returns or throws.
FinishCommand ==
  /\ loop = "working"
  /\ main = "idle"
  /\ loop' \in {"checking", "leaving"}
  /\ UNCHANGED <<vars, exit, processVars, editorVars>>

\* input() takes an emulated key: ^U and ^K clear the line on the two sides of
\* the cursor, ^D ends the input of an empty line and otherwise deletes the
\* character at the cursor.
TakeKey ==
  /\ loop = "reading"
  /\ main = "idle"
  /\ keys # << >>
  /\ keys' = Tail(keys)
  /\ line' \in CASE Head(keys) = "^U" -> {line \ {"before"}}
                 [] Head(keys) = "^K" -> {line \ {"after"}}
                 [] Head(keys) = "^D" -> {line, line \ {"after"}}
  /\ loop' = IF Head(keys) = "^D" /\ line = {} THEN "leaving" ELSE "reading"
  /\ UNCHANGED <<vars, exit, processVars>>

-----------------------------------------------------------------------------
(***************************************************************************)
(* Leaving: the value to return is read, then the locals of main() are     *)
(* destroyed, the datastore before the watcher, and ssh's pipes last.      *)
(***************************************************************************)

\* A mistake to be caught: the watcher is waited for while the session is open.
LeaveOpen ==
  /\ loop = "leaving"
  /\ main = "idle"
  /\ exit' = code
  /\ loop' = "joining"
  /\ UNCHANGED <<vars, processVars, editorVars>>

Leave ==
  /\ loop = "leaving"
  /\ main = "idle"
  /\ exit' = code
  /\ loop' = "closing"
  /\ UNCHANGED <<vars, processVars, editorVars>>

Close ==
  /\ loop = "closing"
  /\ Cancel
  /\ UNCHANGED <<loop, exit, processVars, editorVars>>

Closed ==
  /\ loop = "closing"
  /\ main = "destroyed"
  /\ loop' = "joining"
  /\ UNCHANGED <<vars, exit, processVars, editorVars>>

\* A mistake to be caught: the watcher's thread is detached.
DetachWatcher ==
  /\ loop = "joining"
  /\ loop' = "exited"
  /\ UNCHANGED <<vars, exit, processVars, editorVars>>

\* ~PoorMansJThread
JoinWatcher ==
  /\ loop = "joining"
  /\ watcher = "done"
  /\ loop' = "exited"
  /\ UNCHANGED <<vars, exit, processVars, editorVars>>

-----------------------------------------------------------------------------
(***************************************************************************)
(* The child and the thread that waits for it                              *)
(***************************************************************************)

\* The connection is lost, the server ends the session, ssh is killed...
ChildExits ==
  /\ child = "running"
  /\ child' \in {"ended", "broken"}
  /\ UNCHANGED <<vars, loop, exit, watcher, code, editorVars>>

\* A mistake to be caught: the keys are pressed before the code is stored.
WatcherPressesFirst ==
  /\ watcher = "waiting"
  /\ child # "running"
  /\ watcher' = "^U"
  /\ UNCHANGED <<vars, loop, exit, child, code, editorVars>>

WatcherWakes ==
  /\ watcher = "waiting"
  /\ child # "running"
  /\ code' = ExitCode
  /\ watcher' = "^U"
  /\ UNCHANGED <<vars, loop, exit, child, editorVars>>

\* A mistake to be caught: the line is cleared and the input never ended.
NextKeyClears == [key \in {"^U", "^K"} |-> IF key = "^U" THEN "^K" ELSE "done"]

NextKey == [key \in {"^U", "^K", "^D"} |->
              CASE key = "^U" -> "^K" [] key = "^K" -> "^D" [] key = "^D" -> "done"]

WatcherPresses ==
  /\ watcher \in DOMAIN NextKey
  /\ keys' = Append(keys, watcher)
  /\ watcher' = NextKey[watcher]
  /\ UNCHANGED <<vars, loop, exit, child, code, line>>

-----------------------------------------------------------------------------
\* The keepalive and the request that is under way; without ssh no request
\* is answered.
MainProceeds == MainSteps /\ UNCHANGED <<loop, exit, processVars, editorVars>>
MainLocks == Lock /\ UNCHANGED <<loop, exit, processVars, editorVars>>

WorkerProceeds ==
  /\ WorkerSteps
  /\ worker = "asking" => child = "running"
  /\ UNCHANGED <<loop, exit, processVars, editorVars>>

WorkerLocks == WorkerLock /\ UNCHANGED <<loop, exit, processVars, editorVars>>
WorkerThrows == Thrown /\ UNCHANGED <<loop, exit, processVars, editorVars>>

MainThread ==
  \/ Connected
  \/ CheckLoop
  \/ TakeKey
  \/ Leave
  \/ Close
  \/ Closed
  \/ JoinWatcher
  \/ MainProceeds

WatcherThread == WatcherWakes \/ WatcherPresses

\* main() has not returned, and no thread has terminated the process.
Alive == loop # "exited" /\ ~failed

ConsoleNext ==
  /\ Alive
  /\ \/ Connect \/ ConnectFails
     \/ UserEdits \/ UserEnters \/ UserEndsInput \/ Request \/ FinishCommand
     \/ MainThread \/ MainLocks
     \/ WorkerProceeds \/ WorkerLocks \/ WorkerThrows
     \/ WatcherThread \/ ChildExits

(***************************************************************************)
(* Fairness: every thread is scheduled, connecting ends, a command makes   *)
(* finitely many requests, and what Keepalive assumes.  input() looks for  *)
(* an emulated key before each key it reads, so one that is there is taken *)
(* even by a user who enters line after line.  The child is not obliged to *)
(* exit before the session is closed (then the server ends the             *)
(* connection), and the user is not obliged to do anything.                *)
(***************************************************************************)
ConsoleFairness ==
  /\ WF_consoleVars(Alive /\ (Connect \/ ConnectFails))
  /\ WF_consoleVars(Alive /\ MainThread)
  /\ SF_consoleVars(Alive /\ TakeKey)
  /\ SF_consoleVars(Alive /\ FinishCommand)
  /\ WF_consoleVars(Alive /\ (WorkerProceeds \/ (WorkerThrows /\ child # "running")))
  /\ WF_consoleVars(Alive /\ WatcherThread)
  /\ WF_consoleVars(Alive /\ ChildExits /\ session = "destroyed")
  /\ SF_consoleVars(Alive /\ MainLocks)
  /\ SF_consoleVars(Alive /\ WorkerLocks)

ConsoleSpec == ConsoleInit /\ [][ConsoleNext]_consoleVars /\ ConsoleFairness

-----------------------------------------------------------------------------
(***************************************************************************)
(* Properties                                                              *)
(***************************************************************************)

\* The locals that the two threads refer to are there for as long as the
\* threads run: neither outlives main(), however the console is left.
ThreadsEndBeforeMain ==
  loop = "exited" => watcher = "done" /\ worker \in {"none", "done"}

\* processWatcher: when the end of the input comes from the watcher, the value
\* main() returns is the exit code of ssh.
EmulatedEofReportsChild ==
  [][loop = "reading" /\ loop' = "leaving" /\ keys' # keys => code = ExitCode]_consoleVars

\* Once the loop is left the process ends: the session is closed while a
\* keepalive may be under way, ssh ends, the watcher wakes and is joined.
LeavingEnds == (loop = "leaving") ~> (loop = "exited" \/ failed)

\* processWatcher: when ssh ends, an idle user is back in the shell.  What the
\* user types between the emulated keys is not cleared, and ^D does not end the
\* input of such a line: then, and only then, the console stays at its prompt.
ChildExitIsNoticed ==
  (watcher = "waiting" /\ child # "running")
     ~> (loop = "exited" \/ failed \/ (loop = "reading" /\ line # {}))

=============================================================================
