------------------------------ MODULE CellLog ------------------------------
(***************************************************************************)
(* depends/include/CellLog.hpp: the log of a program, a singleton whose    *)
(* messages are tasks of its own CellTaskServer.  The main thread creates  *)
(* it with its one call of setLogPath and destroys it when the program     *)
(* ends; any thread logs; the worker of the task server writes to the file *)
(* that the main thread opens and closes without a lock.  A message of     *)
(* PError is a task that logs two further messages.                        *)
(***************************************************************************)
EXTENDS CellTask

CONSTANTS
  PErrors,   \* the tasks that PError adds
  Lines,     \* the two messages that each of them logs when it is executed
  Opened,    \* the message at the end of setLogPath
  Closing    \* the message of the destructor

ASSUME OneOwner == \A o, p \in Callers : o = p
ASSUME MessagesAreTasks ==
  /\ {Opened, Closing} \cup PErrors \subseteq Tasks
  /\ Lines \in [PErrors -> (Tasks \ PErrors) \X (Tasks \ PErrors)]

VARIABLES
  logFile,    \* _logFile: "none" (null), "open", or "closed" (dangling)
  mainPc,     \* where the main thread is in setLogPath or ~CellLog
  echoPc,     \* where the worker is in the task it has called
  written,    \* history: the messages written to the file
  opened,     \* history: the messages logged before the file was opened
  closing     \* history: those logged before ~CellLog

fileVars == <<logFile, mainPc, echoPc, written, opened, closing>>
logVars == <<vars, fileVars>>

LogInit ==
  /\ Init
  /\ logFile = "none"
  /\ mainPc = "new"
  /\ echoPc = "called"
  /\ written = {} /\ opened = {} /\ closing = {}

Added == {added[i] : i \in DOMAIN added}
-----------------------------------------------------------------------------
(* The main thread.                                                        *)

Main(from, to) == mainPc = from /\ mainPc' = to

\* Instance() creates the log.
Create(o) ==
  /\ Main("new", "path")
  /\ StartServer(o)
  /\ UNCHANGED <<logFile, echoPc, written, opened, closing>>

\* fopen, which may fail
OpenFile ==
  /\ Main("path", "info")
  /\ logFile' \in {"open", "none"}
  /\ opened' = Added
  /\ UNCHANGED <<vars, echoPc, written, closing>>

InfoOpened ==
  /\ Main("info", "use")
  /\ AddTask(Opened)
  /\ UNCHANGED <<logFile, echoPc, written, opened, closing>>

\* ~CellLog
Destroy(o) ==
  /\ Main("use", "close")
  /\ CallClose(o) /\ UNCHANGED taskVars
  /\ closing' = Added
  /\ UNCHANGED <<logFile, echoPc, written, opened>>

InClose(o) ==
  /\ mainPc = "close"
  /\ CloseStep(o) \/ CloseDozes(o)
  /\ UNCHANGED <<taskVars, fileVars>>

\* Mutant of InfoClosing: the file is closed before the task server ended.
InfoClosingEarly(o) ==
  /\ Main("close", "fclose")
  /\ logFile # "none"
  /\ AddTask(Closing)
  /\ UNCHANGED <<logFile, echoPc, written, opened, closing>>

\* The message comes too late for the worker: it is never executed.
InfoClosing(o) ==
  /\ Main("close", "fclose")
  /\ ownerPc[o] = "idle"
  /\ logFile # "none"
  /\ AddTask(Closing)
  /\ UNCHANGED <<logFile, echoPc, written, opened, closing>>

CloseFile ==
  /\ Main("fclose", "null")
  /\ logFile' = "closed"
  /\ UNCHANGED <<vars, echoPc, written, opened, closing>>

Destroyed(o) ==
  /\ \/ Main("null", "ended")
     \/ Main("close", "ended") /\ ownerPc[o] = "idle" /\ logFile = "none"
  /\ logFile' = "none"
  /\ UNCHANGED <<vars, echoPc, written, opened, closing>>

MainStep(o) ==
  \/ Create(o) \/ OpenFile \/ InfoOpened \/ Destroy(o) \/ InClose(o)
  \/ InfoClosing(o) \/ CloseFile \/ Destroyed(o)
-----------------------------------------------------------------------------
\* Info, Waring, Error and PError, in any thread
ThreadLogs(t) ==
  /\ mainPc \notin {"new", "ended"}
  /\ t \notin {Opened, Closing} \cup UNION {{Lines[p][1], Lines[p][2]} : p \in PErrors}
  /\ AddTask(t)
  /\ UNCHANGED fileVars

(* The worker, in the task it has called.                                  *)

Calls(w, t) ==
  \/ taskPc = "execute" /\ workerPc[w] = "run" /\ at < Len(tasks) /\ t = tasks[at + 1]
  \/ taskPc = "drain" /\ workerPc[w] = "run" /\ at < Len(tasksBuf) /\ t = tasksBuf[at + 1]

Echo(from, to) == echoPc = from /\ echoPc' = to

\* The task of PError: Echo, twice.
EchoLines(w, p) ==
  /\ Calls(w, p)
  /\ \/ Echo("called", "second") /\ AddTask(Lines[p][1])
     \/ Echo("second", "return") /\ AddTask(Lines[p][2])
  /\ UNCHANGED <<logFile, mainPc, written, opened, closing>>

\* EchoReal: if (_logFile)
TestFile(w, t) ==
  /\ Calls(w, t) /\ t \notin PErrors
  /\ \/ logFile # "none" /\ Echo("called", "write")
     \/ logFile = "none" /\ Echo("called", "return")
  /\ UNCHANGED <<vars, logFile, mainPc, written, opened, closing>>

\* EchoReal: fprintf and fflush, to what _logFile is by now
WriteFile(w, t) ==
  /\ Calls(w, t)
  /\ Echo("write", "return")
  /\ written' = IF logFile = "open" THEN written \cup {t} ELSE written
  /\ UNCHANGED <<vars, logFile, mainPc, opened, closing>>

TaskReturns(w) ==
  /\ Echo("return", "called")
  /\ ExecuteTask(w) \/ DrainTask(w)
  /\ UNCHANGED <<logFile, mainPc, written, opened, closing>>

LoopStep(w) ==
  /\ OnWork(w) \/ TestIsRun(w) \/ LookAtBuf(w) \/ MoveTasks(w) \/ ClearTasks(w)
       \/ ReturnFromOnRun(w)
  /\ UNCHANGED fileVars

WorkerLogs(w) ==
  \/ \E p \in PErrors : EchoLines(w, p)
  \/ \E t \in Tasks : TestFile(w, t) \/ WriteFile(w, t)
  \/ TaskReturns(w) \/ LoopStep(w)

LogNext ==
  \/ \E o \in Callers : MainStep(o)
  \/ \E t \in Tasks : ThreadLogs(t)
  \/ \E w \in Workers : WorkerLogs(w)

\* As for the task server; the main thread need not end the program.
LogFairness ==
  /\ \A o \in Callers : WF_logVars(InClose(o) /\ (CloseWait(o) \/ CloseResume(o)))
  /\ \A w \in Workers : WF_logVars(WorkerLogs(w))

LogSpec == LogInit /\ [][LogNext]_logVars /\ LogFairness
-----------------------------------------------------------------------------
\* The worker tests _logFile and writes to it without a lock, while the main
\* thread opens and closes the file: it never writes to a file that has been
\* closed, or to a null pointer.
WritesOpen == echoPc = "write" => logFile = "open"

\* When the file is closed it has every message that was logged between
\* setLogPath and ~CellLog, and both lines of every PError, though these are
\* logged by the worker and possibly while it drains the buffer.
FileComplete ==
  logFile = "closed" =>
    \A t \in closing \ opened :
       IF t \in PErrors THEN {Lines[t][1], Lines[t][2]} \subseteq written ELSE t \in written
=============================================================================
