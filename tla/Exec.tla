-------------------------------- MODULE Exec --------------------------------
(***************************************************************************)
(* The main goroutine of "nomlog exec" for a script that ends in sink      *)
(* statements: doExec (cmd/nomlog/main.go), the Sink case of               *)
(* Runtime.Execute and Runtime.Stop (runtime/runtime.go).                  *)
(*                                                                         *)
(*  - A sink statement calls its sink and waits for it, unless it is       *)
(*    asynchronous: then it adds one to the wait group and starts a        *)
(*    goroutine.  The error of a synchronous sink ends Execute; that of an *)
(*    asynchronous one is logged.                                          *)
(*  - doExec calls Stop when Execute has returned, with an error or not.   *)
(*    Stop cancels the context, waits for the wait group and only then     *)
(*    calls Stopping on every plugin.                                      *)
(*                                                                         *)
(* The module gives the state and the steps; a session conjoins them with  *)
(* the steps of the sinks.                                                 *)
(***************************************************************************)
EXTENDS Integers, Sequences

CONSTANTS Scripts   \* the scripts: sequences of [sink |-> ..., async |-> ...]

VARIABLES
  script,       \* the sink statements of the script that is executed
  main,         \* where the main goroutine is
  stmt,         \* the statement that Execute is at
  waiting,      \* the asynchronous sinks that the wait group counts
  cancelled     \* the context of the runtime is cancelled

mainVars == <<script, main, stmt, waiting, cancelled>>

MainInit == /\ script \in Scripts
            /\ main = "execute"
            /\ stmt = 1
            /\ waiting = {}
            /\ cancelled = FALSE

\* Execute is at the statement of sink s.
AtSink(s) == main = "execute" /\ stmt <= Len(script) /\ s = script[stmt].sink

\* Execute calls sink s and waits for it.
RunSync(s) == /\ AtSink(s)
              /\ ~script[stmt].async
              /\ main' = "in_sink"
              /\ UNCHANGED <<script, stmt, waiting, cancelled>>

\* The synchronous sink has returned; an error ends Execute.
SyncReturned(s, result) == /\ main = "in_sink"
                           /\ s = script[stmt].sink
                           /\ IF result # "ok"
                              THEN main' = "cancel" /\ UNCHANGED stmt
                              ELSE main' = "execute" /\ stmt' = stmt + 1
                           /\ UNCHANGED <<script, waiting, cancelled>>

\* What the wait group counts after wg.Add(1).  A faulty variant adds in the
\* goroutine, which may come too late.
AddNothing(s) == waiting
WaitGroupAdd(s) == waiting \cup {s}

\* wg.Add(1) and the start of the goroutine.
RunAsync(s) == /\ AtSink(s)
               /\ script[stmt].async
               /\ waiting' = WaitGroupAdd(s)
               /\ stmt' = stmt + 1
               /\ UNCHANGED <<script, main, cancelled>>

\* What the wait group counts after wg.Done.
WaitGroupDone(s) == waiting \ {s}

\* The asynchronous sink has returned: the deferred wg.Done.
AsyncReturned(s) == /\ s \in waiting
                    /\ waiting' = WaitGroupDone(s)
                    /\ UNCHANGED <<script, main, stmt, cancelled>>

\* The goroutine of asynchronous sink s has been started.
Started(s) == \E i \in 1..(stmt - 1) : script[i].sink = s /\ script[i].async

\* Execute has come to the end of the script.
ExecuteReturns == /\ main = "execute"
                  /\ stmt = Len(script) + 1
                  /\ main' = "cancel"
                  /\ UNCHANGED <<script, stmt, waiting, cancelled>>

Cancel == /\ main = "cancel"
          /\ cancelled' = TRUE
          /\ main' = "wait"
          /\ UNCHANGED <<script, stmt, waiting>>

\* wg.Wait returns.
AllWaitedFor == waiting = {}
WaitReturns == /\ main = "wait"
               /\ AllWaitedFor
               /\ main' = "stopping_plugins"
               /\ UNCHANGED <<script, stmt, waiting, cancelled>>

\* Plugin.Stopping of every plugin, and the state done.
PluginsStopped == /\ main = "stopping_plugins"
                  /\ main' = "done"
                  /\ UNCHANGED <<script, stmt, waiting, cancelled>>

\* The steps that the main goroutine takes on its own.
MainStep == ExecuteReturns \/ Cancel \/ WaitReturns \/ PluginsStopped

MainTypeOK == /\ script \in Scripts
              /\ main \in {"execute", "in_sink", "cancel", "wait",
                           "stopping_plugins", "done"}
              /\ stmt \in 1..(Len(script) + 1)
              /\ waiting \subseteq {script[i].sink : i \in DOMAIN script}
              /\ cancelled \in BOOLEAN
=============================================================================
