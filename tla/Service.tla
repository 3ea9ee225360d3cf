------------------------------- MODULE Service -------------------------------
(***************************************************************************)
(* Start-up and shut-down: main, and the websocket thread that run_uws     *)
(* starts.  They share the flag quit, the flag init_done and the handle of *)
(* the server, which is a local of the thread and gone when it ends.  The  *)
(* callbacks of Presence run while the thread does.                        *)
(*                                                                         *)
(* A round of the loop is here as far as it looks at quit and uses the     *)
(* handle; GameLoop has the rest.                                          *)
(***************************************************************************)
EXTENDS Presence

VARIABLES
  quit,       \* set by SIGINT, and by the thread when it catches an exception
  init_done,  \* the thread listens, or has failed
  main,       \* where main is
  thread,     \* where the websocket thread is
  server,     \* rair_server, which s_handle.s points to: "none", "alive", "destroyed"
  stopped     \* stop() was called on it

lifeVars == <<quit, init_done, main, thread, server, stopped>>
serviceVars == <<presenceVars, lifeVars>>

Ended == {"exited", "crashed"}

ServiceInit ==
  /\ PresenceInit
  /\ quit = FALSE /\ init_done = FALSE
  /\ main = "loading" /\ thread = "none"
  /\ server = "none" /\ stopped = FALSE

ServiceTypeOK ==
  /\ PresenceTypeOK
  /\ quit \in BOOLEAN /\ init_done \in BOOLEAN /\ stopped \in BOOLEAN
  /\ main \in {"loading", "starting", "looping", "sleeping", "ticking", "sending", "joining"} \cup Ended
  /\ thread \in {"none", "setup", "listening", "running", "catching", "ending", "done"}
  /\ server \in {"none", "alive", "destroyed"}

-----------------------------------------------------------------------------
\* on_sigint
Interrupt ==
  /\ main \notin Ended
  /\ quit' = TRUE
  /\ UNCHANGED <<presenceVars, init_done, main, thread, server, stopped>>

\* main up to run_uws: no configuration, no logs, no sodium or no characters to
\* select, or quit was set meanwhile, and the program is left.
LoadFails ==
  /\ main = "loading"
  /\ main' = "exited"
  /\ UNCHANGED <<presenceVars, quit, init_done, thread, server, stopped>>

\* run_uws starts the thread.
Load ==
  /\ main = "loading"
  /\ ~quit
  /\ main' = "starting"
  /\ thread' = "setup"
  /\ server' = "alive"
  /\ UNCHANGED <<presenceVars, quit, init_done, stopped>>

\* run_uws waits for init_done.
Started ==
  /\ main = "starting"
  /\ init_done
  /\ main' = "looping"
  /\ UNCHANGED <<presenceVars, quit, init_done, thread, server, stopped>>

\* while (!quit), and the sleep until the next tick.
NextRound ==
  /\ main = "looping"
  /\ ~quit
  /\ main' = "sleeping"
  /\ UNCHANGED <<presenceVars, quit, init_done, thread, server, stopped>>

\* The tick starts, whatever happened during the sleep.
BeginTick ==
  /\ main = "sleeping"
  /\ main' = "ticking"
  /\ UNCHANGED <<presenceVars, quit, init_done, thread, server, stopped>>

\* The queue is drained and the pass over the maps is done.
EndTick ==
  /\ main = "ticking"
  /\ main' = "sending"
  /\ UNCHANGED <<presenceVars, quit, init_done, thread, server, stopped>>

\* main goes on through s_handle.s; a call on a destroyed server does anything.
UseHandle(next) ==
  IF server = "alive" THEN main' = next ELSE main' \in {next, "crashed"}

\* One message of outward_queue is sent, to a player whose connection is in the map.
Send ==
  /\ main = "sending"
  /\ erasing = NoConnection
  /\ \E c \in Connected : IsPlaying(c)
  /\ UseHandle("sending")
  /\ UNCHANGED <<presenceVars, quit, init_done, thread, server, stopped>>

\* outward_queue is empty.
Sent ==
  /\ main = "sending"
  /\ main' = "looping"
  /\ UNCHANGED <<presenceVars, quit, init_done, thread, server, stopped>>

\* The loop ends: s_handle.s->stop().
Stop ==
  /\ main = "looping"
  /\ quit
  /\ UseHandle("joining")
  /\ stopped' = (server = "alive")
  /\ UNCHANGED <<presenceVars, quit, init_done, thread, server>>

\* Mutant of Join: main returns at once.
JoinNot ==
  /\ main = "joining"
  /\ main' = "exited"
  /\ UNCHANGED <<presenceVars, quit, init_done, thread, server, stopped>>

\* uws_thread.join(), and return.
Join ==
  /\ main = "joining"
  /\ thread = "done"
  /\ main' = "exited"
  /\ UNCHANGED <<presenceVars, quit, init_done, thread, server, stopped>>

MainNext == \/ LoadFails \/ Load \/ Started
            \/ NextRound \/ BeginTick \/ EndTick \/ Send \/ Sent
            \/ Stop \/ Join

-----------------------------------------------------------------------------
\* The thread of a program that has not ended.
ThreadAt(where) == main \notin Ended /\ thread = where

\* Set up, listen and start_accept.
Listen ==
  /\ ThreadAt("setup")
  /\ thread' = "listening"
  /\ init_done' = TRUE
  /\ UNCHANGED <<presenceVars, quit, main, server, stopped>>

\* rair_server.run()
Run ==
  /\ ThreadAt("listening")
  /\ thread' = "running"
  /\ UNCHANGED <<presenceVars, quit, init_done, main, server, stopped>>

\* A callback.  A connection that opens once quit is set is not recorded.
Callback ==
  /\ ThreadAt("running")
  /\ ~stopped \/ erasing # NoConnection
  /\ PresenceNext
  /\ quit => connection_id_counter' = connection_id_counter
  /\ UNCHANGED lifeVars

\* run() returns because of the stop, even one that came before it.
RunReturns ==
  /\ ThreadAt("running")
  /\ Idle
  /\ stopped
  /\ thread' = "ending"
  /\ UNCHANGED <<presenceVars, quit, init_done, main, server, stopped>>

\* Mutant of Throw: the handlers of the exceptions leave quit alone.
ThrowQuietly ==
  /\ ThreadAt("setup") \/ ThreadAt("running")
  /\ Idle
  /\ thread' = "catching"
  /\ UNCHANGED <<presenceVars, quit, init_done, main, server, stopped>>

\* The port is taken, or run() throws: the exception is caught.
Throw ==
  /\ ThreadAt("setup") \/ ThreadAt("running")
  /\ Idle
  /\ thread' = "catching"
  /\ quit' = TRUE
  /\ UNCHANGED <<presenceVars, init_done, main, server, stopped>>

\* Mutant of AfterTry: init_done is set where the thread listens, and only there.
AfterTryNotDone ==
  /\ ThreadAt("catching") \/ ThreadAt("ending")
  /\ thread' = "done"
  /\ server' = "destroyed"
  /\ UNCHANGED <<presenceVars, quit, init_done, main, stopped>>

\* Behind the try, to the end of the thread.
AfterTry ==
  /\ ThreadAt("catching") \/ ThreadAt("ending")
  /\ init_done' = TRUE
  /\ thread' = "done"
  /\ server' = "destroyed"
  /\ UNCHANGED <<presenceVars, quit, main, stopped>>

ThreadStep == Listen \/ Run \/ RunReturns \/ AfterTry \/ (OnCloseErase /\ Callback)

ServiceNext == Interrupt \/ MainNext \/ ThreadStep \/ Callback \/ Throw

(***************************************************************************)
(* Both threads are scheduled: main goes through its start, its rounds and *)
(* its end, and the thread through its own; a queue of messages for the    *)
(* clients that only the loop fills is emptied.  That loading and ticks    *)
(* come to an end is not assumed (WorkEnds says so where it is needed).    *)
(* No client has to do anything, and nobody has to interrupt the program.  *)
(***************************************************************************)
ServiceFairness == /\ WF_serviceVars(Started \/ NextRound \/ BeginTick \/ Stop \/ Join)
                   /\ WF_serviceVars(Sent)
                   /\ WF_serviceVars(ThreadStep)

ServiceSpec == ServiceInit /\ [][ServiceNext]_serviceVars /\ ServiceFairness

-----------------------------------------------------------------------------
\* No round of the loop begins on a server that is gone: when run() throws, quit is
\* set before the server is destroyed (uws_thread.cpp:305-317).  The round under way
\* goes on: it may sleep, tick and deliver, and stop() is called, on a dead server.
NoRoundOnDeadServer ==
  [][main = "looping" /\ main' = "sleeping" => server = "alive"]_serviceVars

\* The program does not return while the websocket thread is there, which still
\* refers to the configuration, the pool and quit.
ThreadJoined == main = "exited" => thread \in {"none", "done"}

\* Loading comes to an end, and so does each tick.  Nothing in the code sees to it:
\* the drain has no bound, and create_npc and a wandering creature draw until a draw
\* is good.
WorkEnds == []<>(main \notin {"loading", "ticking"})

\* Once quit is set, by a signal or by an exception in the websocket thread at any
\* point of its life, the program ends, if the work it is at does.
QuitEnds == WorkEnds => (quit ~> main \in Ended)
=============================================================================
