------------------------------ MODULE SmtpServe ------------------------------
(***************************************************************************)
(* Starting and stopping the process: App.Run of internal/app/app.go and   *)
(* Serve and Shutdown of internal/smtpsrv/server.go.                       *)
(*                                                                         *)
(* Serve binds its listeners one after the other, publishes each under     *)
(* Server.mu, and only then starts a goroutine per listener that hands the *)
(* socket to its go-smtp server.  Shutdown may run at any time: from the   *)
(* goroutine that watches the context, from Serve's own clean-up after a   *)
(* failed bind, or from outside.  The go-smtp server is external: it knows *)
(* a socket only once its Serve was called with it.                        *)
(***************************************************************************)
EXTENDS Naturals

CONSTANTS
    N       \* number of listeners

ASSUME ListenersAssumption == N \in Nat \ {0}

Listeners == 1 .. N
Callers == {"watcher", "cleanup", "outside"}
Parts == {"queue", "admin"}

VARIABLES
    ctx,        \* runCtx of App.Run is cancelled
    part,       \* the other two goroutines of App.Run
    base,       \* Server.ctx is cancelled
    shutdown,   \* Server.shutdown
    ready,      \* Server.ready is closed
    serve,      \* where Serve is: pc, and the listener it is at
    bound,      \* listener.net is set
    socket,     \* the socket is listening
    lib,        \* the go-smtp server of each listener
    runner,     \* the goroutine of each listener
    down,       \* where each call of Shutdown is
    overtaken   \* history: Shutdown came to a listener go-smtp did not serve yet

serveVars ==
    <<ctx, part, base, shutdown, ready, serve, bound, socket, lib, runner, down, overtaken>>

Idle == [pc |-> "idle", at |-> 1]

ServeInit ==
    /\ ctx = FALSE
    /\ part = [p \in Parts |-> "running"]
    /\ base = FALSE
    /\ shutdown = FALSE
    /\ ready = FALSE
    /\ serve = [pc |-> "bind", at |-> 1]
    /\ bound = [l \in Listeners |-> FALSE]
    /\ socket = [l \in Listeners |-> FALSE]
    /\ lib = [l \in Listeners |-> "fresh"]
    /\ runner = [l \in Listeners |-> "none"]
    /\ down = [c \in Callers |-> Idle]
    /\ overtaken = FALSE

-----------------------------------------------------------------------------
(* App.Run *)

(* A signal cancels the context. *)
Signal ==
    /\ ~ctx
    /\ ctx' = TRUE
    /\ UNCHANGED <<part, base, shutdown, ready, serve, bound, socket, lib, runner, down, overtaken>>

(* Mutant: a part that fails does not stop the others. *)
PartEndsAlone(p) ==
    /\ part[p] = "running"
    /\ part' = [part EXCEPT ![p] = "stopped"]
    /\ UNCHANGED <<ctx, base, shutdown, ready, serve, bound, socket, lib, runner, down, overtaken>>

(* A part returns, because it failed or because the context is cancelled; its
   deferred cancel stops the others. *)
PartEnds(p) ==
    /\ part[p] = "running"
    /\ part' = [part EXCEPT ![p] = "stopped"]
    /\ ctx' = TRUE
    /\ UNCHANGED <<base, shutdown, ready, serve, bound, socket, lib, runner, down, overtaken>>

-----------------------------------------------------------------------------
(* Serve *)

ServeAt(pc) == serve.pc = pc

(* bind: the port may be taken, and a cancelled context may or may not make
   Listen fail. *)
Bind ==
    /\ ServeAt("bind")
    /\ \/ /\ socket' = [socket EXCEPT ![serve.at] = TRUE]
          /\ serve' = [serve EXCEPT !.pc = "publish"]
          /\ UNCHANGED down
       \/ /\ serve' = [serve EXCEPT !.pc = "cleanup"]
          /\ down' = [down EXCEPT !["cleanup"].pc = "test"]
          /\ UNCHANGED socket
    /\ UNCHANGED <<ctx, part, base, shutdown, ready, bound, lib, runner, overtaken>>

(* Mutant: the server is ready once its first listener is bound. *)
PublishReadyAtFirst ==
    /\ ServeAt("publish")
    /\ bound' = [bound EXCEPT ![serve.at] = TRUE]
    /\ ready' = TRUE
    /\ IF serve.at < N
       THEN /\ serve' = [pc |-> "bind", at |-> serve.at + 1]
            /\ UNCHANGED runner
       ELSE /\ serve' = [serve EXCEPT !.pc = "wait"]
            /\ runner' = [l \in Listeners |-> "started"]
    /\ UNCHANGED <<ctx, part, base, shutdown, socket, lib, down, overtaken>>

(* Mutant: nobody is told that the last listener is bound. *)
PublishSilently ==
    /\ ServeAt("publish")
    /\ bound' = [bound EXCEPT ![serve.at] = TRUE]
    /\ IF serve.at < N
       THEN serve' = [pc |-> "bind", at |-> serve.at + 1] /\ UNCHANGED runner
       ELSE /\ serve' = [serve EXCEPT !.pc = "wait"]
            /\ runner' = [l \in Listeners |-> "started"]
    /\ UNCHANGED <<ctx, part, base, shutdown, ready, socket, lib, down, overtaken>>

(* l.net is set under the lock; after the last one the server is ready. *)
Publish ==
    /\ ServeAt("publish")
    /\ bound' = [bound EXCEPT ![serve.at] = TRUE]
    /\ IF serve.at < N
       THEN /\ serve' = [pc |-> "bind", at |-> serve.at + 1]
            /\ UNCHANGED <<ready, runner>>
       ELSE /\ serve' = [serve EXCEPT !.pc = "wait"]
            /\ ready' = TRUE
            /\ runner' = [l \in Listeners |-> "started"]
    /\ UNCHANGED <<ctx, part, base, shutdown, socket, lib, down, overtaken>>

(* The clean-up after a failed bind is over: Serve returns the error. *)
GiveUp ==
    /\ ServeAt("cleanup")
    /\ down["cleanup"].pc = "done"
    /\ ready' = TRUE
    /\ serve' = [serve EXCEPT !.pc = "failed"]
    /\ ctx' = TRUE
    /\ UNCHANGED <<part, base, shutdown, bound, socket, lib, runner, down, overtaken>>

(* The goroutine of a listener calls go-smtp's Serve.  On a server that was
   already shut down the call returns at once, or may also go on to accept. *)
Runner(l) ==
    /\ runner[l] = "started"
    /\ \/ /\ runner' = [runner EXCEPT ![l] = "serving"]
          /\ lib' = [lib EXCEPT ![l] = IF @ = "shut" THEN @ ELSE "serving"]
       \/ /\ lib[l] = "shut"
          /\ runner' = [runner EXCEPT ![l] = "done"]
          /\ UNCHANGED lib
    /\ UNCHANGED <<ctx, part, base, shutdown, ready, serve, bound, socket, down, overtaken>>

(* go-smtp's Serve returns once the socket it accepts on is closed. *)
RunnerEnds(l) ==
    /\ runner[l] = "serving"
    /\ ~socket[l]
    /\ runner' = [runner EXCEPT ![l] = "done"]
    /\ UNCHANGED <<ctx, part, base, shutdown, ready, serve, bound, socket, lib, down, overtaken>>

(* Accepting fails for good: go-smtp's Serve returns the error and leaves the
   socket open.  The goroutine keeps the error for Serve to return; the other
   listeners go on. *)
AcceptFails(l) ==
    /\ runner[l] = "serving"
    /\ socket[l]
    /\ runner' = [runner EXCEPT ![l] = "done"]
    /\ UNCHANGED <<ctx, part, base, shutdown, ready, serve, bound, socket, lib, down, overtaken>>

(* The last goroutine is done; Serve returns and App.Run cancels the context. *)
Return ==
    /\ ServeAt("wait")
    /\ \A l \in Listeners : runner[l] = "done"
    /\ serve' = [serve EXCEPT !.pc = "returned"]
    /\ ctx' = TRUE
    /\ UNCHANGED <<part, base, shutdown, ready, bound, socket, lib, runner, down, overtaken>>

-----------------------------------------------------------------------------
(* Shutdown *)

(* The watcher sees the cancelled context; anybody else may call at any time. *)
CallShutdown(c) ==
    /\ down[c] = Idle
    /\ \/ c = "watcher" /\ ctx /\ serve.pc \notin {"failed", "returned"}
       \/ c = "outside"
    /\ down' = [down EXCEPT ![c].pc = "test"]
    /\ UNCHANGED <<ctx, part, base, shutdown, ready, serve, bound, socket, lib, runner, overtaken>>

(* Only the first caller goes on. *)
TestFlag(c) ==
    /\ down[c].pc = "test"
    /\ shutdown' = TRUE
    /\ down' = [down EXCEPT ![c].pc = IF shutdown THEN "done" ELSE "announce"]
    /\ UNCHANGED <<ctx, part, base, ready, serve, bound, socket, lib, runner, overtaken>>

Announce(c) ==
    /\ down[c].pc = "announce"
    /\ base' = TRUE
    /\ ready' = TRUE
    /\ down' = [down EXCEPT ![c].pc = "loop"]
    /\ UNCHANGED <<ctx, part, shutdown, serve, bound, socket, lib, runner, overtaken>>

(* go-smtp's Serve was called with the listener's socket. *)
TakenOver(l) == runner[l] \in {"serving", "done"}

(* Mutant: the loop stops at the first listener. *)
StopFirstListener(c) ==
    LET l == down[c].at IN
    /\ down[c].pc = "loop"
    /\ IF bound[l]
       THEN /\ lib' = [lib EXCEPT ![l] = "shut"]
            /\ socket' = [socket EXCEPT ![l] = @ /\ lib[l] # "serving"]
       ELSE UNCHANGED <<lib, socket>>
    /\ down' = [down EXCEPT ![c] = [pc |-> "done", at |-> l]]
    /\ overtaken' = (overtaken \/ ~TakenOver(l))
    /\ UNCHANGED <<ctx, part, base, shutdown, ready, serve, bound, runner>>

(* One round of the loop: a listener that is not published is skipped; the
   others' go-smtp servers are shut down, which closes the socket they serve
   and waits for its sessions. *)
StopListener(c) ==
    LET l == down[c].at IN
    /\ down[c].pc = "loop"
    /\ IF bound[l]
       THEN /\ lib' = [lib EXCEPT ![l] = "shut"]
            /\ socket' = [socket EXCEPT ![l] = @ /\ lib[l] # "serving"]
       ELSE UNCHANGED <<lib, socket>>
    /\ down' = [down EXCEPT ![c] =
          IF l = N THEN [pc |-> "done", at |-> l] ELSE [pc |-> "loop", at |-> l + 1]]
    /\ overtaken' = (overtaken \/ ~TakenOver(l))
    /\ UNCHANGED <<ctx, part, base, shutdown, ready, serve, bound, runner>>

Stopping(c) == TestFlag(c) \/ Announce(c) \/ StopListener(c)

Serving ==
    \/ Bind \/ Publish \/ GiveUp \/ Return
    \/ \E l \in Listeners : Runner(l) \/ RunnerEnds(l) \/ AcceptFails(l)

ServeNext ==
    \/ Signal \/ Serving
    \/ \E p \in Parts : PartEnds(p)
    \/ \E c \in Callers : CallShutdown(c) \/ Stopping(c)

ServeSpec == ServeInit /\ [][ServeNext]_serveVars

(* Goroutines that can run do run; a part stops once the context is cancelled.
   Nobody has to cancel, fail or call Shutdown from outside, and no listener has
   to fail. *)
ServeFairness ==
    /\ WF_serveVars(Bind) /\ WF_serveVars(Publish) /\ WF_serveVars(GiveUp) /\ WF_serveVars(Return)
    /\ \A l \in Listeners : WF_serveVars(Runner(l)) /\ WF_serveVars(RunnerEnds(l))
    /\ \A p \in Parts : WF_serveVars(ctx /\ PartEnds(p))
    /\ WF_serveVars(CallShutdown("watcher"))
    /\ \A c \in Callers : WF_serveVars(Stopping(c))

FairServeSpec == ServeSpec /\ ServeFairness

-----------------------------------------------------------------------------
(* Properties *)

(* Ready promises a usable server: it is closed once every listener is bound,
   once Serve has given up, or by a shutdown, and not before.  Until then every
   published socket goes on listening. *)
ReadyMeansBound ==
    ready => \/ \A l \in Listeners : bound[l] /\ socket[l]
             \/ serve.pc = "failed" \/ base

(* Nobody waits on Ready for ever, however Serve and Shutdown interleave. *)
ReadyEventually == <>ready

(* A server that was serving on every listener when the context was cancelled
   comes to rest, unless somebody else began to shut it down before. *)
CancelEndsServing ==
    (ctx /\ ~shutdown /\ \A l \in Listeners : runner[l] = "serving") ~> ServeAt("returned")

(* Serve returned, or the queue or the admin interface did. *)
HalfEnded == serve.pc \in {"failed", "returned"} \/ \E p \in Parts : part[p] = "stopped"

(* Both halves stop when either does (App.Run): a front end that cannot listen or
   has nothing left to serve ends the queue and the admin interface, and either of
   those ends the other one and the front end.  The front end alone may stay, and
   only when Shutdown came to a listener before go-smtp served it. *)
NoPartRunsAlone ==
    HalfEnded ~> /\ \A p \in Parts : part[p] = "stopped"
                 /\ serve.pc \in {"failed", "returned"} \/ overtaken
=============================================================================
