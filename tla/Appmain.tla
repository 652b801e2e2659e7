------------------------------ MODULE Appmain ------------------------------
(* The appmain system (core/tools/appmain/appmain.cpp): the handshake between
   the thread that runs Platform::exec (the "host": Cocoa) and the thread that
   runs appmain() (the "app": Qt).  Both orders of main() are modelled: in
   "alt" mode main() is the host and AltThread runs appmain; in "main" mode
   main() runs appmain and AltThread is the host.

   A QWaitCondition is the set of the threads blocked on it; wakeOne moves one
   of them out of the set, and it then competes for the mutex.  A QMutex is the
   thread that owns it; unlock frees it whoever owns it, as QMutex does.       *)
EXTENDS Naturals

CONSTANTS
    MaxLoads,       \* bound: how often appmain() may call loadPlatform()
    StartMayFail    \* platform_start may return without calling platform_ready

ASSUME AppmainAssumption == /\ MaxLoads \in Nat
                            /\ StartMayFail \in BOOLEAN

VARIABLES
    mode,       \* "alt" or "main": which thread main() gives to the platform
    exits,      \* the platform ends by exit() while platform_stop waits for ever, as
                \* NSApplicationMain and LPPlatform.m do; or platform_start returns
    pcHost, pcApp,
    m,          \* owner of the mutex 'm'
    w,          \* threads blocked on the wait condition 'w'
    stoplock,   \* owner of the mutex 'stoplock'
    stopcond,   \* threads blocked on the wait condition 'stopcond'
    got_ready, req_quit, req_stop, in_start,
    instance,   \* Platform::instance is not null
    platform,   \* what platform_start is doing in the host thread
    g_instance, \* what the last loadPlatform() returned to the application
    loads       \* calls of loadPlatform() so far

hostVars == <<got_ready, in_start, instance, platform>>
vars == <<mode, exits, pcHost, pcApp, m, w, stoplock, stopcond, hostVars,
          req_quit, req_stop, g_instance, loads>>

Threads == {"host", "app"}

(* wakeOne on a wait condition: one blocked thread, if any, is let go. *)
WakeOne(cond, newCond) ==
    IF cond = {} THEN newCond = {} ELSE \E t \in cond : newCond = cond \ {t}

\* main() holds 'm' when it creates the other thread.  The flags that the
\* constructor of Platform leaves alone hold whatever is in memory.
Init == /\ mode \in {"alt", "main"} /\ exits \in BOOLEAN
        /\ pcHost = IF mode = "alt" THEN "exec" ELSE "lock0"
        /\ pcApp = IF mode = "alt" THEN "lock0" ELSE "wait0"
        /\ m = IF mode = "alt" THEN "host" ELSE "app"
        /\ w = {} /\ stoplock = "none" /\ stopcond = {}
        /\ got_ready \in BOOLEAN /\ req_quit \in BOOLEAN
        /\ req_stop \in BOOLEAN /\ in_start \in BOOLEAN
        /\ instance = FALSE /\ platform = "off"
        /\ g_instance = FALSE /\ loads = 0

----------------------------------------------------------------------------
(* The host thread: AltThread::run and Platform::exec. *)

\* AltThread::run locks 'm'; main() is then asleep on 'w'.
HostLock0 == /\ pcHost = "lock0" /\ m = "none"
             /\ m' = "host" /\ pcHost' = "wake0"
             /\ UNCHANGED <<mode, exits, pcApp, w, stoplock, stopcond, hostVars,
                            req_quit, req_stop, g_instance, loads>>

\* "wake up main thread and sleep"
HostWake0 == /\ pcHost = "wake0"
             /\ WakeOne(w, w') /\ pcHost' = "exec"
             /\ UNCHANGED <<mode, exits, pcApp, m, stoplock, stopcond, hostVars,
                            req_quit, req_stop, g_instance, loads>>

HostExec == /\ pcHost = "exec"
            /\ req_quit' = FALSE /\ pcHost' = "wait"
            /\ UNCHANGED <<mode, exits, pcApp, m, w, stoplock, stopcond, hostVars,
                           req_stop, g_instance, loads>>

\* w->wait(m): 'm' is released and the thread blocks in one step.
HostWait == /\ pcHost = "wait"
            /\ m' = "none" /\ w' = w \cup {"host"} /\ pcHost' = "waiting"
            /\ UNCHANGED <<mode, exits, pcApp, stoplock, stopcond, hostVars,
                           req_quit, req_stop, g_instance, loads>>

HostWoken == /\ pcHost = "waiting" /\ "host" \notin w /\ m = "none"
             /\ m' = "host" /\ pcHost' = "check"
             /\ UNCHANGED <<mode, exits, pcApp, w, stoplock, stopcond, hostVars,
                            req_quit, req_stop, g_instance, loads>>

\* Woken: return from exec when asked to, otherwise call platform_start.
HostCheck == /\ pcHost = "check"
             /\ IF req_quit
                THEN /\ pcHost' = "exit"
                     /\ UNCHANGED <<hostVars, req_stop>>
                ELSE /\ pcHost' = "platform" /\ platform' = "starting"
                     /\ got_ready' = FALSE /\ req_stop' = FALSE
                     /\ in_start' = TRUE /\ UNCHANGED instance
             /\ UNCHANGED <<mode, exits, pcApp, m, w, stoplock, stopcond, req_quit,
                            g_instance, loads>>

\* platform_ready(): start() may go on; 'm' is released while Cocoa runs.
PlatformReady == /\ pcHost = "platform" /\ platform = "starting"
                 /\ platform' = "running"
                 /\ got_ready' = TRUE /\ instance' = TRUE
                 /\ WakeOne(w, w') /\ m' = "none"
                 /\ UNCHANGED <<mode, exits, pcHost, pcApp, stoplock, stopcond,
                                in_start, req_quit, req_stop, g_instance, loads>>

\* platform_start returns: an error before platform_ready, or the end of the
\* platform, asked for by platform_stop or not.
PlatformReturns == /\ pcHost = "platform"
                   /\ \/ platform = "starting" /\ StartMayFail
                      \/ platform \in {"running", "stopping"} /\ ~exits
                   /\ platform' = "off" /\ pcHost' = "lockstop"
                   /\ UNCHANGED <<mode, exits, pcApp, m, w, stoplock, stopcond,
                                  got_ready, in_start, instance, req_quit,
                                  req_stop, g_instance, loads>>

\* The platform ends the whole process: no thread takes another step.
PlatformExits == /\ exits /\ pcHost = "platform"
                 /\ platform \in {"running", "stopping"}
                 /\ platform' = "off" /\ pcHost' = "dead" /\ pcApp' = "dead"
                 /\ UNCHANGED <<mode, exits, m, w, stoplock, stopcond, got_ready,
                                in_start, instance, req_quit, req_stop,
                                g_instance, loads>>

\* Mutant: 'm' is not locked again when the platform has ended.
HostLockStopNoRelock ==
    /\ pcHost = "lockstop" /\ stoplock = "none"
    /\ stoplock' = "host" /\ pcHost' = "tell"
    /\ instance' = (instance /\ got_ready)
    /\ UNCHANGED <<mode, exits, pcApp, m, w, stopcond, got_ready, in_start, platform,
                   req_quit, req_stop, g_instance, loads>>

\* Mutant: 'instance' keeps the value of an earlier start after an error.
HostLockStopStale ==
    /\ pcHost = "lockstop" /\ stoplock = "none"
    /\ stoplock' = "host" /\ pcHost' = (IF got_ready THEN "relock" ELSE "tell")
    /\ UNCHANGED <<mode, exits, pcApp, m, w, stopcond, hostVars, req_quit, req_stop,
                   g_instance, loads>>

HostLockStop == /\ pcHost = "lockstop" /\ stoplock = "none"
                /\ stoplock' = "host"
                /\ IF got_ready
                   THEN pcHost' = "relock" /\ UNCHANGED instance
                   ELSE pcHost' = "tell" /\ instance' = FALSE
                /\ UNCHANGED <<mode, exits, pcApp, m, w, stopcond, got_ready, in_start,
                               platform, req_quit, req_stop, g_instance, loads>>

\* "need to relock if platform_ready unlocks": 'stoplock' is held meanwhile.
HostRelock == /\ pcHost = "relock" /\ m = "none"
              /\ m' = "host" /\ pcHost' = "tell"
              /\ UNCHANGED <<mode, exits, pcApp, w, stoplock, stopcond, hostVars,
                             req_quit, req_stop, g_instance, loads>>

\* Mutant: start() is not told of an error.
HostTellNoError ==
    /\ pcHost = "tell"
    /\ IF got_ready /\ req_stop
       THEN WakeOne(stopcond, stopcond') ELSE UNCHANGED stopcond
    /\ in_start' = FALSE /\ stoplock' = "none" /\ pcHost' = "wait"
    /\ UNCHANGED <<mode, exits, pcApp, m, w, got_ready, instance, platform, req_quit,
                   req_stop, g_instance, loads>>

\* Mutant: stop() is not told that the platform has ended.
HostTellNoStop ==
    /\ pcHost = "tell"
    /\ IF ~got_ready THEN WakeOne(w, w') ELSE UNCHANGED w
    /\ in_start' = FALSE /\ stoplock' = "none" /\ pcHost' = "wait"
    /\ UNCHANGED <<mode, exits, pcApp, m, stopcond, got_ready, instance, platform,
                   req_quit, req_stop, g_instance, loads>>

\* "tell start() or stop() to stop blocking"
HostTell == /\ pcHost = "tell"
            /\ IF ~got_ready THEN WakeOne(w, w') ELSE UNCHANGED w
            /\ IF got_ready /\ req_stop
               THEN WakeOne(stopcond, stopcond') ELSE UNCHANGED stopcond
            /\ in_start' = FALSE /\ stoplock' = "none" /\ pcHost' = "wait"
            /\ UNCHANGED <<mode, exits, pcApp, m, got_ready, instance, platform,
                           req_quit, req_stop, g_instance, loads>>

\* exec has returned (platform_deinit was its last call); its caller unlocks.
HostExit == /\ pcHost = "exit"
            /\ m' = "none" /\ pcHost' = "done"
            /\ UNCHANGED <<mode, exits, pcApp, w, stoplock, stopcond, hostVars,
                           req_quit, req_stop, g_instance, loads>>

HostThread == \/ HostLock0 \/ HostWake0 \/ HostExec \/ HostWait \/ HostWoken
              \/ HostCheck \/ PlatformReady \/ HostLockStop \/ HostRelock
              \/ HostTell \/ HostExit

----------------------------------------------------------------------------
(* The app thread: main() or AltThread::run, then appmain() and the calls it
   makes: loadPlatform = Platform::start, unloadPlatform = Platform::stop.   *)

AppLock0 == /\ pcApp = "lock0" /\ m = "none"
            /\ m' = "app" /\ pcApp' = "appmain"
            /\ UNCHANGED <<mode, exits, pcHost, w, stoplock, stopcond, hostVars,
                           req_quit, req_stop, g_instance, loads>>

\* "main thread sleeps until alt thread is initialized"
AppWait0 == /\ pcApp = "wait0"
            /\ m' = "none" /\ w' = w \cup {"app"} /\ pcApp' = "waiting0"
            /\ UNCHANGED <<mode, exits, pcHost, stoplock, stopcond, hostVars,
                           req_quit, req_stop, g_instance, loads>>

AppWoken0 == /\ pcApp = "waiting0" /\ "app" \notin w /\ m = "none"
             /\ m' = "app" /\ pcApp' = "appmain"
             /\ UNCHANGED <<mode, exits, pcHost, w, stoplock, stopcond, hostVars,
                            req_quit, req_stop, g_instance, loads>>

\* Mutant: start() waits without waking the host.
AppStartNoWake == /\ pcApp = "appmain" /\ loads < MaxLoads
                  /\ loads' = loads + 1 /\ pcApp' = "startwait"
                  /\ UNCHANGED <<mode, exits, pcHost, m, w, stoplock, stopcond, hostVars,
                                 req_quit, req_stop, g_instance>>

\* start(): "wake up the thread to invoke the platform"
AppStart == /\ pcApp = "appmain" /\ loads < MaxLoads
            /\ loads' = loads + 1
            /\ WakeOne(w, w') /\ pcApp' = "startwait"
            /\ UNCHANGED <<mode, exits, pcHost, m, stoplock, stopcond, hostVars,
                           req_quit, req_stop, g_instance>>

\* "wait until ready or error"
AppStartWait == /\ pcApp = "startwait"
                /\ m' = "none" /\ w' = w \cup {"app"} /\ pcApp' = "starting"
                /\ UNCHANGED <<mode, exits, pcHost, stoplock, stopcond, hostVars,
                               req_quit, req_stop, g_instance, loads>>

\* The wait ends and 'm' is unlocked at once.
AppStarted == /\ pcApp = "starting" /\ "app" \notin w /\ m = "none"
              /\ pcApp' = "started"
              /\ UNCHANGED <<mode, exits, pcHost, m, w, stoplock, stopcond, hostVars,
                             req_quit, req_stop, g_instance, loads>>

\* loadPlatform() returns 'instance', read without any lock; App::start quits
\* the application when it is null.
AppLoaded == /\ pcApp = "started"
             /\ g_instance' = instance
             /\ pcApp' = IF instance THEN "loop" ELSE "quit"
             /\ UNCHANGED <<mode, exits, pcHost, m, w, stoplock, stopcond, hostVars,
                            req_quit, req_stop, loads>>

\* stop(), called by ~App when the event loop has ended.
AppStop == /\ pcApp = "loop" /\ stoplock = "none"
           /\ IF in_start
              THEN /\ stoplock' = "app" /\ req_stop' = TRUE
                   /\ pcApp' = "platform_stop"
              ELSE /\ pcApp' = "lockm" /\ UNCHANGED <<stoplock, req_stop>>
           /\ UNCHANGED <<mode, exits, pcHost, m, w, stopcond, hostVars, req_quit,
                          g_instance, loads>>

\* platform_stop(): asks a running platform to end; nothing to do when it has
\* ended by itself already.
AppPlatformStop ==
    /\ pcApp = "platform_stop"
    /\ platform' = IF platform = "running" THEN "stopping" ELSE platform
    /\ pcApp' = IF exits THEN "sleep" ELSE "stopwait"
    /\ UNCHANGED <<mode, exits, pcHost, m, w, stoplock, stopcond, got_ready, in_start,
                   instance, req_quit, req_stop, g_instance, loads>>

\* stopcond.wait(&stoplock): "block until the platform is stopped"
AppStopWait == /\ pcApp = "stopwait"
               /\ stoplock' = "none" /\ stopcond' = stopcond \cup {"app"}
               /\ pcApp' = "stopping"
               /\ UNCHANGED <<mode, exits, pcHost, m, w, hostVars, req_quit, req_stop,
                              g_instance, loads>>

\* The wait ends and 'stoplock' is unlocked at once.
AppStopped == /\ pcApp = "stopping" /\ "app" \notin stopcond
              /\ stoplock = "none"
              /\ pcApp' = "lockm"
              /\ UNCHANGED <<mode, exits, pcHost, m, w, stoplock, stopcond, hostVars,
                             req_quit, req_stop, g_instance, loads>>

AppLockM == /\ pcApp = "lockm" /\ m = "none"
            /\ m' = "app" /\ g_instance' = FALSE /\ pcApp' = "appmain"
            /\ UNCHANGED <<mode, exits, pcHost, w, stoplock, stopcond, hostVars,
                           req_quit, req_stop, loads>>

\* Mutant: quit() sets the flag and wakes nobody.
AppQuitNoWake == /\ \/ pcApp = "quit"
                    \/ pcApp = "appmain" /\ loads > 0
                 /\ req_quit' = TRUE /\ pcApp' = "unlock"
                 /\ UNCHANGED <<mode, exits, pcHost, m, w, stoplock, stopcond, hostVars,
                                req_stop, g_instance, loads>>

\* appmain() has returned.  quit() first wakes exec ...
AppQuit == /\ \/ pcApp = "quit"
              \/ pcApp = "appmain" /\ loads > 0
           /\ req_quit' = TRUE /\ WakeOne(w, w') /\ pcApp' = "unlock"
           /\ UNCHANGED <<mode, exits, pcHost, m, stoplock, stopcond, hostVars,
                          req_stop, g_instance, loads>>

\* ... then unlocks 'm'; the caller of quit() waits for the other thread.
AppQuitUnlock == /\ pcApp = "unlock"
                 /\ m' = "none" /\ pcApp' = "done"
                 /\ UNCHANGED <<mode, exits, pcHost, w, stoplock, stopcond, hostVars,
                                req_quit, req_stop, g_instance, loads>>

AppThread == \/ AppLock0 \/ AppWait0 \/ AppWoken0 \/ AppStart \/ AppStartWait
             \/ AppStarted \/ AppLoaded \/ AppStop \/ AppPlatformStop
             \/ AppStopWait \/ AppStopped \/ AppLockM \/ AppQuit \/ AppQuitUnlock

\* Both threads have ended, or the process has.
Finished == (pcHost = "done" /\ pcApp = "done") \/ pcHost = "dead"
Terminated == Finished /\ UNCHANGED vars

Next == HostThread \/ PlatformExits \/ PlatformReturns \/ AppThread \/ Terminated

\* Threads are scheduled.  The platform becomes ready or fails, and ends once
\* it is asked to; it need not end by itself.
PlatformEnds == platform = "stopping" /\ (PlatformReturns \/ PlatformExits)
Fairness == WF_vars(HostThread) /\ WF_vars(PlatformEnds) /\ WF_vars(AppThread)
Spec == Init /\ [][Next]_vars
FairSpec == Spec /\ Fairness

----------------------------------------------------------------------------
(* Properties. *)

HostPCs == {"lock0", "wake0", "exec", "wait", "waiting", "check", "platform",
            "lockstop", "relock", "tell", "exit", "done", "dead"}
AppPCs == {"lock0", "wait0", "waiting0", "appmain", "startwait", "starting",
           "started", "loop", "platform_stop", "sleep", "stopwait", "stopping",
           "lockm", "quit", "unlock", "done", "dead"}

FlagsOK == /\ got_ready \in BOOLEAN /\ req_quit \in BOOLEAN
           /\ req_stop \in BOOLEAN /\ in_start \in BOOLEAN
           /\ instance \in BOOLEAN /\ g_instance \in BOOLEAN

ThreadsOK ==
    /\ mode \in {"alt", "main"} /\ exits \in BOOLEAN
    /\ pcHost \in HostPCs /\ pcApp \in AppPCs
    /\ m \in Threads \cup {"none"} /\ stoplock \in Threads \cup {"none"}
    /\ w \in SUBSET Threads /\ stopcond \in SUBSET Threads
    /\ platform \in {"off", "starting", "running", "stopping"}
    /\ loads \in 0..MaxLoads

\* Every variable has its type.
TypeOK == FlagsOK /\ ThreadsOK

\* Whenever appmain() is between two platforms and owns 'm', the host sleeps on
\* 'w': the wakeOne of start() and of quit() cannot be lost.  This is what the
\* relocking in exec (line 97) and in stop (lines 142 and 154) is for.
HostAsleep == pcApp = "appmain" => pcHost = "waiting" /\ "host" \in w

\* The two threads are never blocked on 'w' together, so that wakeOne cannot
\* wake the wrong one (start() waits on the condition that exec waits on).
OneWaiter == w # Threads

\* stop() returns, and quit() is called, only when platform_start has returned
\* ("Platform must be stopped first!", line 115).
PlatformStopped ==
    pcApp \in {"lockm", "appmain", "quit", "unlock", "done"} => platform = "off"

\* "For consistency, 'm' will be in a locked state when exec returns" (line 69).
ExecReturnsLocked == pcHost = "exit" => m = "host"

\* loadPlatform() hands out an instance only if the platform called
\* platform_ready, whatever the platform does between start()'s unlock and the
\* unprotected read of 'instance' (line 311).
InstanceIsReady == pcApp = "loop" => g_instance /\ got_ready

\* start() and stop() always return (unless the process ends), and once
\* appmain() has quit the host thread ends too.
LoadCompletes == pcApp = "startwait" ~> pcApp \in {"loop", "quit", "dead"}
StopCompletes == pcApp = "platform_stop" ~> pcApp \in {"appmain", "dead"}
Terminates == pcApp \in {"quit", "unlock", "done"} ~> Finished

----------------------------------------------------------------------------
(* The inductive strengthening of the safety properties: for each point of the
   app thread, where the host thread may be and who holds what.             *)

\* The host is on its way to, or at, its sleep on 'w', with the platform off.
HostResting == /\ pcHost \in {"wait", "waiting"}
               /\ platform = "off"
               /\ pcHost = "wait" => m = "host" /\ w = {}
               /\ pcHost = "waiting" => m = "none" /\ w = {"host"}

\* platform_ready has been called and platform_start may return at any time.
HostServing ==
    /\ pcHost \in {"platform", "lockstop", "relock", "tell"}
    /\ got_ready /\ in_start /\ instance
    /\ platform \in (IF pcHost = "platform" THEN {"running", "stopping"} ELSE {"off"})
    /\ m = (IF pcHost = "tell" THEN "host" ELSE "none") /\ w = {}

\* The host has been woken by start() and has not answered yet.
HostStarting ==
    /\ pcHost \in {"waiting", "check", "platform", "lockstop", "tell"} /\ ~req_quit
    /\ w = {"app"} /\ m = (IF pcHost = "waiting" THEN "none" ELSE "host")
    /\ platform = (IF pcHost = "platform" THEN "starting" ELSE "off")
    /\ pcHost \in {"platform", "lockstop", "tell"} => ~got_ready /\ in_start

StopLockByHost == stoplock = IF pcHost \in {"relock", "tell"} THEN "host" ELSE "none"

\* exec is leaving, or about to.
HostLeaving == /\ pcHost \in {"waiting", "check", "exit", "done"} /\ req_quit
               /\ w = {} /\ platform = "off"

HostStartingUp(pc) == pcHost = pc /\ w = {} /\ m = "host"

Phase ==
    /\ pcApp = "lock0" =>
          \/ HostStartingUp("exec") /\ platform = "off"
          \/ HostResting /\ ~req_quit
    /\ pcApp = "wait0" => pcHost = "lock0" /\ m = "app" /\ w = {} /\ platform = "off"
    /\ pcApp = "waiting0" =>
          \/ /\ pcHost \in {"lock0", "wake0"} /\ w = {"app"} /\ platform = "off"
             /\ m = (IF pcHost = "lock0" THEN "none" ELSE "host")
          \/ HostStartingUp("exec") /\ platform = "off"
          \/ HostResting /\ ~req_quit
    /\ pcApp \in {"appmain", "startwait"} =>
          /\ pcHost = "waiting" /\ m = "app" /\ platform = "off" /\ ~req_quit
          /\ w = (IF pcApp = "appmain" THEN {"host"} ELSE {})
    /\ pcApp = "starting" =>
          ~req_quit /\ (HostStarting \/ HostServing \/ (HostResting /\ ~in_start))
    /\ pcApp \in {"started", "loop"} =>
          ~req_quit /\ (HostServing \/ (HostResting /\ ~in_start))
    /\ pcApp = "started" /\ ~instance => pcHost = "waiting"
    /\ pcHost = "tell" /\ ~got_ready => ~instance
    /\ pcApp \in {"starting", "started", "loop"} /\ HostResting => (instance => got_ready)
    /\ pcApp = "loop" => g_instance /\ got_ready
    /\ pcApp \in {"platform_stop", "stopwait", "sleep"} =>
          /\ HostServing /\ stoplock = "app" /\ req_stop /\ ~req_quit
          /\ pcHost \in {"platform", "lockstop"}
    /\ pcApp = "stopping" =>
          /\ ~req_quit
          /\ \/ HostServing /\ req_stop /\ stopcond = {"app"}
             \/ HostResting /\ stopcond = {}
    /\ pcApp = "lockm" => HostResting /\ ~req_quit
    /\ pcApp = "quit" => pcHost = "waiting" /\ HostResting
    /\ pcApp \in {"unlock", "done"} => HostLeaving
    /\ pcApp = "dead" => pcHost = "dead" /\ platform = "off" /\ w = {}
    /\ pcApp \notin {"stopping", "dead"} => stopcond = {}
    /\ pcApp \notin {"platform_stop", "stopwait", "sleep", "dead"} => StopLockByHost
    /\ pcHost = "dead" => pcApp = "dead"

IInv == TypeOK /\ Phase
=============================================================================
