--------------------------- MODULE Appmain_proofs ---------------------------
(* Proofs about the appmain handshake, for every MaxLoads and both kinds of
   platform.  IInv is proved in three parts: the flags, the program counters
   and locks, and the phases that relate the two threads.                   *)
EXTENDS Appmain, TLAPS

LEMMA InitInv == Init => IInv
<1> SUFFICES ASSUME Init PROVE IInv
  OBVIOUS
<1>1. FlagsOK
  BY Zenon DEF Init, FlagsOK
<1>2. ThreadsOK
  BY AppmainAssumption DEF Init, ThreadsOK, HostPCs, AppPCs, Threads
<1>3. Phase
  BY DEF Init, Phase, HostStartingUp, HostResting, HostServing, HostStarting,
         HostLeaving, StopLockByHost
<1> QED
  BY <1>1, <1>2, <1>3 DEF IInv, TypeOK

LEMMA FlagsStep == FlagsOK /\ [Next]_vars => FlagsOK'
  BY Zenon
  DEF FlagsOK, hostVars, vars, Next, HostThread, AppThread, Terminated,
      HostLock0, HostWake0, HostExec, HostWait, HostWoken, HostCheck,
      PlatformReady, HostLockStop, HostRelock, HostTell, HostExit,
      PlatformExits, PlatformReturns, AppLock0, AppWait0, AppWoken0, AppStart,
      AppStartWait, AppStarted, AppLoaded, AppStop, AppPlatformStop,
      AppStopWait, AppStopped, AppLockM, AppQuit, AppQuitUnlock

LEMMA ThreadsStep == ThreadsOK /\ [Next]_vars => ThreadsOK'
<1> SUFFICES ASSUME ThreadsOK, [Next]_vars PROVE ThreadsOK'
  OBVIOUS
<1> USE AppmainAssumption DEF ThreadsOK, HostPCs, AppPCs, Threads, WakeOne, hostVars
<1>1. CASE HostLock0
  BY <1>1 DEF HostLock0
<1>2. CASE HostWake0
  BY <1>2 DEF HostWake0
<1>3. CASE HostExec
  BY <1>3 DEF HostExec
<1>4. CASE HostWait
  BY <1>4 DEF HostWait
<1>5. CASE HostWoken
  BY <1>5 DEF HostWoken
<1>6. CASE HostCheck
  BY <1>6 DEF HostCheck
<1>7. CASE PlatformReady
  BY <1>7 DEF PlatformReady
<1>8. CASE HostLockStop
  BY <1>8 DEF HostLockStop
<1>9. CASE HostRelock
  BY <1>9 DEF HostRelock
<1>10. CASE HostTell
  BY <1>10 DEF HostTell
<1>11. CASE HostExit
  BY <1>11 DEF HostExit
<1>12. CASE PlatformExits
  BY <1>12 DEF PlatformExits
<1>13. CASE PlatformReturns
  BY <1>13 DEF PlatformReturns
<1>14. CASE AppLock0
  BY <1>14 DEF AppLock0
<1>15. CASE AppWait0
  BY <1>15 DEF AppWait0
<1>16. CASE AppWoken0
  BY <1>16 DEF AppWoken0
<1>17. CASE AppStart
  <2>1. loads' \in 0..MaxLoads
    BY <1>17 DEF AppStart
  <2>2. w' \in SUBSET Threads
    BY <1>17 DEF AppStart
  <2> QED
    BY <2>1, <2>2, <1>17 DEF AppStart
<1>18. CASE AppStartWait
  BY <1>18 DEF AppStartWait
<1>19. CASE AppStarted
  BY <1>19 DEF AppStarted
<1>20. CASE AppLoaded
  BY <1>20 DEF AppLoaded
<1>21. CASE AppStop
  BY <1>21 DEF AppStop
<1>22. CASE AppPlatformStop
  BY <1>22 DEF AppPlatformStop
<1>23. CASE AppStopWait
  BY <1>23 DEF AppStopWait
<1>24. CASE AppStopped
  BY <1>24 DEF AppStopped
<1>25. CASE AppLockM
  BY <1>25 DEF AppLockM
<1>26. CASE AppQuit
  BY <1>26 DEF AppQuit
<1>27. CASE AppQuitUnlock
  BY <1>27 DEF AppQuitUnlock
<1>28. CASE UNCHANGED vars
  BY <1>28 DEF vars
<1> QED
  BY <1>1, <1>2, <1>3, <1>4, <1>5, <1>6, <1>7, <1>8, <1>9, <1>10, <1>11, <1>12, <1>13, <1>14, <1>15, <1>16, <1>17, <1>18, <1>19, <1>20, <1>21, <1>22, <1>23, <1>24, <1>25, <1>26, <1>27, <1>28 DEF Next, HostThread, AppThread, Terminated

LEMMA PhaseStep == ThreadsOK /\ Phase /\ [Next]_vars => Phase'
<1> SUFFICES ASSUME ThreadsOK, Phase, [Next]_vars PROVE Phase'
  OBVIOUS
<1> USE DEF Phase, HostStartingUp, HostResting, HostServing, HostStarting,
            HostLeaving, StopLockByHost, WakeOne, hostVars
<1>1. CASE HostLock0
  BY <1>1 DEF HostLock0
<1>2. CASE HostWake0
  BY <1>2 DEF HostWake0
<1>3. CASE HostExec
  BY <1>3 DEF HostExec
<1>4. CASE HostWait
  BY <1>4 DEF HostWait
<1>5. CASE HostWoken
  BY <1>5 DEF HostWoken
<1>6. CASE HostCheck
  BY <1>6 DEF HostCheck
<1>7. CASE PlatformReady
  BY <1>7 DEF PlatformReady
<1>8. CASE HostLockStop
  BY <1>8 DEF HostLockStop
<1>9. CASE HostRelock
  <2>1. HostServing
    BY <1>9 DEF HostRelock, ThreadsOK, AppPCs
  <2> QED
    BY <2>1, <1>9 DEF HostRelock
<1>10. CASE HostTell
  BY <1>10 DEF HostTell
<1>11. CASE HostExit
  BY <1>11 DEF HostExit
<1>12. CASE PlatformExits
  <2>1. w = {}
    BY <1>12 DEF PlatformExits, ThreadsOK, AppPCs
  <2> QED
    BY <2>1, <1>12 DEF PlatformExits
<1>13. CASE PlatformReturns
  BY <1>13 DEF PlatformReturns
<1>14. CASE AppLock0
  BY <1>14 DEF AppLock0
<1>15. CASE AppWait0
  BY <1>15 DEF AppWait0
<1>16. CASE AppWoken0
  BY <1>16 DEF AppWoken0
<1>17. CASE AppStart
  BY <1>17 DEF AppStart
<1>18. CASE AppStartWait
  BY <1>18 DEF AppStartWait
<1>19. CASE AppStarted
  BY <1>19 DEF AppStarted
<1>20. CASE AppLoaded
  BY <1>20 DEF AppLoaded
<1>21. CASE AppStop
  BY <1>21 DEF AppStop
<1>22. CASE AppPlatformStop
  BY <1>22 DEF AppPlatformStop
<1>23. CASE AppStopWait
  BY <1>23 DEF AppStopWait
<1>24. CASE AppStopped
  BY <1>24 DEF AppStopped
<1>25. CASE AppLockM
  BY <1>25 DEF AppLockM
<1>26. CASE AppQuit
  BY <1>26 DEF AppQuit
<1>27. CASE AppQuitUnlock
  BY <1>27 DEF AppQuitUnlock
<1>28. CASE UNCHANGED vars
  BY <1>28 DEF vars
<1> QED
  BY <1>1, <1>2, <1>3, <1>4, <1>5, <1>6, <1>7, <1>8, <1>9, <1>10, <1>11, <1>12, <1>13, <1>14, <1>15, <1>16, <1>17, <1>18, <1>19, <1>20, <1>21, <1>22, <1>23, <1>24, <1>25, <1>26, <1>27, <1>28 DEF Next, HostThread, AppThread, Terminated

LEMMA NextInv == IInv /\ [Next]_vars => IInv'
  BY FlagsStep, ThreadsStep, PhaseStep DEF IInv, TypeOK

\* Every reachable state satisfies the inductive invariant.
THEOREM Inductive == Spec => []IInv
<1> QED
  BY InitInv, NextInv, PTL DEF Spec

\* appmain.cpp: the flags, mutexes, wait conditions and program counters of the
\* two threads keep their types.
THEOREM TypeCorrect == Spec => []TypeOK
<1>1. IInv => TypeOK
  BY DEF IInv
<1> QED
  BY <1>1, Inductive, PTL

\* exec is asleep on 'w' whenever the application is between two platforms, so
\* the wakeOne of start() (line 128) and of quit() (line 120) reaches it.
THEOREM HostAsleepHolds == Spec => []HostAsleep
<1>1. IInv => HostAsleep
  BY DEF IInv, Phase, HostAsleep
<1> QED
  BY <1>1, Inductive, PTL

\* The two threads are never blocked together on 'w', which start() and exec
\* share: wakeOne (lines 120 and 128, and 105 for the error) has one candidate.
THEOREM OneWaiterHolds == Spec => []OneWaiter
<1>1. IInv => w \in {{}, {"host"}, {"app"}}
  BY DEF IInv, TypeOK, ThreadsOK, AppPCs, Phase, HostResting, HostServing,
         HostStarting, HostLeaving, HostStartingUp
<1>2. IInv => OneWaiter
  BY <1>1 DEF OneWaiter, Threads
<1> QED
  BY <1>2, Inductive, PTL

\* When stop() has returned, and when quit() is called, platform_start has
\* returned: "Platform must be stopped first!" (line 115).
THEOREM PlatformStoppedHolds == Spec => []PlatformStopped
<1>1. IInv => PlatformStopped
  BY DEF IInv, Phase, HostResting, HostLeaving, PlatformStopped
<1> QED
  BY <1>1, Inductive, PTL

\* loadPlatform() hands out an instance only when platform_ready has been called: start()
\* reads 'instance' without a lock (line 311), but nothing can change it before the next
\* start().
THEOREM InstanceIsReadyHolds == Spec => []InstanceIsReady
<1>1. IInv => InstanceIsReady
  BY DEF IInv, Phase, InstanceIsReady
<1> QED
  BY <1>1, Inductive, PTL
=============================================================================
