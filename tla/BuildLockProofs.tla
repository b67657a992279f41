--------------------------- MODULE BuildLockProofs ---------------------------
(***************************************************************************)
(* Builds of web/dist exclude each other, for any number of builders and   *)
(* any time-out, when a builder and its build are killed together.  The    *)
(* invariant says whose the lock is at each step of taking, releasing and  *)
(* recovering it; a recoverer's is that the owner it saw has ended, which  *)
(* no later step undoes.  A build whose stamp matches was compiled from    *)
(* the sources there are, because builds exclude each other.               *)
(***************************************************************************)
EXTENDS WebDist, TLAPS

Owning == {"spawn", "wait", "release"}
Making == {"owner", "rmdirLock", "rmdir"}
Judged == {"recover", "recoverer", "reread", "unlink"}

(* One builder at a time has the lock or is about to remove it.            *)
LockHeld ==
  /\ \A b \in Builders : pc[b] \in Owning => lock = Directory(b)
  /\ \A b \in Builders : pc[b] \in Making => lock = Directory(Nobody)
  /\ \A b, c \in Builders : pc[b] \in Owning \cup Making /\ pc[c] \in Owning \cup Making => b = c

(* One builder at a time recovers, and removes the lock only of an owner   *)
(* that has ended.                                                         *)
RecoveryHeld ==
  /\ \A b \in Builders : pc[b] \in Recovering => recovery.exists
  /\ \A b, c \in Builders : pc[b] \in Recovering /\ pc[c] \in Recovering => b = c
  /\ \A b \in Builders : pc[b] = "unlink" => lock = Directory(seen[b])

(* What was read of the owner stays true.                                  *)
OwnersStarted ==
  /\ lock.owner # Nobody => lock.exists /\ pc[lock.owner] # "idle"
  /\ \A b \in Builders : pc[b] = "alive" => seen[b] \in Builders /\ pc[seen[b]] # "idle"
  /\ \A b \in Builders : pc[b] \in Judged => seen[b] \in Builders /\ pc[seen[b]] \in Ended

BuildsAwaited == \A b \in Builders : build[b] = "running" => pc[b] = "wait"

LInv == TypeOK /\ LockHeld /\ RecoveryHeld /\ OwnersStarted /\ BuildsAwaited

LEMMA TypeInit == Init => TypeOK
BY BuildLockAssumption DEF Init, TypeOK, Directories, Absent

LEMMA TypeStep == TypeOK /\ [LockNext]_lockVars => TypeOK'
<1> SUFFICES ASSUME TypeOK, [LockNext]_lockVars PROVE TypeOK'
  OBVIOUS
<1> USE BuildLockAssumption DEF TypeOK, Directories, Directory, Absent, Acquiring, Observing, Recovering, Holding, Ended, At
<1>1. ASSUME NEW b \in Builders, Start(b) PROVE TypeOK'
  BY <1>1 DEF Start
<1>2. ASSUME NEW b \in Builders, MakeLock(b) PROVE TypeOK'
  <2>1. CASE lock.exists
    BY <1>2, <2>1 DEF MakeLock
  <2>2. CASE ~ lock.exists
    <3>1. pc' = [pc EXCEPT ![b] = "owner"]
      BY <1>2, <2>2 DEF MakeLock
    <3>2. lock' = [exists |-> TRUE, owner |-> Nobody]
      BY <1>2, <2>2 DEF MakeLock
    <3>3. UNCHANGED <<recovery, seen, waits, build>>
      BY <1>2 DEF MakeLock
    <3>4. QED
      BY <3>1, <3>2, <3>3
  <2>3. QED
    BY <2>1, <2>2
<1>3. ASSUME NEW b \in Builders, WriteOwner(b) PROVE TypeOK'
  BY <1>3 DEF WriteOwner
<1>4. ASSUME NEW b \in Builders, Look(b) PROVE TypeOK'
  BY <1>4 DEF Look
<1>5. ASSUME NEW b \in Builders, AskOwner(b) PROVE TypeOK'
  BY <1>5 DEF AskOwner
<1>6. ASSUME NEW b \in Builders, Sleep(b) PROVE TypeOK'
  BY <1>6 DEF Sleep, OutOfTime
<1>7. ASSUME NEW b \in Builders, TimeOut(b) PROVE TypeOK'
  BY <1>7 DEF TimeOut, OutOfTime
<1>8. ASSUME NEW b \in Builders, MakeRecovery(b) PROVE TypeOK'
  <2>1. CASE recovery.exists
    BY <1>8, <2>1 DEF MakeRecovery
  <2>2. CASE ~ recovery.exists
    <3>1. pc' = [pc EXCEPT ![b] = "recoverer"]
      BY <1>8, <2>2 DEF MakeRecovery
    <3>2. recovery' = [exists |-> TRUE, owner |-> Nobody]
      BY <1>8, <2>2 DEF MakeRecovery
    <3>3. UNCHANGED <<lock, seen, waits, build>>
      BY <1>8 DEF MakeRecovery
    <3>4. QED
      BY <3>1, <3>2, <3>3
  <2>3. QED
    BY <2>1, <2>2
<1>9. ASSUME NEW b \in Builders, WriteRecoverer(b) PROVE TypeOK'
  BY <1>9 DEF WriteRecoverer
<1>10. ASSUME NEW b \in Builders, LookRecovery(b) PROVE TypeOK'
  BY <1>10 DEF LookRecovery, AnotherRecovers
<1>11. ASSUME NEW b \in Builders, AskRecoverer(b) PROVE TypeOK'
  BY <1>11 DEF AskRecoverer, AnotherRecovers
<1>12. ASSUME NEW b \in Builders, RereadRecovery(b) PROVE TypeOK'
  BY <1>12 DEF RereadRecovery, AnotherRecovers
<1>13. ASSUME NEW b \in Builders, Reread(b) PROVE TypeOK'
  BY <1>13 DEF Reread, StillAbandoned
<1>14. ASSUME NEW b \in Builders, UnlinkOwner(b) PROVE TypeOK'
  BY <1>14 DEF UnlinkOwner
<1>15. ASSUME NEW b \in Builders, RemoveLock(b) PROVE TypeOK'
  BY <1>15 DEF RemoveLock
<1>16. ASSUME NEW b \in Builders, UnlinkRecoverer(b) PROVE TypeOK'
  BY <1>16 DEF UnlinkRecoverer
<1>17. ASSUME NEW b \in Builders, RemoveRecovery(b) PROVE TypeOK'
  BY <1>17 DEF RemoveRecovery
<1>18. ASSUME NEW b \in Builders, Spawn(b) PROVE TypeOK'
  BY <1>18 DEF Spawn
<1>19. ASSUME NEW b \in Builders, EndBuild(b) PROVE TypeOK'
  BY <1>19 DEF EndBuild
<1>20. ASSUME NEW b \in Builders, Return(b) PROVE TypeOK'
  BY <1>20 DEF Return, BuildOver
<1>21. ASSUME NEW b \in Builders, Release(b) PROVE TypeOK'
  BY <1>21 DEF Release
<1>22. ASSUME NEW b \in Builders, Leave(b) PROVE TypeOK'
  BY <1>22 DEF Leave
<1>23. ASSUME NEW b \in Builders, Kill(b) PROVE TypeOK'
  BY <1>23 DEF Kill
<1>24. CASE UNCHANGED lockVars
  BY <1>24 DEF lockVars
<1> QED
  BY <1>1, <1>2, <1>3, <1>4, <1>5, <1>6, <1>7, <1>8, <1>9, <1>10, <1>11, <1>12, <1>13, <1>14, <1>15, <1>16, <1>17, <1>18, <1>19, <1>20, <1>21, <1>22, <1>23, <1>24 DEF LockNext, Steps

LEMMA LockHeldStep == ~ Orphans /\ LInv /\ [LockNext]_lockVars => LockHeld'
<1> SUFFICES ASSUME ~ Orphans, LInv, [LockNext]_lockVars PROVE LockHeld'
  OBVIOUS
<1> USE BuildLockAssumption DEF LInv, TypeOK, LockHeld, RecoveryHeld, OwnersStarted, BuildsAwaited, Directories, Directory, Absent, Acquiring, Observing, Recovering, Holding, Ended, Owning, Making, Judged, At
<1>1. ASSUME NEW b \in Builders, Start(b) PROVE LockHeld'
  BY <1>1 DEF Start
<1>2. ASSUME NEW b \in Builders, MakeLock(b) PROVE LockHeld'
  BY <1>2 DEF MakeLock
<1>3. ASSUME NEW b \in Builders, WriteOwner(b) PROVE LockHeld'
  <2>1. \A c \in Builders \ {b} : pc[c] \notin Owning \cup Making
    BY <1>3 DEF WriteOwner
  <2>2. lock' = Directory(b)
    BY <1>3 DEF WriteOwner
  <2>3. \A c \in Builders \ {b} : pc'[c] = pc[c]
    BY <1>3 DEF WriteOwner
  <2>4. pc'[b] = "spawn"
    BY <1>3 DEF WriteOwner
  <2>5. \A c \in Builders : pc'[c] \in Owning \cup Making => c = b
    BY <2>1, <2>3
  <2>6. \A c \in Builders : pc'[c] \notin Making
    BY <2>4, <2>5
  <2>7. QED
    BY <2>2, <2>5, <2>6
<1>4. ASSUME NEW b \in Builders, Look(b) PROVE LockHeld'
  BY <1>4 DEF Look
<1>5. ASSUME NEW b \in Builders, AskOwner(b) PROVE LockHeld'
  BY <1>5 DEF AskOwner, Alive
<1>6. ASSUME NEW b \in Builders, Sleep(b) PROVE LockHeld'
  BY <1>6 DEF Sleep, OutOfTime
<1>7. ASSUME NEW b \in Builders, TimeOut(b) PROVE LockHeld'
  BY <1>7 DEF TimeOut, OutOfTime
<1>8. ASSUME NEW b \in Builders, MakeRecovery(b) PROVE LockHeld'
  BY <1>8 DEF MakeRecovery
<1>9. ASSUME NEW b \in Builders, WriteRecoverer(b) PROVE LockHeld'
  BY <1>9 DEF WriteRecoverer
<1>10. ASSUME NEW b \in Builders, LookRecovery(b) PROVE LockHeld'
  BY <1>10 DEF LookRecovery, AnotherRecovers
<1>11. ASSUME NEW b \in Builders, AskRecoverer(b) PROVE LockHeld'
  BY <1>11 DEF AskRecoverer, AnotherRecovers, Alive
<1>12. ASSUME NEW b \in Builders, RereadRecovery(b) PROVE LockHeld'
  BY <1>12 DEF RereadRecovery, AnotherRecovers
<1>13. ASSUME NEW b \in Builders, Reread(b) PROVE LockHeld'
  BY <1>13 DEF Reread, StillAbandoned
<1>14. ASSUME NEW b \in Builders, UnlinkOwner(b) PROVE LockHeld'
  <2>1. \A c \in Builders \ {b} : pc[c] \notin Owning \cup Making
    BY <1>14 DEF UnlinkOwner
  <2>2. lock' = Directory(Nobody)
    <3>1. lock = [exists |-> TRUE, owner |-> seen[b]]
      BY <1>14 DEF UnlinkOwner
    <3>2. lock' = [lock EXCEPT !.owner = Nobody]
      BY <1>14 DEF UnlinkOwner
    <3>3. QED
      BY <3>1, <3>2
  <2>3. \A c \in Builders \ {b} : pc'[c] = pc[c]
    BY <1>14 DEF UnlinkOwner
  <2>4. pc'[b] = "rmdir"
    BY <1>14 DEF UnlinkOwner
  <2>5. QED
    BY <2>1, <2>2, <2>3, <2>4
<1>15. ASSUME NEW b \in Builders, RemoveLock(b) PROVE LockHeld'
  BY <1>15 DEF RemoveLock
<1>16. ASSUME NEW b \in Builders, UnlinkRecoverer(b) PROVE LockHeld'
  BY <1>16 DEF UnlinkRecoverer
<1>17. ASSUME NEW b \in Builders, RemoveRecovery(b) PROVE LockHeld'
  BY <1>17 DEF RemoveRecovery
<1>18. ASSUME NEW b \in Builders, Spawn(b) PROVE LockHeld'
  BY <1>18 DEF Spawn
<1>19. ASSUME NEW b \in Builders, EndBuild(b) PROVE LockHeld'
  BY <1>19 DEF EndBuild
<1>20. ASSUME NEW b \in Builders, Return(b) PROVE LockHeld'
  BY <1>20 DEF Return, BuildOver
<1>21. ASSUME NEW b \in Builders, Release(b) PROVE LockHeld'
  <2>1. \A c \in Builders \ {b} : pc[c] \notin Owning \cup Making
    BY <1>21 DEF Release
  <2>2. lock' = Directory(Nobody)
    <3>1. lock = [exists |-> TRUE, owner |-> b]
      BY <1>21 DEF Release
    <3>2. lock' = [lock EXCEPT !.owner = Nobody]
      BY <1>21 DEF Release
    <3>3. QED
      BY <3>1, <3>2
  <2>3. \A c \in Builders \ {b} : pc'[c] = pc[c]
    BY <1>21 DEF Release
  <2>4. pc'[b] = "rmdirLock"
    BY <1>21 DEF Release
  <2>5. QED
    BY <2>1, <2>2, <2>3, <2>4
<1>22. ASSUME NEW b \in Builders, Leave(b) PROVE LockHeld'
  BY <1>22 DEF Leave
<1>23. ASSUME NEW b \in Builders, Kill(b) PROVE LockHeld'
  BY <1>23 DEF Kill, Alive
<1>24. CASE UNCHANGED lockVars
  BY <1>24 DEF lockVars
<1> QED
  BY <1>1, <1>2, <1>3, <1>4, <1>5, <1>6, <1>7, <1>8, <1>9, <1>10, <1>11, <1>12, <1>13, <1>14, <1>15, <1>16, <1>17, <1>18, <1>19, <1>20, <1>21, <1>22, <1>23, <1>24 DEF LockNext, Steps

LEMMA RecoveryHeldStep == ~ Orphans /\ LInv /\ [LockNext]_lockVars => RecoveryHeld'
<1> SUFFICES ASSUME ~ Orphans, LInv, [LockNext]_lockVars PROVE RecoveryHeld'
  OBVIOUS
<1> USE BuildLockAssumption DEF LInv, TypeOK, LockHeld, RecoveryHeld, OwnersStarted, BuildsAwaited, Directories, Directory, Absent, Acquiring, Observing, Recovering, Holding, Ended, Owning, Making, Judged, At
<1>1. ASSUME NEW b \in Builders, Start(b) PROVE RecoveryHeld'
  BY <1>1 DEF Start
<1>2. ASSUME NEW b \in Builders, MakeLock(b) PROVE RecoveryHeld'
  BY <1>2 DEF MakeLock
<1>3. ASSUME NEW b \in Builders, WriteOwner(b) PROVE RecoveryHeld'
  BY <1>3 DEF WriteOwner
<1>4. ASSUME NEW b \in Builders, Look(b) PROVE RecoveryHeld'
  BY <1>4 DEF Look
<1>5. ASSUME NEW b \in Builders, AskOwner(b) PROVE RecoveryHeld'
  BY <1>5 DEF AskOwner, Alive
<1>6. ASSUME NEW b \in Builders, Sleep(b) PROVE RecoveryHeld'
  BY <1>6 DEF Sleep, OutOfTime
<1>7. ASSUME NEW b \in Builders, TimeOut(b) PROVE RecoveryHeld'
  BY <1>7 DEF TimeOut, OutOfTime
<1>8. ASSUME NEW b \in Builders, MakeRecovery(b) PROVE RecoveryHeld'
  BY <1>8 DEF MakeRecovery
<1>9. ASSUME NEW b \in Builders, WriteRecoverer(b) PROVE RecoveryHeld'
  BY <1>9 DEF WriteRecoverer
<1>10. ASSUME NEW b \in Builders, LookRecovery(b) PROVE RecoveryHeld'
  BY <1>10 DEF LookRecovery, AnotherRecovers
<1>11. ASSUME NEW b \in Builders, AskRecoverer(b) PROVE RecoveryHeld'
  BY <1>11 DEF AskRecoverer, AnotherRecovers, Alive
<1>12. ASSUME NEW b \in Builders, RereadRecovery(b) PROVE RecoveryHeld'
  BY <1>12 DEF RereadRecovery, AnotherRecovers
<1>13. ASSUME NEW b \in Builders, Reread(b) PROVE RecoveryHeld'
  BY <1>13 DEF Reread, StillAbandoned
<1>14. ASSUME NEW b \in Builders, UnlinkOwner(b) PROVE RecoveryHeld'
  BY <1>14 DEF UnlinkOwner
<1>15. ASSUME NEW b \in Builders, RemoveLock(b) PROVE RecoveryHeld'
  BY <1>15 DEF RemoveLock
<1>16. ASSUME NEW b \in Builders, UnlinkRecoverer(b) PROVE RecoveryHeld'
  BY <1>16 DEF UnlinkRecoverer
<1>17. ASSUME NEW b \in Builders, RemoveRecovery(b) PROVE RecoveryHeld'
  BY <1>17 DEF RemoveRecovery
<1>18. ASSUME NEW b \in Builders, Spawn(b) PROVE RecoveryHeld'
  BY <1>18 DEF Spawn
<1>19. ASSUME NEW b \in Builders, EndBuild(b) PROVE RecoveryHeld'
  BY <1>19 DEF EndBuild
<1>20. ASSUME NEW b \in Builders, Return(b) PROVE RecoveryHeld'
  BY <1>20 DEF Return, BuildOver
<1>21. ASSUME NEW b \in Builders, Release(b) PROVE RecoveryHeld'
  BY <1>21 DEF Release
<1>22. ASSUME NEW b \in Builders, Leave(b) PROVE RecoveryHeld'
  BY <1>22 DEF Leave
<1>23. ASSUME NEW b \in Builders, Kill(b) PROVE RecoveryHeld'
  BY <1>23 DEF Kill, Alive
<1>24. CASE UNCHANGED lockVars
  BY <1>24 DEF lockVars
<1> QED
  BY <1>1, <1>2, <1>3, <1>4, <1>5, <1>6, <1>7, <1>8, <1>9, <1>10, <1>11, <1>12, <1>13, <1>14, <1>15, <1>16, <1>17, <1>18, <1>19, <1>20, <1>21, <1>22, <1>23, <1>24 DEF LockNext, Steps

LEMMA OwnersStartedStep == ~ Orphans /\ LInv /\ [LockNext]_lockVars => OwnersStarted'
<1> SUFFICES ASSUME ~ Orphans, LInv, [LockNext]_lockVars PROVE OwnersStarted'
  OBVIOUS
<1> USE BuildLockAssumption DEF LInv, TypeOK, LockHeld, RecoveryHeld, OwnersStarted, BuildsAwaited, Directories, Directory, Absent, Acquiring, Observing, Recovering, Holding, Ended, Owning, Making, Judged, At
<1>1. ASSUME NEW b \in Builders, Start(b) PROVE OwnersStarted'
  BY <1>1 DEF Start
<1>2. ASSUME NEW b \in Builders, MakeLock(b) PROVE OwnersStarted'
  BY <1>2 DEF MakeLock
<1>3. ASSUME NEW b \in Builders, WriteOwner(b) PROVE OwnersStarted'
  BY <1>3 DEF WriteOwner
<1>4. ASSUME NEW b \in Builders, Look(b) PROVE OwnersStarted'
  BY <1>4 DEF Look
<1>5. ASSUME NEW b \in Builders, AskOwner(b) PROVE OwnersStarted'
  BY <1>5 DEF AskOwner, Alive
<1>6. ASSUME NEW b \in Builders, Sleep(b) PROVE OwnersStarted'
  BY <1>6 DEF Sleep, OutOfTime
<1>7. ASSUME NEW b \in Builders, TimeOut(b) PROVE OwnersStarted'
  BY <1>7 DEF TimeOut, OutOfTime
<1>8. ASSUME NEW b \in Builders, MakeRecovery(b) PROVE OwnersStarted'
  BY <1>8 DEF MakeRecovery
<1>9. ASSUME NEW b \in Builders, WriteRecoverer(b) PROVE OwnersStarted'
  BY <1>9 DEF WriteRecoverer
<1>10. ASSUME NEW b \in Builders, LookRecovery(b) PROVE OwnersStarted'
  BY <1>10 DEF LookRecovery, AnotherRecovers
<1>11. ASSUME NEW b \in Builders, AskRecoverer(b) PROVE OwnersStarted'
  BY <1>11 DEF AskRecoverer, AnotherRecovers, Alive
<1>12. ASSUME NEW b \in Builders, RereadRecovery(b) PROVE OwnersStarted'
  BY <1>12 DEF RereadRecovery, AnotherRecovers
<1>13. ASSUME NEW b \in Builders, Reread(b) PROVE OwnersStarted'
  BY <1>13 DEF Reread, StillAbandoned
<1>14. ASSUME NEW b \in Builders, UnlinkOwner(b) PROVE OwnersStarted'
  BY <1>14 DEF UnlinkOwner
<1>15. ASSUME NEW b \in Builders, RemoveLock(b) PROVE OwnersStarted'
  BY <1>15 DEF RemoveLock
<1>16. ASSUME NEW b \in Builders, UnlinkRecoverer(b) PROVE OwnersStarted'
  BY <1>16 DEF UnlinkRecoverer
<1>17. ASSUME NEW b \in Builders, RemoveRecovery(b) PROVE OwnersStarted'
  BY <1>17 DEF RemoveRecovery
<1>18. ASSUME NEW b \in Builders, Spawn(b) PROVE OwnersStarted'
  BY <1>18 DEF Spawn
<1>19. ASSUME NEW b \in Builders, EndBuild(b) PROVE OwnersStarted'
  BY <1>19 DEF EndBuild
<1>20. ASSUME NEW b \in Builders, Return(b) PROVE OwnersStarted'
  BY <1>20 DEF Return, BuildOver
<1>21. ASSUME NEW b \in Builders, Release(b) PROVE OwnersStarted'
  BY <1>21 DEF Release
<1>22. ASSUME NEW b \in Builders, Leave(b) PROVE OwnersStarted'
  BY <1>22 DEF Leave
<1>23. ASSUME NEW b \in Builders, Kill(b) PROVE OwnersStarted'
  BY <1>23 DEF Kill, Alive
<1>24. CASE UNCHANGED lockVars
  BY <1>24 DEF lockVars
<1> QED
  BY <1>1, <1>2, <1>3, <1>4, <1>5, <1>6, <1>7, <1>8, <1>9, <1>10, <1>11, <1>12, <1>13, <1>14, <1>15, <1>16, <1>17, <1>18, <1>19, <1>20, <1>21, <1>22, <1>23, <1>24 DEF LockNext, Steps

LEMMA BuildsAwaitedStep == ~ Orphans /\ LInv /\ [LockNext]_lockVars => BuildsAwaited'
<1> SUFFICES ASSUME ~ Orphans, LInv, [LockNext]_lockVars PROVE BuildsAwaited'
  OBVIOUS
<1> USE BuildLockAssumption DEF LInv, TypeOK, LockHeld, RecoveryHeld, OwnersStarted, BuildsAwaited, Directories, Directory, Absent, Acquiring, Observing, Recovering, Holding, Ended, Owning, Making, Judged, At
<1>1. ASSUME NEW b \in Builders, Start(b) PROVE BuildsAwaited'
  BY <1>1 DEF Start
<1>2. ASSUME NEW b \in Builders, MakeLock(b) PROVE BuildsAwaited'
  BY <1>2 DEF MakeLock
<1>3. ASSUME NEW b \in Builders, WriteOwner(b) PROVE BuildsAwaited'
  BY <1>3 DEF WriteOwner
<1>4. ASSUME NEW b \in Builders, Look(b) PROVE BuildsAwaited'
  BY <1>4 DEF Look
<1>5. ASSUME NEW b \in Builders, AskOwner(b) PROVE BuildsAwaited'
  BY <1>5 DEF AskOwner, Alive
<1>6. ASSUME NEW b \in Builders, Sleep(b) PROVE BuildsAwaited'
  BY <1>6 DEF Sleep, OutOfTime
<1>7. ASSUME NEW b \in Builders, TimeOut(b) PROVE BuildsAwaited'
  BY <1>7 DEF TimeOut, OutOfTime
<1>8. ASSUME NEW b \in Builders, MakeRecovery(b) PROVE BuildsAwaited'
  BY <1>8 DEF MakeRecovery
<1>9. ASSUME NEW b \in Builders, WriteRecoverer(b) PROVE BuildsAwaited'
  BY <1>9 DEF WriteRecoverer
<1>10. ASSUME NEW b \in Builders, LookRecovery(b) PROVE BuildsAwaited'
  BY <1>10 DEF LookRecovery, AnotherRecovers
<1>11. ASSUME NEW b \in Builders, AskRecoverer(b) PROVE BuildsAwaited'
  BY <1>11 DEF AskRecoverer, AnotherRecovers, Alive
<1>12. ASSUME NEW b \in Builders, RereadRecovery(b) PROVE BuildsAwaited'
  BY <1>12 DEF RereadRecovery, AnotherRecovers
<1>13. ASSUME NEW b \in Builders, Reread(b) PROVE BuildsAwaited'
  BY <1>13 DEF Reread, StillAbandoned
<1>14. ASSUME NEW b \in Builders, UnlinkOwner(b) PROVE BuildsAwaited'
  BY <1>14 DEF UnlinkOwner
<1>15. ASSUME NEW b \in Builders, RemoveLock(b) PROVE BuildsAwaited'
  BY <1>15 DEF RemoveLock
<1>16. ASSUME NEW b \in Builders, UnlinkRecoverer(b) PROVE BuildsAwaited'
  BY <1>16 DEF UnlinkRecoverer
<1>17. ASSUME NEW b \in Builders, RemoveRecovery(b) PROVE BuildsAwaited'
  BY <1>17 DEF RemoveRecovery
<1>18. ASSUME NEW b \in Builders, Spawn(b) PROVE BuildsAwaited'
  BY <1>18 DEF Spawn
<1>19. ASSUME NEW b \in Builders, EndBuild(b) PROVE BuildsAwaited'
  BY <1>19 DEF EndBuild
<1>20. ASSUME NEW b \in Builders, Return(b) PROVE BuildsAwaited'
  BY <1>20 DEF Return, BuildOver
<1>21. ASSUME NEW b \in Builders, Release(b) PROVE BuildsAwaited'
  BY <1>21 DEF Release
<1>22. ASSUME NEW b \in Builders, Leave(b) PROVE BuildsAwaited'
  BY <1>22 DEF Leave
<1>23. ASSUME NEW b \in Builders, Kill(b) PROVE BuildsAwaited'
  BY <1>23 DEF Kill, Alive
<1>24. CASE UNCHANGED lockVars
  BY <1>24 DEF lockVars
<1> QED
  BY <1>1, <1>2, <1>3, <1>4, <1>5, <1>6, <1>7, <1>8, <1>9, <1>10, <1>11, <1>12, <1>13, <1>14, <1>15, <1>16, <1>17, <1>18, <1>19, <1>20, <1>21, <1>22, <1>23, <1>24 DEF LockNext, Steps

LEMMA LockInit == Init => LInv
BY TypeInit, BuildLockAssumption
   DEF Init, LInv, LockHeld, RecoveryHeld, OwnersStarted, BuildsAwaited, Absent, Recovering, Owning, Making, Judged

LEMMA LockStep == ~ Orphans /\ LInv /\ [LockNext]_lockVars => LInv'
BY TypeStep, LockHeldStep, RecoveryHeldStep, OwnersStartedStep, BuildsAwaitedStep DEF LInv

(* Every state of the lock, with its processes, is of its type.            *)
THEOREM LockTypesAreCorrect == LockSpec => []TypeOK
<1>1. Init => TypeOK
  BY TypeInit
<1>2. TypeOK /\ [LockNext]_lockVars => TypeOK'
  BY TypeStep
<1>3. QED
  BY <1>1, <1>2, PTL DEF LockSpec

LEMMA LockInvariant == ASSUME ~ Orphans PROVE LockSpec => []LInv
<1>1. Init => LInv
  BY LockInit
<1>2. LInv /\ [LockNext]_lockVars => LInv'
  BY LockStep
<1>3. QED
  BY <1>1, <1>2, PTL DEF LockSpec

LEMMA HolderBuildsAlone == LInv => OneBuild
BY DEF LInv, LockHeld, BuildsAwaited, OneBuild, Running, Owning

(* One build of web/dist at a time, when a killed builder's build ends     *)
(* with it (acquire, recoverLock and release in tools/build-stamp.mjs).    *)
THEOREM BuildsAreAlone == ASSUME ~ Orphans PROVE LockSpec => []OneBuild
<1>1. LockSpec => []LInv
  BY LockInvariant
<1>2. QED
  BY <1>1, HolderBuildsAlone, PTL

-----------------------------------------------------------------------------
(* The lock implements the exclusion of builds.                            *)

LEMMA ExclusionInit == Init => E!Init
BY DEF Init, E!Init, Running

LEMMA ExclusionStep == ~ Orphans /\ LInv /\ [LockNext]_lockVars => [E!Next]_Running
<1> SUFFICES ASSUME ~ Orphans, LInv, LockNext, Running' # Running PROVE E!Next
  BY DEF lockVars, Running
<1> USE DEF LInv, TypeOK
<1>1. PICK b \in Builders : Steps(b) \/ Kill(b)
  BY DEF LockNext
<1>2. CASE Spawn(b)
  <2>1. Running = {}
    BY <1>2 DEF Spawn, At, LockHeld, BuildsAwaited, Running, Owning
  <2>2. build' = [build EXCEPT ![b] = "running"]
    BY <1>2 DEF Spawn
  <2>3. Running' = {b}
    BY <2>1, <2>2 DEF Running
  <2>4. QED
    BY <2>1, <2>3 DEF E!Next, E!Begin
<1>3. CASE EndBuild(b) \/ Kill(b)
  <2>1. build' = build \/ (build[b] = "running" /\ build' = [build EXCEPT ![b] = "ended"])
    <3>1. CASE EndBuild(b)
      BY <3>1 DEF EndBuild
    <3>2. CASE Kill(b)
      <4>1. build' = [build EXCEPT ![b] = IF build[b] = "running" THEN "ended" ELSE build[b]]
        BY <3>2 DEF Kill
      <4>2. build[b] = "running" => build' = [build EXCEPT ![b] = "ended"]
        BY <4>1
      <4>3. build[b] # "running" => build' = build
        BY <4>1
      <4>4. QED
        BY <4>2, <4>3
    <3>3. QED
      BY <1>3, <3>1, <3>2
  <2>2. build[b] = "running" /\ build' = [build EXCEPT ![b] = "ended"]
    BY <2>1 DEF Running
  <2>3. Running' = Running \ {b} /\ b \in Running
    BY <2>2 DEF Running
  <2>4. QED
    BY <2>3 DEF E!Next, E!End
<1>4. CASE ~ (Spawn(b) \/ EndBuild(b) \/ Kill(b))
  <2>1. UNCHANGED build
    BY <1>1, <1>4 DEF Steps, Start, MakeLock, WriteOwner, Look, AskOwner, Sleep, TimeOut, MakeRecovery, WriteRecoverer,
       LookRecovery, AskRecoverer, RereadRecovery, Reread, UnlinkOwner, RemoveLock, UnlinkRecoverer, RemoveRecovery,
       Return, Release, Leave
  <2>2. QED
    BY <2>1 DEF Running
<1>5. QED
  BY <1>2, <1>3, <1>4

(* A build begins only when none runs, and the builds that run are those   *)
(* of an abstract specification of exclusion.                              *)
THEOREM LockExcludes == ASSUME ~ Orphans PROVE LockSpec => BuildsExclude
<1>1. LockSpec => []LInv
  BY LockInvariant
<1>2. Init => E!Init
  BY ExclusionInit
<1>3. LInv /\ [LockNext]_lockVars => [E!Next]_Running
  BY ExclusionStep
<1>4. QED
  BY <1>1, <1>2, <1>3, PTL DEF LockSpec, BuildsExclude, E!Spec

-----------------------------------------------------------------------------
(* The stamp.  What a build hashed, read first and read last are versions  *)
(* in that order, and its outputs are of what it read.                     *)

Between(v, pair) ==
  \E p, q \in Nat : pair = <<p, q>> /\ v <= p /\ p <= q /\ q <= sources

RecipeSteps == {"check", "invalidate", "hash", "read", "readOn", "mjs", "wasm", "stamp", "end"}

Compiled == (Nat \X Nat) \cup {Missing}

DistTypes ==
  /\ sources \in Nat
  /\ outputs \in [mjs : Compiled, wasm : Compiled]
  /\ step \in [Builders -> RecipeSteps]
  /\ hashed \in [Builders -> Nat]
  /\ read \in [Builders -> Compiled]

(* A builder builds once.                                                  *)
BuildsOnce ==
  \A b \in Builders : build[b] # "none" => pc[b] \in {"wait", "release", "rmdirLock", "done", "killed"}

NotBegun == \A b \in Builders : build[b] = "none" => step[b] = "check"

(* How far the build that runs has come.                                   *)
Progress(b) ==
  /\ step[b] = "read" => hashed[b] <= sources
  /\ step[b] = "readOn" => Between(hashed[b], read[b]) /\ read[b][1] = read[b][2]
  /\ step[b] \in {"mjs", "wasm", "stamp"} => Between(hashed[b], read[b])
  /\ step[b] \in {"wasm", "stamp"} => outputs.mjs = read[b]
  /\ step[b] = "stamp" => outputs.wasm = read[b]

(* A stamp vouches for outputs of one pair of versions, the one hashed or  *)
(* later ones.                                                             *)
Vouched ==
  stamp # NoStamp =>
    /\ stamp.sources \in Nat
    /\ \E pair : Between(stamp.sources, pair) /\ stamp.outputs = [mjs |-> pair, wasm |-> pair]

DInv == LInv /\ DistTypes /\ BuildsOnce /\ NotBegun /\ (\A b \in Running : Progress(b)) /\ Vouched

-----------------------------------------------------------------------------
LEMMA DistInitially == DistInit => DInv
<1> SUFFICES ASSUME DistInit PROVE DInv
  OBVIOUS
<1>1. LInv
  BY LockInit DEF DistInit
<1>2. DistTypes
  BY WebDistAssumption DEF DistInit, DistTypes, RecipeSteps, Compiled
<1>3. BuildsOnce /\ NotBegun /\ Running = {}
  BY DEF DistInit, Init, BuildsOnce, NotBegun, Running
<1>4. Vouched
  BY DEF DistInit, Vouched
<1> QED
  BY <1>1, <1>2, <1>3, <1>4 DEF DInv

(* A step of the lock begins at most a build that had not begun.           *)
LEMMA LockBegins ==
  ASSUME LInv, BuildsOnce, NEW b \in Builders, Steps(b) \/ Kill(b)
  PROVE  /\ BuildsOnce'
         /\ \A c \in Builders : build'[c] = "none" => build[c] = "none"
         /\ \A c \in Running' : c \in Running \/ build[c] = "none"
<1> USE DEF LInv, TypeOK, BuildsOnce, Running, At
<1>1. CASE Spawn(b)
  BY <1>1 DEF Spawn
<1>2. CASE EndBuild(b)
  BY <1>2 DEF EndBuild
<1>3. CASE Kill(b)
  <2>1. pc' = [pc EXCEPT ![b] = "killed"]
    BY <1>3 DEF Kill
  <2>2. build' = build \/ build' = [build EXCEPT ![b] = IF build[b] = "running" THEN "ended" ELSE build[b]]
    BY <1>3 DEF Kill
  <2>3. \A c \in Builders : build'[c] # build[c] => build[c] = "running" /\ build'[c] = "ended"
    BY <2>2
  <2> QED
    BY <2>1, <2>3
<1>4. CASE Return(b) \/ Release(b) \/ Leave(b)
  BY <1>4 DEF Return, Release, Leave
<1>5. CASE ~ (Spawn(b) \/ EndBuild(b) \/ Kill(b) \/ Return(b) \/ Release(b) \/ Leave(b))
  <2>1. /\ UNCHANGED build
        /\ \A c \in Builders : c # b => pc'[c] = pc[c]
        /\ pc[b] \notin {"wait", "release", "rmdirLock", "done", "killed"}
    BY <1>5 DEF Steps, Start, MakeLock, WriteOwner, Look, AskOwner, Sleep, TimeOut, MakeRecovery, WriteRecoverer,
       LookRecovery, AskRecoverer, RereadRecovery, Reread, UnlinkOwner, RemoveLock, UnlinkRecoverer, RemoveRecovery
  <2> QED
    BY <2>1
<1> QED
  BY <1>1, <1>2, <1>3, <1>4, <1>5

(* Edits only raise the version that pairs are bounded by.                 *)
LEMMA LaterBetween ==
  ASSUME NEW v, NEW pair, Between(v, pair), sources \in Nat, sources' \in Nat, sources' >= sources
  PROVE  Between(v, pair)'
BY DEF Between

LEMMA DistKept ==
  ASSUME DInv, NEW c \in Builders, Progress(c), sources' \in Nat, sources' >= sources,
         UNCHANGED <<outputs, step, hashed, read>>
  PROVE  Progress(c)'
<1>1. sources \in Nat /\ hashed[c] \in Nat
  BY DEF DInv, DistTypes
<1>2. Between(hashed[c], read[c]) => Between(hashed[c], read[c])'
  BY <1>1 DEF Between
<1> QED
  BY <1>1, <1>2 DEF Progress

LEMMA VouchedKept ==
  ASSUME DInv, sources' \in Nat, sources' >= sources, UNCHANGED stamp
  PROVE  Vouched'
<1>1. sources \in Nat /\ Vouched
  BY DEF DInv, DistTypes
<1>2. \A v, pair : Between(v, pair) => Between(v, pair)'
  BY <1>1, LaterBetween
<1> QED
  BY <1>1, <1>2 DEF Vouched

LEMMA DistLock ==
  ~ Orphans /\ DInv /\ LockNext /\ UNCHANGED distVars => DInv'
<1> SUFFICES ASSUME ~ Orphans, DInv, LockNext, UNCHANGED distVars PROVE DInv'
  OBVIOUS
<1>1. PICK b \in Builders : Steps(b) \/ Kill(b)
  BY DEF LockNext
<1>2. /\ BuildsOnce'
      /\ \A c \in Builders : build'[c] = "none" => build[c] = "none"
      /\ \A c \in Running' : c \in Running \/ build[c] = "none"
  BY <1>1, LockBegins DEF DInv
<1>3. UNCHANGED <<sources, outputs, stamp, step, hashed, read>>
  BY DEF distVars
<1>4. LInv'
  BY LockStep DEF DInv
<1>5. DistTypes' /\ Vouched'
  BY <1>3, VouchedKept DEF DInv, DistTypes
<1>6. NotBegun'
  BY <1>2, <1>3 DEF DInv, NotBegun
<1>7. ASSUME NEW c \in Running' PROVE Progress(c)'
  <2>1. Progress(c)
    BY <1>2, <1>7 DEF DInv, NotBegun, Progress, Running
  <2>2. c \in Builders /\ sources \in Nat /\ sources' >= sources
    BY <1>3 DEF DInv, DistTypes, Running
  <2> QED
    BY <1>3, <2>1, <2>2, DistKept
<1> QED
  BY <1>2, <1>4, <1>5, <1>6, <1>7 DEF DInv

LEMMA DistEdit ==
  DInv /\ Edit /\ Forwards => DInv'
<1> SUFFICES ASSUME DInv, Edit, Forwards PROVE DInv'
  OBVIOUS
<1>1. /\ sources' \in Nat /\ sources' >= sources /\ sources \in Nat
      /\ UNCHANGED <<outputs, stamp, step, hashed, read>>
      /\ UNCHANGED lockVars
  BY WebDistAssumption DEF Edit, Forwards, DInv, DistTypes
<1>2. UNCHANGED <<lock, recovery, pc, seen, waits, build>>
  BY <1>1 DEF lockVars
<1>3. LInv' /\ BuildsOnce' /\ NotBegun' /\ Running' = Running
  BY <1>1, <1>2 DEF DInv, LInv, TypeOK, LockHeld, RecoveryHeld, OwnersStarted, BuildsAwaited, BuildsOnce, NotBegun, Running
<1>4. DistTypes' /\ Vouched'
  BY <1>1, VouchedKept DEF DInv, DistTypes
<1>5. \A c \in Running' : Progress(c)'
  BY <1>1, <1>3, DistKept DEF DInv, Running
<1> QED
  BY <1>3, <1>4, <1>5 DEF DInv

(* A step of the one build that runs.                                      *)
LEMMA DistBuild ==
  ASSUME DInv, NEW b \in Builders, Build(b)
  PROVE  DInv'
<1>1. \E here \in RecipeSteps, next \in RecipeSteps \ {"check"} : Recipe(b, here, next)
  BY DEF Build, Check, Invalidate, HashSources, ReadFirst, ReadOn, WriteModule, WriteWasm, WriteStamp, RecipeSteps
<1>2. b \in Running /\ UNCHANGED <<lock, recovery, pc, seen, waits, build>>
  BY <1>1 DEF Recipe, lockVars
<1>3. LInv' /\ BuildsOnce' /\ Running' = Running
  BY <1>2 DEF DInv, LInv, TypeOK, LockHeld, RecoveryHeld, OwnersStarted, BuildsAwaited, BuildsOnce, Running
<1>4. \A c \in Running' : c = b
  BY <1>2, <1>3, HolderBuildsAlone DEF DInv, OneBuild
<1>5. NotBegun'
  BY <1>1, <1>2 DEF Recipe, NotBegun, DInv, Running, DistTypes
<1>6. sources \in Nat /\ sources' = sources /\ hashed[b] \in Nat
  BY DEF Build, Check, Invalidate, HashSources, ReadFirst, ReadOn, WriteModule, WriteWasm, WriteStamp, DInv, DistTypes
<1>7. step' \in [Builders -> RecipeSteps]
  BY <1>1 DEF Recipe, DInv, DistTypes
<1>8. Progress(b) /\ Vouched /\ DistTypes
  BY <1>2 DEF DInv
<1>9. \A v, pair : Between(v, pair) = Between(v, pair)'
  BY <1>6 DEF Between
<1>10. DistTypes' /\ Progress(b)' /\ Vouched'
  <2> USE <1>6, <1>7, <1>8, <1>9 DEF Recipe
  <2>1. CASE Check(b)
    <3>1. step'[b] = "invalidate" /\ UNCHANGED <<stamp, hashed, read>>
      BY <2>1 DEF Check, DistTypes
    <3>2. outputs' \in [mjs : Compiled, wasm : Compiled]
      BY <2>1 DEF Check, DistTypes, Compiled
    <3> QED
      BY <3>1, <3>2 DEF DistTypes, Progress, Vouched
  <2>2. CASE Invalidate(b)
    BY <2>2 DEF Invalidate, DistTypes, Progress, Vouched
  <2>3. CASE HashSources(b)
    BY <2>3 DEF HashSources, DistTypes, Progress, Vouched
  <2>4. CASE ReadFirst(b)
    <3>1. /\ step[b] = "read" /\ step'[b] = "readOn" /\ UNCHANGED <<outputs, stamp, hashed>>
          /\ read' = [read EXCEPT ![b] = <<sources, sources>>]
      BY <2>4 DEF ReadFirst, DistTypes
    <3>2. read'[b] = <<sources, sources>> /\ read' \in [Builders -> Compiled]
      BY <3>1 DEF DistTypes, Compiled
    <3>3. Between(hashed[b], read'[b])
      BY <3>1, <3>2 DEF Between, Progress
    <3> QED
      BY <3>1, <3>2, <3>3 DEF DistTypes, Progress, Vouched
  <2>5. CASE ReadOn(b)
    <3>1. /\ step[b] = "readOn" /\ step'[b] = "mjs" /\ UNCHANGED <<outputs, stamp, hashed>>
          /\ read' = [read EXCEPT ![b][2] = sources]
      BY <2>5 DEF ReadOn, DistTypes
    <3>2. PICK p \in Nat, q \in Nat : read[b] = <<p, q>> /\ hashed[b] <= p /\ p <= q /\ q <= sources
      BY <3>1 DEF Progress, Between
    <3>3. read' = [read EXCEPT ![b] = <<p, sources>>]
      <4>1. [<<p, q>> EXCEPT ![2] = sources] = <<p, sources>>
        OBVIOUS
      <4>2. read' = [read EXCEPT ![b] = [read[b] EXCEPT ![2] = sources]]
        BY <3>1
      <4> QED
        BY <3>2, <4>1, <4>2
    <3>4. read'[b] = <<p, sources>> /\ read' \in [Builders -> Compiled]
      BY <3>3 DEF DistTypes, Compiled
    <3>5. Between(hashed[b], read'[b])
      BY <3>2, <3>4 DEF Between
    <3> QED
      BY <3>1, <3>4, <3>5 DEF DistTypes, Progress, Vouched
  <2>6. CASE WriteModule(b)
    <3>1. /\ step[b] = "mjs" /\ step'[b] = "wasm" /\ UNCHANGED <<stamp, hashed, read>>
          /\ outputs' = [outputs EXCEPT !.mjs = read[b]]
      BY <2>6 DEF WriteModule, DistTypes
    <3>2. outputs'.mjs = read[b] /\ outputs' \in [mjs : Compiled, wasm : Compiled]
      BY <3>1 DEF DistTypes
    <3> QED
      BY <3>1, <3>2 DEF DistTypes, Progress, Vouched
  <2>7. CASE WriteWasm(b)
    <3>1. /\ step[b] = "wasm" /\ step'[b] = "stamp" /\ UNCHANGED <<stamp, hashed, read>>
          /\ outputs' = [outputs EXCEPT !.wasm = read[b]]
      BY <2>7 DEF WriteWasm, DistTypes
    <3>2. /\ outputs'.wasm = read[b] /\ outputs'.mjs = outputs.mjs
          /\ outputs' \in [mjs : Compiled, wasm : Compiled]
      BY <3>1 DEF DistTypes
    <3> QED
      BY <3>1, <3>2 DEF DistTypes, Progress, Vouched
  <2>8. CASE WriteStamp(b)
    <3>1. /\ step[b] = "stamp" /\ step'[b] = "end" /\ UNCHANGED <<outputs, hashed, read>>
          /\ stamp' = [sources |-> hashed[b], outputs |-> outputs]
      BY <2>8 DEF WriteStamp, Hashed, DistTypes
    <3>2. Between(hashed[b], read[b]) /\ outputs = [mjs |-> read[b], wasm |-> read[b]]
      BY <3>1 DEF Progress, DistTypes
    <3>3. Vouched'
      BY <3>1, <3>2 DEF Vouched
    <3> QED
      BY <3>1, <3>3 DEF DistTypes, Progress
  <2> QED
    BY <2>1, <2>2, <2>3, <2>4, <2>5, <2>6, <2>7, <2>8 DEF Build
<1> QED
  BY <1>3, <1>4, <1>5, <1>10 DEF DInv

LEMMA DistStep == ~ Orphans /\ DInv /\ [DistNext /\ Forwards]_vars => DInv'
<1> SUFFICES ASSUME ~ Orphans, DInv, [DistNext /\ Forwards]_vars PROVE DInv'
  OBVIOUS
<1>1. CASE LockNext /\ UNCHANGED distVars
  BY <1>1, DistLock
<1>2. CASE \E b \in Builders : Build(b)
  BY <1>2, DistBuild
<1>3. CASE Edit /\ Forwards
  BY <1>3, DistEdit
<1>4. CASE UNCHANGED vars
  <2>1. UNCHANGED <<lock, recovery, pc, seen, waits, build>> /\ UNCHANGED <<sources, outputs, stamp, step, hashed, read>>
    BY <1>4 DEF vars, lockVars, distVars
  <2>2. sources \in Nat /\ sources' >= sources
    BY <2>1 DEF DInv, DistTypes
  <2>3. LInv' /\ BuildsOnce' /\ NotBegun' /\ Running' = Running
    BY <2>1 DEF DInv, LInv, TypeOK, LockHeld, RecoveryHeld, OwnersStarted, BuildsAwaited, BuildsOnce, NotBegun, Running
  <2>4. DistTypes' /\ Vouched'
    BY <2>1, <2>2, VouchedKept DEF DInv, DistTypes
  <2>5. \A c \in Running' : Progress(c)'
    BY <2>1, <2>2, <2>3, DistKept DEF DInv, Running
  <2> QED
    BY <2>3, <2>4, <2>5 DEF DInv
<1> QED
  BY <1>1, <1>2, <1>3, <1>4 DEF DistNext

LEMMA VouchedIsBuilt == DInv => FreshMeansBuilt
<1> SUFFICES ASSUME DInv, ~ Stale
             PROVE  outputs = [mjs |-> <<sources, sources>>, wasm |-> <<sources, sources>>]
  BY DEF FreshMeansBuilt
<1>1. stamp # NoStamp /\ stamp.sources = sources /\ stamp.outputs = outputs
  BY DEF Stale
<1>2. PICK pair : Between(sources, pair) /\ outputs = [mjs |-> pair, wasm |-> pair]
  BY <1>1 DEF DInv, Vouched
<1>3. pair = <<sources, sources>>
  BY <1>2 DEF Between, DInv, DistTypes
<1> QED
  BY <1>2, <1>3

(* A build that no runner refuses was compiled from the sources there are, *)
(* whatever was edited or killed while builds ran, when edits are not      *)
(* undone and a killed builder's build ends with it (the stamp cleared and *)
(* written in tools/build-stamp.mjs around the compiler's own reads).      *)
THEOREM FreshBuildsAreTrue == ASSUME ~ Orphans PROVE ForwardSpec => []FreshMeansBuilt
<1>1. DistInit => DInv
  BY DistInitially
<1>2. DInv /\ [DistNext /\ Forwards]_vars => DInv'
  BY DistStep
<1>3. QED
  BY <1>1, <1>2, VouchedIsBuilt, PTL DEF ForwardSpec
=============================================================================
