-------------------------- MODULE ListenPathProofs --------------------------
(***************************************************************************)
(* Theorems about ListenPath, for any number of daemons and of starts.     *)
(***************************************************************************)
EXTENDS ListenPath, TLAPS

(* Whoever waits for a lock or has one has opened the file.                *)
TypeInv ==
    /\ TypeOK
    /\ \A d \in Daemon : pc[d] \in {"lock"} \cup Locked => fd[d] \in LockFiles

LEMMA InitType == ListenInit => TypeInv
<1> SUFFICES ASSUME ListenInit PROVE TypeInv
  OBVIOUS
<1> USE ListenAssumption DEF ListenInit
<1>1. TypeOK
  BY DEF TypeOK, Starting, Ended, Locked, LockFiles
<1>2. \A d \in Daemon : pc[d] = "off"
  OBVIOUS
<1> QED BY <1>1, <1>2 DEF TypeInv, Locked

LEMMA NextKeepsType == TypeInv /\ [ListenNext]_listenVars => TypeInv'
<1> SUFFICES ASSUME TypeInv, [ListenNext]_listenVars PROVE TypeInv'
  OBVIOUS
<1> USE ListenAssumption
    DEF TypeInv, TypeOK, Starting, Ended, Locked, LockFiles, To, pathVars, lockVars, ghostVars
<1>1. ASSUME NEW d \in Daemon, Start(d) PROVE TypeInv'
  BY <1>1 DEF Start
<1>2. ASSUME NEW d \in Daemon, Stat(d) PROVE TypeInv'
  BY <1>2 DEF Stat
<1>3. ASSUME NEW d \in Daemon, Dial(d) PROVE TypeInv'
  BY <1>3 DEF Dial
<1>4. ASSUME NEW d \in Daemon, Create(d) PROVE TypeInv'
  BY <1>4 DEF Create
<1>5. ASSUME NEW d \in Daemon, CreateFails(d) PROVE TypeInv'
  BY <1>5 DEF CreateFails
<1>6. ASSUME NEW d \in Daemon, Flock(d) PROVE TypeInv'
  BY <1>6 DEF Flock
<1>7. ASSUME NEW d \in Daemon, RemoveLock(d) PROVE TypeInv'
  BY <1>7 DEF RemoveLock
<1>8. ASSUME NEW d \in Daemon, RemoveSocket(d) PROVE TypeInv'
  BY <1>8 DEF RemoveSocket
<1>9. ASSUME NEW d \in Daemon, Unlock(d) PROVE TypeInv'
  BY <1>9 DEF Unlock, Released
<1>10. ASSUME NEW d \in Daemon, Bind(d) PROVE TypeInv'
  BY <1>10 DEF Bind
<1>11. ASSUME NEW d \in Daemon, Listen(d) PROVE TypeInv'
  BY <1>11 DEF Listen
<1>12. ASSUME NEW d \in Daemon, Stop(d) PROVE TypeInv'
  BY <1>12 DEF Stop, Gone, Released
<1>13. ASSUME NEW d \in Daemon, Crash(d) PROVE TypeInv'
  BY <1>13 DEF Crash, Gone, Released
<1>14. CASE UNCHANGED listenVars
  BY <1>14 DEF listenVars
<1> QED BY <1>1, <1>2, <1>3, <1>4, <1>5, <1>6, <1>7, <1>8, <1>9, <1>10, <1>11, <1>12,
           <1>13, <1>14 DEF ListenNext, ListenStep

(* Every variable keeps its type, and a lock is held by the one daemon     *)
(* that is between taking it and giving it up.                             *)
THEOREM TypeCorrect == Spec => []TypeOK
<1>1. TypeInv => TypeOK
  BY DEF TypeInv
<1> QED BY <1>1, InitType, NextKeepsType, PTL DEF Spec

---------------------------------------------------------------------------
(* A socket belongs to a daemon that runs, unless it is stale.             *)
SocketInv ==
    \A d \in Daemon : sock = d => pc[d] \in {"listen", "serving"}

(* Nobody acts beside a daemon that is alone, so that what it found at the *)
(* path and what it put there is still there.                              *)
AloneInv ==
    \A d \in alone :
        /\ \A e \in Daemon \ {d} : pc[e] \in Ended
        /\ pc[d] = "dial" => sock = Stale
        /\ pc[d] \in {"unlock", "bind"} => sock = NoFile
        /\ pc[d] = "listen" => sock = d
        /\ pc[d] = "refused" => d \in denied

(* Beside a daemon that came up alone the others get as far as the dial.   *)
SettledInv ==
    \A d \in settled :
        /\ pc[d] = "serving" /\ sock = d
        /\ \A e \in Daemon \ {d} : pc[e] \in Ended \cup {"stat", "dial"}

PathInv == SocketInv /\ AloneInv /\ SettledInv

LEMMA InitPath == ListenInit => PathInv
BY ListenAssumption DEF ListenInit, PathInv, SocketInv, AloneInv, SettledInv

LEMMA PathStep == TypeInv /\ PathInv /\ [ListenNext]_listenVars => PathInv'
<1> SUFFICES ASSUME TypeInv, PathInv, [ListenNext]_listenVars PROVE PathInv'
  OBVIOUS
<1> USE ListenAssumption
    DEF TypeInv, TypeOK, PathInv, Starting, Ended, To, pathVars, lockVars, ghostVars
<1>1. ASSUME NEW d \in Daemon, Start(d) PROVE PathInv'
  <2>1. SocketInv'
    BY <1>1 DEF Start, SocketInv
  <2>2. AloneInv'
    BY <1>1 DEF Start, AloneInv, Others
  <2>3. SettledInv'
    BY <1>1 DEF Start, SettledInv
  <2> QED BY <2>1, <2>2, <2>3
<1>2. ASSUME NEW d \in Daemon, Stat(d) PROVE PathInv'
  <2>1. SocketInv'
    BY <1>2 DEF Stat, SocketInv
  <2>2. AloneInv'
    BY <1>2 DEF Stat, AloneInv, SocketInv
  <2>3. SettledInv'
    BY <1>2 DEF Stat, SettledInv
  <2> QED BY <2>1, <2>2, <2>3
<1>3. ASSUME NEW d \in Daemon, Dial(d) PROVE PathInv'
  <2>1. SocketInv'
    BY <1>3 DEF Dial, SocketInv
  <2>2. AloneInv'
    BY <1>3 DEF Dial, AloneInv, SocketInv
  <2>3. SettledInv'
    BY <1>3 DEF Dial, SettledInv
  <2> QED BY <2>1, <2>2, <2>3
<1>4. ASSUME NEW d \in Daemon, Create(d) PROVE PathInv'
  <2>1. SocketInv'
    BY <1>4 DEF Create, SocketInv
  <2>2. AloneInv'
    BY <1>4 DEF Create, AloneInv, SocketInv
  <2>3. SettledInv'
    BY <1>4 DEF Create, SettledInv
  <2> QED BY <2>1, <2>2, <2>3
<1>5. ASSUME NEW d \in Daemon, CreateFails(d) PROVE PathInv'
  <2>1. SocketInv'
    BY <1>5 DEF CreateFails, SocketInv
  <2>2. AloneInv'
    BY <1>5 DEF CreateFails, AloneInv, SocketInv
  <2>3. SettledInv'
    BY <1>5 DEF CreateFails, SettledInv
  <2> QED BY <2>1, <2>2, <2>3
<1>6. ASSUME NEW d \in Daemon, Flock(d) PROVE PathInv'
  <2>1. SocketInv'
    BY <1>6 DEF Flock, SocketInv
  <2>2. AloneInv'
    BY <1>6 DEF Flock, AloneInv, SocketInv
  <2>3. SettledInv'
    BY <1>6 DEF Flock, SettledInv
  <2> QED BY <2>1, <2>2, <2>3
<1>7. ASSUME NEW d \in Daemon, RemoveLock(d) PROVE PathInv'
  <2>1. SocketInv'
    BY <1>7 DEF RemoveLock, SocketInv
  <2>2. AloneInv'
    BY <1>7 DEF RemoveLock, AloneInv, SocketInv
  <2>3. SettledInv'
    BY <1>7 DEF RemoveLock, SettledInv
  <2> QED BY <2>1, <2>2, <2>3
<1>8. ASSUME NEW d \in Daemon, RemoveSocket(d) PROVE PathInv'
  <2>1. SocketInv'
    BY <1>8 DEF RemoveSocket, SocketInv
  <2>2. AloneInv'
    BY <1>8 DEF RemoveSocket, AloneInv, SocketInv
  <2>3. SettledInv'
    BY <1>8 DEF RemoveSocket, SettledInv
  <2> QED BY <2>1, <2>2, <2>3
<1>9. ASSUME NEW d \in Daemon, Unlock(d) PROVE PathInv'
  <2>1. SocketInv'
    BY <1>9 DEF Unlock, SocketInv
  <2>2. AloneInv'
    BY <1>9 DEF Unlock, AloneInv, SocketInv
  <2>3. SettledInv'
    BY <1>9 DEF Unlock, SettledInv
  <2> QED BY <2>1, <2>2, <2>3
<1>10. ASSUME NEW d \in Daemon, Bind(d) PROVE PathInv'
  <2>1. SocketInv'
    BY <1>10 DEF Bind, SocketInv
  <2>2. AloneInv'
    BY <1>10 DEF Bind, AloneInv, SocketInv
  <2>3. SettledInv'
    BY <1>10 DEF Bind, SettledInv
  <2> QED BY <2>1, <2>2, <2>3
<1>11. ASSUME NEW d \in Daemon, Listen(d) PROVE PathInv'
  <2>1. SocketInv'
    BY <1>11 DEF Listen, SocketInv
  <2>2. AloneInv'
    BY <1>11 DEF Listen, AloneInv, SocketInv
  <2>3. SettledInv'
    BY <1>11 DEF Listen, SettledInv, AloneInv
  <2> QED BY <2>1, <2>2, <2>3
<1>12. ASSUME NEW d \in Daemon, Stop(d) PROVE PathInv'
  <2>1. SocketInv'
    BY <1>12 DEF Stop, SocketInv
  <2>2. AloneInv'
    BY <1>12 DEF Stop, Gone, AloneInv
  <2>3. SettledInv'
    BY <1>12 DEF Stop, Gone, SettledInv
  <2> QED BY <2>1, <2>2, <2>3
<1>13. ASSUME NEW d \in Daemon, Crash(d) PROVE PathInv'
  <2>1. SocketInv'
    BY <1>13 DEF Crash, SocketInv
  <2>2. AloneInv'
    BY <1>13 DEF Crash, Gone, AloneInv
  <2>3. SettledInv'
    BY <1>13 DEF Crash, Gone, SettledInv
  <2> QED BY <2>1, <2>2, <2>3
<1>14. CASE UNCHANGED listenVars
  BY <1>14 DEF listenVars, SocketInv, AloneInv, SettledInv
<1> QED BY <1>1, <1>2, <1>3, <1>4, <1>5, <1>6, <1>7, <1>8, <1>9, <1>10, <1>11, <1>12, <1>13, <1>14
        DEF ListenNext, ListenStep

(* A daemon that came up alone stays reachable, for any number of daemons  *)
(* that are started, stopped or crashed beside it.                         *)
THEOREM SettledStaysReachable == Spec => []SettledIsReachable
<1>1. PathInv => SettledIsReachable
  BY DEF PathInv, SettledInv, SettledIsReachable
<1> QED BY <1>1, InitType, NextKeepsType, InitPath, PathStep, PTL DEF Spec

(* A daemon that is started alone comes up, whatever others left behind.   *)
THEOREM AloneSucceeds == Spec => []AloneComesUp
<1>1. PathInv => AloneComesUp
  BY DEF PathInv, AloneInv, AloneComesUp
<1> QED BY <1>1, InitType, NextKeepsType, InitPath, PathStep, PTL DEF Spec

=============================================================================
