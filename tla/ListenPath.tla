----------------------------- MODULE ListenPath -----------------------------
(***************************************************************************)
(* What daemons do with the path of their socket (server.go:188-238): a    *)
(* socket that nobody listens on is removed under a lock file, which is    *)
(* removed as well while it is locked.  Daemons start, stop and crash at   *)
(* any time.  A listener that is closed removes the path, as package net   *)
(* does, and a process that ends gives up its lock.                        *)
(***************************************************************************)
EXTENDS Naturals, FiniteSets

CONSTANTS
    Daemon,     \* processes, one at a time under each name
    NoFile,     \* there is no such file
    Stale,      \* a socket whose process has ended
    Nobody,     \* holds no lock
    MaxStarts   \* bound: starts, each of which may make a lock file

ASSUME ListenAssumption ==
    /\ {NoFile, Stale} \cap Daemon = {} /\ NoFile # Stale
    /\ Nobody \notin Daemon
    /\ MaxStarts \in Nat

VARIABLES
    pc,         \* [Daemon -> where it is]
    sock,       \* listenPath: the daemon that bound the socket there
    lockFile,   \* listenPath.lock: which file it is; 0 is no file
    fd,         \* [Daemon -> lock file it has opened]
    holder,     \* [lock file -> daemon with LOCK_EX on it]
    starts,     \* number of starts
    alone,      \* ghost: daemons that no other one ran beside since they started
    settled,    \* ghost: daemons that began to listen, alone until then
    denied      \* ghost: daemons that the file system refused a lock file

pathVars == <<sock, lockFile>>
lockVars == <<fd, holder>>
ghostVars == <<alone, settled, denied>>
listenVars == <<pc, pathVars, lockVars, starts, ghostVars>>

LockFiles == 1 .. MaxStarts

Starting == {"stat", "dial", "create", "lock", "removelock", "removesock", "unlock",
             "bind", "listen"}
Ended == {"off", "refused"}

Others(d) == {e \in Daemon \ {d} : pc[e] \notin Ended}

To(d, place) == pc' = [pc EXCEPT ![d] = place]

---------------------------------------------------------------------------
ListenInit ==
    /\ pc = [d \in Daemon |-> "off"]
    /\ sock \in {NoFile, Stale}
    /\ lockFile = 0
    /\ fd = [d \in Daemon |-> 0]
    /\ holder = [f \in LockFiles |-> Nobody]
    /\ starts = 0
    /\ alone = {} /\ settled = {} /\ denied = {}

Start(d) ==
    /\ pc[d] \in Ended
    /\ starts < MaxStarts
    /\ starts' = starts + 1
    /\ To(d, "stat")
    /\ alone' = IF Others(d) = {} THEN {d} ELSE {}
    /\ settled' = settled \ {d}
    /\ denied' = denied \ {d}
    /\ fd' = [fd EXCEPT ![d] = 0]
    /\ UNCHANGED <<pathVars, holder>>

Stat(d) ==
    /\ pc[d] = "stat"
    /\ To(d, IF sock = NoFile THEN "bind" ELSE "dial")
    /\ UNCHANGED <<pathVars, lockVars, starts, ghostVars>>

(* Mutant: a connection that is accepted counts as one that is refused.    *)
DialAnyError(d) ==
    /\ pc[d] = "dial"
    /\ To(d, IF sock = NoFile THEN "refused" ELSE "create")
    /\ UNCHANGED <<pathVars, lockVars, starts, ghostVars>>

(* The connection is made if somebody listens, and refused if the process  *)
(* has ended or does not listen yet.  No file any more is an error.        *)
Dial(d) ==
    /\ pc[d] = "dial"
    /\ To(d, IF sock = Stale \/ (sock \in Daemon /\ pc[sock] = "listen")
             THEN "create" ELSE "refused")
    /\ UNCHANGED <<pathVars, lockVars, starts, ghostVars>>

(* os.Create opens the file that is there.                                 *)
Create(d) ==
    /\ pc[d] = "create"
    /\ \E f \in LockFiles :
         /\ IF lockFile = 0 THEN f \notin {fd[e] : e \in Daemon} ELSE f = lockFile
         /\ lockFile' = f
         /\ fd' = [fd EXCEPT ![d] = f]
    /\ To(d, "lock")
    /\ UNCHANGED <<sock, holder, starts, ghostVars>>

(* Its error is dropped, but then there is no descriptor to lock.          *)
CreateFails(d) ==
    /\ pc[d] = "create"
    /\ To(d, "refused")
    /\ denied' = denied \cup {d}
    /\ UNCHANGED <<pathVars, lockVars, starts, alone, settled>>

Flock(d) ==
    /\ pc[d] = "lock"
    /\ holder[fd[d]] = Nobody
    /\ holder' = [holder EXCEPT ![fd[d]] = d]
    /\ To(d, "removelock")
    /\ UNCHANGED <<pathVars, fd, starts, ghostVars>>

RemoveLock(d) ==
    /\ pc[d] = "removelock"
    /\ lockFile' = 0
    /\ To(d, "removesock")
    /\ UNCHANGED <<sock, lockVars, starts, ghostVars>>

(* Mutant: only the lock file is removed.                                  *)
RemoveSocketNot(d) ==
    /\ pc[d] = "removesock"
    /\ To(d, "unlock")
    /\ UNCHANGED <<pathVars, lockVars, starts, ghostVars>>

(* Whatever is there by now.                                               *)
RemoveSocket(d) ==
    /\ pc[d] = "removesock"
    /\ sock' = NoFile
    /\ To(d, "unlock")
    /\ UNCHANGED <<lockFile, lockVars, starts, ghostVars>>

Released(d) == [f \in LockFiles |-> IF holder[f] = d THEN Nobody ELSE holder[f]]

(* Mutant: the lock is kept.                                               *)
UnlockNot(d) ==
    /\ pc[d] = "unlock"
    /\ To(d, "bind")
    /\ UNCHANGED <<pathVars, lockVars, starts, ghostVars>>

(* The file stays open.                                                    *)
Unlock(d) ==
    /\ pc[d] = "unlock"
    /\ holder' = Released(d)
    /\ To(d, "bind")
    /\ UNCHANGED <<pathVars, fd, starts, ghostVars>>

---------------------------------------------------------------------------
(* net.Listen: bind, which needs a free path, and listen.                  *)
Bind(d) ==
    /\ pc[d] = "bind"
    /\ IF sock = NoFile THEN sock' = d /\ To(d, "listen")
                        ELSE UNCHANGED sock /\ To(d, "refused")
    /\ UNCHANGED <<lockFile, lockVars, starts, ghostVars>>

Listen(d) ==
    /\ pc[d] = "listen"
    /\ To(d, "serving")
    /\ settled' = settled \cup (alone \cap {d})
    /\ UNCHANGED <<pathVars, lockVars, starts, alone, denied>>

Gone(d) ==
    /\ fd' = [fd EXCEPT ![d] = 0]
    /\ holder' = Released(d)
    /\ alone' = alone \ {d}
    /\ settled' = settled \ {d}

(* Closing the listener removes the path, whosever socket is there.        *)
Stop(d) ==
    /\ pc[d] = "serving"
    /\ sock' = NoFile
    /\ To(d, "off")
    /\ Gone(d)
    /\ UNCHANGED <<lockFile, starts, denied>>

Crash(d) ==
    /\ pc[d] \notin Ended
    /\ sock' = IF sock = d THEN Stale ELSE sock
    /\ To(d, "off")
    /\ Gone(d)
    /\ UNCHANGED <<lockFile, starts, denied>>

ListenStep(d) ==
    \/ Stat(d) \/ Dial(d) \/ Create(d) \/ CreateFails(d) \/ Flock(d) \/ RemoveLock(d)
    \/ RemoveSocket(d) \/ Unlock(d) \/ Bind(d) \/ Listen(d)

ListenNext == \E d \in Daemon : Start(d) \/ ListenStep(d) \/ Stop(d) \/ Crash(d)

(* A start goes on by itself; flock serves whoever waits for long enough.  *)
Spec == ListenInit /\ [][ListenNext]_listenVars
FairSpec == Spec /\ \A d \in Daemon : WF_listenVars(ListenStep(d)) /\ SF_listenVars(Flock(d))

---------------------------------------------------------------------------
Locked == {"removelock", "removesock", "unlock"}

TypeOK ==
    /\ pc \in [Daemon -> Starting \cup Ended \cup {"serving"}]
    /\ sock \in {NoFile, Stale} \cup Daemon
    /\ lockFile \in 0 .. MaxStarts
    /\ fd \in [Daemon -> 0 .. MaxStarts]
    /\ holder \in [LockFiles -> Daemon \cup {Nobody}]
    /\ \A f \in LockFiles, d \in Daemon : holder[f] = d <=> fd[d] = f /\ pc[d] \in Locked
    /\ starts \in 0 .. MaxStarts
    /\ alone \subseteq Daemon /\ settled \subseteq Daemon /\ denied \subseteq Daemon

(* A daemon that came up alone is reachable until it ends, whatever number *)
(* of others is started, stopped or crashed meanwhile (server.go:192-217). *)
SettledIsReachable == \A d \in settled : pc[d] = "serving" /\ sock = d

(* A daemon that is started alone refuses only when it may not create a    *)
(* lock file: whatever those before it left behind when they crashed at    *)
(* any step is cleaned up (server.go:199-214).                             *)
AloneComesUp == \A d \in alone : pc[d] = "refused" => d \in denied

(* Every start ends: it listens, refuses or crashes, however many wait for *)
(* the lock (server.go:204).                                               *)
StartEnds == \A d \in Daemon : pc[d] \in Starting ~> pc[d] \notin Starting

(* "Create our own lock, to avoid to delete twice" (server.go:201): no     *)
(* daemon that cleans up removes the socket of another one that has        *)
(* cleaned up, with its lock file still open, and serves by now.           *)
NeverDeletesTwice ==
    [][\A d, e \in Daemon :
          RemoveSocket(d) /\ pc[e] = "serving" /\ fd[e] # 0 => sock # e]_listenVars
=============================================================================
