--------------------------- MODULE LicensesLoader ---------------------------
(***************************************************************************)
(* LicensesLoader.ScanFolder (licenses.go): a scan reads the folder file   *)
(* by file while others edit it, keeps the licenses that are verified and  *)
(* valid, removes duplicates by "uid", and tells by the hooks what is new  *)
(* and what is gone since the scan before.                                 *)
(*                                                                         *)
(* Files are numbered in the order ReadDir lists them.  A license is a     *)
(* record of what decides about it:                                        *)
(*   jti, uid      claims, NoId and NoUid when empty                       *)
(*   iat           when it was issued                                      *)
(*   from, until   when it is valid (nbf and exp)                          *)
(*   kid           the key it names                                        *)
(*   signed        whether that key made its signature                     *)
(*   cert          whether its header has a chain to the CertPool          *)
(*   wellformed    one header, a known algorithm, claims with a subject    *)
(***************************************************************************)
EXTENDS Naturals, FiniteSets, Sequences

CONSTANTS
    NumFiles,   \* names that files in the folder may have
    License,    \* set of records as above
    NoId,
    NoUid,
    Absent,     \* no file, or one that cannot be opened or read
    KeySets,    \* sets of key IDs a JWKS may have
    NoKeys,     \* JWKS == nil
    MaxTime,    \* bound: the clock, in units of the leeway
    MaxEdits    \* bound: edits of the folder

Leeway == 1
Files == 1 .. NumFiles
Contents == License \cup {Absent}

ASSUME LoaderAssumption ==
    /\ NumFiles \in Nat /\ MaxTime \in Nat /\ MaxEdits \in Nat
    /\ Absent \notin License
    /\ \A l \in License : l.iat \in Nat

VARIABLES
    dir,        \* [Files -> Contents]
    now,        \* the clock
    edits,      \* how often the folder was edited
    pc,         \* "idle" or "scan"
    keys,       \* JWKS of the scan
    off,        \* Offline of the scan
    at,         \* expected.Time of the scan
    listing,    \* files that ReadDir listed and that are still to be read
    accepted,   \* claims so far, as a set of [file, license]
    history,    \* IDs in ActivateHistory
    result,     \* what the last scan returned
    removed,    \* IDs that OnRemove was called with in the last scan
    new,        \* IDs that OnNew was called with in the last scan
    err,        \* the last scan returned an error
    prior,      \* ghost: accepted of the last scan without an error
    touched     \* ghost: files edited since the last scan began

envVars == <<dir, now, edits>>
scanVars == <<pc, keys, off, at, listing, accepted>>
resultVars == <<history, result, removed, new, err, prior>>
vars == <<envVars, scanVars, resultVars, touched>>

(* LicenseID: the "jti" claim, or the file name without one.               *)
IdOf(e) == IF e.license.jti = NoId THEN <<"file", e.file>> ELSE <<"jti", e.license.jti>>

---------------------------------------------------------------------------
(* With a key set, its keys decide.  Without one, a loader that is offline *)
(* takes the key from a chain of certificates.                             *)
Verified(l, ks, o) ==
    IF ks # NoKeys THEN l.kid \in ks /\ l.signed
    ELSE o /\ l.cert /\ l.signed

ValidAt(l, t) == l.from <= t + Leeway /\ t <= l.until + Leeway

Acceptable(l, ks, o, t) == l.wellformed /\ Verified(l, ks, o) /\ ValidAt(l, t)

---------------------------------------------------------------------------
(* sortAndDeduplicate.  The stable sort puts newer licenses first and      *)
(* leaves those of one time in the order of their files.                   *)
Before(a, b) ==
    \/ a.license.iat > b.license.iat
    \/ a.license.iat = b.license.iat /\ a.file < b.file

(* Mutant: licenses without "uid" count as having the same one.            *)
KeptBlank(S) ==
    {e \in S : \A o \in S : Before(o, e) => o.license.uid # e.license.uid}

(* Of the licenses with one "uid" only the first is kept.                  *)
Kept(S) ==
    {e \in S : \/ e.license.uid = NoUid
               \/ \A o \in S : Before(o, e) => o.license.uid # e.license.uid}

(* Mutant: kept licenses are appended, so that the newest comes first.     *)
PlaceAppended(e, S) == Cardinality({o \in S : Before(o, e)}) + 1

(* Each kept license is put in front of those before it.                   *)
Place(e, S) == Cardinality({o \in S : Before(e, o)}) + 1

Reversed(S) == [n \in 1 .. Cardinality(S) |-> CHOOSE e \in S : Place(e, S) = n]

Deduplicated(S) == Reversed(Kept(S))

Ids(S) == {IdOf(e) : e \in S}

(* Mutant: the condition on ActivateHistory is turned round.               *)
AddedIdsKnown(S) == Ids(S) \cap history

(* The IDs left with added[id] = TRUE: of two claims with one ID the       *)
(* second finds the first in ActivateHistory and resets it.                *)
AddedIds(S) ==
    {id \in Ids(S) \ history : \E e \in S : {o \in S : IdOf(o) = id} = {e}}

---------------------------------------------------------------------------
Init ==
    /\ dir \in [Files -> Contents]
    /\ now = 0
    /\ edits = 0
    /\ pc = "idle"
    /\ keys = NoKeys
    /\ off = FALSE
    /\ at = 0
    /\ listing = {}
    /\ accepted = {}
    /\ history = {}
    /\ result = <<>>
    /\ removed = {}
    /\ new = {}
    /\ err = FALSE
    /\ prior = {}
    /\ touched = Files

(* Somebody writes, replaces or removes a file.                            *)
Edit(f) ==
    /\ edits < MaxEdits
    /\ \E c \in Contents \ {dir[f]} : dir' = [dir EXCEPT ![f] = c]
    /\ edits' = edits + 1
    /\ touched' = touched \cup {f}
    /\ UNCHANGED <<now, scanVars, resultVars>>

Tick ==
    /\ now < MaxTime
    /\ now' = now + 1
    /\ UNCHANGED <<dir, edits, scanVars, resultVars, touched>>

(* Mutant: the leeway is added to the time already.                        *)
ExpectedTimeAhead == now + Leeway

(* expected.Time of a scan.                                                *)
ExpectedTime == now

(* ScanFolder is called with the keys of the moment and lists the folder.  *)
ScanFolder ==
    /\ pc = "idle"
    /\ pc' = "scan"
    /\ keys' \in KeySets \cup {NoKeys}
    /\ off' \in BOOLEAN
    /\ at' = ExpectedTime
    /\ listing' = {f \in Files : dir[f] # Absent}
    /\ accepted' = {}
    /\ touched' = {}
    /\ UNCHANGED <<envVars, resultVars>>

(* ReadDir failed: nothing is returned and no hook is called.              *)
ScanFails ==
    /\ pc = "idle"
    /\ result' = <<>>
    /\ removed' = {}
    /\ new' = {}
    /\ err' = TRUE
    /\ UNCHANGED <<envVars, scanVars, history, prior, touched>>

(* The next file, in the order of ReadDir.                                 *)
IsNext(f) == f \in listing /\ \A g \in listing : f <= g

(* The claims of a file, as it is now.                                     *)
Found(f) ==
    IF dir[f] # Absent /\ Acceptable(dir[f], keys, off, at)
    THEN {[file |-> f, license |-> dir[f]]} ELSE {}

(* Mutant: a file that is not accepted ends the loop over the files.       *)
ReadFileBreaks(f) ==
    /\ pc = "scan"
    /\ IsNext(f)
    /\ accepted' = accepted \cup Found(f)
    /\ listing' = IF Found(f) = {} THEN {} ELSE listing \ {f}
    /\ UNCHANGED <<envVars, pc, keys, off, at, resultVars, touched>>

ReadFile(f) ==
    /\ pc = "scan"
    /\ IsNext(f)
    /\ accepted' = accepted \cup Found(f)
    /\ listing' = listing \ {f}
    /\ UNCHANGED <<envVars, pc, keys, off, at, resultVars, touched>>

Finish ==
    /\ pc = "scan"
    /\ listing = {}
    /\ result' = Deduplicated(accepted)
    /\ new' = AddedIds(accepted)
    /\ removed' = history \ Ids(accepted)
    /\ history' = Ids(accepted)
    /\ prior' = accepted
    /\ err' = FALSE
    /\ pc' = "idle"
    /\ UNCHANGED <<envVars, keys, off, at, listing, accepted, touched>>

Next ==
    \/ \E f \in Files : Edit(f) \/ ReadFile(f)
    \/ Tick
    \/ ScanFolder \/ ScanFails \/ Finish

Spec == Init /\ [][Next]_vars

---------------------------------------------------------------------------
Entry == [file : Files, license : License]

TypeOK ==
    /\ dir \in [Files -> Contents]
    /\ now \in 0 .. MaxTime /\ at \in 0 .. now
    /\ edits \in 0 .. MaxEdits
    /\ pc \in {"idle", "scan"}
    /\ keys \in {NoKeys} \cup KeySets /\ off \in BOOLEAN
    /\ listing \subseteq Files /\ accepted \subseteq Entry /\ result \in Seq(Entry)
    /\ err \in BOOLEAN
    /\ prior \subseteq Entry /\ touched \subseteq Files

Returned == pc = "idle" /\ ~err

(* Of the licenses with one "uid" exactly one is active, and none with     *)
(* that "uid" is newer; a license without is always active                 *)
(* (licenses.go:250-290, docs/kopano-licenses.md rule 2).                  *)
NewestPerUid ==
    Returned =>
        \A a \in accepted :
            LET Stands(n) == IF a.license.uid = NoUid THEN result[n] = a
                             ELSE result[n].license.uid = a.license.uid
            IN  \E n \in DOMAIN result :
                    /\ result[n].license.iat >= a.license.iat
                    /\ \A m \in DOMAIN result : Stands(m) <=> m = n

(* Older licenses come first, which decides whose subject the daemon takes *)
(* and whose product values win (server.go:456-458, handlers.go:191-330).  *)
OldestFirst ==
    Returned =>
        \A m, n \in DOMAIN result : m < n => result[m].license.iat <= result[n].license.iat

(* Whatever is done to other files while a scan reads the folder: of the   *)
(* files that nobody touched exactly the acceptable ones are accepted, so  *)
(* no license disappears for a moment (licenses.go:85-239).                *)
UntouchedAreExact ==
    Returned =>
        \A f \in Files \ touched :
            (dir[f] # Absent /\ Acceptable(dir[f], keys, off, at)) <=>
                f \in {a.file : a \in accepted}

(* The licenses that are returned for what was accepted.                   *)
Licenses(S) == {e.license : e \in Kept(S)}

(* What the hooks cannot tell apart: two files with one ID, of which the   *)
(* second resets the mark of the first; an ID whose license is another     *)
(* than in the scan before, which is known; and licenses of one "uid" and  *)
(* one time, which the order of the files decides about.                   *)
Blurred ==
    \/ \E a, b \in accepted : a # b /\ IdOf(a) = IdOf(b)
    \/ \E a \in accepted, b \in prior : IdOf(a) = IdOf(b) /\ a.license # b.license
    \/ \E a, b \in accepted : /\ a # b /\ a.license.uid = b.license.uid
                              /\ a.license.iat = b.license.iat

(* When a scan returns other licenses than the one before, a hook has said *)
(* so, since the daemon publishes nothing else; the exceptions are those   *)
(* of Blurred (licenses.go:257-308, server.go:422-461).                    *)
ChangesAreReported ==
    [][pc = "scan" /\ pc' = "idle" /\ ~Blurred /\ Licenses(accepted) # Licenses(prior) =>
          new' \cup removed' # {}]_vars
=============================================================================
